-------------------------- MODULE PipelineRunProofs -------------------------
(***************************************************************************)
(* Proofs about module PipelineRun, for every set of pipelines, calls      *)
(* between them, claims, budgets and events: the contexts of a run are a   *)
(* ledger.                                                                 *)
(***************************************************************************)
EXTENDS PipelineRun, SequenceTheorems, FiniteSetTheorems, WellFoundedInduction, TLAPS

(* A set of natural numbers has a least element.                           *)
LEMMA LeastOf ==
  ASSUME NEW T \in SUBSET Nat, T # {}
  PROVE  \E x \in T : \A y \in T : x <= y
<1>1. PICK x \in T : \A y \in T : ~(<<y, x>> \in OpToRel(<, Nat))
  BY WFMin, NatLessThanWellFounded
<1>2. \A y \in Nat : y < x => <<y, x>> \in OpToRel(<, Nat)
  BY DEF OpToRel
<1>3. ASSUME NEW y \in T PROVE x <= y
  <2>1. y \in Nat /\ x \in Nat /\ ~(y < x)
    BY <1>1, <1>2
  <2> QED
    BY <2>1
<1> QED
  BY <1>3

IsSeq(q) == \E S : q \in Seq(S)

(* What Append makes of a sequence.                                        *)
LEMMA Appending ==
  ASSUME NEW q, IsSeq(q), NEW e
  PROVE  /\ IsSeq(Append(q, e)) /\ Len(q) \in Nat /\ DOMAIN q = 1 .. Len(q)
         /\ DOMAIN Append(q, e) = 1 .. Len(q) + 1 /\ Len(Append(q, e)) = Len(q) + 1
         /\ \A i \in DOMAIN q : Append(q, e)[i] = q[i]
         /\ Append(q, e)[Len(q) + 1] = e
<1>1. PICK S : q \in Seq(S)
  BY DEF IsSeq
<1>2. q \in Seq(S \cup {e})
  BY <1>1
<1> QED
  BY <1>2, AppendProperties, LenProperties DEF IsSeq

-----------------------------------------------------------------------------
(* The dispatches of an event are finitely many, in some order.            *)

(* What a function makes of a finite set is finite.                        *)
LEMMA FiniteImage ==
  ASSUME NEW S, IsFiniteSet(S), NEW f
  PROVE  IsFiniteSet({f[x] : x \in S})
<1> DEFINE T == {f[x] : x \in S}
           g == [x \in S |-> f[x]]
<1>1. g \in Surjection(S, T)
  BY DEF Surjection
<1> HIDE DEF T, g
<1>2. IsFiniteSet(T)
  BY <1>1, FS_Surjection
<1> QED
  BY <1>2 DEF T

(* SetToSeq enumerates a finite set.                                       *)
LEMMA Enumerated ==
  ASSUME NEW S, IsFiniteSet(S)
  PROVE  /\ SetToSeq(S) \in Seq(S) /\ Len(SetToSeq(S)) \in Nat
         /\ DOMAIN SetToSeq(S) = 1 .. Len(SetToSeq(S))
         /\ \A i \in DOMAIN SetToSeq(S) : SetToSeq(S)[i] \in S
<1>1. PICK n \in Nat : ExistsBijection(1 .. n, S)
  BY FS_NatBijection
<1>2. Cardinality(S) = n
  BY <1>1, FS_CountingElements
<1>3. \E f \in [1 .. Cardinality(S) -> S] : IsInjective(f)
  BY <1>1, <1>2 DEF ExistsBijection, Bijection, Injection
<1>4. SetToSeq(S) \in [1 .. n -> S]
  BY <1>2, <1>3 DEF SetToSeq
<1> QED
  BY <1>4

(* Every step that some pipeline has a route to.                           *)
Leads(p) == UNION {r.to : r \in router[p].routes}
Steps == Names \X UNION {Leads(p) : p \in Names}

(* There are finitely many.                                                *)
LEMMA FewSteps ==
  ASSUME router \in PipelineSets
  PROVE  IsFiniteSet(Names) /\ IsFiniteSet(Steps) /\ \A p \in Names : Leads(p) \in SUBSET UNION {Leads(q) : q \in Names}
<1>1. /\ IsFiniteSet(Names)
      /\ \A p \in Names : IsFiniteSet(router[p].routes) /\ \A r \in router[p].routes : IsFiniteSet(r.to)
  BY PipelineAssumption DEF Names
<1>2. ASSUME NEW p \in Names PROVE IsFiniteSet(Leads(p))
  <2> DEFINE f == [r \in router[p].routes |-> r.to]
             T == {f[r] : r \in router[p].routes}
  <2>1. IsFiniteSet(T)
    BY <1>1, FiniteImage
  <2>2. \A t \in T : IsFiniteSet(t)
    BY <1>1
  <2>3. Leads(p) = UNION T
    BY DEF Leads
  <2> HIDE DEF T
  <2> QED
    BY <2>1, <2>2, <2>3, FS_UNION
<1>3. IsFiniteSet(UNION {Leads(p) : p \in Names})
  <2> DEFINE f == [p \in Names |-> Leads(p)]
             T == {f[p] : p \in Names}
  <2>1. IsFiniteSet(T)
    BY <1>1, FiniteImage
  <2>2. \A t \in T : IsFiniteSet(t)
    BY <1>2
  <2>3. UNION {Leads(p) : p \in Names} = UNION T
    OBVIOUS
  <2> HIDE DEF T
  <2> QED
    BY <2>1, <2>2, <2>3, FS_UNION
<1> QED
  BY <1>1, <1>3, FS_Product DEF Steps

(* An entry of a pipeline is one of them, also behind calls.               *)
LEMMA EntryIsStep ==
  ASSUME NEW p
  PROVE  EntrySteps(p) \in SUBSET Steps
<1>1. ASSUME NEW t \in EntrySteps(p) PROVE t \in Steps
  <2>1. PICK q \in Expanded(p) : t \in {<<q, s>> : s \in {x \in Entries(q) : Node(q, x).kind # "call"}}
    BY DEF EntrySteps
  <2>2. PICK s \in Entries(q) : t = <<q, s>>
    BY <2>1
  <2>3. q \in Names
    BY DEF Expanded
  <2>4. s \in Leads(q)
    BY <2>2 DEF Entries, Leads
  <2> QED
    BY <2>2, <2>3, <2>4 DEF Steps
<1> QED
  BY <1>1

(* What a route leads to is one of them, a call expanded.                  *)
LEMMA ResolvedIsStep ==
  ASSUME NEW p \in Names, NEW s \in Leads(p)
  PROVE  resolve(p, s) \in SUBSET Steps
<1>1. <<p, s>> \in Steps
  BY DEF Steps
<1> QED
  BY <1>1, EntryIsStep DEF resolve

-----------------------------------------------------------------------------
(* The inductive invariant.  A context and the one it is below: what is    *)
(* inherited stays, and a hop from a step is within the budget.            *)
Below(c, p) ==
    /\ \A x \in DOMAIN p.bag : x \in DOMAIN c.bag /\ c.bag[x] = p.bag[x]
    /\ c.inst = p.inst /\ c.depth > p.depth
    /\ p.max # 0 => c.max = p.max
    /\ (p.step # <<>> /\ c.max # 0) => c.depth <= c.max
CtxOK(cs, i) ==
    /\ cs[i].pipeline \in Names /\ cs[i].depth \in Nat /\ cs[i].max \in Nat
    /\ cs[i].parent \in 0 .. i - 1
    /\ cs[i].parent # 0 => Below(cs[i], cs[cs[i].parent])
CtxsOK(cs) == IsSeq(cs) /\ \A i \in DOMAIN cs : CtxOK(cs, i)

(* An instance carries the job whose event began it, 0 for a request.      *)
Begun(cs, O) == \A i \in DOMAIN cs : cs[i].inst[1][1] \in O

(* Rows have their context among the first n.                              *)
JobOK(job, n) == {"ctx", "status"} \in SUBSET DOMAIN job /\ job.ctx \in 0 .. n
JobsOK(js, n) == IsSeq(js) /\ \A i \in DOMAIN js : JobOK(js[i], n)

(* Only jobs that have ended have begun instances: the keys of the events  *)
(* of a job that is about to end are new.                                  *)
Ended == {0} \cup {e \in DOMAIN jobs : jobs[e].status # "queued"}

LedgerInv ==
    /\ router \in PipelineSets /\ CtxsOK(ctxs) /\ JobsOK(jobs, Len(ctxs)) /\ Begun(ctxs, Ended)

(* A context is added at the end.                                          *)
LEMMA CtxAdded ==
  ASSUME NEW cs, CtxsOK(cs), NEW O, Begun(cs, O), NEW c, c.pipeline \in Names, c.depth \in Nat, c.max \in Nat,
         c.parent \in 0 .. Len(cs), c.parent # 0 => Below(c, cs[c.parent]), c.inst[1][1] \in O
  PROVE  /\ CtxsOK(Append(cs, c)) /\ Begun(Append(cs, c), O)
         /\ Len(cs) \in Nat /\ DOMAIN cs = 1 .. Len(cs) /\ DOMAIN Append(cs, c) = 1 .. Len(cs) + 1
         /\ Len(Append(cs, c)) = Len(cs) + 1 /\ Append(cs, c)[Len(cs) + 1] = c
         /\ \A i \in DOMAIN cs : Append(cs, c)[i] = cs[i]
<1> DEFINE n == Append(cs, c)
<1>1. /\ IsSeq(n) /\ Len(cs) \in Nat /\ DOMAIN cs = 1 .. Len(cs)
      /\ DOMAIN n = 1 .. Len(cs) + 1 /\ Len(n) = Len(cs) + 1
      /\ \A i \in DOMAIN cs : n[i] = cs[i]
      /\ n[Len(cs) + 1] = c
  BY Appending DEF CtxsOK
<1> HIDE DEF n
<1>2. ASSUME NEW i \in DOMAIN n PROVE CtxOK(n, i) /\ n[i].inst[1][1] \in O
  <2>1. CASE i = Len(cs) + 1
    <3>1. c.parent # 0 => n[c.parent] = cs[c.parent]
      BY <1>1
    <3> QED
      BY <1>1, <2>1, <3>1 DEF CtxOK
  <2>2. CASE i # Len(cs) + 1
    <3>1. i \in DOMAIN cs /\ n[i] = cs[i] /\ CtxOK(cs, i)
      BY <1>1, <2>2 DEF CtxsOK
    <3>2. cs[i].parent # 0 => cs[i].parent \in DOMAIN cs
      BY <1>1, <3>1 DEF CtxOK
    <3>3. cs[i].parent # 0 => n[cs[i].parent] = cs[cs[i].parent]
      BY <1>1, <3>2
    <3> QED
      BY <3>1, <3>3 DEF CtxOK, Begun
  <2> QED
    BY <2>1, <2>2
<1>3. CtxsOK(n) /\ Begun(n, O)
  BY <1>1, <1>2 DEF CtxsOK, Begun
<1> QED
  BY <1>1, <1>3 DEF n

(* A row is added at the end.                                              *)
LEMMA JobAdded ==
  ASSUME NEW js, NEW n \in Nat, JobsOK(js, n), NEW m \in Nat, n <= m, NEW job, JobOK(job, m)
  PROVE  /\ JobsOK(js, m) /\ JobsOK(Append(js, job), m)
         /\ Len(js) \in Nat /\ DOMAIN js = 1 .. Len(js) /\ DOMAIN Append(js, job) = 1 .. Len(js) + 1
         /\ Len(Append(js, job)) = Len(js) + 1
         /\ \A i \in DOMAIN js : Append(js, job)[i] = js[i]
<1> DEFINE q == Append(js, job)
<1>1. /\ IsSeq(q) /\ Len(js) \in Nat /\ DOMAIN js = 1 .. Len(js)
      /\ DOMAIN q = 1 .. Len(js) + 1 /\ Len(q) = Len(js) + 1
      /\ \A i \in DOMAIN js : q[i] = js[i]
      /\ q[Len(js) + 1] = job
  BY Appending DEF JobsOK
<1> HIDE DEF q
<1>2. JobsOK(js, m)
  BY DEF JobsOK, JobOK
<1>3. ASSUME NEW i \in DOMAIN q PROVE JobOK(q[i], m)
  <2>1. CASE i = Len(js) + 1
    BY <1>1, <2>1
  <2>2. CASE i # Len(js) + 1
    <3>1. i \in DOMAIN js /\ q[i] = js[i]
      BY <1>1, <2>2
    <3> QED
      BY <1>2, <3>1 DEF JobsOK
  <2> QED
    BY <2>1, <2>2
<1> QED
  BY <1>1, <1>2, <1>3 DEF JobsOK, q

(* A row is a row.                                                         *)
LEMMA JobIs ==
  ASSUME NEW plugin, NEW parent, NEW src, NEW n, NEW ctx \in 0 .. n, NEW event, NEW at
  PROVE  JobOK(Job(plugin, parent, src, ctx, event, at), n)
  BY DEF JobOK, Job

(* deepAccreteRawMap: an accepted context is below the one it inherits.    *)
LEMMA AccreteFacts ==
  ASSUME NEW p, NEW parent, NEW pipeline, NEW step, NEW inst, NEW depth, NEW max, NEW bag,
         NEW new, new = Accrete(p, Context(parent, pipeline, step, inst, depth, max, bag)), new.ok
  PROVE  /\ new.ctx.parent = parent /\ new.ctx.pipeline = pipeline /\ new.ctx.inst = inst
         /\ new.ctx.depth = depth /\ new.ctx.max = (IF max = 0 THEN p.max ELSE max)
         /\ \A x \in DOMAIN p.bag : x \in DOMAIN new.ctx.bag /\ new.ctx.bag[x] = p.bag[x]
         /\ p.inst = inst /\ (p.max # 0 => new.ctx.max = p.max)
<1>1. PICK c : c = Context(parent, pipeline, step, inst, depth, max, bag)
  OBVIOUS
<1>2. /\ c.parent = parent /\ c.pipeline = pipeline /\ c.inst = inst /\ c.depth = depth /\ c.max = max
      /\ c.bag = bag /\ DOMAIN c = {"parent", "pipeline", "step", "inst", "depth", "max", "bag"}
  BY <1>1 DEF Context
<1> DEFINE good == /\ \A x \in DOMAIN p.bag \cap DOMAIN c.bag : p.bag[x] = c.bag[x]
                   /\ (p.max # 0 /\ c.max # 0) => p.max = c.max
                   /\ p.inst = c.inst
           b == [x \in DOMAIN p.bag \cup DOMAIN c.bag |-> IF x \in DOMAIN p.bag THEN p.bag[x] ELSE c.bag[x]]
           m == IF c.max = 0 THEN p.max ELSE c.max
<1>3. PICK d : d = [c EXCEPT !.max = m, !.bag = b]
  OBVIOUS
<1>4. new = [ok |-> good, ctx |-> d]
  BY <1>1, <1>3 DEF Accrete
<1>5. \A x \in DOMAIN p.bag : x \in DOMAIN b /\ b[x] = p.bag[x]
  OBVIOUS
<1>6. good => p.inst = inst /\ (p.max # 0 /\ max # 0 => p.max = max)
  BY <1>2
<1>7. m = IF max = 0 THEN p.max ELSE max
  BY <1>2
<1> HIDE DEF good, b, m
<1>8. new.ok = good /\ new.ctx = d
  BY <1>4
<1>9. /\ d.parent = parent /\ d.pipeline = pipeline /\ d.inst = inst /\ d.depth = depth
      /\ d.max = m /\ d.bag = b
  BY <1>2, <1>3
<1>10. good
  BY <1>8
<1> QED
  BY <1>5, <1>6, <1>7, <1>8, <1>9, <1>10

-----------------------------------------------------------------------------
(* What the router gives for an event of job j.                            *)
Inherits(d) ==
    d.parentCtx # NoCtx /\ ctxs[d.parentCtx].pipeline = d.at[1] /\ ctxs[d.parentCtx].inst = d.inst
DispatchOK(d, j) ==
    /\ d.at[1] \in Names /\ d.depth \in Nat \ {0} /\ d.max \in Nat
    /\ d.inst[1][1] \in Ended \cup {j} /\ d.parentCtx \in 0 .. Len(ctxs)
    /\ d.parentCtx # NoCtx => d.depth = ctxs[d.parentCtx].depth + 1
    /\ Inherits(d) => /\ d.max = 0 => ctxs[d.parentCtx].max = 0
                      /\ d.max # 0 => d.depth <= d.max

(* The fields of a dispatch.                                               *)
LEMMA DispatchIs ==
  ASSUME NEW at, NEW inst, NEW depth, NEW max, NEW parentCtx, NEW event, NEW d,
         d = Dispatch(at, inst, depth, max, parentCtx, event)
  PROVE  /\ d.at = at /\ d.inst = inst /\ d.depth = depth /\ d.max = max
         /\ d.parentCtx = parentCtx /\ d.event = event
  BY DEF Dispatch

(* Along the routes of a pipeline: the guard of the route is the budget of *)
(* the dispatch.                                                           *)
LEMMA TransitionFacts ==
  ASSUME LedgerInv, NEW j, NEW ctxId \in 0 .. Len(ctxs), NEW event
  PROVE  /\ IsFiniteSet(Transitions(ctxId, event))
         /\ \A d \in Transitions(ctxId, event) : DispatchOK(d, j)
<1>1. CASE ctxId = NoCtx
  <2>1. Transitions(ctxId, event) = {}
    BY <1>1 DEF Transitions
  <2> QED
    BY <2>1, FS_EmptySet
<1>2. CASE ctxId # NoCtx
  <2>1. PICK c : c = ctxs[ctxId]
    OBVIOUS
  <2> DEFINE routes == {r \in router[c.pipeline].routes : matchesCompiledRouteSource(c, r, event)}
             steps == UNION {resolve(c.pipeline, s) : s \in UNION {r.to : r \in routes}}
             f == [t \in Steps |-> Dispatch(t, c.inst, c.depth + 1, Budget(c.max, router[t[1]].max), ctxId, event)]
  <2>2. Transitions(ctxId, event)
          = {Dispatch(t, c.inst, c.depth + 1, Budget(c.max, router[t[1]].max), ctxId, event) : t \in steps}
    BY <1>2, <2>1 DEF Transitions
  <2>3. /\ Len(ctxs) \in Nat /\ DOMAIN ctxs = 1 .. Len(ctxs)
    BY Appending DEF LedgerInv, CtxsOK
  <2>4. ctxId \in DOMAIN ctxs /\ CtxOK(ctxs, ctxId) /\ c.inst[1][1] \in Ended
    BY <1>2, <2>1, <2>3 DEF LedgerInv, CtxsOK, Begun, NoCtx
  <2>5. c.pipeline \in Names /\ c.depth \in Nat /\ c.max \in Nat
    BY <2>1, <2>4 DEF CtxOK
  <2>6. ASSUME NEW t \in steps
        PROVE  t \in Steps /\ \E r \in routes : TRUE
    <3>1. PICK r, s : r \in routes /\ s \in r.to /\ t \in resolve(c.pipeline, s)
      OBVIOUS
    <3>2. s \in Leads(c.pipeline)
      BY <3>1 DEF Leads
    <3> QED
      BY <2>5, <3>1, <3>2, ResolvedIsStep
  <2>7. Transitions(ctxId, event) \in SUBSET {f[t] : t \in Steps}
    BY <2>2, <2>6
  <2>8. IsFiniteSet({f[t] : t \in Steps})
    BY FewSteps, FiniteImage DEF LedgerInv
  <2>9. IsFiniteSet(Transitions(ctxId, event))
    BY <2>7, <2>8, FS_Subset
  <2>10. ASSUME NEW d \in Transitions(ctxId, event) PROVE DispatchOK(d, j)
    <3>1. PICK t \in steps : d = Dispatch(t, c.inst, c.depth + 1, Budget(c.max, router[t[1]].max), ctxId, event)
      BY <2>2
    <3>2. PICK r \in router[c.pipeline].routes : matchesCompiledRouteSource(c, r, event)
      BY <2>6
    <3>3. t[1] \in Names
      BY <2>6 DEF Steps
    <3>4. /\ router[t[1]].max \in Nat
          /\ r.lt = router[c.pipeline].max /\ router[c.pipeline].max \in Nat
      BY <2>5, <3>3, PipelineAssumption DEF LedgerInv, Names
    <3>5. PICK n : n = Budget(c.max, router[t[1]].max)
      OBVIOUS
    <3>6. n \in Nat /\ (n = 0 => c.max = 0) /\ (c.max # 0 => n = c.max) /\ (c.max = 0 => n = router[t[1]].max)
      BY <2>5, <3>4, <3>5 DEF Budget
    <3>7. Budget(c.max, r.lt) > 0 => c.depth < Budget(c.max, r.lt)
      BY <3>2 DEF matchesCompiledRouteSource
    <3>8. (t[1] = c.pipeline /\ n # 0) => c.depth + 1 <= n
      BY <2>5, <3>4, <3>6, <3>7 DEF Budget
    <3>9. /\ d.at = t /\ d.inst = c.inst /\ d.depth = c.depth + 1 /\ d.max = n
          /\ d.parentCtx = ctxId
      BY <3>1, <3>5, DispatchIs
    <3> QED
      BY <1>2, <2>1, <2>4, <2>5, <3>3, <3>6, <3>8, <3>9 DEF DispatchOK, Inherits
  <2> QED
    BY <2>9, <2>10
<1> QED
  BY <1>1, <1>2

(* Pipelines that an event starts: their instances are new, so that they   *)
(* inherit no context.                                                     *)
LEMMA TriggerFacts ==
  ASSUME LedgerInv, NEW j \in DOMAIN jobs, jobs[j].status = "queued", NEW k,
         NEW ctxId \in 0 .. Len(ctxs), NEW plugin, NEW event
  PROVE  /\ IsFiniteSet(RootTriggers(ctxId, plugin, event, <<j, k>>))
         /\ \A d \in RootTriggers(ctxId, plugin, event, <<j, k>>) : DispatchOK(d, j)
<1> DEFINE R == RootTriggers(ctxId, plugin, event, <<j, k>>)
<1>1. PICK depth, max : /\ depth = IF ctxId = NoCtx THEN 0 ELSE ctxs[ctxId].depth
                        /\ max = IF ctxId = NoCtx THEN 0 ELSE ctxs[ctxId].max
  OBVIOUS
<1> DEFINE D(p, t) == Dispatch(t, <<<<j, k>>, p>>, depth + 1, Budget(max, router[t[1]].max), ctxId, event)
           f == [x \in Names \X Steps |-> D(x[1], x[2])]
<1>2. R = UNION {{D(p, t) : t \in EntrySteps(p)} : p \in {q \in Names : Matches(q, FALSE, plugin, event)}}
  BY <1>1 DEF RootTriggers
<1>3. ASSUME NEW d \in R PROVE \E p \in Names, t \in Steps : d = D(p, t)
  <2>1. PICK p \in Names : d \in {D(p, t) : t \in EntrySteps(p)}
    BY <1>2
  <2>2. PICK t \in EntrySteps(p) : d = D(p, t)
    BY <2>1
  <2>3. t \in Steps
    BY EntryIsStep
  <2> QED
    BY <2>2, <2>3
<1>4. IsFiniteSet(R)
  <2>1. IsFiniteSet(Names \X Steps)
    BY FewSteps, FS_Product DEF LedgerInv
  <2>2. ASSUME NEW g PROVE IsFiniteSet({g[x] : x \in Names \X Steps})
    BY <2>1, FiniteImage
  <2>3. ASSUME NEW d \in R PROVE d \in {f[x] : x \in Names \X Steps}
    <3>1. PICK p \in Names, t \in Steps : d = D(p, t)
      BY <1>3
    <3>2. <<p, t>> \in Names \X Steps /\ f[<<p, t>>] = D(p, t)
      OBVIOUS
    <3> QED
      BY <3>1, <3>2
  <2> HIDE DEF f, R
  <2>4. PICK F : F = {f[x] : x \in Names \X Steps}
    OBVIOUS
  <2>5. IsFiniteSet(F) /\ R \in SUBSET F
    BY <2>2, <2>3, <2>4
  <2> QED
    BY <2>5, FS_Subset
<1>5. Len(ctxs) \in Nat /\ DOMAIN ctxs = 1 .. Len(ctxs) /\ DOMAIN jobs = 1 .. Len(jobs) /\ Len(jobs) \in Nat
  BY Appending DEF LedgerInv, CtxsOK, JobsOK
<1>6. ctxId # NoCtx => /\ ctxId \in DOMAIN ctxs /\ CtxOK(ctxs, ctxId) /\ ctxs[ctxId].inst[1][1] \in Ended
  BY <1>5 DEF LedgerInv, CtxsOK, Begun, NoCtx
<1>7. depth \in Nat /\ max \in Nat
  BY <1>1, <1>6 DEF CtxOK
<1>8. j \notin Ended
  BY <1>5 DEF Ended
<1>9. ASSUME NEW d \in R PROVE DispatchOK(d, j)
  <2>1. PICK p \in Names, t \in Steps : d = D(p, t)
    BY <1>3
  <2>2. t[1] \in Names
    BY DEF Steps
  <2>3. router[t[1]].max \in Nat
    BY <2>2, PipelineAssumption DEF LedgerInv, Names
  <2>4. PICK n : n = Budget(max, router[t[1]].max)
    OBVIOUS
  <2>5. n \in Nat
    BY <1>7, <2>3, <2>4 DEF Budget
  <2>6. PICK inst : inst = <<<<j, k>>, p>>
    OBVIOUS
  <2>7. inst[1][1] = j
    BY <2>6
  <2>8. d.at = t /\ d.inst = inst /\ d.depth = depth + 1 /\ d.max = n /\ d.parentCtx = ctxId
    BY <2>1, <2>4, <2>6, DispatchIs
  <2>9. ~Inherits(d)
    BY <1>6, <1>8, <2>7, <2>8 DEF Inherits
  <2>10. d.parentCtx # NoCtx => d.depth = ctxs[d.parentCtx].depth + 1
    BY <1>1, <2>8
  <2> QED
    BY <1>7, <2>2, <2>5, <2>7, <2>8, <2>9, <2>10 DEF DispatchOK
<1> QED
  BY <1>4, <1>9

(* Both, in order.                                                         *)
LEMMA NextFacts ==
  ASSUME LedgerInv, NEW j \in DOMAIN jobs, jobs[j].status = "queued", NEW k, NEW plugin, NEW event,
         NEW ds, ds = NextDispatches(jobs[j].ctx, plugin, event, <<j, k>>)
  PROVE  Len(ds) \in Nat /\ \A i \in 1 .. Len(ds) : DispatchOK(ds[i], j)
<1>1. jobs[j].ctx \in 0 .. Len(ctxs)
  BY DEF LedgerInv, JobsOK, JobOK
<1>2. PICK ctxId \in 0 .. Len(ctxs) : ctxId = jobs[j].ctx
  BY <1>1
<1> DEFINE S == Transitions(ctxId, event)
           R == RootTriggers(ctxId, plugin, event, <<j, k>>)
<1>3. IsFiniteSet(S) /\ IsFiniteSet(R) /\ \A d \in S \cup R : DispatchOK(d, j)
  BY TransitionFacts, TriggerFacts
<1>4. ds = SetToSeq(S) \o SetToSeq(R)
  BY <1>2 DEF NextDispatches
<1> HIDE DEF S, R
<1>5. SetToSeq(S) \in Seq(S \cup R) /\ SetToSeq(R) \in Seq(S \cup R)
  <2>1. SetToSeq(S) \in Seq(S) /\ SetToSeq(R) \in Seq(R)
    BY <1>3, Enumerated
  <2> QED
    BY <2>1
<1>6. ds \in Seq(S \cup R)
  BY <1>4, <1>5, ConcatProperties
<1> QED
  BY <1>3, <1>6

-----------------------------------------------------------------------------
(* The work in progress of routeEvents, for job j: contexts and rows are   *)
(* added to those there were, and the root contexts made are roots.        *)
Grows(q, p) == Len(p) >= Len(q) /\ \A i \in DOMAIN q : p[i] = q[i]
RootOK(cs, i) == i \in DOMAIN cs /\ cs[i].step = <<>> /\ cs[i].depth = 0
WorkOK(j, w) ==
    /\ DOMAIN w = {"jobs", "ctxs", "roots", "ok"} /\ w.ok \in BOOLEAN
    /\ CtxsOK(w.ctxs) /\ Grows(ctxs, w.ctxs) /\ Begun(w.ctxs, Ended \cup {j})
    /\ JobsOK(w.jobs, Len(w.ctxs)) /\ Grows(jobs, w.jobs)
    /\ \A key \in DOMAIN w.roots : RootOK(w.ctxs, w.roots[key])

(* How one field of it is replaced.                                        *)
LEMMA WorkExcept ==
  ASSUME NEW j, NEW w, WorkOK(j, w), NEW x
  PROVE  LET a == [w EXCEPT !.ok = FALSE]
             b == [w EXCEPT !.ctxs = x]
             c == [w EXCEPT !.jobs = x]
         IN  /\ DOMAIN a = DOMAIN w /\ DOMAIN b = DOMAIN w /\ DOMAIN c = DOMAIN w
             /\ a.jobs = w.jobs /\ a.ctxs = w.ctxs /\ a.roots = w.roots /\ a.ok = FALSE
             /\ b.jobs = w.jobs /\ b.ctxs = x /\ b.roots = w.roots /\ b.ok = w.ok
             /\ c.jobs = x /\ c.ctxs = w.ctxs /\ c.roots = w.roots /\ c.ok = w.ok
<1>1. DOMAIN w = {"jobs", "ctxs", "roots", "ok"}
  BY DEF WorkOK
<1> QED
  BY <1>1

(* An error ends it.                                                       *)
LEMMA WorkFails ==
  ASSUME NEW j, NEW w, WorkOK(j, w)
  PROVE  WorkOK(j, [w EXCEPT !.ok = FALSE])
<1>1. PICK a : a = [w EXCEPT !.ok = FALSE]
  OBVIOUS
<1>2. /\ DOMAIN a = DOMAIN w /\ a.jobs = w.jobs /\ a.ctxs = w.ctxs /\ a.roots = w.roots /\ a.ok = FALSE
  BY <1>1, WorkExcept
<1>3. WorkOK(j, a)
  BY <1>2 DEF WorkOK
<1> QED
  BY <1>1, <1>3

(* A context is added to it.                                               *)
LEMMA WorkContext ==
  ASSUME LedgerInv, NEW j, NEW w, WorkOK(j, w), NEW c,
         c.pipeline \in Names, c.depth \in Nat, c.max \in Nat, c.parent \in 0 .. Len(w.ctxs),
         c.parent # 0 => Below(c, w.ctxs[c.parent]), c.inst[1][1] \in Ended \cup {j},
         NEW v, v = [w EXCEPT !.ctxs = Append(@, c)]
  PROVE  /\ WorkOK(j, v) /\ v.ctxs = Append(w.ctxs, c) /\ v.roots = w.roots /\ v.jobs = w.jobs
         /\ Len(w.ctxs) \in Nat /\ Len(v.ctxs) = Len(w.ctxs) + 1
         /\ v.ctxs[Len(w.ctxs) + 1] = c /\ DOMAIN v.ctxs = 1 .. Len(w.ctxs) + 1
<1>1. PICK n : n = Append(w.ctxs, c)
  OBVIOUS
<1>2. v = [w EXCEPT !.ctxs = n]
  BY <1>1
<1>3. DOMAIN v = DOMAIN w /\ v.jobs = w.jobs /\ v.ctxs = n /\ v.roots = w.roots /\ v.ok = w.ok
  <2>1. DOMAIN w = {"jobs", "ctxs", "roots", "ok"}
    BY DEF WorkOK
  <2> QED
    BY <1>2, <2>1
<1>4. PICK cs : cs = w.ctxs
  OBVIOUS
<1>5. CtxsOK(cs) /\ Begun(cs, Ended \cup {j}) /\ Grows(ctxs, cs) /\ JobsOK(w.jobs, Len(cs))
  BY <1>4 DEF WorkOK
<1>6. PICK O : O = Ended \cup {j}
  OBVIOUS
<1>7. /\ CtxsOK(n) /\ Begun(n, O)
      /\ Len(cs) \in Nat /\ DOMAIN cs = 1 .. Len(cs) /\ DOMAIN n = 1 .. Len(cs) + 1
      /\ Len(n) = Len(cs) + 1 /\ n[Len(cs) + 1] = c
      /\ \A i \in DOMAIN cs : n[i] = cs[i]
  BY <1>1, <1>4, <1>5, <1>6, CtxAdded
<1>8. Len(ctxs) \in Nat /\ DOMAIN ctxs = 1 .. Len(ctxs)
  BY Appending DEF LedgerInv, CtxsOK
<1>9. Grows(ctxs, n)
  BY <1>5, <1>7, <1>8 DEF Grows
<1>10. JobsOK(w.jobs, Len(n))
  BY <1>5, <1>7 DEF JobsOK, JobOK
<1>11. ASSUME NEW key \in DOMAIN w.roots PROVE RootOK(n, w.roots[key])
  <2>1. RootOK(cs, w.roots[key])
    BY <1>4 DEF WorkOK
  <2> QED
    BY <1>7, <2>1 DEF RootOK
<1>12. WorkOK(j, v)
  BY <1>3, <1>6, <1>7, <1>9, <1>10, <1>11 DEF WorkOK
<1> QED
  BY <1>1, <1>3, <1>4, <1>7, <1>12

(* A row is added to it.                                                   *)
LEMMA WorkJob ==
  ASSUME LedgerInv, NEW j, NEW w, WorkOK(j, w), NEW job, JobOK(job, Len(w.ctxs))
  PROVE  WorkOK(j, [w EXCEPT !.jobs = Append(@, job)])
<1>1. PICK n : n = Append(w.jobs, job)
  OBVIOUS
<1>2. PICK v : v = [w EXCEPT !.jobs = n]
  OBVIOUS
<1>3. DOMAIN v = DOMAIN w /\ v.jobs = n /\ v.ctxs = w.ctxs /\ v.roots = w.roots /\ v.ok = w.ok
  BY <1>2, WorkExcept
<1>4. PICK js, m : js = w.jobs /\ m = Len(w.ctxs)
  OBVIOUS
<1>5. m \in Nat /\ JobsOK(js, m) /\ Grows(jobs, js)
  <2>1. IsSeq(w.ctxs)
    BY DEF WorkOK, CtxsOK
  <2> QED
    BY <1>4, <2>1, Appending DEF WorkOK
<1>6. /\ JobsOK(n, m) /\ Len(js) \in Nat /\ DOMAIN js = 1 .. Len(js)
      /\ Len(n) = Len(js) + 1 /\ \A i \in DOMAIN js : n[i] = js[i]
  <2>1. m <= m
    BY <1>5
  <2> QED
    BY <1>1, <1>4, <1>5, <2>1, JobAdded
<1>7. Len(jobs) \in Nat /\ DOMAIN jobs = 1 .. Len(jobs)
  BY Appending DEF LedgerInv, JobsOK
<1>8. Grows(jobs, n)
  BY <1>5, <1>6, <1>7 DEF Grows
<1>9. WorkOK(j, v)
  BY <1>3, <1>4, <1>6, <1>8 DEF WorkOK
<1>10. v = [w EXCEPT !.jobs = Append(@, job)]
  BY <1>1, <1>2
<1> QED
  BY <1>9, <1>10

-----------------------------------------------------------------------------
(* ensurePipelineInstanceRootContext: the instance has a root context.     *)
LEMMA EnsureFacts ==
  ASSUME LedgerInv, NEW j, NEW w, WorkOK(j, w), NEW d, DispatchOK(d, j), NEW v, v = EnsureRoot(w, d)
  PROVE  WorkOK(j, v) /\ <<d.at[1], d.inst>> \in DOMAIN v.roots
<1>1. PICK key : key = <<d.at[1], d.inst>>
  OBVIOUS
<1>2. CASE key \in DOMAIN w.roots
  BY <1>1, <1>2 DEF EnsureRoot
<1>3. CASE key \notin DOMAIN w.roots
  <2>1. PICK c : c = Context(NoCtx, d.at[1], <<>>, d.inst, 0, d.max, NoBag)
    OBVIOUS
  <2>2. /\ c.parent = 0 /\ c.pipeline = d.at[1] /\ c.step = <<>> /\ c.inst = d.inst
        /\ c.depth = 0 /\ c.max = d.max
    BY <2>1 DEF Context, NoCtx
  <2>3. PICK u : u = [w EXCEPT !.ctxs = Append(@, c)]
    OBVIOUS
  <2>4. PICK n : n = Len(w.ctxs) + 1
    OBVIOUS
  <2>5. /\ Len(w.ctxs) \in Nat
    BY Appending DEF WorkOK, CtxsOK
  <2>6. /\ WorkOK(j, u) /\ u.roots = w.roots
        /\ u.ctxs[n] = c /\ DOMAIN u.ctxs = 1 .. n /\ n \in Nat \ {0}
    <3>1. /\ c.pipeline \in Names /\ c.depth \in Nat /\ c.max \in Nat /\ c.parent \in 0 .. Len(w.ctxs)
          /\ (c.parent # 0 => Below(c, w.ctxs[c.parent])) /\ c.inst[1][1] \in Ended \cup {j}
      BY <2>2, <2>5 DEF DispatchOK
    <3> QED
      BY <2>3, <2>4, <2>5, <3>1, WorkContext
  <2>7. PICK r : r = [k \in DOMAIN w.roots \cup {key} |-> IF k = key THEN n ELSE w.roots[k]]
    OBVIOUS
  <2>8. v = [w EXCEPT !.ctxs = Append(@, c), !.roots = r]
    BY <1>1, <1>3, <2>1, <2>4, <2>7 DEF EnsureRoot
  <2>9. DOMAIN w = {"jobs", "ctxs", "roots", "ok"} /\ DOMAIN u = {"jobs", "ctxs", "roots", "ok"}
    BY <2>6 DEF WorkOK
  <2>10. v = [u EXCEPT !.roots = r]
    BY <2>3, <2>8, <2>9
  <2>11. DOMAIN v = DOMAIN u /\ v.jobs = u.jobs /\ v.ctxs = u.ctxs /\ v.ok = u.ok /\ v.roots = r
    BY <2>9, <2>10
  <2>12. ASSUME NEW k \in DOMAIN r PROVE RootOK(v.ctxs, r[k])
    <3>1. CASE k = key
      <4>1. r[k] = n
        BY <2>7, <3>1
      <4> QED
        BY <2>2, <2>6, <2>11, <4>1 DEF RootOK
    <3>2. CASE k # key
      <4>1. k \in DOMAIN w.roots /\ r[k] = w.roots[k]
        BY <2>7, <3>2
      <4> QED
        BY <2>6, <2>11, <4>1 DEF WorkOK
    <3> QED
      BY <3>1, <3>2
  <2>13. WorkOK(j, v)
    BY <2>6, <2>11, <2>12 DEF WorkOK
  <2> QED
    BY <1>1, <2>7, <2>11, <2>13
<1> QED
  BY <1>2, <1>3

(* The unique index only takes rows away.                                  *)
LEMMA EnqueueKeeps ==
  ASSUME LedgerInv, NEW j, NEW w, WorkOK(j, w), NEW job, JobOK(job, Len(w.ctxs))
  PROVE  WorkOK(j, Enqueue(w, job))
  BY WorkJob DEF Enqueue

(* One dispatch keeps the ledger.                                          *)
LEMMA RouteOneKeeps ==
  ASSUME LedgerInv, NEW j, NEW w, WorkOK(j, w), NEW d, DispatchOK(d, j)
  PROVE  WorkOK(j, RouteOne(j, w, d))
<1> DEFINE p == d.at[1]
           node == Node(p, d.at[2])
           claims == IF node.kind = "uses" THEN node.claims ELSE {}
           inherits == d.parentCtx # NoCtx /\ ctxs[d.parentCtx].pipeline = p
                       /\ ctxs[d.parentCtx].inst = d.inst
           w1 == IF inherits THEN w ELSE EnsureRoot(w, d)
           parent == IF inherits THEN d.parentCtx ELSE w1.roots[<<p, d.inst>>]
           bag == Claims(claims, d.event.val)
           new == Accrete(w1.ctxs[parent], Context(parent, p, d.at[2], d.inst, d.depth, d.max, bag))
           w2 == [w1 EXCEPT !.ctxs = Append(@, new.ctx)]
           job == Job(NodePlugin(p, d.at[2]), j, d.event.id, Len(w2.ctxs), d.event, d.at)
           fails == [w EXCEPT !.ok = FALSE]
           refused == [w1 EXCEPT !.ok = FALSE]
           added == Enqueue(w2, job)
<1>1. p = d.at[1]
  OBVIOUS
<1>2. inherits <=> Inherits(d)
  BY DEF Inherits
<1>3. w1 = IF Inherits(d) THEN w ELSE EnsureRoot(w, d)
  BY <1>2
<1>4. parent = IF Inherits(d) THEN d.parentCtx ELSE w1.roots[<<p, d.inst>>]
  BY <1>2
<1>5. RouteOne(j, w, d) = CASE ~w.ok -> w
                            [] w.ok /\ claims # {} /\ d.event.val = 0 -> fails
                            [] OTHER -> IF ~new.ok THEN refused ELSE added
  BY DEF RouteOne
<1>6. new = Accrete(w1.ctxs[parent], Context(parent, p, d.at[2], d.inst, d.depth, d.max, bag))
  OBVIOUS
<1>7. w2 = [w1 EXCEPT !.ctxs = Append(@, new.ctx)]
  OBVIOUS
<1>8. job = Job(NodePlugin(p, d.at[2]), j, d.event.id, Len(w2.ctxs), d.event, d.at)
  OBVIOUS
<1>9. fails = [w EXCEPT !.ok = FALSE] /\ refused = [w1 EXCEPT !.ok = FALSE] /\ added = Enqueue(w2, job)
  OBVIOUS
<1> HIDE DEF p, claims, inherits, w1, parent, bag, new, w2, job, fails, refused, added
<1>10. \/ RouteOne(j, w, d) = w
       \/ RouteOne(j, w, d) = fails
       \/ ~new.ok /\ RouteOne(j, w, d) = refused
       \/ new.ok /\ RouteOne(j, w, d) = added
  BY <1>5
<1>11. WorkOK(j, w1)
  BY <1>3, EnsureFacts
<1>12. PICK q : q = w1.ctxs[parent]
  OBVIOUS
<1>13. Len(ctxs) \in Nat /\ DOMAIN ctxs = 1 .. Len(ctxs) /\ Len(w1.ctxs) \in Nat /\ DOMAIN w1.ctxs = 1 .. Len(w1.ctxs)
  BY <1>11, Appending DEF LedgerInv, WorkOK, CtxsOK
<1>14. /\ parent \in 1 .. Len(w1.ctxs) /\ q.depth < d.depth
       /\ q.step # <<>> => /\ d.max = 0 => q.max = 0
                           /\ d.max # 0 => d.depth <= d.max
  <2>1. CASE Inherits(d)
    <3>1. d.parentCtx \in DOMAIN ctxs
      BY <1>13, <2>1 DEF DispatchOK, Inherits, NoCtx
    <3>2. q = ctxs[d.parentCtx] /\ parent = d.parentCtx
      BY <1>3, <1>4, <1>12, <2>1, <3>1 DEF WorkOK, Grows
    <3>3. d.depth = q.depth + 1 /\ q.depth \in Nat
      BY <2>1, <3>1, <3>2 DEF DispatchOK, Inherits, LedgerInv, CtxsOK, CtxOK
    <3>4. parent \in 1 .. Len(w1.ctxs)
      BY <1>11, <1>13, <3>1, <3>2 DEF WorkOK, Grows
    <3> QED
      BY <2>1, <3>2, <3>3, <3>4 DEF DispatchOK
  <2>2. CASE ~Inherits(d)
    <3>1. <<p, d.inst>> \in DOMAIN w1.roots
      BY <1>1, <1>3, <2>2, EnsureFacts
    <3>2. RootOK(w1.ctxs, parent)
      BY <1>4, <1>11, <2>2, <3>1 DEF WorkOK
    <3> QED
      BY <1>12, <1>13, <3>2 DEF RootOK, DispatchOK
  <2> QED
    BY <2>1, <2>2
<1>15. ASSUME new.ok PROVE WorkOK(j, added)
  <2>2. PICK c : c = new.ctx
    OBVIOUS
  <2>3. /\ c.parent = parent /\ c.pipeline = p /\ c.inst = d.inst
        /\ c.depth = d.depth /\ c.max = (IF d.max = 0 THEN q.max ELSE d.max)
        /\ \A x \in DOMAIN q.bag : x \in DOMAIN c.bag /\ c.bag[x] = q.bag[x]
        /\ q.inst = d.inst /\ (q.max # 0 => c.max = q.max)
    <3>1. new = Accrete(q, Context(parent, p, d.at[2], d.inst, d.depth, d.max, bag))
      BY <1>6, <1>12
    <3> QED
      BY <1>15, <2>2, <3>1, AccreteFacts
  <2>4. q.max \in Nat /\ q.depth \in Nat
    BY <1>11, <1>12, <1>13, <1>14 DEF WorkOK, CtxsOK, CtxOK
  <2>5. Below(c, q)
    BY <1>14, <2>3, <2>4 DEF Below, DispatchOK
  <2>6. c.pipeline \in Names /\ c.depth \in Nat /\ c.max \in Nat /\ c.inst[1][1] \in Ended \cup {j}
    BY <1>1, <2>3, <2>4 DEF DispatchOK
  <2>7. c.parent \in 0 .. Len(w1.ctxs) /\ (c.parent # 0 => Below(c, w1.ctxs[c.parent]))
    BY <1>12, <1>13, <1>14, <2>3, <2>5
  <2>8. WorkOK(j, w2) /\ Len(w2.ctxs) = Len(w1.ctxs) + 1
    BY <1>7, <1>11, <2>2, <2>6, <2>7, WorkContext
  <2>9. PICK n : n = Len(w2.ctxs)
    OBVIOUS
  <2>10. n \in 0 .. n
    BY <1>13, <2>8, <2>9
  <2>11. JobOK(job, n)
    BY <1>8, <2>9, <2>10, JobIs
  <2> QED
    BY <1>9, <2>8, <2>9, <2>11, EnqueueKeeps
<1> QED
  BY <1>10, <1>11, <1>15, <1>9, WorkFails

-----------------------------------------------------------------------------
(* The loops of routeEvents.                                               *)

(* The work after each of the dispatches of an event.                       *)
Routing(f, j, w, ds, n) ==
    f = [i \in 0 .. n |-> IF i = 0 THEN w ELSE RouteOne(j, f[i - 1], ds[i])]

(* Such a function exists for every length.                                *)
LEMMA RoutingExists ==
  ASSUME NEW j, NEW w, NEW ds, NEW n \in Nat
  PROVE  \E f : Routing(f, j, w, ds, n)
<1> DEFINE T == {k \in Nat : ~\E f : Routing(f, j, w, ds, k)}
<1> SUFFICES ASSUME T # {} PROVE FALSE
  OBVIOUS
<1>1. PICK k \in T : \A y \in T : k <= y
  BY LeastOf
<1>2. CASE k = 0
  <2> DEFINE g == [i \in 0 .. 0 |-> w]
  <2>1. g = [i \in 0 .. 0 |-> IF i = 0 THEN w ELSE RouteOne(j, g[i - 1], ds[i])]
    OBVIOUS
  <2>2. Routing(g, j, w, ds, 0)
    BY <2>1 DEF Routing
  <2> QED
    BY <1>1, <1>2, <2>2
<1>3. CASE k # 0
  <2>1. k \in Nat /\ k - 1 \in Nat /\ k - 1 \notin T
    BY <1>1, <1>3
  <2>2. PICK f : Routing(f, j, w, ds, k - 1)
    BY <2>1
  <2> DEFINE g == [i \in 0 .. k |-> IF i = k THEN RouteOne(j, f[k - 1], ds[k]) ELSE f[i]]
             h == [i \in 0 .. k |-> IF i = 0 THEN w ELSE RouteOne(j, g[i - 1], ds[i])]
  <2>3. ASSUME NEW i \in 0 .. k PROVE g[i] = h[i]
    <3>1. CASE i = k
      <4>1. g[k - 1] = f[k - 1]
        BY <2>1
      <4> QED
        BY <1>3, <2>1, <3>1, <4>1
    <3>2. CASE i # k
      <4>1. i \in 0 .. k - 1 /\ g[i] = f[i]
        BY <2>1, <3>2
      <4>2. f[i] = IF i = 0 THEN w ELSE RouteOne(j, f[i - 1], ds[i])
        BY <2>2, <4>1 DEF Routing
      <4>3. i # 0 => g[i - 1] = f[i - 1]
        BY <2>1, <4>1
      <4> QED
        BY <4>1, <4>2, <4>3
    <3> QED
      BY <3>1, <3>2
  <2>4. g = h
    BY <2>3
  <2>5. Routing(g, j, w, ds, k)
    BY <2>4 DEF Routing
  <2> QED
    BY <1>1, <2>5
<1> QED
  BY <1>2, <1>3

(* The dispatches of one event keep the ledger.                             *)
LEMMA RouteAllKeeps ==
  ASSUME LedgerInv, NEW j, NEW w, WorkOK(j, w), NEW ds, Len(ds) \in Nat,
         \A i \in 1 .. Len(ds) : DispatchOK(ds[i], j)
  PROVE  WorkOK(j, RouteAll(j, w, ds))
<1> DEFINE n == Len(ds)
           upto == CHOOSE f : f = [i \in 0 .. Len(ds) |-> IF i = 0 THEN w ELSE RouteOne(j, f[i - 1], ds[i])]
<1>1. \E f : f = [i \in 0 .. n |-> IF i = 0 THEN w ELSE RouteOne(j, f[i - 1], ds[i])]
  <2>1. PICK f : Routing(f, j, w, ds, n)
    BY RoutingExists
  <2> QED
    BY <2>1 DEF Routing
<1>2. upto = [i \in 0 .. n |-> IF i = 0 THEN w ELSE RouteOne(j, upto[i - 1], ds[i])]
  BY <1>1
<1>3. RouteAll(j, w, ds) = upto[n]
  BY DEF RouteAll
<1> HIDE DEF upto
<1>4. upto[0] = w /\ \A i \in 1 .. n : upto[i] = RouteOne(j, upto[i - 1], ds[i])
  BY <1>2
<1> DEFINE T == {k \in 0 .. n : ~WorkOK(j, upto[k])}
<1>5. ASSUME T # {} PROVE FALSE
  <2>1. PICK k \in T : \A y \in T : k <= y
    <3>1. T \in SUBSET Nat
      OBVIOUS
    <3> HIDE DEF T
    <3> QED
      BY <1>5, <3>1, LeastOf
  <2>2. CASE k = 0
    BY <1>4, <2>1, <2>2
  <2>3. CASE k # 0
    <3>1. k \in 1 .. n /\ k - 1 \in 0 .. n /\ k - 1 \notin T
      BY <2>1, <2>3
    <3>2. PICK u : u = upto[k - 1]
      OBVIOUS
    <3>3. WorkOK(j, u)
      BY <3>1, <3>2
    <3>4. upto[k] = RouteOne(j, u, ds[k])
      BY <1>4, <3>1, <3>2
    <3> QED
      BY <2>1, <3>1, <3>3, <3>4, RouteOneKeeps
  <2> QED
    BY <2>2, <2>3
<1> QED
  BY <1>3, <1>5

(* The work after each of the events of a job.                              *)
Events(f, j, events, n) ==
    f = [i \in 0 .. n |-> IF i = 0 THEN Unrouted ELSE RouteAll(j, f[i - 1], NextDispatches(jobs[j].ctx, jobs[j].plugin, events[i], <<j, i>>))]

(* Such a function exists for every length.                                *)
LEMMA EventsExist ==
  ASSUME NEW j, NEW events, NEW n \in Nat
  PROVE  \E f : Events(f, j, events, n)
<1> DEFINE T == {k \in Nat : ~\E f : Events(f, j, events, k)}
<1> SUFFICES ASSUME T # {} PROVE FALSE
  OBVIOUS
<1>1. PICK k \in T : \A y \in T : k <= y
  BY LeastOf
<1>2. CASE k = 0
  <2> DEFINE g == [i \in 0 .. 0 |-> Unrouted]
  <2>1. g = [i \in 0 .. 0 |-> IF i = 0 THEN Unrouted ELSE RouteAll(j, g[i - 1], NextDispatches(jobs[j].ctx, jobs[j].plugin, events[i], <<j, i>>))]
    OBVIOUS
  <2>2. Events(g, j, events, 0)
    BY <2>1 DEF Events
  <2> QED
    BY <1>1, <1>2, <2>2
<1>3. CASE k # 0
  <2>1. k \in Nat /\ k - 1 \in Nat /\ k - 1 \notin T
    BY <1>1, <1>3
  <2>2. PICK f : Events(f, j, events, k - 1)
    BY <2>1
  <2> DEFINE g == [i \in 0 .. k |-> IF i = k THEN RouteAll(j, f[k - 1], NextDispatches(jobs[j].ctx, jobs[j].plugin, events[k], <<j, k>>)) ELSE f[i]]
             h == [i \in 0 .. k |-> IF i = 0 THEN Unrouted ELSE RouteAll(j, g[i - 1], NextDispatches(jobs[j].ctx, jobs[j].plugin, events[i], <<j, i>>))]
  <2>3. ASSUME NEW i \in 0 .. k PROVE g[i] = h[i]
    <3>1. CASE i = k
      <4>1. g[k - 1] = f[k - 1]
        BY <2>1
      <4> QED
        BY <1>3, <2>1, <3>1, <4>1
    <3>2. CASE i # k
      <4>1. i \in 0 .. k - 1 /\ g[i] = f[i]
        BY <2>1, <3>2
      <4>2. f[i] = IF i = 0 THEN Unrouted ELSE RouteAll(j, f[i - 1], NextDispatches(jobs[j].ctx, jobs[j].plugin, events[i], <<j, i>>))
        BY <2>2, <4>1 DEF Events
      <4>3. i # 0 => g[i - 1] = f[i - 1]
        BY <2>1, <4>1
      <4> QED
        BY <4>1, <4>2, <4>3
    <3> QED
      BY <3>1, <3>2
  <2>4. g = h
    BY <2>3
  <2>5. Events(g, j, events, k)
    BY <2>4 DEF Events
  <2> QED
    BY <1>1, <2>5
<1> QED
  BY <1>2, <1>3

(* Before the first event nothing has changed.                             *)
LEMMA UnroutedOK ==
  ASSUME LedgerInv, NEW j
  PROVE  WorkOK(j, Unrouted)
<1>1. PICK u : u = Unrouted
  OBVIOUS
<1>2. /\ DOMAIN u = {"jobs", "ctxs", "roots", "ok"} /\ u.ok = TRUE
      /\ u.jobs = jobs /\ u.ctxs = ctxs /\ u.roots = [k \in {} |-> 0]
  BY <1>1 DEF Unrouted
<1>3. DOMAIN u.roots = {}
  BY <1>2
<1>4. Len(ctxs) \in Nat /\ Len(jobs) \in Nat
  BY Appending DEF LedgerInv, CtxsOK, JobsOK
<1>5. Grows(ctxs, ctxs) /\ Grows(jobs, jobs)
  BY <1>4 DEF Grows
<1>6. Begun(ctxs, Ended \cup {j})
  BY DEF LedgerInv, Begun
<1>7. WorkOK(j, u)
  BY <1>2, <1>3, <1>5, <1>6 DEF WorkOK, LedgerInv
<1> QED
  BY <1>1, <1>7

(* All events of a job that has not ended keep the ledger.                  *)
LEMMA RouteEventsKeeps ==
  ASSUME LedgerInv, NEW j \in DOMAIN jobs, jobs[j].status = "queued", NEW events, Len(events) \in Nat
  PROVE  WorkOK(j, routeEvents(j, events))
<1> DEFINE n == Len(events)
           upto == CHOOSE f : f = [i \in 0 .. Len(events) |-> IF i = 0 THEN Unrouted ELSE RouteAll(j, f[i - 1], NextDispatches(jobs[j].ctx, jobs[j].plugin, events[i], <<j, i>>))]
<1>1. \E f : f = [i \in 0 .. n |-> IF i = 0 THEN Unrouted ELSE RouteAll(j, f[i - 1], NextDispatches(jobs[j].ctx, jobs[j].plugin, events[i], <<j, i>>))]
  <2>1. PICK f : Events(f, j, events, n)
    BY EventsExist
  <2> QED
    BY <2>1 DEF Events
<1>2. upto = [i \in 0 .. n |-> IF i = 0 THEN Unrouted ELSE RouteAll(j, upto[i - 1], NextDispatches(jobs[j].ctx, jobs[j].plugin, events[i], <<j, i>>))]
  BY <1>1
<1>3. routeEvents(j, events) = upto[n]
  BY DEF routeEvents
<1> HIDE DEF upto
<1>4. upto[0] = Unrouted /\ \A i \in 1 .. n : upto[i] = RouteAll(j, upto[i - 1], NextDispatches(jobs[j].ctx, jobs[j].plugin, events[i], <<j, i>>))
  BY <1>2
<1> DEFINE T == {k \in 0 .. n : ~WorkOK(j, upto[k])}
<1>5. ASSUME T # {} PROVE FALSE
  <2>1. PICK k \in T : \A y \in T : k <= y
    <3>1. T \in SUBSET Nat
      OBVIOUS
    <3> HIDE DEF T
    <3> QED
      BY <1>5, <3>1, LeastOf
  <2>2. CASE k = 0
    BY <1>4, <2>1, <2>2, UnroutedOK
  <2>3. CASE k # 0
    <3>1. k \in 1 .. n /\ k - 1 \in 0 .. n /\ k - 1 \notin T
      BY <2>1, <2>3
    <3>2. PICK u : u = upto[k - 1]
      OBVIOUS
    <3>3. WorkOK(j, u)
      BY <3>1, <3>2
    <3>4. upto[k] = RouteAll(j, u, NextDispatches(jobs[j].ctx, jobs[j].plugin, events[k], <<j, k>>))
      BY <1>4, <3>1, <3>2
    <3>5. PICK ds : ds = NextDispatches(jobs[j].ctx, jobs[j].plugin, events[k], <<j, k>>)
      OBVIOUS
    <3>6. Len(ds) \in Nat /\ \A i \in 1 .. Len(ds) : DispatchOK(ds[i], j)
      BY <3>5, NextFacts
    <3> QED
      BY <2>1, <3>1, <3>3, <3>4, <3>5, <3>6, RouteAllKeeps
  <2> QED
    BY <2>2, <2>3
<1> QED
  BY <1>3, <1>5

-----------------------------------------------------------------------------
(* The entries of a pipeline that is requested: below one root context, in *)
(* an instance of no job.                                                  *)
EntryOK(d) == d.depth = 1 /\ d.max \in Nat /\ d.inst[1][1] = 0
EnterOK(root, w) == WorkOK(0, w) /\ RootOK(w.ctxs, root)

(* One entry keeps the ledger.                                             *)
LEMMA EntryOneKeeps ==
  ASSUME LedgerInv, NEW p \in Names, NEW root, NEW w, EnterOK(root, w), NEW d, EntryOK(d)
  PROVE  EnterOK(root, EntryOne(p, root, w, d))
<1> DEFINE bag == Claims(EntryClaims(p, d), d.event.val)
           new == Accrete(w.ctxs[root], Context(root, p, d.at[2], d.inst, d.depth, d.max, bag))
           job == Job(NodePlugin(d.at[1], d.at[2]), 0, NoEvent, Len(w.ctxs) + 1, d.event, d.at)
           refused == [w EXCEPT !.ok = FALSE]
           added == [w EXCEPT !.ctxs = Append(@, new.ctx), !.jobs = Append(@, job)]
<1>1. EntryOne(p, root, w, d) = IF ~w.ok \/ ~new.ok THEN refused ELSE added
  BY DEF EntryOne
<1>2. new = Accrete(w.ctxs[root], Context(root, p, d.at[2], d.inst, d.depth, d.max, bag))
  OBVIOUS
<1>3. job = Job(NodePlugin(d.at[1], d.at[2]), 0, NoEvent, Len(w.ctxs) + 1, d.event, d.at)
  OBVIOUS
<1>4. PICK c : c = new.ctx
  OBVIOUS
<1>5. refused = [w EXCEPT !.ok = FALSE] /\ added = [w EXCEPT !.ctxs = Append(@, c), !.jobs = Append(@, job)]
  BY <1>4
<1> HIDE DEF bag, new, job, refused, added
<1>6. EntryOne(p, root, w, d) = refused \/ (new.ok /\ EntryOne(p, root, w, d) = added)
  BY <1>1
<1>7. DOMAIN w = {"jobs", "ctxs", "roots", "ok"} /\ WorkOK(0, w)
  BY DEF EnterOK, WorkOK
<1>8. EnterOK(root, refused)
  <2>1. refused.ctxs = w.ctxs
    BY <1>5, <1>7
  <2> QED
    BY <1>5, <2>1, WorkFails DEF EnterOK
<1>9. ASSUME new.ok PROVE EnterOK(root, added)
  <2>1. PICK q : q = w.ctxs[root]
    OBVIOUS
  <2>2. Len(w.ctxs) \in Nat /\ DOMAIN w.ctxs = 1 .. Len(w.ctxs)
    BY <1>7, Appending DEF WorkOK, CtxsOK
  <2>3. root \in DOMAIN w.ctxs /\ q.step = <<>> /\ q.depth = 0 /\ q.max \in Nat
    BY <1>7, <2>1 DEF EnterOK, RootOK, WorkOK, CtxsOK, CtxOK
  <2>4. /\ c.parent = root /\ c.pipeline = p /\ c.inst = d.inst
        /\ c.depth = d.depth /\ c.max = (IF d.max = 0 THEN q.max ELSE d.max)
        /\ \A x \in DOMAIN q.bag : x \in DOMAIN c.bag /\ c.bag[x] = q.bag[x]
        /\ q.inst = d.inst /\ (q.max # 0 => c.max = q.max)
    <3>1. new = Accrete(q, Context(root, p, d.at[2], d.inst, d.depth, d.max, bag))
      BY <1>2, <2>1
    <3> QED
      BY <1>4, <1>9, <3>1, AccreteFacts
  <2>5. Below(c, q)
    BY <2>3, <2>4 DEF Below, EntryOK
  <2>6. /\ c.pipeline \in Names /\ c.depth \in Nat /\ c.max \in Nat /\ c.inst[1][1] \in Ended \cup {0}
        /\ c.parent \in 0 .. Len(w.ctxs) /\ (c.parent # 0 => Below(c, w.ctxs[c.parent]))
    BY <2>1, <2>2, <2>3, <2>4, <2>5 DEF EntryOK
  <2>7. PICK v : v = [w EXCEPT !.ctxs = Append(@, c)]
    OBVIOUS
  <2>8. WorkOK(0, v) /\ v.ctxs = Append(w.ctxs, c) /\ Len(v.ctxs) = Len(w.ctxs) + 1
    BY <1>7, <2>6, <2>7, WorkContext
  <2>9. added = [v EXCEPT !.jobs = Append(@, job)]
    <3>1. DOMAIN v = {"jobs", "ctxs", "roots", "ok"}
      BY <1>7, <2>7
    <3> QED
      BY <1>5, <1>7, <2>7, <3>1
  <2>10. JobOK(job, Len(v.ctxs))
    <3>1. PICK n : n = Len(w.ctxs) + 1
      OBVIOUS
    <3>2. n \in 0 .. n
      BY <2>2, <3>1
    <3> QED
      BY <1>3, <2>8, <3>1, <3>2, JobIs
  <2>11. WorkOK(0, added)
    BY <2>8, <2>9, <2>10, WorkJob
  <2>12. added.ctxs = Append(w.ctxs, c)
    <3>1. DOMAIN v = {"jobs", "ctxs", "roots", "ok"}
      BY <1>7, <2>7
    <3> QED
      BY <2>8, <2>9, <3>1
  <2>13. /\ DOMAIN Append(w.ctxs, c) = 1 .. Len(w.ctxs) + 1
         /\ \A i \in DOMAIN w.ctxs : Append(w.ctxs, c)[i] = w.ctxs[i]
    BY <1>7, Appending DEF WorkOK, CtxsOK
  <2>14. RootOK(added.ctxs, root)
    BY <2>1, <2>2, <2>3, <2>12, <2>13 DEF RootOK
  <2> QED
    BY <2>11, <2>14 DEF EnterOK
<1> QED
  BY <1>6, <1>8, <1>9

(* The work after each of the entries.                                      *)
Entering(f, p, root, w, ds, n) ==
    f = [i \in 0 .. n |-> IF i = 0 THEN w ELSE EntryOne(p, root, f[i - 1], ds[i])]

(* Such a function exists for every length.                                *)
LEMMA EnteringExists ==
  ASSUME NEW p, NEW root, NEW w, NEW ds, NEW n \in Nat
  PROVE  \E f : Entering(f, p, root, w, ds, n)
<1> DEFINE T == {k \in Nat : ~\E f : Entering(f, p, root, w, ds, k)}
<1> SUFFICES ASSUME T # {} PROVE FALSE
  OBVIOUS
<1>1. PICK k \in T : \A y \in T : k <= y
  BY LeastOf
<1>2. CASE k = 0
  <2> DEFINE g == [i \in 0 .. 0 |-> w]
  <2>1. g = [i \in 0 .. 0 |-> IF i = 0 THEN w ELSE EntryOne(p, root, g[i - 1], ds[i])]
    OBVIOUS
  <2>2. Entering(g, p, root, w, ds, 0)
    BY <2>1 DEF Entering
  <2> QED
    BY <1>1, <1>2, <2>2
<1>3. CASE k # 0
  <2>1. k \in Nat /\ k - 1 \in Nat /\ k - 1 \notin T
    BY <1>1, <1>3
  <2>2. PICK f : Entering(f, p, root, w, ds, k - 1)
    BY <2>1
  <2> DEFINE g == [i \in 0 .. k |-> IF i = k THEN EntryOne(p, root, f[k - 1], ds[k]) ELSE f[i]]
             h == [i \in 0 .. k |-> IF i = 0 THEN w ELSE EntryOne(p, root, g[i - 1], ds[i])]
  <2>3. ASSUME NEW i \in 0 .. k PROVE g[i] = h[i]
    <3>1. CASE i = k
      <4>1. g[k - 1] = f[k - 1]
        BY <2>1
      <4> QED
        BY <1>3, <2>1, <3>1, <4>1
    <3>2. CASE i # k
      <4>1. i \in 0 .. k - 1 /\ g[i] = f[i]
        BY <2>1, <3>2
      <4>2. f[i] = IF i = 0 THEN w ELSE EntryOne(p, root, f[i - 1], ds[i])
        BY <2>2, <4>1 DEF Entering
      <4>3. i # 0 => g[i - 1] = f[i - 1]
        BY <2>1, <4>1
      <4> QED
        BY <4>1, <4>2, <4>3
    <3> QED
      BY <3>1, <3>2
  <2>4. g = h
    BY <2>3
  <2>5. Entering(g, p, root, w, ds, k)
    BY <2>4 DEF Entering
  <2> QED
    BY <1>1, <2>5
<1> QED
  BY <1>2, <1>3

(* All entries keep the ledger.                                             *)
LEMMA EnterAllKeeps ==
  ASSUME LedgerInv, NEW p \in Names, NEW root, NEW w, EnterOK(root, w), NEW ds, Len(ds) \in Nat,
         \A i \in 1 .. Len(ds) : EntryOK(ds[i])
  PROVE  EnterOK(root, EnterAll(p, root, w, ds))
<1> DEFINE n == Len(ds)
           upto == CHOOSE f : f = [i \in 0 .. Len(ds) |-> IF i = 0 THEN w ELSE EntryOne(p, root, f[i - 1], ds[i])]
<1>1. \E f : f = [i \in 0 .. n |-> IF i = 0 THEN w ELSE EntryOne(p, root, f[i - 1], ds[i])]
  <2>1. PICK f : Entering(f, p, root, w, ds, n)
    BY EnteringExists
  <2> QED
    BY <2>1 DEF Entering
<1>2. upto = [i \in 0 .. n |-> IF i = 0 THEN w ELSE EntryOne(p, root, upto[i - 1], ds[i])]
  BY <1>1
<1>3. EnterAll(p, root, w, ds) = upto[n]
  BY DEF EnterAll
<1> HIDE DEF upto
<1>4. upto[0] = w /\ \A i \in 1 .. n : upto[i] = EntryOne(p, root, upto[i - 1], ds[i])
  BY <1>2
<1> DEFINE T == {k \in 0 .. n : ~EnterOK(root, upto[k])}
<1>5. ASSUME T # {} PROVE FALSE
  <2>1. PICK k \in T : \A y \in T : k <= y
    <3>1. T \in SUBSET Nat
      OBVIOUS
    <3> HIDE DEF T
    <3> QED
      BY <1>5, <3>1, LeastOf
  <2>2. CASE k = 0
    BY <1>4, <2>1, <2>2
  <2>3. CASE k # 0
    <3>1. k \in 1 .. n /\ k - 1 \in 0 .. n /\ k - 1 \notin T
      BY <2>1, <2>3
    <3>2. PICK u : u = upto[k - 1]
      OBVIOUS
    <3>3. EnterOK(root, u)
      BY <3>1, <3>2
    <3>4. upto[k] = EntryOne(p, root, u, ds[k])
      BY <1>4, <3>1, <3>2
    <3> QED
      BY <2>1, <3>1, <3>3, <3>4, EntryOneKeeps
  <2> QED
    BY <2>2, <2>3
<1> QED
  BY <1>3, <1>5

-----------------------------------------------------------------------------
(* The actions.                                                            *)

(* What was done while job j ended, and the jobs of hooks behind it: the   *)
(* instances that j began are then of a job that has ended.                *)
LEMMA EndKeeps ==
  ASSUME LedgerInv, NEW j \in DOMAIN jobs, NEW w, WorkOK(j, w), NEW status, status # "queued", NEW events,
         NEW hooks, IsSeq(hooks), \A i \in DOMAIN hooks : JobOK(hooks[i], Len(w.ctxs)),
         End(w, j, status, events, hooks), router' = router
  PROVE  LedgerInv'
<1>1. PICK js, cs, emitted : js = w.jobs /\ cs = w.ctxs /\ emitted = {<<events[k].type, events[k].val>> : k \in DOMAIN events}
  OBVIOUS
<1>2. PICK q : q = [js EXCEPT ![j].status = status, ![j].emitted = emitted]
  OBVIOUS
<1>3. jobs' = q \o hooks /\ ctxs' = cs
  BY <1>1, <1>2 DEF End
<1>4. /\ IsSeq(js) /\ Len(js) \in Nat /\ DOMAIN js = 1 .. Len(js) /\ Len(cs) \in Nat
      /\ Len(jobs) \in Nat /\ DOMAIN jobs = 1 .. Len(jobs)
  BY <1>1, Appending DEF LedgerInv, JobsOK, WorkOK, CtxsOK
<1>5. /\ JobsOK(js, Len(cs)) /\ Len(js) >= Len(jobs) /\ \A i \in DOMAIN jobs : js[i] = jobs[i]
  BY <1>1 DEF WorkOK, Grows
<1>6. /\ DOMAIN q = DOMAIN js /\ \A i \in DOMAIN js \ {j} : q[i] = js[i]
  BY <1>2
<1>7. JobOK(q[j], Len(cs)) /\ q[j].status = status
  <2>1. j \in DOMAIN js /\ JobOK(js[j], Len(cs))
    BY <1>4, <1>5 DEF JobsOK
  <2>2. PICK r : r = [js[j] EXCEPT !.status = status]
    OBVIOUS
  <2>3. PICK s : s = [r EXCEPT !.emitted = emitted]
    OBVIOUS
  <2>4. q[j] = s
    BY <1>2, <2>1, <2>2, <2>3
  <2>5. DOMAIN s = DOMAIN js[j] /\ s.status = status /\ s.ctx = js[j].ctx
    BY <2>1, <2>2, <2>3 DEF JobOK
  <2> QED
    BY <2>1, <2>4, <2>5 DEF JobOK
<1>8. \A i \in DOMAIN q : JobOK(q[i], Len(cs))
  BY <1>5, <1>6, <1>7 DEF JobsOK
<1>9. PICK all : all = jobs'
  OBVIOUS
<1>10. /\ IsSeq(all) /\ Len(all) \in Nat /\ Len(all) >= Len(js) /\ DOMAIN all = 1 .. Len(all)
       /\ \A i \in 1 .. Len(js) : all[i] = q[i]
       /\ \A i \in DOMAIN all : i \notin 1 .. Len(js) => \E k \in DOMAIN hooks : all[i] = hooks[k]
  <2>1. PICK S, R : js \in Seq(S) /\ hooks \in Seq(R)
    BY <1>4 DEF IsSeq
  <2> DEFINE U == S \cup R \cup {q[j]}
  <2>2. q \in Seq(U) /\ Len(q) = Len(js)
    <3>1. \A i \in 1 .. Len(js) : q[i] \in U
      BY <1>4, <1>6, <2>1
    <3>2. q \in [1 .. Len(js) -> U]
      BY <1>2, <1>4, <1>6, <3>1
    <3> QED
      BY <1>4, <3>2
  <2>3. hooks \in Seq(U)
    BY <2>1
  <2> HIDE DEF U
  <2>4. /\ all \in Seq(U) /\ Len(all) = Len(js) + Len(hooks) /\ Len(hooks) \in Nat
        /\ \A i \in 1 .. Len(js) + Len(hooks) : all[i] = IF i <= Len(js) THEN q[i] ELSE hooks[i - Len(js)]
    <3>1. PICK V : V = U
      OBVIOUS
    <3>2. q \in Seq(V) /\ hooks \in Seq(V) /\ all = q \o hooks
      BY <1>3, <1>9, <2>2, <2>3, <3>1
    <3>3. /\ q \o hooks \in Seq(V) /\ Len(q \o hooks) = Len(q) + Len(hooks)
          /\ \A i \in 1 .. Len(q) + Len(hooks) : (q \o hooks)[i] = IF i <= Len(q) THEN q[i] ELSE hooks[i - Len(q)]
      BY <3>2, ConcatProperties
    <3>4. Len(hooks) \in Nat
      BY <3>2
    <3> QED
      BY <2>2, <3>1, <3>2, <3>3, <3>4
  <2>5. DOMAIN hooks = 1 .. Len(hooks) /\ DOMAIN all = 1 .. Len(all)
    BY <2>3, <2>4
  <2>6. ASSUME NEW i \in DOMAIN all, i \notin 1 .. Len(js) PROVE i - Len(js) \in DOMAIN hooks /\ all[i] = hooks[i - Len(js)]
    BY <1>4, <2>4, <2>5, <2>6
  <2> QED
    BY <1>4, <2>4, <2>5, <2>6 DEF IsSeq
<1>11. JobsOK(all, Len(cs))
  BY <1>1, <1>4, <1>6, <1>8, <1>10 DEF JobsOK
<1>12. JobsOK(jobs, Len(ctxs))'
  BY <1>3, <1>9, <1>11 DEF JobsOK, JobOK
<1>13. CtxsOK(ctxs)'
  <2>1. CtxsOK(cs) /\ Names' = Names
    BY <1>1 DEF WorkOK, Names
  <2> QED
    BY <1>3, <2>1 DEF CtxsOK, CtxOK
<1>14. ASSUME NEW e \in Ended \cup {j} PROVE e \in Ended'
  <2>1. CASE e = j
    BY <1>4, <1>5, <1>7, <1>9, <1>10, <2>1 DEF Ended
  <2>2. CASE e # j /\ e # 0
    <3>1. e \in DOMAIN jobs /\ jobs[e].status # "queued"
      BY <1>14, <2>2 DEF Ended
    <3> QED
      BY <1>4, <1>5, <1>6, <1>9, <1>10, <2>2, <3>1 DEF Ended
  <2>3. CASE e = 0
    BY <2>3 DEF Ended
  <2> QED
    BY <2>1, <2>2, <2>3
<1>15. Begun(ctxs, Ended)'
  BY <1>1, <1>3, <1>14 DEF WorkOK, Begun
<1> QED
  BY <1>12, <1>13, <1>15 DEF LedgerInv

(* The jobs of hooks have no context.                                      *)
LEMMA HooksOK ==
  ASSUME LedgerInv, NEW j, NEW signal, NEW n \in Nat
  PROVE  IsSeq(HookJobs(j, signal)) /\ \A i \in DOMAIN HookJobs(j, signal) : JobOK(HookJobs(j, signal)[i], n)
<1>1. PICK event : event = [id |-> NoEvent, type |-> signal, val |-> 0]
  OBVIOUS
<1> DEFINE E == UNION {EntrySteps(p) : p \in {q \in Names : Matches(q, TRUE, jobs[j].plugin, event)}}
           f == [t \in Steps |-> Job(NodePlugin(t[1], t[2]), 0, NoEvent, NoCtx, event, t)]
           H == {Job(NodePlugin(t[1], t[2]), 0, NoEvent, NoCtx, event, t) : t \in E}
<1>2. HookJobs(j, signal) = <<>> \/ HookJobs(j, signal) = SetToSeq(H)
  BY <1>1 DEF HookJobs
<1>3. IsFiniteSet(H)
  <2>1. E \in SUBSET Steps
    BY EntryIsStep
  <2>2. H \in SUBSET {f[t] : t \in Steps}
    BY <2>1
  <2>3. IsFiniteSet({f[t] : t \in Steps})
    BY FewSteps, FiniteImage DEF LedgerInv
  <2> QED
    BY <2>2, <2>3, FS_Subset
<1>4. \A h \in H : JobOK(h, n)
  <2> TAKE h \in H
  <2>1. PICK t \in E : h = Job(NodePlugin(t[1], t[2]), 0, NoEvent, NoCtx, event, t)
    OBVIOUS
  <2>2. PICK x, y, z : x = NodePlugin(t[1], t[2]) /\ y = NoEvent /\ z = t
    OBVIOUS
  <2>3. h = Job(x, 0, y, 0, event, z) /\ 0 \in 0 .. n
    BY <2>1, <2>2 DEF NoCtx
  <2> QED
    BY <2>3, JobIs
<1> HIDE DEF H
<1>5. SetToSeq(H) \in Seq(H) /\ \A i \in DOMAIN SetToSeq(H) : SetToSeq(H)[i] \in H
  BY <1>3, Enumerated
<1>6. PICK hooks, K : hooks = HookJobs(j, signal) /\ K = H
  OBVIOUS
<1>7. CASE HookJobs(j, signal) = <<>>
  <2>1. hooks = <<>>
    BY <1>6, <1>7
  <2>2. hooks \in Seq({}) /\ DOMAIN hooks = {}
    BY <2>1
  <2> QED
    BY <1>6, <2>2 DEF IsSeq
<1>8. CASE HookJobs(j, signal) = SetToSeq(H)
  <2>1. hooks \in Seq(K) /\ \A i \in DOMAIN hooks : JobOK(hooks[i], n)
    BY <1>4, <1>5, <1>6, <1>8
  <2> QED
    BY <1>6, <2>1 DEF IsSeq
<1> QED
  BY <1>2, <1>7, <1>8

(* A job that does not route anything.                                     *)
LEMMA UnroutedKeeps ==
  ASSUME LedgerInv, NEW j \in DOMAIN jobs, NEW status, status # "queued", NEW hooks, IsSeq(hooks),
         \A i \in DOMAIN hooks : JobOK(hooks[i], Len(ctxs)),
         End(Unrouted, j, status, <<>>, hooks), router' = router
  PROVE  LedgerInv'
<1>1. WorkOK(j, Unrouted) /\ Unrouted.ctxs = ctxs
  BY UnroutedOK DEF Unrouted
<1>2. PICK w : w = Unrouted
  OBVIOUS
<1> QED
  BY <1>1, <1>2, EndKeeps

(* A job whose events are routed, with or without an error.                *)
LEMMA RoutedKeeps ==
  ASSUME LedgerInv, NEW j \in DOMAIN jobs, jobs[j].status = "queued", NEW events, Len(events) \in Nat,
         RouteAndEnd(j, events), router' = router
  PROVE  LedgerInv'
<1>1. PICK w : w = routeEvents(j, events)
  OBVIOUS
<1>2. WorkOK(j, w)
  BY <1>1, RouteEventsKeeps
<1>3. Len(w.ctxs) \in Nat
  BY <1>2, Appending DEF WorkOK, CtxsOK
<1>4. PICK hooks : hooks = HookJobs(j, "job.completed")
  OBVIOUS
<1>5. \/ End(w, j, "succeeded", events, hooks)
      \/ End(w, j, "unrouted", events, <<>>)
  BY <1>1, <1>4 DEF RouteAndEnd
<1>6. IsSeq(hooks) /\ \A i \in DOMAIN hooks : JobOK(hooks[i], Len(w.ctxs))
  BY <1>3, <1>4, HooksOK
<1>7. PICK none : none = <<>>
  OBVIOUS
<1>8. IsSeq(none) /\ \A i \in DOMAIN none : JobOK(none[i], Len(w.ctxs))
  <2>1. none \in Seq({}) /\ DOMAIN none = {}
    BY <1>7
  <2> QED
    BY <2>1 DEF IsSeq
<1> QED
  BY <1>2, <1>5, <1>6, <1>7, <1>8, EndKeeps

(* Jobs that end.                                                          *)
LEMMA JobSteps ==
  ASSUME LedgerInv, NEW j \in DOMAIN jobs, router' = router,
         executeCoreSwitch(j) \/ executeCoreRelay(j) \/ ExecutePlugin(j) \/ PluginFails(j)
  PROVE  LedgerInv'
<1>1. PICK none : none = <<>>
  OBVIOUS
<1>2. IsSeq(none) /\ \A i \in DOMAIN none : JobOK(none[i], Len(ctxs))
  <2>1. none \in Seq({}) /\ DOMAIN none = {}
    BY <1>1
  <2> QED
    BY <2>1 DEF IsSeq
<1>3. ASSUME NEW status, status \in {"nonode", "failed"}, End(Unrouted, j, status, <<>>, <<>>) PROVE LedgerInv'
  BY <1>1, <1>2, <1>3, UnroutedKeeps
<1>4. ASSUME NEW id, NEW type, NEW val, jobs[j].status = "queued",
             RouteAndEnd(j, <<[id |-> id, type |-> type, val |-> val]>>)
      PROVE  LedgerInv'
  <2>1. PICK es : es = <<[id |-> id, type |-> type, val |-> val]>>
    OBVIOUS
  <2>2. Len(es) = 1
    BY <2>1
  <2> QED
    BY <1>4, <2>1, <2>2, RoutedKeeps
<1>5. CASE executeCoreSwitch(j)
  BY <1>3, <1>4, <1>5 DEF executeCoreSwitch
<1>6. CASE executeCoreRelay(j)
  BY <1>3, <1>4, <1>6 DEF executeCoreRelay, Succeeded
<1>7. CASE ExecutePlugin(j)
  <2>1. jobs[j].status = "queued" /\ jobs[j].plugin \in DOMAIN Emits
    BY <1>7 DEF ExecutePlugin
  <2>2. PICK es \in Emits[jobs[j].plugin], v \in Values :
          RouteAndEnd(j, IF es = <<>> /\ jobs[j].ctx # NoCtx THEN Succeeded(<<j, 1>>)
                         ELSE [k \in 1 .. Len(es) |-> [id |-> <<j, k>>, type |-> es[k], val |-> v]])
    BY <1>7 DEF ExecutePlugin
  <2>3. es \in Seq(STRING)
    BY <2>1, PipelineAssumption
  <2>4. PICK events : events = [k \in 1 .. Len(es) |-> [id |-> <<j, k>>, type |-> es[k], val |-> v]]
    OBVIOUS
  <2>5. Len(events) \in Nat
    <3>1. Len(es) \in Nat
      BY <2>3
    <3>2. PICK n : n = Len(es)
      OBVIOUS
    <3>3. DOMAIN events = 1 .. n /\ n \in Nat
      BY <2>4, <3>1, <3>2
    <3>4. PICK T : \A k \in 1 .. n : events[k] \in T
      <4> DEFINE R == {events[k] : k \in 1 .. n}
      <4>1. \A k \in 1 .. n : events[k] \in R
        OBVIOUS
      <4> QED
        BY <4>1
    <3>5. events \in [1 .. n -> T]
      BY <2>4, <3>2, <3>4
    <3> QED
      BY <3>3, <3>5
  <2>6. CASE es = <<>> /\ jobs[j].ctx # NoCtx
    BY <1>4, <2>1, <2>2, <2>6 DEF Succeeded
  <2>7. CASE ~(es = <<>> /\ jobs[j].ctx # NoCtx)
    <3>1. RouteAndEnd(j, events)
      BY <2>2, <2>4, <2>7
    <3> QED
      BY <2>1, <2>5, <3>1, RoutedKeeps
  <2> QED
    BY <2>6, <2>7
<1>8. CASE PluginFails(j)
  <2>1. PICK hooks : hooks = HookJobs(j, "job.failed")
    OBVIOUS
  <2>2. Len(ctxs) \in Nat
    BY Appending DEF LedgerInv, CtxsOK
  <2>3. IsSeq(hooks) /\ \A i \in DOMAIN hooks : JobOK(hooks[i], Len(ctxs))
    BY <2>1, <2>2, HooksOK
  <2> QED
    BY <1>8, <2>1, <2>3, UnroutedKeeps DEF PluginFails
<1> QED
  BY <1>5, <1>6, <1>7, <1>8

(* A pipeline that is requested.                                           *)
LEMMA TriggerKeeps ==
  ASSUME LedgerInv, NEW p \in Starts, Trigger(p), router' = router
  PROVE  LedgerInv'
<1>1. p \in Names
  BY PipelineAssumption DEF LedgerInv, Names
<1>2. PICK v \in Values \cup {0} :
        LET event == [id |-> NoEvent, type |-> router[p].trigger, val |-> v]
            ds == SetToSeq({Dispatch(t, <<NoEvent, p>>, 1, router[t[1]].max, NoCtx, event) : t \in EntrySteps(p)})
            root == Context(NoCtx, p, <<>>, <<NoEvent, p>>, 0, ds[1].max, NoBag)
            w == EnterAll(p, Len(ctxs) + 1, [Unrouted EXCEPT !.ctxs = Append(@, root)], ds)
        IN  ds # <<>> /\ jobs' = w.jobs /\ ctxs' = w.ctxs
  BY DEF Trigger
<1>3. PICK event : event = [id |-> NoEvent, type |-> router[p].trigger, val |-> v]
  OBVIOUS
<1> DEFINE D == {Dispatch(t, <<NoEvent, p>>, 1, router[t[1]].max, NoCtx, event) : t \in EntrySteps(p)}
           f == [t \in Steps |-> Dispatch(t, <<NoEvent, p>>, 1, router[t[1]].max, NoCtx, event)]
<1>4. PICK ds : ds = SetToSeq(D)
  OBVIOUS
<1>5. PICK root : root = Context(NoCtx, p, <<>>, <<NoEvent, p>>, 0, ds[1].max, NoBag)
  OBVIOUS
<1>6. PICK w0 : w0 = [Unrouted EXCEPT !.ctxs = Append(@, root)]
  OBVIOUS
<1>7. PICK w : w = EnterAll(p, Len(ctxs) + 1, w0, ds)
  OBVIOUS
<1>8. ds # <<>> /\ jobs' = w.jobs /\ ctxs' = w.ctxs
  BY <1>2, <1>3, <1>4, <1>5, <1>6, <1>7
<1>9. IsFiniteSet(D) /\ \A d \in D : EntryOK(d)
  <2>1. EntrySteps(p) \in SUBSET Steps
    BY EntryIsStep
  <2>2. D \in SUBSET {f[t] : t \in Steps}
    BY <2>1
  <2>3. IsFiniteSet({f[t] : t \in Steps})
    BY FewSteps, FiniteImage DEF LedgerInv
  <2>4. ASSUME NEW d \in D PROVE EntryOK(d)
    <3>1. PICK t \in Steps : d = Dispatch(t, <<NoEvent, p>>, 1, router[t[1]].max, NoCtx, event)
      BY <2>1
    <3>2. router[t[1]].max \in Nat
      BY PipelineAssumption DEF LedgerInv, Names, Steps
    <3>3. d.inst = <<NoEvent, p>> /\ d.depth = 1 /\ d.max = router[t[1]].max
      BY <3>1 DEF Dispatch
    <3>4. <<NoEvent, p>>[1] = NoEvent /\ NoEvent[1] = 0
      BY DEF NoEvent
    <3> QED
      BY <3>2, <3>3, <3>4 DEF EntryOK
  <2> QED
    BY <2>2, <2>3, <2>4, FS_Subset
<1> HIDE DEF D
<1>10. Len(ds) \in Nat /\ DOMAIN ds = 1 .. Len(ds) /\ \A i \in 1 .. Len(ds) : EntryOK(ds[i])
  BY <1>4, <1>9, Enumerated
<1>11. ds[1].max \in Nat
  <2>1. ds \in Seq(D)
    BY <1>4, <1>9, Enumerated
  <2>2. 1 \in 1 .. Len(ds)
    BY <1>8, <2>1
  <2> QED
    BY <1>10, <2>2 DEF EntryOK
<1>12. EnterOK(Len(ctxs) + 1, w0)
  <2>1. /\ root.parent = 0 /\ root.pipeline = p /\ root.step = <<>> /\ root.inst = <<NoEvent, p>>
        /\ root.depth = 0 /\ root.max = ds[1].max
    BY <1>5 DEF Context, NoCtx
  <2>2. root.inst[1][1] = 0
    BY <2>1 DEF NoEvent
  <2>3. PICK u : u = Unrouted
    OBVIOUS
  <2>4. WorkOK(0, u) /\ u.ctxs = ctxs
    BY <2>3, UnroutedOK DEF Unrouted
  <2>5. Len(ctxs) \in Nat
    BY Appending DEF LedgerInv, CtxsOK
  <2>6. /\ root.pipeline \in Names /\ root.depth \in Nat /\ root.max \in Nat /\ root.parent \in 0 .. Len(u.ctxs)
        /\ (root.parent # 0 => Below(root, u.ctxs[root.parent])) /\ root.inst[1][1] \in Ended \cup {0}
    BY <1>1, <1>11, <2>1, <2>2, <2>4, <2>5
  <2>7. /\ WorkOK(0, w0) /\ w0.ctxs[Len(u.ctxs) + 1] = root /\ DOMAIN w0.ctxs = 1 .. Len(u.ctxs) + 1
    BY <1>6, <2>3, <2>4, <2>6, WorkContext
  <2> QED
    BY <2>1, <2>4, <2>5, <2>7 DEF EnterOK, RootOK
<1>13. WorkOK(0, w)
  BY <1>1, <1>7, <1>10, <1>12, EnterAllKeeps DEF EnterOK
<1>14. CtxsOK(ctxs)' /\ JobsOK(jobs, Len(ctxs))'
  <2>1. CtxsOK(w.ctxs) /\ JobsOK(w.jobs, Len(w.ctxs)) /\ Names' = Names
    BY <1>13 DEF WorkOK, Names
  <2>2. PICK cs, js : cs = w.ctxs /\ js = w.jobs
    OBVIOUS
  <2> QED
    BY <1>8, <2>1, <2>2 DEF CtxsOK, CtxOK, JobsOK
<1>15. ASSUME NEW e \in Ended PROVE e \in Ended'
  <2>1. PICK js : js = w.jobs
    OBVIOUS
  <2>2. /\ Len(jobs) \in Nat /\ DOMAIN jobs = 1 .. Len(jobs) /\ Len(js) \in Nat /\ DOMAIN js = 1 .. Len(js)
    BY <1>13, <2>1, Appending DEF LedgerInv, WorkOK, JobsOK
  <2>3. Len(js) >= Len(jobs) /\ \A i \in DOMAIN jobs : js[i] = jobs[i]
    BY <1>13, <2>1 DEF WorkOK, Grows
  <2> QED
    BY <1>8, <2>1, <2>2, <2>3 DEF Ended
<1>16. Begun(ctxs, Ended)'
  <2>1. 0 \in Ended
    BY DEF Ended
  <2> QED
    BY <1>8, <1>13, <1>15, <2>1 DEF WorkOK, Begun
<1> QED
  BY <1>14, <1>16 DEF LedgerInv

(* A poll or a request for a plugin.                                       *)
LEMMA PollKeeps ==
  ASSUME LedgerInv, NEW plugin \in Roots, Poll(plugin), router' = router
  PROVE  LedgerInv'
<1>1. PICK job : job = Job(plugin, 0, NoEvent, NoCtx, [val |-> 0], <<"", <<>>>>)
  OBVIOUS
<1>2. jobs' = Append(jobs, job) /\ ctxs' = ctxs
  BY <1>1 DEF Poll
<1>3. Len(ctxs) \in Nat
  BY Appending DEF LedgerInv, CtxsOK
<1>4. JobOK(job, Len(ctxs))
  <2>1. PICK src, event, at : src = NoEvent /\ event = [val |-> 0] /\ at = <<"", <<>>>>
    OBVIOUS
  <2>2. job = Job(plugin, 0, src, 0, event, at)
    BY <1>1, <2>1, Zenon DEF NoCtx
  <2>3. 0 \in 0 .. Len(ctxs)
    BY <1>3
  <2> QED
    BY <1>3, <2>2, <2>3, JobIs
<1>5. PICK q : q = Append(jobs, job)
  OBVIOUS
<1>6. /\ JobsOK(q, Len(ctxs)) /\ Len(jobs) \in Nat /\ DOMAIN jobs = 1 .. Len(jobs)
      /\ DOMAIN q = 1 .. Len(jobs) + 1 /\ \A i \in DOMAIN jobs : q[i] = jobs[i]
  <2>1. Len(ctxs) <= Len(ctxs)
    BY <1>3
  <2> QED
    BY <1>3, <1>4, <1>5, <2>1, JobAdded DEF LedgerInv
<1>7. JobsOK(jobs, Len(ctxs))'
  BY <1>2, <1>5, <1>6 DEF JobsOK, JobOK
<1>8. CtxsOK(ctxs)'
  <2>1. Names' = Names
    BY DEF Names
  <2> QED
    BY <1>2, <2>1 DEF LedgerInv, CtxsOK, CtxOK
<1>9. \A e \in Ended : e \in Ended'
  BY <1>2, <1>5, <1>6 DEF Ended
<1> QED
  BY <1>2, <1>7, <1>8, <1>9 DEF LedgerInv, Begun

(* The inductive invariant.                                                *)
THEOREM LedgerInvariance == Spec => []LedgerInv
<1>1. Init => LedgerInv
  <2> SUFFICES ASSUME Init PROVE LedgerInv
    OBVIOUS
  <2>1. router \in PipelineSets /\ jobs = <<>> /\ ctxs = <<>>
    BY DEF Init
  <2>2. PICK none : none = <<>>
    OBVIOUS
  <2>3. none \in Seq({}) /\ DOMAIN none = {}
    BY <2>2
  <2> QED
    BY <2>1, <2>2, <2>3 DEF LedgerInv, CtxsOK, JobsOK, Begun, IsSeq
<1>2. LedgerInv /\ UNCHANGED vars => LedgerInv'
  BY DEF vars, LedgerInv, CtxsOK, CtxOK, JobsOK, JobOK, Begun, Ended, Names
<1>3. LedgerInv /\ [Next]_vars => LedgerInv'
  BY <1>2, TriggerKeeps, PollKeeps, JobSteps DEF Next
<1> QED
  BY <1>1, <1>3, PTL DEF Spec

(* LedgerSound: below a context of the same execution a baggage path keeps *)
(* its value, the instance and the budget stay, the depth grows, and from  *)
(* step to step the hops end at the budget (create and deepAccreteRawMap,  *)
(* matchesCompiledRouteSource) -- for any pipelines, with calls, hooks and *)
(* events that start others, any claims and any budgets of their authors.  *)
THEOREM LedgerIsSound == Spec => []LedgerSound
<1>1. LedgerInv => LedgerSound
  <2> SUFFICES ASSUME LedgerInv, NEW i \in DOMAIN ctxs, ctxs[i].parent # NoCtx
               PROVE  Below(ctxs[i], ctxs[ctxs[i].parent])
    BY DEF LedgerSound, LedgerAccretes, WithinBudget, Below
  <2> QED
    BY DEF LedgerInv, CtxsOK, CtxOK, NoCtx
<1> QED
  BY <1>1, LedgerInvariance, PTL
=============================================================================
