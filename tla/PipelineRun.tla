---------------------------- MODULE PipelineRun -----------------------------
(***************************************************************************)
(* Execution of compiled pipelines: jobs emit events, the router resolves   *)
(* them to dispatches, the dispatcher creates event contexts and enqueues   *)
(* successors.  The stages of a single job are module Dispatch; here a job  *)
(* is executed in one step, up to its last state.  A payload is abstracted  *)
(* to one value, 0 when the claimed field is missing.                       *)
(***************************************************************************)
EXTENDS Integers, Sequences, FiniteSets, SequencesExt

CONSTANTS PipelineSets, \* the pipelines the process may be started with: each a
                        \*  function from name to compiled pipeline
          Emits,        \* plugin -> sequences of event types it may emit
          Values,       \* payload values
          Notify,       \* plugins with notify_on_complete
          Roots,        \* plugins run by the scheduler or POST /plugin
          Starts,       \* pipelines started over the API
          Failures,     \* plugins whose command may fail
          MaxJobs       \* bound on job_queue

NoCtx == 0
NoEvent == <<0, 0>>

ASSUME PipelineAssumption ==
    /\ MaxJobs \in Nat /\ 0 \notin Values
    /\ Roots \subseteq DOMAIN Emits
    /\ \A ps \in PipelineSets :
         /\ IsFiniteSet(DOMAIN ps) /\ Starts \subseteq DOMAIN ps
         /\ \A p \in DOMAIN ps :
              /\ ps[p].max \in Nat /\ IsFiniteSet(ps[p].routes)
              /\ \A r \in ps[p].routes : IsFiniteSet(r.to) /\ r.lt = ps[p].max
    /\ \A plugin \in DOMAIN Emits : Emits[plugin] \subseteq Seq(STRING)

VARIABLES router,   \* the routes, loaded at startup
          jobs,     \* job_queue
          ctxs,     \* event_context
          begun     \* pipelines and root plugins started so far
vars == <<router, jobs, ctxs, begun>>

Names == DOMAIN router

Init == router \in PipelineSets /\ jobs = <<>> /\ ctxs = <<>> /\ begun = {}

-----------------------------------------------------------------------------
(* The router.                                                              *)

Node(p, s) == router[p].nodes[s]
HasNode(p, s) == p \in Names /\ s \in DOMAIN router[p].nodes
NodePlugin(p, s) ==
    CASE Node(p, s).kind = "switch" -> "core.switch"
      [] Node(p, s).kind = "relay" -> "core.relay"
      [] OTHER -> Node(p, s).target

\* Entry dispatches of a pipeline; a call is expanded to what it calls, which
\* may begin with a call again.
Entries(p) == UNION {r.to : r \in {x \in router[p].routes : x.from = <<>>}}
Calls(p) == {Node(p, s).target : s \in {x \in Entries(p) : Node(p, x).kind = "call"}}
Expanded(p) == {q \in Names : \A C \in SUBSET Names :
                  (p \in C /\ \A x \in C : Calls(x) \cap Names \subseteq C) => q \in C}
EntrySteps(p) ==
    UNION {{<<q, s>> : s \in {x \in Entries(q) : Node(q, x).kind # "call"}} : q \in Expanded(p)}
resolve(p, s) == IF Node(p, s).kind = "call" THEN EntrySteps(Node(p, s).target) ELSE {<<p, s>>}

\* The budget travels with the execution; without one the route's own counts.
Budget(max, lt) == IF max # 0 THEN max ELSE lt

Dispatch(at, inst, depth, max, parentCtx, event) ==
    [at |-> at, inst |-> inst, depth |-> depth, max |-> max, parentCtx |-> parentCtx,
     event |-> event]

matchesCompiledRouteSource(c, r, event) ==
    LET max == Budget(c.max, r.lt)
    IN r.from = c.step /\ r.event \in {"", event.type} /\ (max > 0 => c.depth < max)

\* Within the pipeline, in the instance of the context.
Transitions(ctxId, event) ==
    LET c == ctxs[ctxId]
        routes == {r \in router[c.pipeline].routes : matchesCompiledRouteSource(c, r, event)}
        steps == UNION {resolve(c.pipeline, s) : s \in UNION {r.to : r \in routes}}
    IN IF ctxId = NoCtx THEN {}
       ELSE {Dispatch(t, c.inst, c.depth + 1, Budget(c.max, router[t[1]].max), ctxId, event) : t \in steps}

Matches(p, hook, plugin, event) ==
    /\ router[p].hook = hook /\ router[p].trigger = event.type
    /\ router[p].from \in {"", plugin}
    /\ event.val \in router[p].when

\* Pipelines the event starts, each in an instance of its own; depth and
\* budget of the emitting job go on.
RootTriggers(ctxId, plugin, event, key) ==
    LET depth == IF ctxId = NoCtx THEN 0 ELSE ctxs[ctxId].depth
        max == IF ctxId = NoCtx THEN 0 ELSE ctxs[ctxId].max
    IN UNION {{Dispatch(t, <<key, p>>, depth + 1, Budget(max, router[t[1]].max), ctxId, event)
               : t \in EntrySteps(p)} : p \in {q \in Names : Matches(q, FALSE, plugin, event)}}

NextDispatches(ctxId, plugin, event, key) ==
    SetToSeq(Transitions(ctxId, event)) \o SetToSeq(RootTriggers(ctxId, plugin, event, key))

-----------------------------------------------------------------------------
(* Contexts.                                                                *)

Context(parent, pipeline, step, inst, depth, max, bag) ==
    [parent |-> parent, pipeline |-> pipeline, step |-> step, inst |-> inst,
     depth |-> depth, max |-> max, bag |-> bag]
NoBag == [path \in {} |-> 0]
Claims(claims, val) == [path \in claims |-> val]

\* mutant: a later value replaces an inherited one
AccreteAny(parent, c) ==
    [ok |-> TRUE,
     ctx |-> [c EXCEPT !.max = IF @ = 0 THEN parent.max ELSE @,
                       !.bag = [x \in DOMAIN parent.bag \cup DOMAIN @ |->
                                  IF x \in DOMAIN @ THEN @[x] ELSE parent.bag[x]]]]

\* deepAccreteRawMap: new paths are added, inherited ones may be repeated but
\* not revised; only the route depth moves.
Accrete(parent, c) ==
    [ok |-> /\ \A x \in DOMAIN parent.bag \cap DOMAIN c.bag : parent.bag[x] = c.bag[x]
            /\ (parent.max # 0 /\ c.max # 0) => parent.max = c.max
            /\ parent.inst = c.inst,
     ctx |-> [c EXCEPT !.max = IF @ = 0 THEN parent.max ELSE @,
                       !.bag = [x \in DOMAIN parent.bag \cup DOMAIN @ |->
                                  IF x \in DOMAIN parent.bag THEN parent.bag[x] ELSE @[x]]]]

-----------------------------------------------------------------------------
(* routeEvents.  The work in progress: jobs, contexts, root contexts made   *)
(* for this call, and whether an error ended it.                            *)

Job(plugin, parent, src, ctx, event, at) ==
    [plugin |-> plugin, parent |-> parent, src |-> src, ctx |-> ctx, val |-> event.val,
     status |-> "queued", emitted |-> {}, at |-> at]

\* The unique index over parent, source event, plugin and command (always
\* "handle") takes a second row for a delivery that was already made.  NULLs
\* are distinct, so it needs a parent and a source event.
Enqueue(w, job) ==
    IF job.parent # 0 /\ \E i \in DOMAIN w.jobs :
         w.jobs[i].parent = job.parent /\ w.jobs[i].src = job.src /\ w.jobs[i].plugin = job.plugin
    THEN w ELSE [w EXCEPT !.jobs = Append(@, job)]

\* ensurePipelineInstanceRootContext
EnsureRoot(w, d) ==
    LET key == <<d.at[1], d.inst>>
    IN IF key \in DOMAIN w.roots THEN w
       ELSE [w EXCEPT !.ctxs = Append(@, Context(NoCtx, d.at[1], <<>>, d.inst, 0, d.max, NoBag)),
                      !.roots = [k \in DOMAIN @ \cup {key} |->
                                   IF k = key THEN Len(w.ctxs) + 1 ELSE @[k]]]

\* One dispatch: claims, parent context, context, job.
RouteOne(j, w, d) ==
    LET p == d.at[1]
        node == Node(p, d.at[2])
        claims == IF node.kind = "uses" THEN node.claims ELSE {}
        inherits == d.parentCtx # NoCtx /\ ctxs[d.parentCtx].pipeline = p
                    /\ ctxs[d.parentCtx].inst = d.inst
        w1 == IF inherits THEN w ELSE EnsureRoot(w, d)
        parent == IF inherits THEN d.parentCtx ELSE w1.roots[<<p, d.inst>>]
        new == Accrete(w1.ctxs[parent],
                       Context(parent, p, d.at[2], d.inst, d.depth, d.max, Claims(claims, d.event.val)))
        w2 == [w1 EXCEPT !.ctxs = Append(@, new.ctx)]
    IN CASE ~w.ok -> w
         [] w.ok /\ claims # {} /\ d.event.val = 0 -> [w EXCEPT !.ok = FALSE]
         [] OTHER -> IF ~new.ok THEN [w1 EXCEPT !.ok = FALSE]
                     ELSE Enqueue(w2, Job(NodePlugin(p, d.at[2]), j, d.event.id, Len(w2.ctxs), d.event, d.at))

\* The dispatches of one event, and all events of job j, in order.
RouteAll(j, w, ds) ==
    LET upto[i \in 0 .. Len(ds)] == IF i = 0 THEN w ELSE RouteOne(j, upto[i - 1], ds[i])
    IN upto[Len(ds)]
Unrouted == [jobs |-> jobs, ctxs |-> ctxs, roots |-> [k \in {} |-> 0], ok |-> TRUE]
routeEvents(j, events) ==
    LET upto[k \in 0 .. Len(events)] ==
          IF k = 0 THEN Unrouted
          ELSE RouteAll(j, upto[k - 1], NextDispatches(jobs[j].ctx, jobs[j].plugin, events[k], <<j, k>>))
    IN upto[Len(events)]

\* maybeFireHooks: jobs without a context only; hook jobs get none either.
HookJobs(j, signal) ==
    LET event == [id |-> NoEvent, type |-> signal, val |-> 0]
    IN IF jobs[j].ctx # NoCtx \/ jobs[j].plugin \notin Notify THEN <<>>
       ELSE SetToSeq({Job(NodePlugin(t[1], t[2]), 0, NoEvent, NoCtx, event, t) :
                        t \in UNION {EntrySteps(p) : p \in {q \in Names :
                                       Matches(q, TRUE, jobs[j].plugin, event)}}})

End(w, j, status, events, hooks) ==
    /\ Len(w.jobs) + Len(hooks) <= MaxJobs
    /\ jobs' = [w.jobs EXCEPT ![j].status = status,
                              ![j].emitted = {<<events[k].type, events[k].val>> : k \in DOMAIN events}] \o hooks
    /\ ctxs' = w.ctxs
    /\ UNCHANGED begun

RouteAndEnd(j, events) ==
    LET w == routeEvents(j, events)
    IN IF w.ok THEN End(w, j, "succeeded", events, HookJobs(j, "job.completed"))
       ELSE End(w, j, "unrouted", events, <<>>)

-----------------------------------------------------------------------------
(* Starting and executing.                                                  *)

\* POST /pipeline: the contexts carry the name of the requested pipeline, and
\* the claims are looked up under it.
EntryClaims(p, d) == IF HasNode(p, d.at[2]) THEN Node(p, d.at[2]).claims ELSE {}
EntryOne(p, root, w, d) ==
    LET new == Accrete(w.ctxs[root], Context(root, p, d.at[2], d.inst, d.depth, d.max,
                                             Claims(EntryClaims(p, d), d.event.val)))
    IN IF ~w.ok \/ ~new.ok THEN [w EXCEPT !.ok = FALSE]
       ELSE [w EXCEPT !.ctxs = Append(@, new.ctx),
                      !.jobs = Append(@, Job(NodePlugin(d.at[1], d.at[2]), 0, NoEvent,
                                             Len(w.ctxs) + 1, d.event, d.at))]
EnterAll(p, root, w, ds) ==
    LET upto[i \in 0 .. Len(ds)] == IF i = 0 THEN w ELSE EntryOne(p, root, upto[i - 1], ds[i])
    IN upto[Len(ds)]

Trigger(p) ==
    /\ p \notin begun
    /\ \E v \in Values \cup {0} :
         LET event == [id |-> NoEvent, type |-> router[p].trigger, val |-> v]
             ds == SetToSeq({Dispatch(t, <<NoEvent, p>>, 1, router[t[1]].max, NoCtx, event) : t \in EntrySteps(p)})
             root == Context(NoCtx, p, <<>>, <<NoEvent, p>>, 0, ds[1].max, NoBag)
             w == EnterAll(p, Len(ctxs) + 1, [Unrouted EXCEPT !.ctxs = Append(@, root)], ds)
         IN /\ ds # <<>>        \* a pipeline without entry points is refused
            /\ \A i \in DOMAIN ds : EntryClaims(p, ds[i]) # {} => v # 0
            /\ Len(w.jobs) <= MaxJobs
            /\ jobs' = w.jobs /\ ctxs' = w.ctxs
    /\ begun' = begun \cup {p}

\* A scheduled poll or POST /plugin: a job without a context.
Poll(plugin) ==
    /\ plugin \notin begun /\ Len(jobs) < MaxJobs
    /\ jobs' = Append(jobs, Job(plugin, 0, NoEvent, NoCtx, [val |-> 0], <<"", <<>>>>))
    /\ begun' = begun \cup {plugin}
    /\ UNCHANGED ctxs

AtNode(j, kind) ==
    /\ jobs[j].ctx # NoCtx
    /\ LET c == ctxs[jobs[j].ctx]
       IN HasNode(c.pipeline, c.step) /\ Node(c.pipeline, c.step).kind = kind

Succeeded(id) == <<[id |-> id, type |-> "step.succeeded", val |-> 0]>>

\* The event goes on under its own id, with the decision as its type.
executeCoreSwitch(j) ==
    /\ jobs[j].status = "queued" /\ jobs[j].plugin = "core.switch"
    /\ \/ /\ ~AtNode(j, "switch")
          /\ End(Unrouted, j, "nonode", <<>>, <<>>)
       \/ /\ AtNode(j, "switch")
          /\ LET c == ctxs[jobs[j].ctx]
                 type == IF jobs[j].val \in Node(c.pipeline, c.step).cond
                         THEN "switch.true" ELSE "switch.false"
                 id == IF jobs[j].src = NoEvent THEN <<j, 1>> ELSE jobs[j].src
             IN RouteAndEnd(j, <<[id |-> id, type |-> type, val |-> jobs[j].val]>>)

executeCoreRelay(j) ==
    /\ jobs[j].status = "queued" /\ jobs[j].plugin = "core.relay"
    /\ \/ /\ ~AtNode(j, "relay")
          /\ End(Unrouted, j, "nonode", <<>>, <<>>)
       \/ /\ AtNode(j, "relay")
          /\ \/ End(Unrouted, j, "failed", <<>>, <<>>)
             \/ RouteAndEnd(j, Succeeded(<<j, 1>>))

\* A plugin ends with events; none in a pipeline stands for one that says
\* that the step succeeded.
ExecutePlugin(j) ==
    /\ jobs[j].status = "queued" /\ jobs[j].plugin \in DOMAIN Emits \ {"core.switch", "core.relay"}
    /\ \E es \in Emits[jobs[j].plugin], v \in Values :
         LET events == [k \in 1 .. Len(es) |-> [id |-> <<j, k>>, type |-> es[k], val |-> v]]
         IN RouteAndEnd(j, IF es = <<>> /\ jobs[j].ctx # NoCtx THEN Succeeded(<<j, 1>>) ELSE events)

PluginFails(j) ==
    /\ jobs[j].status = "queued" /\ jobs[j].plugin \in Failures
    /\ End(Unrouted, j, "failed", <<>>, HookJobs(j, "job.failed"))

Next ==
    /\ UNCHANGED router
    /\ \/ \E p \in Starts : Trigger(p)
       \/ \E plugin \in Roots : Poll(plugin)
       \/ \E j \in DOMAIN jobs :
            executeCoreSwitch(j) \/ executeCoreRelay(j) \/ ExecutePlugin(j) \/ PluginFails(j)
Spec == Init /\ [][Next]_vars

-----------------------------------------------------------------------------

\* Contexts are a ledger: below a context of the same execution a baggage
\* path keeps its value, whatever steps claim later, the instance and the
\* budget stay, and the depth grows.
LedgerAccretes ==
    \A i \in DOMAIN ctxs : ctxs[i].parent # NoCtx =>
      LET p == ctxs[ctxs[i].parent]
      IN /\ \A x \in DOMAIN p.bag : x \in DOMAIN ctxs[i].bag /\ ctxs[i].bag[x] = p.bag[x]
         /\ ctxs[i].inst = p.inst /\ ctxs[i].depth > p.depth
         /\ p.max # 0 => ctxs[i].max = p.max

\* From step to step within an execution, the hops end at its budget.  (A
\* pipeline that an event starts takes the depth over, whatever it is.)
WithinBudget ==
    \A i \in DOMAIN ctxs :
      (ctxs[i].parent # NoCtx /\ ctxs[ctxs[i].parent].step # <<>> /\ ctxs[i].max # 0)
        => ctxs[i].depth <= ctxs[i].max

\* The contexts of a run are a ledger: what a step inherits stays, and its
\* hops stay within the budget.
LedgerSound == LedgerAccretes /\ WithinBudget

\* Steps an event of job j is for, as authored: what follows the step of j,
\* and the entries of the pipelines the event starts.
Successors(j, type) ==
    IF jobs[j].ctx = NoCtx THEN {}
    ELSE {<<jobs[j].at[1], e.to>> : e \in {x \in router[jobs[j].at[1]].edges :
                                           x.from = jobs[j].at[2] /\ x.event \in {"", type}}}
FirstSteps(hook, plugin, type, val) ==
    UNION {{<<p, s>> : s \in router[p].entry} : p \in {q \in Names :
             Matches(q, hook, plugin, [type |-> type, val |-> val])}}
Deliveries(j, e) == Successors(j, e[1]) \cup FirstSteps(FALSE, jobs[j].plugin, e[1], e[2])

\* The run of job j was started by an event of a step of another run, and
\* goes on with the depth and the budget of that one.
Inherited(j) ==
    jobs[j].ctx # NoCtx /\ LET key == ctxs[jobs[j].ctx].inst[1]
                           IN key # NoEvent /\ jobs[key[1]].ctx # NoCtx
\* Another step the same event is for runs the same plugin (core.switch for
\* every conditional step): the unique index takes the two for one.
Twin(j, e, t) ==
    \E u \in Deliveries(j, e) \ {t} : NodePlugin(u[1], u[2]) = NodePlugin(t[1], t[2])

\* No step is lost.  If no pipeline calls another and no author set max_depth,
\* a pipeline that is started runs its first steps, and every event of a job
\* that succeeded gets a job at every step it is for, however many hops and
\* switches lie behind it: the budget the compiler assigns is enough.  Three
\* things the program does lose are no part of it, each at its place below:
\* steps after the first of a run whose budget is inherited from another run
\* (resolveCompiledRoute), one of two steps of an event with the same plugin
\* (the unique index), and what follows the first step of a hook pipeline,
\* whose jobs have no context.
EveryStepRuns ==
    (\A p \in Names : router[p].author = {} /\ router[p].called = {}) =>
      /\ \A p \in begun \cap Names : \A s \in router[p].entry :
           \E j \in DOMAIN jobs : jobs[j].parent = 0 /\ jobs[j].at = <<p, s>>
      /\ \A j \in DOMAIN jobs : jobs[j].status = "succeeded" =>
           /\ \A e \in jobs[j].emitted : \A t \in Deliveries(j, e) :
                \/ t \in Successors(j, e[1]) /\ Inherited(j)
                \/ \E k \in DOMAIN jobs :
                     /\ jobs[k].parent = j /\ jobs[k].plugin = NodePlugin(t[1], t[2])
                     /\ jobs[k].at = t \/ Twin(j, e, t)
           /\ (jobs[j].ctx = NoCtx /\ jobs[j].plugin \in Notify) =>
                \A t \in FirstSteps(TRUE, jobs[j].plugin, "job.completed", 0) :
                  \E k \in DOMAIN jobs : jobs[k].at = t
=============================================================================
