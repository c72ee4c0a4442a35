------------------------------ MODULE Compiler ------------------------------
(***************************************************************************)
(* The pipeline compiler (internal/router/dsl): authored steps (uses, call, *)
(* relay, nested steps, split, if) become nodes, edges and exits; a         *)
(* conditional step is put behind a core.switch node.  A condition is the   *)
(* set of payload values it holds for; claims are baggage paths.            *)
(***************************************************************************)
EXTENDS Integers, Sequences, FiniteSets, SequencesExt, TLC

\* An authored step: kind, id (<<>> when left out, else a name and a number,
\* as in step_2), target (plugin, pipeline or
\* relay peer), cond ({} or {condition}), claims, sub (of steps and split).
Step(kind, id, target, cond, claims, sub) ==
    [kind |-> kind, id |-> id, target |-> target, cond |-> cond, claims |-> claims, sub |-> sub]
\* An authored pipeline; depth is {} or {max_depth}, when the trigger predicate.
PipelineSpec(name, trigger, hook, from, when, depth, steps) ==
    [name |-> name, trigger |-> trigger, hook |-> hook, from |-> from, when |-> when,
     depth |-> depth, steps |-> steps]

Leaves == {"uses", "call", "relay"}
AnyEvent == ""
SwitchTrue == "switch.true"
SwitchFalse == "switch.false"

\* Node ids: name, number, whether a switch.
Builder == [nodes |-> <<>>, edges |-> {}, called |-> {}, auto |-> 0, err |-> FALSE]

\* A generated id skips names in use; a name given twice is an error.
allocNodeID(b, preferred) ==
    IF preferred # <<>> THEN preferred \o <<FALSE>>
    ELSE LET free == {n \in b.auto + 1 .. b.auto + Cardinality(DOMAIN b.nodes) + 1 :
                        <<"step", n, FALSE>> \notin DOMAIN b.nodes}
         IN <<"step", CHOOSE n \in free : \A m \in free : n <= m, FALSE>>

Put(b, id, node) ==
    [b EXCEPT !.err = @ \/ id \in DOMAIN b.nodes, !.nodes = (id :> node) @@ @]
Edge(from, to, event) == [from |-> from, to |-> to, event |-> event]
Exit(id, event) == [id |-> id, event |-> event]
addEdges(b, exits, entry) ==
    [b EXCEPT !.edges = @ \cup {Edge(x.id, t, x.event) : x \in exits, t \in entry}]


wrapConditionalStep(b, id, cond) ==
    LET sw == <<id[1], id[2], TRUE>>
        b1 == Put(b, sw, [kind |-> "switch", target |-> "core.switch", cond |-> cond, claims |-> {}])
    IN [b |-> [b1 EXCEPT !.edges = @ \cup {Edge(sw, id, SwitchTrue)}],
        entry |-> {sw}, exits |-> {Exit(id, AnyEvent), Exit(sw, SwitchFalse)}]

compileLeaf(b, step) ==
    LET id == allocNodeID(b, step.id)
        b1 == Put([b EXCEPT !.called = IF step.kind = "call" THEN @ \cup {step.target} ELSE @,
                            !.auto = IF step.id = <<>> THEN id[2] ELSE @],
                  id, [kind |-> step.kind, target |-> step.target, cond |-> {}, claims |-> step.claims])
    IN IF step.cond = {} THEN [b |-> b1, entry |-> {id}, exits |-> {Exit(id, AnyEvent)}]
       ELSE wrapConditionalStep(b1, id, CHOOSE c \in step.cond : TRUE)

\* with and baggage belong to uses steps; the condition of a group is
\* validated and then not used.
RECURSIVE compileStep(_, _)
compileSteps(b, steps) ==
    LET Follow(r, x) ==
          [b |-> addEdges(x.b, r.exits, x.entry),
           entry |-> IF r.exits = {} THEN x.entry ELSE r.entry, exits |-> x.exits]
        Chain(r, step) == Follow(r, compileStep(r.b, step))
    IN FoldLeft(Chain, [b |-> [b EXCEPT !.err = @ \/ steps = <<>>], entry |-> {}, exits |-> {}], steps)
compileStep(b, step) ==
    LET Beside(r, x) ==
          [b |-> x.b, entry |-> r.entry \cup x.entry, exits |-> r.exits \cup x.exits]
        Branch(r, branch) == Beside(r, compileStep(r.b, branch))
        b1 == [b EXCEPT !.err = @ \/ (step.kind # "uses" /\ step.claims # {})]
    IN CASE step.kind \in Leaves -> compileLeaf(b1, step)
         [] step.kind = "steps" -> compileSteps(b1, step.sub)
         [] step.kind = "split" -> FoldLeft(Branch, [b |-> b1, entry |-> {}, exits |-> {}], step.sub)

\* validatePipelineDAG: nodes without an unvisited predecessor are visited.
RECURSIVE Visited(_, _, _)
Visited(ids, edges, seen) ==
    LET free == {n \in ids \ seen : \A e \in edges : e.to = n => e.from \in seen}
    IN IF free = {} THEN seen ELSE Visited(ids, edges, seen \cup free)
validatePipelineDAG(p) == Visited(DOMAIN p.nodes, p.edges, {}) = DOMAIN p.nodes

compilePipeline(spec) ==
    LET Pipeline(r) ==
          [name |-> spec.name, trigger |-> spec.trigger, hook |-> spec.hook, from |-> spec.from,
           when |-> spec.when, nodes |-> r.b.nodes, edges |-> r.b.edges, entry |-> r.entry,
           exits |-> r.exits, called |-> r.b.called, max |-> 0, author |-> spec.depth,
           routes |-> {}]
        Validated(r, p) ==
          [pipeline |-> p, ok |-> ~r.b.err /\ spec.trigger # "" /\ validatePipelineDAG(p)
                                  /\ \A d \in spec.depth : d >= 0]
        Of(r) == Validated(r, Pipeline(r))
    IN Of(compileSteps(Builder, spec.steps))

-----------------------------------------------------------------------------
(* Pipelines that call each other.                                          *)

\* validatePipelineCalls: a depth-first walk, white 0, grey 1, black 2.
RECURSIVE Walk(_, _, _)
Walk(called, name, w) ==
    LET Into(x, dep) == IF ~x.ok THEN x ELSE Walk(called, dep, x)
        done == FoldLeft(Into, [w EXCEPT !.colour[name] = 1], SetToSeq(called[name]))
    IN CASE w.colour[name] = 2 -> w
         [] w.colour[name] = 1 -> [w EXCEPT !.ok = FALSE]
         [] OTHER -> IF done.ok THEN [done EXCEPT !.colour[name] = 2] ELSE done

validatePipelineCalls(called) ==
    /\ UNION {called[n] : n \in DOMAIN called} \subseteq DOMAIN called
    /\ LET Into(x, n) == IF ~x.ok THEN x ELSE Walk(called, n, x)
       IN FoldLeft(Into, [ok |-> TRUE, colour |-> [n \in DOMAIN called |-> 0]],
                   SetToSeq(DOMAIN called)).ok

MaxOf(S) == IF S = {} THEN 0 ELSE CHOOSE x \in S : \A y \in S : y <= x

\* assignPipelineMaxRouteDepths: the longest path, a call as deep as what it calls.
RECURSIVE maxDepth(_, _)
nodeDepths(ps, p) ==
    LET depth[n \in DOMAIN p.nodes] ==
          (IF p.nodes[n].kind = "call" THEN maxDepth(ps, p.nodes[n].target) ELSE 1)
            + MaxOf({depth[e.to] : e \in {x \in p.edges : x.from = n}})
    IN depth
maxDepth(ps, name) == MaxOf({nodeDepths(ps, ps[name])[n] : n \in ps[name].entry} \cup {1})

\* mutant: a switch is not counted as a hop
DepthWithoutSwitches(ps, name) ==
    LET p == ps[name]
        depth[n \in DOMAIN p.nodes] ==
          (IF p.nodes[n].kind = "switch" THEN 0 ELSE 1)
            + MaxOf({depth[e.to] : e \in {x \in p.edges : x.from = n}})
    IN MaxOf({depth[n] : n \in p.entry} \cup {1})

assignMax(ps, name) == maxDepth(ps, name)

\* The routes of a pipeline: into its entries by its trigger or hook signal,
\* along its edges, and out of its exits, which lead nowhere.
BuildCompiledRoutes(p) ==
    LET Route(from, event, to) == [from |-> from, event |-> event, to |-> to, lt |-> p.max]
    IN {Route(<<>>, p.trigger, {n}) : n \in p.entry}
         \cup {Route(e.from, e.event, {e.to}) : e \in p.edges}
         \cup {Route(x.id, x.event, {}) : x \in p.exits}

\* CompileSpecs: every pipeline by name; the author's max_depth wins.
CompileSpecs(specs) ==
    LET names == {s.name : s \in specs}
        Spec(n) == CHOOSE s \in specs : s.name = n
        Capped(ps, n) == [ps[n] EXCEPT !.max = IF Spec(n).depth = {} THEN assignMax(ps, n)
                                               ELSE CHOOSE d \in Spec(n).depth : TRUE]
        Routed(p) == [p EXCEPT !.routes = BuildCompiledRoutes(p)]
        All(ps) == [n \in names |-> Routed(Capped(ps, n))]
    IN All([n \in names |-> compilePipeline(Spec(n)).pipeline])

=============================================================================
