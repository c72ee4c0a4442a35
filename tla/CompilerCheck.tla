--------------------------- MODULE CompilerCheck ----------------------------
(***************************************************************************)
(* What compilation must preserve: the paths of events through a pipeline   *)
(* as it was authored, against the paths through the compiled graph.        *)
(***************************************************************************)
EXTENDS Compiler

(* What the author wrote, as a reference: for a payload value v, the paths  *)
(* an event takes through the authored steps, [target, whether it ran].     *)

Concat(P, Q) == {p \o q : p \in P, q \in Q}
RECURSIVE AuthoredPaths(_, _)
SequencePaths(steps, v) ==
    LET Then(P, s) == Concat(P, AuthoredPaths(s, v)) IN FoldLeft(Then, {<<>>}, steps)
\* A condition on a group or a split has no effect: it is validated and then
\* dropped (compileStep returns what it encloses as it is).
AuthoredPaths(step, v) ==
    CASE step.kind \in Leaves ->
           {<<[target |-> step.target, ran |-> \A c \in step.cond : v \in c]>>}
      [] step.kind = "steps" -> SequencePaths(step.sub, v)
      [] step.kind = "split" -> UNION {AuthoredPaths(step.sub[i], v) : i \in DOMAIN step.sub}

\* The paths the router takes through the compiled graph.
RECURSIVE PathsFrom(_, _, _)
PathsFrom(p, n, v) ==
    LET node == p.nodes[n]
        event == IF node.kind # "switch" THEN "plugin"
                 ELSE IF v \in node.cond THEN SwitchTrue ELSE SwitchFalse
        next == {e.to : e \in {x \in p.edges : x.from = n /\ x.event \in {AnyEvent, event}}}
        skipped == CHOOSE e \in p.edges : e.from = n /\ e.event = SwitchTrue
        here == IF node.kind # "switch" THEN <<[target |-> node.target, ran |-> TRUE]>>
                ELSE IF event = SwitchTrue THEN <<>>
                ELSE <<[target |-> p.nodes[skipped.to].target, ran |-> FALSE]>>
    IN IF next = {} THEN {here} ELSE Concat({here}, UNION {PathsFrom(p, m, v) : m \in next})
CompiledPaths(p, v) == UNION {PathsFrom(p, n, v) : n \in p.entry}

-----------------------------------------------------------------------------
(* Compilation of one pipeline, and of a graph of calls, as a behaviour.    *)

CONSTANTS Specs,      \* authored pipelines
          CallGraphs, \* name -> called names
          Values      \* payload values
VARIABLES spec, out
vars == <<spec, out>>
Pending == [pending |-> TRUE]

Init == out = Pending /\ spec \in [tag : {"steps"}, of : Specs] \cup [tag : {"calls"}, of : CallGraphs]
Next ==
    /\ out = Pending
    /\ out' = IF spec.tag = "steps" THEN compilePipeline(spec.of)
              ELSE [ok |-> validatePipelineCalls(spec.of)]
    /\ UNCHANGED spec
Spec == Init /\ [][Next]_vars

Compiled == out # Pending /\ spec.tag = "steps"

\* A pipeline whose names do not clash is accepted: generated ids, switch
\* nodes and the graph check get in the way of no authored shape.
WellFormedAccepted == Compiled => out.ok

\* The compiled graph routes an event along exactly the paths that were
\* authored, for every payload: sequences, splits, groups and conditional
\* steps.  (Conditions on groups are not part of a path, see AuthoredPaths.)
RoutesAsAuthored ==
    Compiled => \A v \in Values :
      CompiledPaths(out.pipeline, v) = SequencePaths(spec.of.steps, v)

\* Reachable by calls, in one or more steps.
Below(called, n) ==
    LET up[k \in 0 .. Cardinality(DOMAIN called)] ==
          IF k = 0 THEN called[n]
          ELSE up[k - 1] \cup UNION {called[m] : m \in up[k - 1] \cap DOMAIN called}
    IN up[Cardinality(DOMAIN called)]

\* Calls are accepted exactly when all of them are known and none comes back.
CallsAcyclic ==
    (out # Pending /\ spec.tag = "calls") =>
      (out.ok <=> /\ UNION {spec.of[n] : n \in DOMAIN spec.of} \subseteq DOMAIN spec.of
                  /\ \A n \in DOMAIN spec.of : n \notin Below(spec.of, n))
=============================================================================
