---------------------------- MODULE MCPipelineRun ---------------------------
(***************************************************************************)
(* Small pipelines: authored shapes that are compiled and compared with     *)
(* what was authored (CompilerCheck), and compiled pipelines that are       *)
(* executed (PipelineRun), checked in one run.  The initial state chooses a *)
(* part, "compile" or "execute", and only that part moves.                  *)
(***************************************************************************)
EXTENDS MCCompiler, PipelineRun

VARIABLES part, spec, out

Authoring == INSTANCE CompilerCheck WITH
    Specs <- MCSpecs, CallGraphs <- MCCallGraphs, Values <- {0, 1}

Use(n, c, claims) == Step("uses", <<n, 0>>, n, c, claims, <<>>)
U(n) == Use(n, {}, {})
As(id, n) == Step("uses", <<id, 0>>, n, {}, {}, <<>>)
If1(n) == Use(n, {{1}}, {})
Call(n, q) == Step("call", <<n, 0>>, q, {}, {}, <<>>)
Relay(n) == Step("relay", <<n, 0>>, "lab", {}, {}, <<>>)
Split(x, y) == Step("split", <<>>, "", {}, {}, <<x, y>>)
Pipe(name, on, depth, steps) == PipelineSpec(name, on, FALSE, "", {0, 1, 2}, depth, steps)
Hook(name, steps) == PipelineSpec(name, "job.completed", TRUE, "", {0}, {}, steps)
Set(S) == CompileSpecs(S)

\* a, then b beside a conditional c, then d, which claims what a claimed; and
\* a pipeline started by the events of plugin r.
PipesSteps ==
    Set({Pipe("main", "t", {}, <<Use("a", {}, {"x"}), Split(U("b"), If1("c")), Use("d", {}, {"x"})>>),
         PipelineSpec("side", "e", FALSE, "r", {1}, {}, <<If1("f"), Relay("g")>>),
         Hook("hook", <<U("h")>>)})
\* An author's limit of two hops on three steps.
PipesCapped ==
    Set({Pipe("main", "t", {2}, <<U("a"), If1("b"), U("c")>>),
         Pipe("side", "e", {}, <<Split(U("d"), U("f")), Relay("g"), U("h")>>)})
\* A call between two steps.
PipesCall ==
    Set({Pipe("main", "t", {}, <<Use("a", {}, {"x"}), Call("s", "sub"), U("b")>>),
         Pipe("sub", "u", {}, <<Use("c", {}, {"x"}), If1("d")>>)})
\* Two branches that run the same plugin, and hooks with a conditional first
\* step and with a second step.
PipesTwins ==
    Set({Pipe("main", "t", {}, <<U("b"), Split(U("f"), As("f2", "f")), U("d")>>),
         Hook("hook", <<If1("h"), U("d")>>), Hook("hook2", <<U("h"), U("d")>>)})
\* Two conditional branches.
PipesSwitches ==
    Set({Pipe("main", "t", {}, <<U("b"), Split(If1("f"), If1("h")), U("d")>>)})
\* A pipeline of one step whose event starts a pipeline of three.
PipesInherit ==
    Set({Pipe("main", "t", {}, <<U("a")>>),
         PipelineSpec("side", "x", FALSE, "a", {1, 2}, {}, <<U("f"), If1("d"), U("h")>>)})

Plugins == {"a", "b", "c", "d", "f", "h", "r"}
Quietly ==
    [p \in Plugins |-> CASE p = "r" -> {<<"e">>, <<>>} [] p \in {"a", "c"} -> {<<>>, <<"x">>}
                         [] OTHER -> {<<"x">>}]

PipesMain == {PipesSteps, PipesCapped, PipesCall, PipesTwins, PipesSwitches, PipesInherit}

PipelinesInit ==
    /\ Init
    /\ \/ part = "execute" /\ spec = <<>> /\ out = Authoring!Pending
       \/ part = "compile" /\ router = PipesSteps /\ Authoring!Init

PipelinesNext ==
    /\ \/ part = "execute" /\ Next /\ UNCHANGED <<spec, out>>
       \/ part = "compile" /\ Authoring!Next /\ UNCHANGED vars
    /\ UNCHANGED part

PipelinesSpec == PipelinesInit /\ [][PipelinesNext]_<<vars, spec, out, part>>

=============================================================================
