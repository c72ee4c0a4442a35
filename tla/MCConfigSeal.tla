---------------------------- MODULE MCConfigSeal ----------------------------
(* Small deployments for ConfigSeal.                                       *)
EXTENDS ConfigSeal

D(names, scopes, procs, o, h, c) ==
    [names |-> names, scopes |-> scopes, plugins |-> {"p1"}, enabled |-> {"p1"},
     included |-> {"tokens", "webhooks", "routes"}, procs |-> procs, strict |-> TRUE,
     ops |-> o, hand |-> h, crash |-> c]

(* Sequences of commands; with edits by hand; racing and interrupted       *)
(* commands; and a tokens.yaml in a directory of its own.                  *)
MCDeployments == {
    D({"t1", "t2"}, {"s1", "s2"}, {"x"}, 4, 0, 0),
    D({"t1"}, {"s1"}, {"x"}, 3, 2, 0),
    D({"t1"}, {"s1"}, {"x", "y"}, 3, 0, 1),
    [D({"t1"}, {"s1"}, {"x"}, 2, 2, 1) EXCEPT !.included = {"sub", "routes"}]}
=============================================================================
