------------------------------ MODULE MCReload ------------------------------
(* Instances of Reload: one job.                                            *)
EXTENDS Reload

CONSTANT j1
MCJobs == {j1}

(* Two reloads in a row; and one with everything that can be wrong, for     *)
(* what must happen in the end.                                             *)
MCDeployments == {
    [runtimes |-> 4, kinds |-> {"good"}, restoreKinds |-> {"good"}, live |-> FALSE],
    [runtimes |-> 3, kinds |-> {"good", "early", "late"}, restoreKinds |-> {"good", "early"},
     live |-> TRUE]}
OneReload ==
    {[runtimes |-> 3, kinds |-> {"good"}, restoreKinds |-> {"good"}, live |-> FALSE]}
=============================================================================
