----------------------------- MODULE MCSyncWait -----------------------------
(***************************************************************************)
(* Small instances of the two parts of Waiting, checked in one run.        *)
(***************************************************************************)
EXTENDS Waiting

CONSTANTS c1, c2

MCRequests == {c1, c2}

(* A tree of three jobs; two calls for one slot; two slots for two calls.  *)
MCDeployments == {
    [callers |-> {c1}, jobs |-> 3, sync |-> 1, retries |-> 1, reloads |-> TRUE],
    [callers |-> {c1, c2}, jobs |-> 2, sync |-> 1, retries |-> 1, reloads |-> FALSE],
    [callers |-> {c1, c2}, jobs |-> 2, sync |-> 2, retries |-> 1, reloads |-> TRUE]}

(* The calls do not move beside a stream: they start in one state.         *)
MCInit == WaitingInit /\ (part = "stream" => MaxSync = 2)
MCSpec == MCInit /\ [][WaitingNext]_<<calls, stream, part>> /\ WaitingFairness
=============================================================================
