----------------------------- MODULE MCDispatch -----------------------------
(***************************************************************************)
(* Small instances of Dispatch for TLC.  Plugin p1 may run twice at a time *)
(* (so that only the dedupe key serialises its jobs), plugin p2 once.      *)
(***************************************************************************)
EXTENDS Dispatch, TLC

CONSTANTS p1, p2, k1, k2, k3, k4, e1, w1, w2

R(p, c, k, override, step, e) ==
    [plugin |-> p, command |-> c, key |-> k, override |-> override,
     step |-> step, parent |-> NoJob, event |-> e]

Poll(k) == R(p1, "poll", k, TRUE, FALSE, NoEvent)
Handle(p, k, e) == R(p, "handle", k, FALSE, TRUE, e)

Parallel == [p \in Plugin |-> IF p = p1 THEN 2 ELSE 1]
OnePoll == [p \in Plugin |-> 1]

(* A relayed event with a dedupe key, and a webhook without.               *)
Requests == {Handle(p1, k1, NoEvent), Handle(p2, NoKey, NoEvent)}
KeyedRequest == {Handle(p1, k1, NoEvent)}
ManualPoll == {R(p1, "poll", NoKey, FALSE, FALSE, NoEvent)}

(* A job of p1 may emit an event with its own key to p1 again ...          *)
ToItself == {Handle(p1, k1, NoEvent)}
(* ... or one that has the same id when the job is executed again.         *)
Resent == {Handle(p2, NoKey, e1)}

HookToP2 == [p \in Plugin |->
    IF p = p1 THEN {R(p2, "handle", NoKey, FALSE, FALSE, NoEvent)} ELSE {}]
NoHooks == [p \in Plugin |-> {}]

OneSchedule == {Poll(k1)}
TwoSchedules == {Poll(k1), Poll(k2)}
MissedSlots == {Poll(k3), Poll(k4)}
Cancelling == [r \in OneSchedule |-> "cancel"]
Skipping == [r \in OneSchedule |-> "skip"]
SkipAndQueue == [r \in TwoSchedules |-> IF r.key = k1 THEN "skip" ELSE "queue"]
NoPolicy == [r \in {} |-> "skip"]

WorkerSymmetry == Permutations(Worker)
=============================================================================
