---------------------------- MODULE JobLifecycle ----------------------------
(***************************************************************************)
(* What the queue and the dispatcher promise about a job, whoever enqueued *)
(* it and however often the process crashes: after it is submitted a job   *)
(* is claimed by one worker at a time and at most MaxAttempts times; it    *)
(* ends with one result, and the result never changes.                     *)
(***************************************************************************)
EXTENDS Naturals

CONSTANTS JobId, Result, MaxAttempts

VARIABLES
    stage,     \* "new", "waiting", "claimed" or a result
    used       \* attempts used so far

lifeVars == <<stage, used>>

LifeInit ==
    /\ stage = [j \in JobId |-> "new"]
    /\ used = [j \in JobId |-> 0]

Move(j, from, to) == stage[j] = from /\ stage' = [stage EXCEPT ![j] = to]

Submit(j) == Move(j, "new", "waiting") /\ UNCHANGED used

Claim(j) ==
    /\ Move(j, "waiting", "claimed")
    /\ used[j] < MaxAttempts
    /\ used' = [used EXCEPT ![j] = @ + 1]

(* A retry after a failure, or a recovery after a crash.                   *)
Release(j) ==
    /\ Move(j, "claimed", "waiting")
    /\ used[j] < MaxAttempts
    /\ UNCHANGED used

Finish(j, r) == Move(j, "claimed", r) /\ UNCHANGED used

LifeNext ==
    \E j \in JobId :
        \/ Submit(j) \/ Claim(j) \/ Release(j)
        \/ \E r \in Result : Finish(j, r)

LifeSpec == LifeInit /\ [][LifeNext]_lifeVars
=============================================================================
