------------------------------ MODULE MCPolls -------------------------------
(***************************************************************************)
(* Two small instances of Dispatch that need different constants, checked  *)
(* in one run.  The initial state chooses one and the behaviour stays in   *)
(* it: "polls" is the instance the configuration gives (two workers, two   *)
(* schedules and a manual poll of one plugin), "resent" has no schedule    *)
(* and room for a third job, so that a job that is executed again after a  *)
(* crash may emit the event it has emitted before.                         *)
(***************************************************************************)
EXTENDS MCDispatch

VARIABLE part

Resending == INSTANCE Dispatch WITH
    JobId <- 1..3, Parallelism <- Parallel,
    Ingress <- KeyedRequest, Scheduled <- {}, CatchUp <- {}, Policy <- NoPolicy,
    Routed <- Resent, Failures <- {}

PollsInit ==
    \/ part = "polls" /\ Init
    \/ part = "resent" /\ Resending!Init

PollsNext ==
    /\ \/ part = "polls" /\ Next
       \/ part = "resent" /\ Resending!Next
    /\ UNCHANGED part

PollsSpec == PollsInit /\ [][PollsNext]_<<vars, part>>

(* A job that a crash makes the dispatcher execute again, and that emits   *)
(* the same event again, has one child per event and target: the unique    *)
(* index on (parent_job_id, source_event_id, plugin, command) turns the    *)
(* second insert into a no-op.                                             *)
ResentOnce == part = "resent" => Resending!OneChildPerEvent

=============================================================================
