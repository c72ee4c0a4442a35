----------------------------- MODULE Execution ------------------------------
(***************************************************************************)
(* What surrounds one execution, in four parts that do not share state:    *)
(* when a row is claimed (RetryTime), the subprocess (Executor), what the  *)
(* plugin remembers (PluginMemory), and the relay of its events to another *)
(* instance (RelayDelivery).  The initial state chooses a part and only    *)
(* that part moves.                                                        *)
(***************************************************************************)
EXTENDS PluginMemory, Integers

CONSTANTS Rows, Ten, BackoffBase, MaxTries, Horizon,      \* of RetryTime
          Reply, Limit, MaxWritten, Kinds,                \* of Executor
          Relays, DedupeKey, EventID, Links, Skew         \* of RelayDelivery

VARIABLES part,
          now, rowStatus, created, rowAttempt, due, failedAt,
          phase, result, main, kid, holds, written, buf, truncated, stdin, waited, timer, early,
          link, scfg, rcfg, offset, clock, sjob, attempts, net, answers, rows, sent, refused

times == <<now, rowStatus, created, rowAttempt, due, failedAt>>
process == <<phase, result, main, kid, holds, written, buf, truncated, stdin, waited, timer, early>>
relayed == <<link, scfg, rcfg, offset, clock, sjob, attempts, net, answers, rows, sent, refused>>
remembered == <<vars, plugin>>

Times == INSTANCE RetryTime WITH
    Jobs <- Rows, MaxAttempts <- MaxTries, status <- rowStatus, attempt <- rowAttempt
Process == INSTANCE Executor
Relay == INSTANCE RelayDelivery

ASSUME ExecutionAssumption ==
    Times!RetryTimeAssumption /\ Process!ExecutorAssumption /\ Relay!RelayAssumption

-----------------------------------------------------------------------------
ExecutionInit ==
    /\ Init /\ Times!Init /\ Process!Init /\ Relay!Init
    /\ part \in {"memory", "times", "process", "relay"}

ExecutionNext ==
    /\ \/ part = "memory" /\ Next /\ UNCHANGED <<times, process, relayed>>
       \/ part = "times" /\ Times!Next /\ UNCHANGED <<remembered, process, relayed>>
       \/ part = "process" /\ Process!Next /\ UNCHANGED <<remembered, times, relayed>>
       \/ part = "relay" /\ Relay!Next /\ UNCHANGED <<remembered, times, process>>
    /\ UNCHANGED part

(* The core and its timers go on; a plugin's process need not.             *)
Core(A) == part = "process" /\ A
Fairness ==
    /\ WF_process(Core(Process!StartProcess \/ Process!StartFails))
    /\ WF_process(Core(Process!SelectWait \/ Process!SelectTimer))
    /\ WF_process(Core(Process!Terminate))
    /\ WF_process(Core(Process!GraceWait \/ Process!GraceEnds))
    /\ WF_process(Core(Process!Reap))
    /\ WF_process(Core(Process!Deadline))
    /\ WF_process(Core(Process!WaitReturns))
    /\ WF_process(Core(Process!StdinEnds))

ExecutionSpec ==
    ExecutionInit /\ [][ExecutionNext]_<<part, remembered, times, process, relayed>> /\ Fairness

-----------------------------------------------------------------------------
(* A process that had exited, with its output read, when the deadline      *)
(* passed is never reported as timed out, whichever ready channel the      *)
(* select of execute takes; and a response is never decoded from a cut     *)
(* output.                                                                 *)
ResultKept == Process!ResultKept

(* Every execution ends, but for one whose descendant has left the process *)
(* group and keeps stdout open for ever.                                   *)
Ends == part = "process" => Process!Ends

(* Comparing timestamps as text errs by less than a second: a retry starts *)
(* no more than a second before its delay has passed, is eligible a second *)
(* after it at the latest, and the claim takes a row of the earliest       *)
(* second.                                                                 *)
ClaimedInTime == Times!ClaimedInTime

(* Relayed work is done as sent and once: every job of the receiver comes  *)
(* from a request as its peer sent it; a request between agreeing          *)
(* configurations is not refused; a relay that succeeded has work enqueued *)
(* for every route; and what lately succeeded is not repeated.             *)
RelaySound == Relay!RelaySound
=============================================================================
