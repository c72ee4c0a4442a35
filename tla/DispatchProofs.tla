--------------------------- MODULE DispatchProofs ---------------------------
(***************************************************************************)
(* The invariants of Dispatch hold for every number of jobs, workers,      *)
(* plugins, attempts, starts and faults.                                   *)
(*                                                                         *)
(* The inductive invariant: first what each queue operation does to the    *)
(* part of it that is about the queue alone, then the steps of the         *)
(* processes.  After that, the life cycle of a job; then what needs an     *)
(* invariant of its own.                                                   *)
(***************************************************************************)
EXTENDS Dispatch, FiniteSetTheorems, TLAPS

QueueInv == QueueTypeOK /\ AttemptBudget /\ TargetExclusive

(* Every operation but a claim leaves the running rows a subset.           *)
NoNewRunning == \A p \in Plugin : Running(p)' \subseteq Running(p)

(* InsertJob adds a fresh queued row, or nothing.                          *)
LEMMA InsertKeeps ==
  ASSUME QueueInv, NEW r \in Request, InsertJob(r)
  PROVE  /\ QueueInv' /\ NoNewRunning /\ attempt' = attempt
         /\ \A j \in JobId : \/ status'[j] = status[j]
                             \/ status[j] = "none" /\ status'[j] = "queued"
<1>1. CASE SourceEventConflict(r)
  <2>1. UNCHANGED queueVars
    BY <1>1 DEF InsertJob
  <2> QED
    BY <2>1 DEF queueVars, QueueInv, QueueTypeOK, AttemptBudget, TargetExclusive,
                NoNewRunning, Running, Rows, SameTarget
<1>2. CASE ~SourceEventConflict(r)
  <2>1. PICK j \in JobId :
           /\ FreeId(j)
           /\ status' = [status EXCEPT ![j] = "queued"]
           /\ req' = [req EXCEPT ![j] = r]
           /\ fact' = [fact EXCEPT ![j] = "queued"]
           /\ UNCHANGED <<attempt, backoff, completedAt, claims, jobLog>>
    BY <1>2 DEF InsertJob
  <2>2. status[j] = "none"
    BY <2>1 DEF FreeId
  <2>3. QueueTypeOK'
    BY <2>1 DEF QueueInv, QueueTypeOK, Status, Outstanding
  <2>4. AttemptBudget'
    BY <2>1, <2>2, MaxAttemptsAssumption
       DEF QueueInv, QueueTypeOK, AttemptBudget, Outstanding
  <2>5. TargetExclusive'
    BY <2>1 DEF QueueInv, QueueTypeOK, TargetExclusive, Rows, SameTarget
  <2>6. NoNewRunning
    BY <2>1 DEF QueueInv, QueueTypeOK, NoNewRunning, Running, Rows
  <2> QED
    BY <2>1, <2>2, <2>3, <2>4, <2>5, <2>6 DEF QueueInv, QueueTypeOK
<1> QED
  BY <1>1, <1>2

(* RetryTimeReached touches neither statuses nor attempts.                 *)
LEMMA RetryTimeKeeps ==
  ASSUME QueueInv, NEW j \in JobId, RetryTimeReached(j)
  PROVE  QueueInv' /\ NoNewRunning /\ attempt' = attempt /\ status' = status
BY DEF RetryTimeReached, QueueInv, QueueTypeOK, AttemptBudget, TargetExclusive,
       NoNewRunning, Running, Rows, SameTarget

(* A claim moves one queued row to running.                                *)
LEMMA ClaimKeeps ==
  ASSUME QueueInv, NEW j \in JobId, NEW S, DequeueEligible(j, S)
  PROVE  /\ QueueInv' /\ attempt' = attempt /\ req' = req
         /\ status[j] = "queued" /\ req[j].plugin \notin S
         /\ status' = [status EXCEPT ![j] = "running"]
<1>1. /\ status[j] = "queued" /\ req[j].plugin \notin S /\ ~KeyHeld(j)
      /\ attempt[j] \notin claims[j]
      /\ status' = [status EXCEPT ![j] = "running"]
      /\ fact' = [fact EXCEPT ![j] = "running"]
      /\ claims' = [claims EXCEPT ![j] = @ \cup {attempt[j]}]
      /\ UNCHANGED <<attempt, req, backoff, completedAt, jobLog>>
  BY DEF DequeueEligible, NextCandidate, Eligible, Rows
<1>2. QueueTypeOK'
  BY <1>1 DEF QueueInv, QueueTypeOK, Status, Outstanding
<1>3. AttemptBudget'
  BY <1>1, MaxAttemptsAssumption
     DEF QueueInv, QueueTypeOK, AttemptBudget, Outstanding
<1>4. TargetExclusive'
  <2>1. \A i \in Rows({"running"}) :
          req[j].key # NoKey /\ SameTarget(req[i], req[j]) => req[i].key # req[j].key
    BY <1>1 DEF KeyHeld
  <2>2. Rows({"running"})' = Rows({"running"}) \cup {j}
    BY <1>1 DEF Rows, QueueInv, QueueTypeOK
  <2>3. \A i, k \in Rows({"running"}) \cup {j} :
          i # k /\ req[i].key # NoKey /\ SameTarget(req[i], req[k])
            => req[i].key # req[k].key
    BY <2>1 DEF QueueInv, TargetExclusive, SameTarget
  <2> QED
    BY <1>1, <2>2, <2>3 DEF TargetExclusive, SameTarget
<1> QED
  BY <1>1, <1>2, <1>3, <1>4 DEF QueueInv

(* A completion makes one row terminal.                                    *)
LEMMA CompleteKeeps ==
  ASSUME QueueInv, NEW j \in JobId, NEW s \in Terminal, CompleteWithResult(j, s)
  PROVE  /\ QueueInv' /\ NoNewRunning /\ attempt' = attempt
         /\ status' = [status EXCEPT ![j] = s]
<1>1. /\ status[j] \notin NoRow
      /\ status' = [status EXCEPT ![j] = s]
      /\ fact' = [fact EXCEPT ![j] = s]
      /\ completedAt' = [completedAt EXCEPT ![j] = TRUE]
      /\ WriteJobLog(j, s)
      /\ UNCHANGED <<attempt, req, backoff, claims>>
  BY DEF CompleteWithResult
<1>2. jobLog' \in [JobId -> SUBSET (Nat \X Terminal)]
  BY <1>1 DEF WriteJobLog, QueueInv, QueueTypeOK
<1>3. QueueTypeOK'
  BY <1>1, <1>2 DEF QueueInv, QueueTypeOK, Status
<1>4. s \notin {"none", "queued", "running"}
  BY DEF Terminal
<1>5. AttemptBudget'
  BY <1>1, <1>4 DEF QueueInv, QueueTypeOK, AttemptBudget, Outstanding
<1>6. TargetExclusive' /\ NoNewRunning
  BY <1>1, <1>4 DEF QueueInv, QueueTypeOK, TargetExclusive, Rows, SameTarget,
                    NoNewRunning, Running
<1> QED
  BY <1>1, <1>3, <1>5, <1>6 DEF QueueInv

(* A retry or a recovery takes a claimed row to its next attempt.          *)
LEMMA UpdateKeeps ==
  ASSUME QueueInv, NEW j \in JobId, NEW s \in {"queued", "dead"}, NEW wait \in BOOLEAN,
         s = "queued" => attempt[j] + 1 <= MaxAttempts,
         UpdateJobForRecovery(j, s, attempt[j] + 1, wait)
  PROVE  /\ QueueInv' /\ NoNewRunning
         /\ status' = [status EXCEPT ![j] = s]
         /\ attempt' = [attempt EXCEPT ![j] = attempt[j] + 1]
<1>1. /\ status[j] \notin NoRow
      /\ status' = [status EXCEPT ![j] = s]
      /\ fact' = [fact EXCEPT ![j] = s]
      /\ attempt' = [attempt EXCEPT ![j] = attempt[j] + 1]
      /\ backoff' = [backoff EXCEPT ![j] = wait]
      /\ UNCHANGED <<req, completedAt, claims, jobLog>>
  BY DEF UpdateJobForRecovery
<1>2. QueueTypeOK'
  BY <1>1 DEF QueueInv, QueueTypeOK, Status, Outstanding, Terminal
<1>3. AttemptBudget'
  BY <1>1, MaxAttemptsAssumption DEF QueueInv, QueueTypeOK, AttemptBudget, Outstanding
<1>4. TargetExclusive' /\ NoNewRunning
  BY <1>1 DEF QueueInv, QueueTypeOK, TargetExclusive, Rows, SameTarget,
              NoNewRunning, Running
<1> QED
  BY <1>1, <1>2, <1>3, <1>4 DEF QueueInv

(* A cancellation makes outstanding rows dead.                             *)
LEMMA CancelKeeps ==
  ASSUME QueueInv, NEW p, NEW c, CancelOutstandingJobs(p, c)
  PROVE  /\ QueueInv' /\ NoNewRunning /\ attempt' = attempt
         /\ \A j \in JobId : \/ status'[j] = status[j]
                             \/ status[j] \in Outstanding /\ status'[j] = "dead"
<1> DEFINE gone == OutstandingOf(p, c)
<1>1. /\ status' = [j \in JobId |-> IF j \in gone THEN "dead" ELSE status[j]]
      /\ fact' = [j \in JobId |-> IF j \in gone THEN "dead" ELSE fact[j]]
      /\ completedAt' = [j \in JobId |-> j \in gone \/ completedAt[j]]
      /\ UNCHANGED <<attempt, req, backoff, claims, jobLog>>
  BY DEF CancelOutstandingJobs
<1>2. \A j \in gone : status[j] \in Outstanding
  BY DEF OutstandingOf, Rows
<1> HIDE DEF gone
<1>3. completedAt' \in [JobId -> BOOLEAN]
  BY <1>1
<1>4. QueueTypeOK'
  BY <1>1, <1>3 DEF QueueInv, QueueTypeOK, Status, Terminal
<1>5. AttemptBudget'
  BY <1>1 DEF QueueInv, QueueTypeOK, AttemptBudget, Outstanding
<1>6. TargetExclusive' /\ NoNewRunning
  BY <1>1 DEF QueueInv, QueueTypeOK, TargetExclusive, Rows, SameTarget,
              NoNewRunning, Running
<1> QED
  BY <1>1, <1>2, <1>4, <1>5, <1>6 DEF QueueInv

(* Pruning deletes terminal rows.                                          *)
LEMMA PruneKeeps ==
  ASSUME QueueInv, NEW old \in SUBSET JobId, PruneJobQueue(old)
  PROVE  /\ QueueInv' /\ NoNewRunning /\ attempt' = attempt
         /\ \A j \in JobId : \/ status'[j] = status[j]
                             \/ status[j] \in Terminal /\ status'[j] = "gone"
<1>1. /\ \A j \in old : status[j] \in Terminal
      /\ status' = [j \in JobId |-> IF j \in old THEN "gone" ELSE status[j]]
      /\ UNCHANGED <<attempt, req, backoff, completedAt, fact, claims, jobLog>>
  BY DEF PruneJobQueue
<1>2. QueueTypeOK'
  BY <1>1 DEF QueueInv, QueueTypeOK, NoRow
<1>3. AttemptBudget'
  BY <1>1 DEF QueueInv, QueueTypeOK, AttemptBudget, Outstanding
<1>4. TargetExclusive' /\ NoNewRunning
  BY <1>1 DEF QueueInv, QueueTypeOK, TargetExclusive, Rows, SameTarget,
              NoNewRunning, Running
<1> QED
  BY <1>1, <1>2, <1>3, <1>4 DEF QueueInv

(* A step that leaves the queue alone.                                     *)
LEMMA UnchangedKeeps ==
  ASSUME QueueInv, UNCHANGED queueVars
  PROVE  QueueInv' /\ NoNewRunning /\ attempt' = attempt /\ status' = status
BY DEF queueVars, QueueInv, QueueTypeOK, AttemptBudget, TargetExclusive,
       NoNewRunning, Running, Rows, SameTarget
-----------------------------------------------------------------------------
(* The lanes: when no row becomes running, no lane gets fuller.            *)
LEMMA CapsKept ==
  ASSUME TypeOK, CapsHold, NoNewRunning,
         filling' => filling /\ skip' = skip
  PROVE  CapsHold'
<1>1. \A p \in Plugin : Cardinality(Running(p)') <= Cardinality(Running(p))
  <2> TAKE p \in Plugin
  <2>1. IsFiniteSet(Running(p))
    BY JobIdAssumption, FS_Subset DEF Running, Rows
  <2>2. Running(p)' \subseteq Running(p)
    BY DEF NoNewRunning
  <2> QED
    BY <2>1, <2>2, FS_Subset
<1>2. \A p \in Plugin : /\ Cardinality(Running(p)) \in Nat
                        /\ Cardinality(Running(p)') \in Nat
  BY JobIdAssumption, FS_Subset, FS_CardinalityType DEF Running, Rows
<1>3. Parallelism \in [Plugin -> Nat]
  BY ParallelismAssumption
<1>4. PluginCap'
  BY <1>1, <1>2, <1>3 DEF CapsHold, PluginCap
<1>5. AtCap' \subseteq AtCap
  BY <1>1, <1>2, <1>3 DEF AtCap
<1> QED
  BY <1>4, <1>5 DEF CapsHold
-----------------------------------------------------------------------------
(* A step of a producer: it may add rows, cancel them or prune them, while *)
(* the process is up; workers and recovery do not move.                    *)
QuietMoves ==
    /\ attempt' = attempt
    /\ \A j \in JobId : \/ status'[j] = status[j]
                        \/ status[j] = "none" /\ status'[j] = "queued"
                        \/ status'[j] \in {"dead", "gone"}

OthersWait ==
    /\ phase' = phase
    /\ \/ phase \in {"up", "stopping"}
       \/ status' = status /\ spc' = spc
       \/ todo = {} /\ rpc = "next" /\ spc' = spc
    /\ fillVars' = fillVars /\ workVars' = workVars /\ recoVars' = recoVars

(* A step of a producer, or of time, keeps the invariant.                  *)
LEMMA QuietStep ==
  ASSUME IndInv, TypeOK', QueueInv', NoNewRunning, QuietMoves, OthersWait
  PROVE  IndInv'
<1> USE DEF fillVars, workVars, recoVars, QuietMoves, OthersWait
<1>1. CapsHold'
  BY CapsKept DEF IndInv
<1>2. WorkersHoldRows'
  BY DEF IndInv, WorkersHoldRows
<1>3. SingleWorker'
  BY DEF IndInv, SingleWorker
<1>4. RecoveryIsAlone'
  BY DEF IndInv, RecoveryIsAlone
<1> QED
  BY <1>1, <1>2, <1>3, <1>4 DEF IndInv, QueueInv

(* An API call, a webhook, a relayed event or the catch-up enqueues a job. *)
LEMMA IngressStep ==
  ASSUME IndInv, NEW r \in Ingress \cup CatchUp, IngressEnqueue(r) \/ CatchUpEnqueue(r)
  PROVE  IndInv'
<1>1. r \in Request
  BY RequestAssumption
<1>2. /\ QueueInv' /\ NoNewRunning /\ attempt' = attempt
      /\ \A j \in JobId : \/ status'[j] = status[j]
                          \/ status[j] = "none" /\ status'[j] = "queued"
  BY <1>1, InsertKeeps DEF IngressEnqueue, CatchUpEnqueue, IndInv, TypeOK, QueueInv
<1>3. TypeOK'
  BY <1>2 DEF IngressEnqueue, CatchUpEnqueue, IndInv, TypeOK, QueueInv, procVars, schedVars,
              fillVars, workVars, recoVars
<1>8. QuietMoves
  BY <1>2, <1>3 DEF QuietMoves
<1>9. OthersWait
  BY <1>2, <1>3 DEF IngressEnqueue, CatchUpEnqueue, OthersWait, procVars, schedVars
<1> QED
  BY <1>2, <1>3, <1>8, <1>9, QuietStep

(* The scheduler counts, cancels, looks up and inserts.                    *)
LEMMA ScheduleSteps ==
  ASSUME IndInv, (\E r \in Scheduled : ScheduleDue(r)) \/ ScheduleStep
  PROVE  IndInv'
<1> USE DEF schedVars, SchedulerAt, ScheduleEnd
<1>0. Scheduled \subseteq Request /\ NoRequest \notin Scheduled
  BY RequestAssumption
<1>q. QueueInv
  BY DEF IndInv, TypeOK, QueueInv
<1>1. ASSUME NEW r \in Scheduled, ScheduleDue(r)
      PROVE  IndInv'
  <2>1. QueueInv' /\ NoNewRunning /\ attempt' = attempt /\ status' = status
    BY <1>1, <1>q, UnchangedKeeps DEF ScheduleDue
  <2>2. phase = "up" /\ phase' = phase
    BY <1>1 DEF ScheduleDue, Commits, procVars
  <2>3. TypeOK'
    BY <1>0, <1>1, <2>1 DEF ScheduleDue, Commits, IndInv, TypeOK, QueueInv,
              procVars, fillVars, workVars, recoVars
  <2>8. QuietMoves
    BY <1>1, <2>1, <2>2, <2>3 DEF QuietMoves
  <2>9. OthersWait
    BY <1>1, <2>1, <2>2, <2>3 DEF ScheduleDue, OthersWait
  <2> QED
    BY <1>1, <2>1, <2>2, <2>3, <2>8, <2>9, QuietStep
<1>2. ASSUME ScheduleCancel
      PROVE  IndInv'
  <2>1. /\ QueueInv' /\ NoNewRunning /\ attempt' = attempt
        /\ \A j \in JobId : status'[j] = status[j] \/ status'[j] = "dead"
    <3>1. CASE CancelOutstandingJobs(sched.plugin, sched.command)
      BY <1>q, <3>1, CancelKeeps
    <3>2. CASE UNCHANGED queueVars
      BY <1>q, <3>2, UnchangedKeeps
    <3> QED
      BY <1>2, <3>1, <3>2 DEF ScheduleCancel
  <2>2. phase \in {"up", "stopping"} /\ phase' = phase /\ starts' \in Nat /\ faults' \in Nat
    BY <1>2 DEF ScheduleCancel, Commits, Fails, Fault, procVars, IndInv, TypeOK
  <2>3. TypeOK'
    BY <1>0, <1>2, <2>1, <2>2 DEF ScheduleCancel, IndInv, TypeOK, QueueInv,
              fillVars, workVars, recoVars
  <2>8. QuietMoves
    BY <1>2, <2>1, <2>2, <2>3 DEF QuietMoves
  <2>9. OthersWait
    BY <1>2, <2>1, <2>2, <2>3 DEF ScheduleCancel, OthersWait
  <2> QED
    BY <1>2, <2>1, <2>2, <2>3, <2>8, <2>9, QuietStep
<1>3. ASSUME ScheduleLookup
      PROVE  IndInv'
  <2>1. QueueInv' /\ NoNewRunning /\ attempt' = attempt /\ status' = status
    BY <1>3, <1>q, UnchangedKeeps DEF ScheduleLookup
  <2>2. phase \in {"up", "stopping"} /\ phase' = phase /\ starts' \in Nat /\ faults' \in Nat
    BY <1>3 DEF ScheduleLookup, Commits, Fails, Fault, procVars, IndInv, TypeOK
  <2>3. TypeOK'
    BY <1>0, <1>3, <2>1, <2>2 DEF ScheduleLookup, IndInv, TypeOK, QueueInv,
              fillVars, workVars, recoVars
  <2>8. QuietMoves
    BY <1>3, <2>1, <2>2, <2>3 DEF QuietMoves
  <2>9. OthersWait
    BY <1>3, <2>1, <2>2, <2>3 DEF ScheduleLookup, OthersWait
  <2> QED
    BY <1>3, <2>1, <2>2, <2>3, <2>8, <2>9, QuietStep
<1>4. ASSUME ScheduleInsert
      PROVE  IndInv'
  <2>1. phase \in {"up", "stopping"} /\ phase' = phase /\ starts' \in Nat /\ faults' \in Nat
    BY <1>4 DEF ScheduleInsert, Commits, Fails, Fault, NoRoom, procVars, IndInv, TypeOK,
                RecoveryIsAlone
  <2>2. sched \in Request
    BY <1>0, <1>4 DEF ScheduleInsert, IndInv, TypeOK
  <2>3. /\ QueueInv' /\ NoNewRunning /\ attempt' = attempt
        /\ \A j \in JobId : \/ status'[j] = status[j]
                            \/ status[j] = "none" /\ status'[j] = "queued"
    <3>1. CASE InsertJob(sched)
      BY <1>q, <2>2, <3>1, InsertKeeps
    <3>2. CASE UNCHANGED queueVars
      BY <1>q, <3>2, UnchangedKeeps
    <3> QED
      BY <1>4, <3>1, <3>2 DEF ScheduleInsert
  <2>4. TypeOK'
    BY <1>4, <2>1, <2>3 DEF ScheduleInsert, IndInv, TypeOK, QueueInv,
              fillVars, workVars, recoVars
  <2>8. QuietMoves
    BY <1>4, <2>1, <2>3, <2>4 DEF QuietMoves
  <2>9. OthersWait
    BY <1>4, <2>1, <2>3, <2>4 DEF ScheduleInsert, OthersWait
  <2> QED
    BY <1>4, <2>1, <2>3, <2>4, <2>8, <2>9, QuietStep
<1> QED
  BY <1>1, <1>2, <1>3, <1>4 DEF ScheduleStep

(* The retention pass.                                                     *)
LEMMA PruneStep ==
  ASSUME IndInv, NEW old \in SUBSET JobId, TickPrune(old)
  PROVE  IndInv'
<1>1. /\ QueueInv' /\ NoNewRunning /\ attempt' = attempt
      /\ \A j \in JobId : status'[j] = status[j] \/ status'[j] = "gone"
  BY PruneKeeps DEF TickPrune, IndInv, TypeOK, QueueInv
<1>2. phase = "up" /\ phase' = phase
  BY DEF TickPrune, Commits, procVars
<1>3. TypeOK'
  BY <1>1 DEF TickPrune, Commits, IndInv, TypeOK, QueueInv, procVars, schedVars,
              fillVars, workVars, recoVars
<1>8. QuietMoves
  BY <1>1, <1>2, <1>3 DEF QuietMoves
<1>9. OthersWait
  BY <1>1, <1>2, <1>3 DEF TickPrune, OthersWait
<1> QED
  BY <1>1, <1>2, <1>3, <1>8, <1>9, QuietStep

(* The retry time of a job is reached.                                     *)
LEMMA RetryDueStep ==
  ASSUME IndInv, NEW j \in JobId, RetryDue(j)
  PROVE  IndInv'
<1>1. QueueInv' /\ NoNewRunning /\ attempt' = attempt /\ status' = status
  BY RetryTimeKeeps DEF RetryDue, IndInv, TypeOK, QueueInv
<1>2. TypeOK'
  BY <1>1 DEF RetryDue, IndInv, TypeOK, QueueInv, procVars, schedVars,
              fillVars, workVars, recoVars
<1>8. QuietMoves
  BY <1>1, <1>2 DEF QuietMoves
<1>9. OthersWait
  BY <1>1, <1>2 DEF RetryDue, OthersWait, procVars, schedVars
<1> QED
  BY <1>1, <1>2, <1>8, <1>9, QuietStep
-----------------------------------------------------------------------------
(* fillWorkers.                                                            *)
LEMMA FillSteps ==
  ASSUME IndInv, LoadRunningCounts \/ ClaimNothing
  PROVE  IndInv'
<1> USE DEF schedVars, workVars, recoVars
<1>1. UNCHANGED <<queueVars, schedVars, workVars, recoVars>>
  BY DEF LoadRunningCounts, ClaimNothing
<1>2. QueueInv' /\ NoNewRunning /\ attempt' = attempt /\ status' = status /\ req' = req
  BY <1>1, UnchangedKeeps DEF IndInv, TypeOK, QueueInv, queueVars
<1>3. /\ phase \in {"up", "stopping"} /\ phase' = phase
      /\ starts' \in Nat /\ faults' \in Nat
  BY DEF LoadRunningCounts, ClaimNothing, Commits, Fails, Fault, procVars, IndInv, TypeOK
<1>4. filling' \in BOOLEAN /\ skip' \subseteq Plugin
  BY DEF LoadRunningCounts, ClaimNothing, AtCap
<1>5. TypeOK'
  BY <1>1, <1>2, <1>3, <1>4 DEF IndInv, TypeOK, QueueInv
<1>6. CapsHold'
  <2>1. PluginCap' /\ AtCap' = AtCap
    BY <1>2 DEF IndInv, CapsHold, PluginCap, AtCap, Running, Rows
  <2>2. filling' => skip' = AtCap
    BY DEF LoadRunningCounts, ClaimNothing
  <2> QED
    BY <2>1, <2>2 DEF CapsHold
<1>7. WorkersHoldRows' /\ SingleWorker'
  BY <1>1, <1>2 DEF IndInv, WorkersHoldRows, SingleWorker
<1>8. RecoveryIsAlone'
  BY <1>1, <1>2, <1>3 DEF IndInv, RecoveryIsAlone
<1> QED
  BY <1>2, <1>5, <1>6, <1>7, <1>8 DEF IndInv, QueueInv

(* A claim makes the lane of one plugin fuller, which was below its cap.   *)
LEMMA ClaimStep ==
  ASSUME IndInv, NEW w \in Worker, NEW j \in JobId, ClaimJob(w, j)
  PROVE  IndInv'
<1> USE DEF schedVars, recoVars
<1>1. /\ phase = "up" /\ filling /\ DequeueEligible(j, skip)
      /\ UNCHANGED <<phase, starts, faults, spc, sched, outcome, left, todo, dying, rpc, rleft>>
      /\ pc[w] = "idle" /\ pc' = [pc EXCEPT ![w] = "exec"]
      /\ wjob' = [wjob EXCEPT ![w] = j]
      /\ wattempt' = [wattempt EXCEPT ![w] = attempt[j]]
      /\ filling' = FALSE /\ skip' = {}
  BY DEF ClaimJob, Commits, Step, procVars
<1>2. /\ QueueInv' /\ attempt' = attempt /\ req' = req
      /\ status[j] = "queued" /\ req[j].plugin \notin skip
      /\ status' = [status EXCEPT ![j] = "running"]
  BY <1>1, ClaimKeeps DEF IndInv, TypeOK, QueueInv
<1>3. TypeOK'
  BY <1>1, <1>2 DEF IndInv, TypeOK, QueueInv, QueueTypeOK, PC, Active
<1>4. CapsHold'
  <2>0. PICK p \in Plugin : p = req[j].plugin
    BY DEF IndInv, TypeOK, QueueTypeOK, Request
  <2>1. IsFiniteSet(Running(p)) /\ j \notin Running(p)
    BY <1>2, JobIdAssumption, FS_Subset DEF Running, Rows
  <2>2. Running(p)' = Running(p) \cup {j}
    BY <1>2, <2>0 DEF Running, Rows, IndInv, TypeOK, QueueTypeOK
  <2>3. \A q \in Plugin : q # p => Running(q)' = Running(q)
    BY <1>2, <2>0 DEF Running, Rows, IndInv, TypeOK, QueueTypeOK
  <2>4. Cardinality(Running(p)') = Cardinality(Running(p)) + 1
    BY <2>1, <2>2, FS_AddElement
  <2>5. Cardinality(Running(p)) \in Nat
    BY <2>1, FS_CardinalityType
  <2>6. p \notin AtCap
    BY <1>1, <1>2, <2>0 DEF IndInv, CapsHold
  <2>7. Parallelism[p] \in Nat
    BY <2>0, ParallelismAssumption
  <2>8. Cardinality(Running(p)') <= Parallelism[p]
    BY <2>0, <2>4, <2>5, <2>6, <2>7 DEF AtCap
  <2>9. PluginCap'
    BY <2>3, <2>8 DEF IndInv, CapsHold, PluginCap
  <2> QED
    BY <1>1, <2>9 DEF CapsHold
<1>5. \A v \in Worker : pc[v] \in Active => wjob[v] # j
  BY <1>2 DEF IndInv, WorkersHoldRows
<1>6. WorkersHoldRows'
  BY <1>1, <1>2 DEF IndInv, TypeOK, QueueTypeOK, WorkersHoldRows, Active
<1>7. SingleWorker'
  BY <1>1, <1>5 DEF IndInv, TypeOK, SingleWorker
<1>8. RecoveryIsAlone'
  BY <1>1, <1>2 DEF IndInv, RecoveryIsAlone
<1> QED
  BY <1>2, <1>3, <1>4, <1>6, <1>7, <1>8 DEF IndInv, QueueInv
-----------------------------------------------------------------------------
(* The workers.  A step of worker w moves only w and leaves alone          *)
(* scheduler, fillWorkers and recovery.                                    *)
OnlyWorker(w) ==
    /\ phase' = phase /\ starts' \in Nat /\ faults' \in Nat
    /\ schedVars' = schedVars /\ fillVars' = fillVars /\ recoVars' = recoVars
    /\ \E to \in PC : pc' = [pc EXCEPT ![w] = to]

(* The hook jobs of a job are requests.                                    *)
LEMMA HooksType ==
  ASSUME TypeOK, NEW j \in JobId
  PROVE  Hooks(j) \in SUBSET Request
BY RequestAssumption DEF TypeOK, QueueTypeOK, Request, Hooks

(* A successor is a request with the job as its parent.                    *)
LEMMA ChildType ==
  ASSUME NEW r \in Request, NEW j \in JobId
  PROVE  [r EXCEPT !.parent = j] \in Request
BY DEF Request

(* A step of an active worker that keeps its job, and after which its row  *)
(* is still not queued, or the worker is done with it.                     *)
LEMMA WorkerStep ==
  ASSUME IndInv, TypeOK', QueueInv', NoNewRunning, NEW w \in Worker, OnlyWorker(w),
         pc[w] \in Active, wjob' = wjob, wattempt' = wattempt,
         \A j \in JobId : j # wjob[w] =>
              /\ attempt'[j] = attempt[j]
              /\ \/ status'[j] = status[j]
                 \/ status[j] = "none" /\ status'[j] = "queued",
         pc'[w] \in Active =>
              /\ attempt'[wjob[w]] = attempt[wjob[w]]
              /\ status'[wjob[w]] \notin {"none", "queued"}
              /\ pc'[w] = "retry" => wattempt[w] < MaxAttempts
  PROVE  IndInv'
<1> USE DEF schedVars, fillVars, recoVars
<1>1. CapsHold'
  BY CapsKept DEF IndInv, OnlyWorker
<1>2. \A v \in Worker : v # w /\ pc[v] \in Active => wjob[v] # wjob[w]
  BY DEF IndInv, SingleWorker
<1>3. \A v \in Worker : v # w => pc'[v] = pc[v]
  BY DEF OnlyWorker, IndInv, TypeOK
<1>4. WorkersHoldRows'
  <2> SUFFICES ASSUME NEW v \in Worker, pc'[v] \in Active
               PROVE  /\ wjob[v] \in JobId
                      /\ status'[wjob[v]] \notin {"none", "queued"}
                      /\ wattempt[v] = attempt'[wjob[v]]
                      /\ pc'[v] = "retry" => wattempt[v] < MaxAttempts
    BY DEF WorkersHoldRows
  <2>1. CASE v = w
    BY <2>1 DEF IndInv, WorkersHoldRows
  <2>2. CASE v # w
    BY <1>2, <1>3, <2>2 DEF IndInv, WorkersHoldRows
  <2> QED
    BY <2>1, <2>2
<1>5. SingleWorker'
  BY <1>2, <1>3 DEF IndInv, SingleWorker
<1>6. phase \notin {"down", "recovering"}
  BY DEF IndInv, RecoveryIsAlone, Active
<1>7. RecoveryIsAlone'
  BY <1>6 DEF IndInv, RecoveryIsAlone, OnlyWorker
<1> QED
  BY <1>1, <1>4, <1>5, <1>7 DEF IndInv, QueueInv

(* The steps of executeJob that leave the queue alone.                     *)
LEMMA ExecuteSteps ==
  ASSUME IndInv, NEW w \in Worker,
         \/ ExecuteBroken(w) \/ RouteBroken(w) \/ RouteDone(w) \/ HookDone(w)
         \/ \E next \in SUBSET Routed :
               ExecuteDone(w, "succeeded", next) \/ ExecuteDone(w, "skipped", next)
         \/ \E s \in Failures, retryable \in BOOLEAN : ExecuteFailed(w, s, retryable)
  PROVE  IndInv'
<1> USE DEF Step, Active, PC, Terminal
<1>0. ~AttemptsExhausted(w) => wattempt[w] < MaxAttempts
  BY MaxAttemptsAssumption DEF AttemptsExhausted, IndInv, TypeOK
<1>1. /\ pc[w] \in Active
      /\ UNCHANGED <<queueVars, procVars, schedVars, fillVars, wjob, wattempt, recoVars>>
      /\ \E to \in Active :
            /\ pc' = [pc EXCEPT ![w] = to]
            /\ to = "retry" => wattempt[w] < MaxAttempts
  BY <1>0 DEF ExecuteBroken, RouteBroken, RouteDone, HookDone, ExecuteDone, ExecuteFailed
<1>2. QueueInv' /\ NoNewRunning /\ attempt' = attempt /\ status' = status
  BY <1>1, UnchangedKeeps DEF IndInv, TypeOK, QueueInv
<1>3. wjob[w] \in JobId /\ status[wjob[w]] \notin {"none", "queued"}
  BY <1>1 DEF IndInv, WorkersHoldRows
<1>4. outcome' \in [Worker -> Terminal]
  BY RequestAssumption
     DEF IndInv, TypeOK, ExecuteBroken, RouteBroken, RouteDone, HookDone, ExecuteDone,
         ExecuteFailed
<1>5. left' \in [Worker -> SUBSET Request]
  <2>1. Hooks(wjob[w]) \in SUBSET Request
    BY <1>3, HooksType DEF IndInv
  <2>2. \A next \in SUBSET Routed :
           {[r EXCEPT !.parent = wjob[w]] : r \in next} \in SUBSET Request
    BY <1>3, ChildType, RequestAssumption
  <2> QED
    BY <2>1, <2>2 DEF IndInv, TypeOK, ExecuteBroken, RouteBroken, RouteDone, HookDone,
                      ExecuteDone, ExecuteFailed
<1>6. TypeOK'
  BY <1>1, <1>2, <1>4, <1>5 DEF IndInv, TypeOK, QueueInv, procVars, schedVars,
     fillVars, recoVars
<1>7. OnlyWorker(w)
  BY <1>1 DEF OnlyWorker, procVars, IndInv, TypeOK
<1>8. pc'[w] = "retry" => wattempt[w] < MaxAttempts
  BY <1>1 DEF IndInv, TypeOK
<1> HIDE DEF Step, Active, PC, Terminal
<1> QED
  BY <1>1, <1>2, <1>3, <1>6, <1>7, <1>8, WorkerStep

(* A worker enqueues a successor or a hook job.                            *)
LEMMA EnqueueSteps ==
  ASSUME IndInv, NEW w \in Worker, NEW r \in left[w], RouteNext(w, r) \/ HookNext(w, r)
  PROVE  IndInv'
<1>1. /\ pc[w] \in Active
      /\ UNCHANGED <<schedVars, fillVars, pc, wjob, wattempt, outcome, recoVars>>
      /\ left' = [left EXCEPT ![w] = @ \ {r}]
      /\ InsertJob(r) \/ UNCHANGED queueVars
  BY DEF RouteNext, HookNext, Enqueue, Active
<1>2. r \in Request
  BY DEF IndInv, TypeOK
<1>3. /\ QueueInv' /\ NoNewRunning /\ attempt' = attempt
      /\ \A j \in JobId : \/ status'[j] = status[j]
                          \/ status[j] = "none" /\ status'[j] = "queued"
  <2>1. QueueInv
    BY DEF IndInv, TypeOK, QueueInv
  <2>2. CASE InsertJob(r)
    BY <1>2, <2>1, <2>2, InsertKeeps
  <2>3. CASE UNCHANGED queueVars
    BY <2>1, <2>3, UnchangedKeeps
  <2> QED
    BY <1>1, <2>2, <2>3
<1>4. phase' = phase /\ starts' \in Nat /\ faults' \in Nat
  BY DEF RouteNext, HookNext, Commits, Fails, Fault, NoRoom, procVars, IndInv, TypeOK
<1>5. TypeOK'
  BY <1>1, <1>3, <1>4 DEF IndInv, TypeOK, QueueInv, schedVars, fillVars, recoVars
<1>6. /\ wjob[w] \in JobId /\ status[wjob[w]] \notin {"none", "queued"}
      /\ pc[w] = "retry" => wattempt[w] < MaxAttempts
  BY <1>1 DEF IndInv, WorkersHoldRows
<1>7. OnlyWorker(w)
  <2>1. pc' = [pc EXCEPT ![w] = pc[w]] /\ pc[w] \in PC
    BY <1>1 DEF IndInv, TypeOK
  <2> QED
    BY <1>1, <1>4, <2>1 DEF OnlyWorker
<1>8. pc'[w] = pc[w] /\ status'[wjob[w]] \notin {"none", "queued"}
  BY <1>1, <1>3, <1>6
<1> QED
  BY <1>1, <1>3, <1>5, <1>6, <1>7, <1>8, WorkerStep

(* The worker gives its row up: to its next attempt, or for good.          *)
LEMMA EndSteps ==
  ASSUME IndInv, NEW w \in Worker, ScheduleRetry(w) \/ Complete(w)
  PROVE  IndInv'
<1>1. /\ pc[w] \in Active
      /\ UNCHANGED <<schedVars, fillVars, wjob, wattempt, outcome, left, recoVars>>
      /\ \E to \in {"done", "finish"} : pc' = [pc EXCEPT ![w] = to]
  BY DEF ScheduleRetry, Complete, Step, Active
<1>2. /\ wjob[w] \in JobId /\ status[wjob[w]] \notin {"none", "queued"}
      /\ wattempt[w] = attempt[wjob[w]] /\ attempt[wjob[w]] \in Nat
      /\ pc[w] = "retry" => wattempt[w] < MaxAttempts
      /\ outcome[w] \in Terminal
  BY <1>1 DEF IndInv, WorkersHoldRows, TypeOK, QueueTypeOK
<1>3. phase' = phase /\ starts' \in Nat /\ faults' \in Nat
  <2>1. Commits \/ Fails \/ RowMissing(wjob[w])
    BY DEF ScheduleRetry, Complete
  <2> QED
    BY <2>1 DEF Commits, Fails, Fault, RowMissing, procVars, IndInv, TypeOK
<1>4. /\ QueueInv' /\ NoNewRunning
      /\ \A j \in JobId : j # wjob[w] => attempt'[j] = attempt[j] /\ status'[j] = status[j]
      /\ pc'[w] \in Active => attempt' = attempt /\ status' = status
  <2>0. QueueInv
    BY DEF IndInv, TypeOK, QueueInv
  <2>1. CASE UNCHANGED queueVars
    BY <2>0, <2>1, UnchangedKeeps
  <2>2. CASE /\ pc[w] = "retry" /\ pc' = [pc EXCEPT ![w] = "done"]
             /\ UpdateJobForRecovery(wjob[w], "queued", wattempt[w] + 1, TRUE)
    <3>1. attempt[wjob[w]] + 1 <= MaxAttempts
      BY <1>2, <2>2, MaxAttemptsAssumption
    <3>2. UpdateJobForRecovery(wjob[w], "queued", attempt[wjob[w]] + 1, TRUE)
      BY <1>2, <2>2
    <3>3. /\ QueueInv' /\ NoNewRunning
          /\ status' = [status EXCEPT ![wjob[w]] = "queued"]
          /\ attempt' = [attempt EXCEPT ![wjob[w]] = attempt[wjob[w]] + 1]
      BY <1>2, <2>0, <3>1, <3>2, UpdateKeeps
    <3>4. pc'[w] \notin Active
      BY <2>2 DEF Active, IndInv, TypeOK
    <3> QED
      BY <3>3, <3>4 DEF IndInv, TypeOK, QueueTypeOK
  <2>3. CASE /\ pc' = [pc EXCEPT ![w] = "done"]
             /\ CompleteWithResult(wjob[w], outcome[w])
    <3>1. /\ QueueInv' /\ NoNewRunning /\ attempt' = attempt
          /\ status' = [status EXCEPT ![wjob[w]] = outcome[w]]
      BY <1>2, <2>0, <2>3, CompleteKeeps
    <3>2. pc'[w] \notin Active
      BY <2>3 DEF Active, IndInv, TypeOK
    <3> QED
      BY <3>1, <3>2 DEF IndInv, TypeOK, QueueTypeOK
  <2> QED
    BY <2>1, <2>2, <2>3 DEF ScheduleRetry, Complete, Step
<1>5. TypeOK'
  BY <1>1, <1>3, <1>4 DEF IndInv, TypeOK, QueueInv, schedVars, fillVars, recoVars, PC, Active
<1>6. OnlyWorker(w)
  BY <1>1, <1>3 DEF OnlyWorker, PC, Active
<1>7. pc'[w] # "retry"
  BY <1>1 DEF IndInv, TypeOK
<1> QED
  BY <1>1, <1>2, <1>4, <1>5, <1>6, <1>7, WorkerStep

(* The dispatch loop takes note that executeJob has returned.              *)
LEMMA WorkerDoneStep ==
  ASSUME IndInv, NEW w \in Worker, WorkerDone(w)
  PROVE  IndInv'
<1> USE DEF procVars, schedVars, fillVars, recoVars
<1>1. /\ UNCHANGED <<queueVars, procVars, schedVars, fillVars, left, recoVars>>
      /\ pc' = [pc EXCEPT ![w] = "idle"]
      /\ wjob' = [wjob EXCEPT ![w] = NoJob]
      /\ wattempt' = [wattempt EXCEPT ![w] = 0]
      /\ outcome' = [outcome EXCEPT ![w] = "failed"]
  BY DEF WorkerDone, Step
<1>2. QueueInv' /\ NoNewRunning /\ attempt' = attempt /\ status' = status
  BY <1>1, UnchangedKeeps DEF IndInv, TypeOK, QueueInv
<1>3. TypeOK'
  BY <1>1, <1>2 DEF IndInv, TypeOK, QueueInv, PC, Active, Terminal
<1>4. CapsHold'
  BY <1>1, <1>2, CapsKept DEF IndInv
<1>5. \A v \in Worker : pc'[v] \in Active =>
         pc'[v] = pc[v] /\ wjob'[v] = wjob[v] /\ wattempt'[v] = wattempt[v]
  BY <1>1 DEF IndInv, TypeOK, Active
<1>6. WorkersHoldRows'
  BY <1>2, <1>5 DEF IndInv, WorkersHoldRows
<1>7. SingleWorker'
  BY <1>5 DEF IndInv, SingleWorker
<1>8. RecoveryIsAlone'
  BY <1>1, <1>2 DEF IndInv, TypeOK, RecoveryIsAlone
<1> QED
  BY <1>2, <1>3, <1>4, <1>6, <1>7, <1>8 DEF IndInv, QueueInv
-----------------------------------------------------------------------------
(* Recovery.  Nobody else is active, so a step is judged by the rows alone.*)
LEMMA RecoverySteps ==
  ASSUME IndInv,
         \/ \E j \in todo : RecoverRequeue(j) \/ RecoverMarkDead(j)
         \/ RecoverComplete
         \/ \E r \in rleft : RecoverHook(r)
         \/ RecoverNext
  PROVE  IndInv'
<1> USE DEF schedVars, fillVars, workVars
<1>0. /\ phase = "recovering" /\ QueueInv
      /\ ~filling /\ spc = "idle" /\ \A w \in Worker : pc[w] = "idle"
  BY DEF IndInv, RecoveryIsAlone, RecoverRequeue, RecoverMarkDead, RecoverComplete,
         RecoverHook, RecoverNext, TypeOK, QueueInv
<1>1. UNCHANGED <<schedVars, fillVars, workVars>>
  BY DEF RecoverRequeue, RecoverMarkDead, RecoverComplete, RecoverHook, RecoverNext
<1>2. phase' = phase /\ starts' \in Nat /\ faults' \in Nat
  <2>1. UNCHANGED procVars \/ Fault
    BY DEF RecoverRequeue, RecoverMarkDead, RecoverComplete, RecoverHook, RecoverNext, NoRoom
  <2> QED
    BY <2>1 DEF Fault, procVars, IndInv, TypeOK
<1>3. ASSUME QueueInv', NoNewRunning,
             todo' \subseteq todo, rpc' \in {"next", "log", "hook"}, rleft' \subseteq Request,
             dying' \in JobId \cup {NoJob},
             \A j \in todo' : status'[j] = "running",
             rpc' # "next" => dying' \in JobId /\ status'[dying'] = "dead"
      PROVE  IndInv'
  <2>1. TypeOK'
    BY <1>1, <1>2, <1>3 DEF IndInv, TypeOK, QueueInv
  <2>2. CapsHold'
    BY <1>1, <1>3, CapsKept DEF IndInv
  <2>3. WorkersHoldRows' /\ SingleWorker'
    BY <1>0, <1>1 DEF WorkersHoldRows, SingleWorker, Active
  <2>4. RecoveryIsAlone'
    BY <1>0, <1>1, <1>2, <1>3 DEF RecoveryIsAlone
  <2> QED
    BY <1>3, <2>1, <2>2, <2>3, <2>4 DEF IndInv, QueueInv
<1>t. /\ todo \subseteq JobId /\ rleft \subseteq Request /\ rpc \in {"next", "log", "hook"}
      /\ dying \in JobId \cup {NoJob}
      /\ \A j \in todo : status[j] = "running"
      /\ rpc # "next" => dying \in JobId /\ status[dying] = "dead"
  BY DEF IndInv, TypeOK, RecoveryIsAlone
<1>4. ASSUME NEW j \in todo, RecoverRequeue(j)
      PROVE  IndInv'
  <2>1. CASE UNCHANGED queueVars
    BY <1>0, <1>3, <1>4, <1>t, <2>1, UnchangedKeeps DEF RecoverRequeue
  <2>2. CASE UpdateJobForRecovery(j, "queued", attempt[j] + 1, FALSE)
    <3>1. QueueInv' /\ NoNewRunning /\ status' = [status EXCEPT ![j] = "queued"]
      BY <1>0, <1>4, <1>t, <2>2, UpdateKeeps DEF RecoverRequeue
    <3>2. /\ todo' = todo \ {j} /\ rpc' = "next" /\ UNCHANGED <<dying, rleft>>
      BY <1>4 DEF RecoverRequeue
    <3> QED
      BY <1>3, <1>t, <3>1, <3>2
  <2> QED
    BY <1>4, <2>1, <2>2 DEF RecoverRequeue
<1>5. ASSUME NEW j \in todo, RecoverMarkDead(j)
      PROVE  IndInv'
  <2>0. todo' = todo \ {j} /\ rleft' = rleft /\ rpc = "next"
    BY <1>5 DEF RecoverMarkDead
  <2>1. CASE UNCHANGED <<queueVars, dying, rpc>>
    BY <1>0, <1>3, <1>t, <2>0, <2>1, UnchangedKeeps
  <2>2. CASE /\ UpdateJobForRecovery(j, "dead", attempt[j] + 1, FALSE)
             /\ dying' = j /\ rpc' = "log"
    <3>1. QueueInv' /\ NoNewRunning /\ status' = [status EXCEPT ![j] = "dead"]
      BY <1>0, <1>t, <2>2, UpdateKeeps
    <3>2. status'[j] = "dead" /\ \A i \in todo' : status'[i] = "running"
      BY <1>t, <2>0, <3>1 DEF IndInv, TypeOK, QueueTypeOK
    <3> QED
      BY <1>3, <1>t, <2>0, <2>2, <3>1, <3>2
  <2> QED
    BY <1>5, <2>1, <2>2 DEF RecoverMarkDead
<1>6. ASSUME RecoverComplete
      PROVE  IndInv'
  <2>0. /\ dying \in JobId /\ status[dying] = "dead"
        /\ rpc' = "hook" /\ UNCHANGED <<todo, dying>>
    BY <1>6, <1>t DEF RecoverComplete
  <2>1. rleft' \subseteq Request
    BY <1>6, <2>0, HooksType DEF RecoverComplete, IndInv
  <2>2. CASE UNCHANGED queueVars
    BY <1>0, <1>3, <1>t, <2>0, <2>1, <2>2, UnchangedKeeps
  <2>3. CASE CompleteWithResult(dying, "dead")
    <3>1. QueueInv' /\ NoNewRunning /\ status' = [status EXCEPT ![dying] = "dead"]
      BY <1>0, <2>0, <2>3, CompleteKeeps DEF Terminal
    <3>2. status' = status
      BY <2>0, <3>1 DEF IndInv, TypeOK, QueueTypeOK
    <3> QED
      BY <1>3, <1>t, <2>0, <2>1, <3>1, <3>2
  <2> QED
    BY <1>6, <2>2, <2>3 DEF RecoverComplete
<1>7. ASSUME NEW r \in rleft, RecoverHook(r)
      PROVE  IndInv'
  <2>0. rleft' \subseteq rleft /\ UNCHANGED <<todo, dying, rpc>>
    BY <1>7 DEF RecoverHook
  <2>1. CASE UNCHANGED queueVars
    BY <1>0, <1>3, <1>t, <2>0, <2>1, UnchangedKeeps
  <2>2. CASE InsertJob(r)
    <3>1. /\ QueueInv' /\ NoNewRunning
          /\ \A j \in JobId : \/ status'[j] = status[j]
                              \/ status[j] = "none" /\ status'[j] = "queued"
      BY <1>0, <1>t, <2>2, InsertKeeps
    <3> QED
      BY <1>3, <1>t, <2>0, <3>1
  <2> QED
    BY <1>7, <2>1, <2>2 DEF RecoverHook
<1>8. ASSUME RecoverNext
      PROVE  IndInv'
  BY <1>0, <1>3, <1>8, <1>t, UnchangedKeeps DEF RecoverNext
<1> QED
  BY <1>4, <1>5, <1>6, <1>7, <1>8
-----------------------------------------------------------------------------
(* Start, stop, crash.                                                     *)
LEMMA ProcessSteps ==
  ASSUME IndInv, RecoveryDone \/ Process
  PROVE  IndInv'
<1> USE DEF procVars, schedVars, fillVars, workVars, recoVars
<1>0. UNCHANGED queueVars
  BY DEF RecoveryDone, Process, Start, Stop, Drained, Crash
<1>1. QueueInv' /\ NoNewRunning /\ attempt' = attempt /\ status' = status
  BY <1>0, UnchangedKeeps DEF IndInv, TypeOK, QueueInv
<1>2. TypeOK'
  <2>1. Rows({"running"}) \subseteq JobId
    BY DEF Rows
  <2>2. CASE RecoveryDone \/ Stop \/ Drained
    BY <1>1, <2>2 DEF RecoveryDone, Stop, Drained, IndInv, TypeOK, QueueInv
  <2>3. CASE Start
    BY <1>1, <2>1, <2>3 DEF Start, IndInv, TypeOK, QueueInv
  <2>4. CASE Crash
    BY <1>1, <2>4 DEF Crash, IndInv, TypeOK, QueueInv, PC, Terminal
  <2> QED
    BY <2>2, <2>3, <2>4 DEF Process
<1>3. CapsHold'
  BY <1>1, CapsKept DEF RecoveryDone, Process, Start, Stop, Drained, Crash, IndInv
<1>4. WorkersHoldRows' /\ SingleWorker'
  BY <1>1 DEF RecoveryDone, Process, Start, Stop, Drained, Crash, IndInv,
              WorkersHoldRows, SingleWorker, Active
<1>5. RecoveryIsAlone'
  BY <1>1 DEF RecoveryDone, Process, Start, Stop, Drained, Crash, IndInv, RecoveryIsAlone, Rows
<1> QED
  BY <1>1, <1>2, <1>3, <1>4, <1>5 DEF IndInv, QueueInv
-----------------------------------------------------------------------------
(* The empty database before the first start satisfies the invariant.      *)
LEMMA InitInv == Init => IndInv
<1> SUFFICES ASSUME Init PROVE IndInv
  OBVIOUS
<1> USE DEF Init, QueueInit
<1>1. BlankRequest \in Request
  BY TargetAssumption DEF BlankRequest, Request
<1>2. TypeOK
  BY <1>1 DEF TypeOK, QueueTypeOK, NoRow, PC, Terminal
<1>3. AttemptBudget /\ TargetExclusive
  BY MaxAttemptsAssumption DEF AttemptBudget, TargetExclusive, Rows, Outstanding
<1>4. CapsHold
  <2>1. \A p \in Plugin : Running(p) = {}
    BY DEF Running, Rows
  <2>2. Cardinality({}) = 0
    BY FS_EmptySet
  <2>3. \A p \in Plugin : 0 <= Parallelism[p]
    BY ParallelismAssumption
  <2>4. PluginCap
    BY <2>1, <2>2, <2>3 DEF PluginCap
  <2> QED
    BY <2>4 DEF CapsHold
<1>5. WorkersHoldRows /\ SingleWorker /\ RecoveryIsAlone
  BY DEF WorkersHoldRows, SingleWorker, RecoveryIsAlone, Active
<1> QED
  BY <1>2, <1>3, <1>4, <1>5 DEF IndInv

(* So does every state that differs in nothing the model sees.             *)
LEMMA StutterInv == IndInv /\ UNCHANGED vars => IndInv'
<1> SUFFICES ASSUME IndInv, UNCHANGED vars PROVE IndInv'
  OBVIOUS
<1>1. UNCHANGED <<queueVars, procVars, schedVars, fillVars, workVars, recoVars>>
  BY DEF vars
<1>2. QueueInv' /\ NoNewRunning /\ attempt' = attempt /\ status' = status
  BY <1>1, UnchangedKeeps DEF IndInv, TypeOK, QueueInv
<1>3. TypeOK'
  BY <1>1, <1>2 DEF IndInv, TypeOK, QueueInv, procVars, schedVars, fillVars, workVars, recoVars
<1>4. QuietMoves /\ OthersWait
  BY <1>1, <1>2 DEF QuietMoves, OthersWait, procVars, schedVars
<1> QED
  BY <1>2, <1>3, <1>4, QuietStep

(* Every step of every actor preserves the invariant.                      *)
LEMMA NextInv == IndInv /\ [Next]_vars => IndInv'
<1> SUFFICES ASSUME IndInv, Next PROVE IndInv'
  BY StutterInv
<1>1. CASE Produce
  BY <1>1, IngressStep, ScheduleSteps, PruneStep DEF Produce
<1>2. CASE \E j \in JobId : RetryDue(j)
  BY <1>2, RetryDueStep
<1>3. CASE Fill
  BY <1>3, FillSteps, ClaimStep DEF Fill
<1>4. ASSUME NEW w \in Worker, WorkerNext(w) PROVE IndInv'
  BY <1>4, ExecuteSteps, EnqueueSteps, EndSteps, WorkerDoneStep DEF WorkerNext
<1>5. CASE Recovery
  BY <1>5, RecoverySteps, ProcessSteps DEF Recovery
<1>6. CASE Process
  BY <1>6, ProcessSteps
<1> QED
  BY <1>1, <1>2, <1>3, <1>4, <1>5, <1>6 DEF Next

(* IndInv is an invariant of Dispatch.                                     *)
THEOREM Invariance == Spec => []IndInv
BY InitInv, NextInv, PTL DEF Spec

(* Type correctness, for every value of the constants.                     *)
THEOREM TypeCorrect == Spec => []TypeOK
<1>1. IndInv => TypeOK
  BY DEF IndInv
<1> QED
  BY <1>1, Invariance, PTL

(* Jobs with the same dedupe key and target never run side by side.        *)
THEOREM KeysExclude == Spec => []TargetExclusive
<1>1. IndInv => TargetExclusive
  BY DEF IndInv
<1> QED
  BY <1>1, Invariance, PTL

(* No plugin has more running rows than its parallelism.                   *)
THEOREM LanesCapped == Spec => []PluginCap
<1>1. IndInv => PluginCap
  BY DEF IndInv, CapsHold
<1> QED
  BY <1>1, Invariance, PTL

(* DequeueEligible never meets an attempt that was claimed before.         *)
THEOREM AttemptsFresh == Spec => []FreshAttempt
<1>1. IndInv => FreshAttempt
  BY DEF IndInv, AttemptBudget, FreshAttempt, Rows
<1> QED
  BY <1>1, Invariance, PTL

(* Retries and recovery together stay within max_attempts.                 *)
THEOREM AttemptsBounded == Spec => []ClaimsBounded
<1>1. IndInv => ClaimsBounded
  BY DEF IndInv, AttemptBudget, ClaimsBounded
<1> QED
  BY <1>1, Invariance, PTL

(* No job is executed by two workers.                                      *)
THEOREM OneWorkerPerJob == Spec => []SingleWorker
<1>1. IndInv => SingleWorker
  BY DEF IndInv
<1> QED
  BY <1>1, Invariance, PTL

-----------------------------------------------------------------------------
(***************************************************************************)
(* The facts of a job agree with its row; and if no schedule cancels, then *)
(* results are final and Dispatch implements JobLifecycle.                 *)
(*                                                                         *)
(* Every step is classified by what it does to the rows and their facts    *)
(* (Moves); the theorems follow from the classification.                   *)
(***************************************************************************)
(* The latest fact of a row is its status, and outlives the row.           *)
FactInv ==
    \A j \in JobId :
        /\ status[j] # "gone" => fact[j] = status[j]
        /\ status[j] = "gone" => fact[j] \in Terminal

NoCancel == \A r \in Scheduled : Policy[r] # "cancel"

(* Without cancellation a worker's row is running until the worker itself  *)
(* moves it.                                                               *)
WorkersRun ==
    /\ spc # "cancel"
    /\ \A w \in Worker : pc[w] \in Active => status[wjob[w]] = "running"

(* What a step may do to the rows: prune some that are finished, ...       *)
Prunes ==
    /\ fact' = fact /\ claims' = claims
    /\ \A j \in JobId : \/ status'[j] = status[j]
                        \/ status[j] \in Terminal /\ status'[j] = "gone"

Sets(j, s) == status' = [status EXCEPT ![j] = s] /\ fact' = [fact EXCEPT ![j] = s]

(* ... or move one on: submitted, claimed, given back or finished.         *)
Submits(j) == status[j] = "none" /\ Sets(j, "queued") /\ claims' = claims

Claims(j) ==
    /\ status[j] = "queued" /\ Sets(j, "running")
    /\ claims' = [claims EXCEPT ![j] = @ \cup {attempt[j]}]

GivesBack(j) ==
    /\ status[j] = "running" /\ attempt[j] < MaxAttempts
    /\ Sets(j, "queued") /\ claims' = claims

Finishes(j, s) == status[j] = "running" /\ Sets(j, s) /\ claims' = claims

Moves ==
    \/ Prunes
    \/ \E j \in JobId :
          Submits(j) \/ Claims(j) \/ GivesBack(j) \/ \E s \in Terminal : Finishes(j, s)

LifeInv == IndInv /\ FactInv /\ WorkersRun
-----------------------------------------------------------------------------
(* The facts, whether or not schedules cancel.                             *)

(* A step that changes no status, or that writes statuses together with    *)
(* their facts, or that prunes, keeps the facts in agreement.              *)
LEMMA FactStep == IndInv /\ FactInv /\ [Next]_vars => FactInv'
<1> SUFFICES ASSUME IndInv, FactInv, [Next]_vars PROVE FactInv'
  OBVIOUS
<1>t. QueueTypeOK
  BY DEF IndInv, TypeOK
<1>0. ASSUME UNCHANGED queueVars PROVE FactInv'
  BY <1>0 DEF queueVars, FactInv
<1>i. ASSUME NEW r, InsertJob(r) PROVE FactInv'
  BY <1>0, <1>i, <1>t DEF InsertJob, FactInv, QueueTypeOK
<1>c. ASSUME NEW j \in JobId, NEW s \in Terminal, CompleteWithResult(j, s) PROVE FactInv'
  BY <1>c, <1>t DEF CompleteWithResult, FactInv, QueueTypeOK, Terminal
<1>u. ASSUME NEW j \in JobId, NEW s \in {"queued", "dead"}, NEW a, NEW b,
             UpdateJobForRecovery(j, s, a, b)
      PROVE FactInv'
  BY <1>u, <1>t DEF UpdateJobForRecovery, FactInv, QueueTypeOK
<1>1. CASE Produce
  <2>1. ASSUME NEW r, IngressEnqueue(r) \/ CatchUpEnqueue(r) PROVE FactInv'
    BY <2>1, <1>i DEF IngressEnqueue, CatchUpEnqueue
  <2>2. ASSUME NEW r \in Scheduled, ScheduleDue(r) PROVE FactInv'
    BY <2>2, <1>0 DEF ScheduleDue
  <2>3. CASE ScheduleStep
    <3>1. ASSUME CancelOutstandingJobs(sched.plugin, sched.command) PROVE FactInv'
      BY <3>1, <1>t DEF CancelOutstandingJobs, FactInv, QueueTypeOK, OutstandingOf, Rows,
                        Outstanding
    <3> QED
      BY <2>3, <3>1, <1>0, <1>i DEF ScheduleStep, ScheduleCancel, ScheduleLookup, ScheduleInsert
  <2>4. ASSUME NEW old \in SUBSET JobId, TickPrune(old) PROVE FactInv'
    BY <2>4, <1>t DEF TickPrune, PruneJobQueue, FactInv, QueueTypeOK, Terminal
  <2> QED
    BY <1>1, <2>1, <2>2, <2>3, <2>4 DEF Produce
<1>2. ASSUME NEW j \in JobId, RetryDue(j) PROVE FactInv'
  BY <1>2 DEF RetryDue, RetryTimeReached, FactInv
<1>3. CASE Fill
  <2>1. ASSUME NEW w \in Worker, NEW j \in JobId, ClaimJob(w, j) PROVE FactInv'
    BY <2>1, <1>t DEF ClaimJob, DequeueEligible, FactInv, QueueTypeOK
  <2> QED
    BY <1>3, <2>1, <1>0 DEF Fill, LoadRunningCounts, ClaimNothing
<1>4. ASSUME NEW w \in Worker, WorkerNext(w) PROVE FactInv'
  <2>1. ASSUME ScheduleRetry(w) \/ Complete(w) PROVE FactInv'
    <3>1. wjob[w] \in JobId /\ outcome[w] \in Terminal
      BY <2>1 DEF ScheduleRetry, Complete, Step, Active, IndInv, WorkersHoldRows, TypeOK
    <3> QED
      BY <2>1, <3>1, <1>0, <1>c, <1>u DEF ScheduleRetry, Complete
  <2>2. ASSUME NEW r \in left[w], RouteNext(w, r) \/ HookNext(w, r) PROVE FactInv'
    BY <2>2, <1>0, <1>i DEF RouteNext, HookNext, Enqueue
  <2> QED
    BY <1>4, <2>1, <2>2, <1>0 DEF WorkerNext, ExecuteBroken, ExecuteDone, ExecuteFailed,
       RouteBroken, RouteDone, HookDone, WorkerDone
<1>5. CASE Recovery
  <2>1. ASSUME NEW j \in todo, RecoverRequeue(j) \/ RecoverMarkDead(j) PROVE FactInv'
    <3>1. j \in JobId
      BY DEF IndInv, TypeOK
    <3> QED
      BY <2>1, <3>1, <1>0, <1>u DEF RecoverRequeue, RecoverMarkDead
  <2>2. ASSUME RecoverComplete PROVE FactInv'
    <3>1. dying \in JobId /\ "dead" \in Terminal
      BY <2>2 DEF RecoverComplete, IndInv, RecoveryIsAlone, Terminal
    <3> QED
      BY <2>2, <3>1, <1>0, <1>c DEF RecoverComplete
  <2>3. ASSUME NEW r \in rleft, RecoverHook(r) PROVE FactInv'
    BY <2>3, <1>0, <1>i DEF RecoverHook
  <2> QED
    BY <1>5, <2>1, <2>2, <2>3, <1>0 DEF Recovery, RecoverNext, RecoveryDone
<1>6. CASE Process
  BY <1>6, <1>0 DEF Process, Start, Stop, Drained, Crash
<1>7. CASE UNCHANGED vars
  BY <1>7, <1>0 DEF vars
<1> QED
  BY <1>1, <1>2, <1>3, <1>4, <1>5, <1>6, <1>7 DEF Next

(* The status of a row is that of its latest transition, for every         *)
(* configuration: GetJobLineage never sees them differ.                    *)
THEOREM RowsAgreeWithFacts == Spec => []FactsAgree
<1>1. Init => FactInv
  BY DEF Init, QueueInit, FactInv
<1>2. FactInv => FactsAgree
  BY DEF FactInv, FactsAgree, Rows
<1> QED
  BY <1>1, <1>2, FactStep, Invariance, PTL DEF Spec
-----------------------------------------------------------------------------
(* Without cancellation.                                                   *)

(* A step that leaves running rows and the workers alone.                  *)
KeepsRunning ==
    /\ \A j \in JobId : status[j] = "running" => status'[j] = "running"
    /\ pc' = pc /\ wjob' = wjob

(* An insertion submits a job, or changes nothing.                         *)
LEMMA InsertMoves ==
  ASSUME QueueTypeOK, NEW r, InsertJob(r)
  PROVE  Moves /\ \A j \in JobId : status[j] = "running" => status'[j] = "running"
<1>1. CASE SourceEventConflict(r)
  BY <1>1 DEF InsertJob, queueVars, Moves, Prunes
<1>2. CASE ~SourceEventConflict(r)
  <2>1. PICK j \in JobId : FreeId(j) /\ Sets(j, "queued") /\ claims' = claims
    BY <1>2 DEF InsertJob, Sets
  <2> QED
    BY <2>1 DEF FreeId, Moves, Submits, Sets, QueueTypeOK
<1> QED
  BY <1>1, <1>2

(* What the producers, time and the dispatch loop do.                      *)
LEMMA OthersMove ==
  ASSUME NoCancel, LifeInv, Produce \/ (\E j \in JobId : RetryDue(j)) \/ Fill
  PROVE  Moves /\ WorkersRun'
<1>t. QueueTypeOK
  BY DEF LifeInv, IndInv, TypeOK
<1>f. FactInv /\ WorkersRun
  BY DEF LifeInv
<1>w. \A w \in Worker : pc[w] \in Active => wjob[w] \in JobId
  BY DEF LifeInv, IndInv, WorkersHoldRows
<1>k. ASSUME KeepsRunning, spc' # "cancel" PROVE WorkersRun'
  BY <1>k, <1>f, <1>w DEF KeepsRunning, WorkersRun
<1>0. ASSUME status' = status, fact' = fact, claims' = claims PROVE Moves
  BY <1>0 DEF Moves, Prunes
<1>i. ASSUME NEW r, InsertJob(r)
      PROVE  Moves /\ \A j \in JobId : status[j] = "running" => status'[j] = "running"
  BY <1>i, <1>t, InsertMoves
<1>1. CASE Produce
  <2>1. ASSUME NEW r, IngressEnqueue(r) \/ CatchUpEnqueue(r) PROVE Moves /\ WorkersRun'
    BY <2>1, <1>i, <1>k, <1>f DEF IngressEnqueue, CatchUpEnqueue, KeepsRunning, schedVars, workVars, WorkersRun
  <2>2. ASSUME NEW r \in Scheduled, ScheduleDue(r) PROVE Moves /\ WorkersRun'
    BY <2>2, <1>0, <1>k DEF ScheduleDue, SchedulerAt, NoCancel, KeepsRunning, queueVars, workVars
  <2>3. CASE ScheduleStep
    <3>1. ~ScheduleCancel
      BY <1>f DEF ScheduleCancel, SchedulerAt, ScheduleEnd, WorkersRun
    <3>2. ASSUME ScheduleLookup PROVE Moves /\ WorkersRun'
      BY <3>2, <1>0, <1>k DEF ScheduleLookup, SchedulerAt, ScheduleEnd, KeepsRunning,
         queueVars, workVars
    <3>3. ASSUME ScheduleInsert PROVE Moves /\ WorkersRun'
      <4>1. spc' # "cancel" /\ pc' = pc /\ wjob' = wjob
        BY <3>3 DEF ScheduleInsert, SchedulerAt, ScheduleEnd, workVars
      <4>2. CASE InsertJob(sched)
        BY <4>1, <4>2, <1>i, <1>k DEF KeepsRunning
      <4>3. CASE UNCHANGED queueVars
        BY <4>1, <4>3, <1>0, <1>k DEF KeepsRunning, queueVars
      <4> QED
        BY <3>3, <4>2, <4>3 DEF ScheduleInsert
    <3> QED
      BY <2>3, <3>1, <3>2, <3>3 DEF ScheduleStep
  <2>4. ASSUME NEW old \in SUBSET JobId, TickPrune(old) PROVE Moves /\ WorkersRun'
    <3>1. Prunes /\ KeepsRunning /\ spc' = spc
      BY <2>4, <1>t DEF TickPrune, PruneJobQueue, Prunes, KeepsRunning, schedVars, workVars,
         Terminal, QueueTypeOK
    <3> QED
      BY <3>1, <1>k, <1>f DEF Moves, WorkersRun
  <2> QED
    BY <1>1, <2>1, <2>2, <2>3, <2>4 DEF Produce
<1>2. ASSUME NEW j \in JobId, RetryDue(j) PROVE Moves /\ WorkersRun'
  BY <1>2, <1>0, <1>k, <1>f DEF RetryDue, RetryTimeReached, KeepsRunning, schedVars, workVars,
     WorkersRun
<1>3. CASE Fill
  <2>1. ASSUME NEW w \in Worker, NEW j \in JobId, ClaimJob(w, j) PROVE Moves /\ WorkersRun'
    <3>1. /\ status[j] = "queued" /\ Sets(j, "running") /\ Claims(j)
          /\ spc' = spc /\ pc' = [pc EXCEPT ![w] = "exec"] /\ wjob' = [wjob EXCEPT ![w] = j]
      BY <2>1 DEF ClaimJob, DequeueEligible, NextCandidate, Eligible, Rows, Sets, Claims, Step,
         schedVars
    <3>2. WorkersRun'
      BY <3>1, <1>f, <1>t, <1>w DEF WorkersRun, Sets, QueueTypeOK, LifeInv, IndInv, TypeOK
    <3> QED
      BY <3>1, <3>2 DEF Moves
  <2>2. ASSUME LoadRunningCounts \/ ClaimNothing PROVE Moves /\ WorkersRun'
    BY <2>2, <1>0, <1>k, <1>f DEF LoadRunningCounts, ClaimNothing, KeepsRunning, queueVars,
       schedVars, workVars, WorkersRun
  <2> QED
    BY <1>3, <2>1, <2>2 DEF Fill
<1> QED
  BY <1>1, <1>2, <1>3

(* What a worker does: its row is running, and nobody else's.              *)
LEMMA WorkerMoves ==
  ASSUME LifeInv, NEW w \in Worker, WorkerNext(w)
  PROVE  Moves /\ WorkersRun'
<1>t. QueueTypeOK /\ pc \in [Worker -> PC] /\ wjob \in [Worker -> JobId \cup {NoJob}]
  BY DEF LifeInv, IndInv, TypeOK
<1>f. FactInv /\ WorkersRun /\ SingleWorker
  BY DEF LifeInv, IndInv
<1>w. \A v \in Worker : pc[v] \in Active => wjob[v] \in JobId
  BY DEF LifeInv, IndInv, WorkersHoldRows
<1>0. ASSUME status' = status, fact' = fact, claims' = claims PROVE Moves
  BY <1>0 DEF Moves, Prunes
<1>i. ASSUME NEW r, InsertJob(r)
      PROVE  Moves /\ \A j \in JobId : status[j] = "running" => status'[j] = "running"
  BY <1>i, <1>t, InsertMoves
<1>1. ASSUME NEW r \in left[w], RouteNext(w, r) \/ HookNext(w, r) PROVE Moves /\ WorkersRun'
  <2>1. spc' = spc /\ pc' = pc /\ wjob' = wjob /\ (InsertJob(r) \/ UNCHANGED queueVars)
    BY <1>1 DEF RouteNext, HookNext, Enqueue, schedVars
  <2>2. Moves /\ \A j \in JobId : status[j] = "running" => status'[j] = "running"
    BY <2>1, <1>0, <1>i DEF queueVars
  <2> QED
    BY <2>1, <2>2, <1>f, <1>w DEF WorkersRun
<1>2. ASSUME ScheduleRetry(w) \/ Complete(w) PROVE Moves /\ WorkersRun'
  <2>1. /\ pc[w] \in Active /\ wjob[w] \in JobId /\ status[wjob[w]] = "running"
        /\ outcome[w] \in Terminal /\ wattempt[w] = attempt[wjob[w]]
        /\ pc[w] = "retry" => attempt[wjob[w]] < MaxAttempts
        /\ spc' = spc /\ wjob' = wjob
    BY <1>2, <1>f DEF ScheduleRetry, Complete, Step, Active, WorkersRun, LifeInv, IndInv, TypeOK,
       WorkersHoldRows, schedVars
  <2>2. CASE UNCHANGED queueVars
    <3>1. Moves /\ status' = status
      BY <2>2, <1>0 DEF queueVars
    <3>2. \E to \in {"done", "finish"} : pc' = [pc EXCEPT ![w] = to]
      BY <1>2 DEF ScheduleRetry, Complete, Step
    <3> QED
      BY <2>1, <3>1, <3>2, <1>f, <1>t DEF WorkersRun, Active
  <2>3. CASE ~UNCHANGED queueVars
    <3>1. /\ pc' = [pc EXCEPT ![w] = "done"]
          /\ GivesBack(wjob[w]) \/ Finishes(wjob[w], outcome[w])
      BY <1>2, <2>1, <2>3 DEF ScheduleRetry, Complete, Step, UpdateJobForRecovery,
         CompleteWithResult, GivesBack, Finishes, Sets
    <3>2. \A j \in JobId : j # wjob[w] => status'[j] = status[j]
      BY <3>1, <1>t DEF GivesBack, Finishes, Sets, QueueTypeOK
    <3>3. \A v \in Worker : pc'[v] \in Active => v # w /\ pc[v] \in Active
      BY <3>1, <1>t DEF Active
    <3>4. \A v \in Worker : v # w /\ pc[v] \in Active => wjob[v] # wjob[w]
      BY <2>1, <1>f DEF SingleWorker
    <3>5. WorkersRun'
      BY <2>1, <3>2, <3>3, <3>4, <1>f, <1>w DEF WorkersRun
    <3> QED
      BY <2>1, <3>1, <3>5 DEF Moves
  <2> QED
    BY <2>2, <2>3
<1>3. ASSUME \/ ExecuteBroken(w) \/ RouteBroken(w) \/ RouteDone(w) \/ HookDone(w)
             \/ \E next \in SUBSET Routed :
                   ExecuteDone(w, "succeeded", next) \/ ExecuteDone(w, "skipped", next)
             \/ \E s \in Failures, retryable \in BOOLEAN : ExecuteFailed(w, s, retryable)
      PROVE Moves /\ WorkersRun'
  <2>1. /\ pc[w] \in Active /\ UNCHANGED <<queueVars, schedVars, wjob>>
        /\ \E to \in Active : pc' = [pc EXCEPT ![w] = to]
    BY <1>3 DEF ExecuteBroken, RouteBroken, RouteDone, HookDone, ExecuteDone, ExecuteFailed,
       Step, Active
  <2> QED
    BY <2>1, <1>0, <1>f, <1>t DEF queueVars, schedVars, WorkersRun
<1>4. ASSUME WorkerDone(w) PROVE Moves /\ WorkersRun'
  <2>1. /\ UNCHANGED <<queueVars, schedVars>>
        /\ pc' = [pc EXCEPT ![w] = "idle"] /\ wjob' = [wjob EXCEPT ![w] = NoJob]
    BY <1>4 DEF WorkerDone, Step
  <2> QED
    BY <2>1, <1>0, <1>f, <1>t DEF queueVars, schedVars, WorkersRun, Active
<1> QED
  BY <1>1, <1>2, <1>3, <1>4 DEF WorkerNext

(* What recovery, starts, stops and crashes do: no worker is active, or    *)
(* the rows stay as they are.                                              *)
LEMMA ProcessMoves ==
  ASSUME LifeInv, Recovery \/ Process
  PROVE  Moves /\ WorkersRun'
<1>t. QueueTypeOK /\ FactInv /\ WorkersRun
  BY DEF LifeInv, IndInv, TypeOK
<1>0. ASSUME UNCHANGED queueVars PROVE Moves
  BY <1>0 DEF Moves, Prunes, queueVars
<1>1. CASE Recovery
  <2>1. phase = "recovering"
    BY <1>1 DEF Recovery, RecoverRequeue, RecoverMarkDead, RecoverComplete, RecoverHook,
       RecoverNext, RecoveryDone, LifeInv, IndInv, RecoveryIsAlone
  <2>2. WorkersRun'
    <3>1. spc = "idle" /\ \A w \in Worker : pc[w] = "idle"
      BY <2>1 DEF LifeInv, IndInv, RecoveryIsAlone
    <3>2. spc' = spc /\ pc' = pc
      BY <1>1 DEF Recovery, RecoverRequeue, RecoverMarkDead, RecoverComplete, RecoverHook,
         RecoverNext, RecoveryDone, schedVars, workVars
    <3> QED
      BY <3>1, <3>2 DEF WorkersRun, Active
  <2>3. ASSUME NEW j \in todo, RecoverRequeue(j) \/ RecoverMarkDead(j) PROVE Moves
    <3>1. j \in JobId /\ status[j] = "running" /\ attempt[j] \in Nat
      BY DEF LifeInv, IndInv, TypeOK, QueueTypeOK, RecoveryIsAlone
    <3>2. CASE UNCHANGED queueVars
      BY <3>2, <1>0
    <3>3. CASE ~UNCHANGED queueVars
      <4>1. \/ attempt[j] + 1 <= MaxAttempts /\ Sets(j, "queued") /\ claims' = claims
            \/ Sets(j, "dead") /\ claims' = claims
        BY <2>3, <3>3 DEF RecoverRequeue, RecoverMarkDead, UpdateJobForRecovery, Sets
      <4>2. attempt[j] + 1 <= MaxAttempts => attempt[j] < MaxAttempts
        BY <3>1, MaxAttemptsAssumption
      <4> QED
        BY <3>1, <4>1, <4>2 DEF Moves, GivesBack, Finishes, Terminal
    <3> QED
      BY <3>2, <3>3
  <2>4. ASSUME RecoverComplete PROVE Moves
    <3>1. dying \in JobId /\ status[dying] = "dead" /\ fact[dying] = "dead"
      BY <2>4, <1>t DEF RecoverComplete, LifeInv, IndInv, RecoveryIsAlone, FactInv
    <3>2. CASE UNCHANGED queueVars
      BY <3>2, <1>0
    <3>3. CASE CompleteWithResult(dying, "dead")
      BY <3>1, <3>3, <1>t DEF CompleteWithResult, Moves, Prunes, QueueTypeOK
    <3> QED
      BY <2>4, <3>2, <3>3 DEF RecoverComplete
  <2>5. ASSUME NEW r \in rleft, RecoverHook(r) PROVE Moves
    BY <2>5, <1>0, <1>t, InsertMoves DEF RecoverHook
  <2> QED
    BY <1>1, <2>2, <2>3, <2>4, <2>5, <1>0 DEF Recovery, RecoverNext, RecoveryDone
<1>2. CASE Start \/ Stop \/ Drained
  BY <1>2, <1>0, <1>t DEF Start, Stop, Drained, WorkersRun, queueVars, schedVars, workVars
<1>3. CASE Crash
  BY <1>3, <1>0 DEF Crash, WorkersRun, Active
<1> QED
  BY <1>1, <1>2, <1>3 DEF Process

(* Every step is one of the moves, and keeps the invariant.                *)
LEMMA LifeStep ==
  ASSUME NoCancel, LifeInv, [Next]_vars
  PROVE  Moves /\ LifeInv'
<1>1. IndInv' /\ FactInv'
  BY NextInv, FactStep DEF LifeInv
<1>2. CASE UNCHANGED vars
  <2>1. UNCHANGED <<queueVars, schedVars, workVars>>
    BY <1>2 DEF vars
  <2>2. UNCHANGED <<status, fact, claims, spc, pc, wjob>>
    BY <2>1 DEF queueVars, schedVars, workVars
  <2>3. Moves
    BY <2>2 DEF Moves, Prunes
  <2>4. WorkersRun'
    BY <2>2 DEF LifeInv, WorkersRun
  <2> QED
    BY <1>1, <2>3, <2>4 DEF LifeInv
<1>3. CASE Next
  <2>1. ASSUME NEW w \in Worker, WorkerNext(w) PROVE Moves /\ WorkersRun'
    BY <2>1, WorkerMoves
  <2>2. ASSUME Produce \/ (\E j \in JobId : RetryDue(j)) \/ Fill PROVE Moves /\ WorkersRun'
    BY <2>2, OthersMove
  <2>3. ASSUME Recovery \/ Process PROVE Moves /\ WorkersRun'
    BY <2>3, ProcessMoves
  <2>4. Moves /\ WorkersRun'
    BY <1>3, <2>1, <2>2, <2>3 DEF Next
  <2> QED
    BY <1>1, <2>4 DEF LifeInv
<1> QED
  BY <1>2, <1>3

(* Initially nobody works.                                                 *)
LEMMA LifeInit == Init => LifeInv
<1>1. Init => FactInv /\ WorkersRun
  BY DEF Init, QueueInit, FactInv, WorkersRun, Active
<1> QED
  BY <1>1, InitInv DEF LifeInv

(* As long as no schedule cancels, a terminal status is never left but by  *)
(* pruning the row: no retry, recovery or late completion revives a job.   *)
THEOREM ResultsAreFinal == ASSUME NoCancel PROVE Spec => TerminalIsFinal
<1>1. LifeInv /\ Moves => \A j \in Rows(Terminal) : status'[j] \in {status[j], "gone"}
  <2> SUFFICES ASSUME LifeInv, Moves, NEW j \in JobId, status[j] \in Terminal
               PROVE  status'[j] \in {status[j], "gone"}
    BY DEF Rows
  <2> QED
    BY DEF LifeInv, IndInv, TypeOK, QueueTypeOK, Moves, Prunes, Submits, Claims, GivesBack,
       Finishes, Sets, Terminal
<1>2. LifeInv /\ [Next]_vars => Moves /\ LifeInv'
  BY LifeStep
<1> QED
  BY <1>1, <1>2, LifeInit, PTL DEF Spec, TerminalIsFinal
-----------------------------------------------------------------------------
(* The claims of a job are its used attempts.                              *)
LEMMA ClaimsCount ==
  ASSUME IndInv, NEW j \in JobId
  PROVE  /\ IsFiniteSet(claims[j]) /\ Cardinality(claims[j]) \in Nat
         /\ status[j] \in Outstanding /\ attempt[j] < MaxAttempts
               => Cardinality(claims[j]) < MaxAttempts
         /\ status[j] = "queued" =>
               /\ Cardinality(claims[j]) < MaxAttempts
               /\ Cardinality(claims[j] \cup {attempt[j]}) = Cardinality(claims[j]) + 1
<1>1. /\ attempt[j] \in Nat /\ attempt[j] >= 1 /\ claims[j] \subseteq 1..attempt[j]
      /\ status[j] = "queued" => attempt[j] <= MaxAttempts /\ attempt[j] \notin claims[j]
  BY DEF IndInv, TypeOK, QueueTypeOK, AttemptBudget, Outstanding
<1>2. MaxAttempts \in Nat
  BY MaxAttemptsAssumption
<1>3. \A n \in Nat : IsFiniteSet(1..n) /\ Cardinality(1..n) = n
  BY FS_Interval
<1>4. IsFiniteSet(claims[j]) /\ Cardinality(claims[j]) \in Nat
  BY <1>1, <1>3, FS_Subset, FS_CardinalityType
<1>5. Cardinality(claims[j]) <= attempt[j]
  <2>1. Cardinality(claims[j]) <= Cardinality(1..attempt[j])
    BY <1>1, <1>3, FS_Subset
  <2> QED
    BY <1>1, <1>3, <2>1
<1>6. ASSUME status[j] = "queued"
      PROVE  /\ Cardinality(claims[j]) < MaxAttempts
             /\ Cardinality(claims[j] \cup {attempt[j]}) = Cardinality(claims[j]) + 1
  <2>1. Cardinality(claims[j] \cup {attempt[j]}) = Cardinality(claims[j]) + 1
    BY <1>1, <1>4, <1>6, FS_AddElement
  <2>2. claims[j] \cup {attempt[j]} \subseteq 1..attempt[j]
    BY <1>1
  <2>3. Cardinality(claims[j] \cup {attempt[j]}) <= Cardinality(1..attempt[j])
    BY <1>1, <1>3, <2>2, FS_Subset
  <2> QED
    BY <1>1, <1>2, <1>3, <1>4, <1>6, <2>1, <2>3
<1> QED
  BY <1>1, <1>2, <1>4, <1>5, <1>6

(* Every move is a step of the life cycle, or none.                        *)
LEMMA MovesRefine ==
  ASSUME LifeInv, Moves
  PROVE  [Life!LifeNext]_(Life!lifeVars)
<1>t. /\ fact \in [JobId -> Status \cup NoRow] /\ claims \in [JobId -> SUBSET Nat]
      /\ \A j \in JobId : status[j] # "gone" => fact[j] = status[j]
  BY DEF LifeInv, IndInv, TypeOK, QueueTypeOK, FactInv
<1>1. CASE Prunes
  BY <1>1 DEF Prunes, Life!lifeVars
<1>2. ASSUME NEW j \in JobId, Submits(j) PROVE Life!LifeNext
  <2>1. Life!Submit(j)
    BY <1>2, <1>t DEF Submits, Sets, Life!Submit, Life!Move, Stage
  <2> QED
    BY <2>1 DEF Life!LifeNext
<1>3. ASSUME NEW j \in JobId, Claims(j) PROVE Life!LifeNext
  <2>1. Life!Claim(j)
    BY <1>3, <1>t, ClaimsCount DEF Claims, Sets, Life!Claim, Life!Move, Stage, LifeInv
  <2> QED
    BY <2>1 DEF Life!LifeNext
<1>4. ASSUME NEW j \in JobId, GivesBack(j) PROVE Life!LifeNext
  <2>1. Life!Release(j)
    BY <1>4, <1>t, ClaimsCount DEF GivesBack, Sets, Life!Release, Life!Move, Stage, LifeInv,
       Outstanding
  <2> QED
    BY <2>1 DEF Life!LifeNext
<1>5. ASSUME NEW j \in JobId, NEW s \in Terminal, Finishes(j, s) PROVE Life!LifeNext
  <2>1. Life!Finish(j, s)
    BY <1>5, <1>t DEF Finishes, Sets, Life!Finish, Life!Move, Stage, Terminal
  <2> QED
    BY <2>1 DEF Life!LifeNext
<1> QED
  BY <1>1, <1>2, <1>3, <1>4, <1>5 DEF Moves

(* As long as no schedule cancels, queue, dispatcher, scheduler, crashes   *)
(* and recovery together implement the life cycle of a job.                *)
THEOREM Refinement == ASSUME NoCancel PROVE Spec => LifeCycle
<1>1. Init => Life!LifeInit
  <2>1. Cardinality({}) = 0
    BY FS_EmptySet
  <2> QED
    BY <2>1 DEF Init, QueueInit, Life!LifeInit, Stage
<1>2. LifeInv /\ [Next]_vars => [Life!LifeNext]_(Life!lifeVars) /\ LifeInv'
  BY LifeStep, MovesRefine
<1> QED
  BY <1>1, <1>2, LifeInit, PTL DEF Spec, LifeCycle, Life!LifeSpec

-----------------------------------------------------------------------------
(***************************************************************************)
(* What the dispatcher, the scheduler and recovery guarantee beyond the    *)
(* inductive invariant above: running rows are executed,                   *)
(* finished jobs are logged, trees stop growing, plugins and polls stay    *)
(* within their caps, and an event that is emitted again has one child.    *)
(***************************************************************************)
(* As long as no transaction has failed, running rows are being executed   *)
(* or, while recovery runs, still to be recovered.                         *)
Executed(j) ==
    \E w \in Worker : pc[w] \in Active /\ wjob[w] = j /\ wattempt[w] = attempt[j]

RunInv ==
    faults = 0 =>
        /\ phase = "up" => \A j \in JobId : status[j] = "running" => Executed(j)
        /\ phase = "recovering" => \A j \in JobId : status[j] = "running" => j \in todo

(* A step that makes no row running and takes no active worker off its job.*)
QuietRun ==
    /\ \A j \in JobId :
          status'[j] = "running" => status[j] = "running" /\ attempt'[j] = attempt[j]
    /\ phase' = phase /\ (faults' = 0 => faults = 0) /\ todo' = todo
    /\ \A w \in Worker : pc[w] \in Active =>
          pc'[w] \in Active /\ wjob'[w] = wjob[w] /\ wattempt'[w] = wattempt[w]

(* A job is logged when it is completed, and only then.                    *)
LogInv ==
    \A j \in JobId :
        /\ completedAt[j] => fact[j] \in Terminal /\ <<attempt[j], fact[j]>> \in jobLog[j]
        /\ ~completedAt[j] => jobLog[j] = {}

(* What a worker still has to enqueue are children of its job, or hooks;   *)
(* only the scheduler overrides the dedupe TTL.                            *)
ChildInv ==
    /\ \A w \in Worker : \A r \in left[w] :
          /\ ~r.override
          /\ pc[w] \in {"route", "hook"}
          /\ pc[w] = "route" => r.parent = wjob[w]
          /\ pc[w] = "hook" => r.parent = NoJob
    /\ \A r \in rleft : r.parent = NoJob /\ ~r.override

(* How the table may grow: one request is inserted, as a child only by a   *)
(* worker that routes for its parent, with a TTL override only by the      *)
(* scheduler; any other step only changes rows that exist.                 *)
GrowsBy(r) ==
    /\ InsertJob(r)
    /\ r.parent # NoJob => \E w \in Worker : pc[w] = "route" /\ r.parent = wjob[w]
    /\ r.override => \/ spc = "insert" /\ spc' = "idle" /\ r = sched
                     \/ spc = "idle" /\ spc' = "idle" /\ r \in CatchUp

RowsStay ==
    /\ req' = req
    /\ \A j \in JobId : status[j] \in NoRow => status'[j] \in NoRow

(* The workers of a plugin that no schedule cancels keep running rows.     *)
NeverCancels(p) == \A r \in Scheduled : r.plugin = p => Policy[r] # "cancel"

LaneRuns(p) ==
    /\ spc = "cancel" => sched.plugin # p
    /\ \A w \in Worker :
          pc[w] \in Active /\ req[wjob[w]].plugin = p => status[wjob[w]] = "running"

(* No finished job of the plugin becomes outstanding again.                *)
NoRevival(p) ==
    \A j \in JobId : req[j].plugin = p /\ status[j] \notin Outstanding \cup {"none"}
        => status'[j] \notin Outstanding

(* From the decision to schedule a poll to its insertion there is room,    *)
(* what the catch-up has enqueued included.                                *)
PollRoom(p) ==
    /\ Cardinality(TickPolls(p)) <= MaxOutstandingPolls[p]
    /\ spc \in {"lookup", "insert"} /\ sched.plugin = p /\ sched.command = "poll"
          => Cardinality(ScheduledPolls(p)) < MaxOutstandingPolls[p]

PollInv == \A p \in Plugin : NeverCancels(p) => LaneRuns(p) /\ PollRoom(p)
-----------------------------------------------------------------------------
(* Running rows are executed.                                              *)

(* Quiet steps keep the workers on their rows.                             *)
LEMMA QuietRunKeeps ==
  ASSUME RunInv, QuietRun
  PROVE  RunInv'
BY DEF RunInv, QuietRun, Executed

(* An insertion makes no row running.                                      *)
LEMMA InsertIsQuiet ==
  ASSUME QueueTypeOK, NEW r, InsertJob(r)
  PROVE  /\ attempt' = attempt
         /\ \A j \in JobId : status'[j] = "running" => status[j] = "running"
BY DEF InsertJob, QueueTypeOK, queueVars

(* A process that does not fail counts no fault.                           *)
LEMMA FaultsGrow ==
  ASSUME TypeOK, Commits \/ Fails \/ NoRoom \/ Fault \/ UNCHANGED procVars
  PROVE  phase' = phase /\ (faults' = 0 => faults = 0)
BY DEF TypeOK, Commits, Fails, NoRoom, Fault, procVars

(* Producers, time, and a pass of fillWorkers that claims nothing.         *)
LEMMA ProducersAreQuiet ==
  ASSUME IndInv,
         Produce \/ (\E j \in JobId : RetryDue(j)) \/ LoadRunningCounts \/ ClaimNothing
  PROVE  QuietRun
<1>t. TypeOK /\ QueueTypeOK
  BY DEF IndInv, TypeOK
<1>w. ASSUME UNCHANGED <<workVars, recoVars>>, Commits \/ Fails \/ NoRoom \/ UNCHANGED procVars,
             attempt' = attempt,
             \A j \in JobId : status'[j] = "running" => status[j] = "running"
      PROVE  QuietRun
  BY <1>w, <1>t, FaultsGrow DEF QuietRun, workVars, recoVars
<1>0. UNCHANGED <<workVars, recoVars>> /\ (Commits \/ Fails \/ NoRoom \/ UNCHANGED procVars)
  BY DEF Produce, IngressEnqueue, CatchUpEnqueue, ScheduleDue, ScheduleStep, ScheduleCancel,
     ScheduleLookup, ScheduleInsert, TickPrune, RetryDue, LoadRunningCounts, ClaimNothing
<1>i. ASSUME NEW r, InsertJob(r) PROVE QuietRun
  BY <1>i, <1>0, <1>w, <1>t, InsertIsQuiet
<1>u. ASSUME status' = status, attempt' = attempt PROVE QuietRun
  BY <1>u, <1>0, <1>w
<1>1. ASSUME NEW r, IngressEnqueue(r) \/ CatchUpEnqueue(r) PROVE QuietRun
  BY <1>1, <1>i DEF IngressEnqueue, CatchUpEnqueue
<1>2. ASSUME ScheduleStep PROVE QuietRun
  <2>1. ASSUME CancelOutstandingJobs(sched.plugin, sched.command) PROVE QuietRun
    BY <2>1, <1>0, <1>w DEF CancelOutstandingJobs
  <2> QED
    BY <1>2, <2>1, <1>i, <1>u DEF ScheduleStep, ScheduleCancel, ScheduleLookup, ScheduleInsert,
       queueVars
<1>3. ASSUME NEW old \in SUBSET JobId, TickPrune(old) PROVE QuietRun
  BY <1>3, <1>0, <1>w DEF TickPrune, PruneJobQueue
<1>4. ASSUME \/ \E r \in Scheduled : ScheduleDue(r)
             \/ \E j \in JobId : RetryDue(j)
             \/ LoadRunningCounts \/ ClaimNothing
      PROVE QuietRun
  BY <1>4, <1>u DEF ScheduleDue, RetryDue, RetryTimeReached, LoadRunningCounts, ClaimNothing,
     queueVars
<1> QED
  BY <1>1, <1>2, <1>3, <1>4 DEF Produce

(* A worker leaves its job only with the row no longer running, unless a   *)
(* transaction fails.                                                      *)
LEMMA WorkerRuns ==
  ASSUME IndInv, RunInv, NEW w \in Worker, WorkerNext(w)
  PROVE  RunInv'
<1>t. TypeOK /\ QueueTypeOK /\ pc \in [Worker -> PC]
  BY DEF IndInv, TypeOK
<1>1. ASSUME NEW r \in left[w], RouteNext(w, r) \/ HookNext(w, r) PROVE RunInv'
  <2>1. /\ UNCHANGED <<pc, wjob, wattempt, recoVars>> /\ (Commits \/ Fails \/ NoRoom)
        /\ InsertJob(r) \/ UNCHANGED queueVars
    BY <1>1 DEF RouteNext, HookNext, Enqueue
  <2>2. attempt' = attempt /\ \A j \in JobId : status'[j] = "running" => status[j] = "running"
    BY <2>1, <1>t, InsertIsQuiet DEF queueVars
  <2> QED
    BY <2>1, <2>2, <1>t, FaultsGrow, QuietRunKeeps DEF QuietRun, recoVars
<1>2. ASSUME \/ ExecuteBroken(w) \/ RouteBroken(w) \/ RouteDone(w) \/ HookDone(w)
             \/ \E next \in SUBSET Routed :
                   ExecuteDone(w, "succeeded", next) \/ ExecuteDone(w, "skipped", next)
             \/ \E s \in Failures, retryable \in BOOLEAN : ExecuteFailed(w, s, retryable)
      PROVE RunInv'
  <2>1. /\ UNCHANGED <<queueVars, procVars, wjob, wattempt, recoVars>>
        /\ \E to \in Active : pc' = [pc EXCEPT ![w] = to]
    BY <1>2 DEF ExecuteBroken, RouteBroken, RouteDone, HookDone, ExecuteDone, ExecuteFailed,
       Step, Active
  <2>2. \A v \in Worker : pc[v] \in Active => pc'[v] \in Active
    BY <2>1, <1>t
  <2> QED
    BY <2>1, <2>2, QuietRunKeeps DEF QuietRun, queueVars, procVars, recoVars
<1>3. ASSUME WorkerDone(w) PROVE RunInv'
  <2>1. /\ UNCHANGED <<queueVars, procVars, recoVars>> /\ pc[w] = "done"
        /\ pc' = [pc EXCEPT ![w] = "idle"] /\ wjob' = [wjob EXCEPT ![w] = NoJob]
        /\ wattempt' = [wattempt EXCEPT ![w] = 0]
    BY <1>3 DEF WorkerDone, Step
  <2>2. \A v \in Worker : pc[v] \in Active =>
           pc'[v] \in Active /\ wjob'[v] = wjob[v] /\ wattempt'[v] = wattempt[v]
    BY <2>1, <1>t DEF Active, TypeOK
  <2> QED
    BY <2>1, <2>2, QuietRunKeeps DEF QuietRun, queueVars, procVars, recoVars
<1>4. ASSUME ScheduleRetry(w) \/ Complete(w) PROVE RunInv'
  <2>1. /\ UNCHANGED <<wjob, wattempt, recoVars>> /\ (Commits \/ Fails \/ RowMissing(wjob[w]))
        /\ pc[w] \in Active /\ wjob[w] \in JobId /\ outcome[w] \in Terminal
    BY <1>4 DEF ScheduleRetry, Complete, Step, Active, IndInv, WorkersHoldRows, TypeOK
  <2>2. phase' = phase /\ (faults' = 0 => faults = 0)
    BY <2>1, <1>t, FaultsGrow DEF RowMissing
  <2>3. \A v \in Worker : v # w /\ pc[v] \in Active => pc'[v] \in Active /\ wjob[v] # wjob[w]
    BY <1>4, <2>1, <1>t DEF ScheduleRetry, Complete, Step, IndInv, SingleWorker
  <2>4. CASE UNCHANGED queueVars
    <3>1. CASE pc'[w] \in Active
      BY <2>1, <2>2, <2>3, <2>4, <3>1, QuietRunKeeps DEF QuietRun, queueVars, recoVars
    <3>2. CASE status[wjob[w]] # "running" \/ phase # "up" \/ faults' # 0
      <4>1. phase # "recovering"
        BY <2>1 DEF IndInv, RecoveryIsAlone, Active
      <4>2. SUFFICES ASSUME faults' = 0, phase = "up", NEW j \in JobId, status[j] = "running"
                     PROVE  Executed(j)'
        BY <2>2, <2>4, <4>1 DEF RunInv, queueVars
      <4>3. j # wjob[w] /\ Executed(j)
        BY <2>2, <3>2, <4>2 DEF RunInv
      <4> QED
        BY <2>1, <2>3, <2>4, <4>3 DEF Executed, queueVars
    <3>3. CASE Commits /\ status[wjob[w]] \notin NoRow /\ ~(pc'[w] \in Active)
      <4>1. \E s \in Terminal \cup {"queued"} : status' = [status EXCEPT ![wjob[w]] = s]
        BY <1>4, <2>1, <3>3, <1>t DEF ScheduleRetry, Complete, Step, Active, UpdateJobForRecovery,
           CompleteWithResult, RowMissing, Commits, Fails, Fault, TypeOK, procVars
      <4>2. status[wjob[w]] # "running"
        BY <4>1, <2>1, <2>4, <1>t DEF QueueTypeOK, Terminal, queueVars
      <4> QED
        BY <3>2, <4>2
    <3>4. CASE Fails \/ status[wjob[w]] \in NoRow
      BY <3>2, <3>4, <1>t DEF Fails, Fault, NoRow, TypeOK
    <3> QED
      BY <2>1, <3>1, <3>3, <3>4 DEF RowMissing
  <2>5. CASE ~UNCHANGED queueVars
    <3>1. \E s \in Terminal \cup {"queued"} : status' = [status EXCEPT ![wjob[w]] = s]
      BY <1>4, <2>1, <2>5 DEF ScheduleRetry, Complete, UpdateJobForRecovery, CompleteWithResult
    <3>2. \A j \in JobId : j # wjob[w] => attempt'[j] = attempt[j]
      BY <1>4, <2>5, <1>t DEF ScheduleRetry, Complete, UpdateJobForRecovery, CompleteWithResult,
         QueueTypeOK
    <3>3. phase = "up"
      BY <1>4, <2>5 DEF ScheduleRetry, Complete, Commits
    <3>4. \A j \in JobId : status'[j] = "running" => j # wjob[w] /\ status[j] = "running"
      BY <2>1, <3>1, <1>t DEF QueueTypeOK, Terminal
    <3> QED
      BY <2>1, <2>2, <2>3, <3>2, <3>3, <3>4 DEF RunInv, Executed
  <2> QED
    BY <2>4, <2>5
<1> QED
  BY <1>1, <1>2, <1>3, <1>4 DEF WorkerNext

(* Recovery treats every running row before the dispatcher starts.         *)
LEMMA RecoveryRuns ==
  ASSUME IndInv, RunInv, Recovery \/ Process
  PROVE  RunInv'
<1>t. TypeOK /\ QueueTypeOK
  BY DEF IndInv, TypeOK
<1>1. ASSUME NEW j \in todo, RecoverRequeue(j) \/ RecoverMarkDead(j) PROVE RunInv'
  <2>1. phase = "recovering" /\ phase' = phase /\ todo' = todo \ {j} /\ j \in JobId
    BY <1>1, <1>t DEF RecoverRequeue, RecoverMarkDead, Fault, procVars, TypeOK
  <2>2. CASE faults' # 0
    BY <2>2 DEF RunInv
  <2>3. CASE faults' = 0
    <3>1. faults = 0 /\ \E s \in {"queued", "dead"} : status' = [status EXCEPT ![j] = s]
      BY <1>1, <2>3, <1>t DEF RecoverRequeue, RecoverMarkDead, UpdateJobForRecovery, Fault,
         procVars, TypeOK
    <3> QED
      BY <2>1, <3>1, <1>t DEF RunInv, QueueTypeOK
  <2> QED
    BY <2>2, <2>3
<1>2. ASSUME RecoverComplete \/ (\E r \in rleft : RecoverHook(r)) \/ RecoverNext PROVE RunInv'
  <2>1. UNCHANGED <<workVars, todo>> /\ (UNCHANGED procVars \/ Fault \/ NoRoom)
    BY <1>2 DEF RecoverComplete, RecoverHook, RecoverNext
  <2>2. attempt' = attempt /\ \A j \in JobId : status'[j] = "running" => status[j] = "running"
    <3>1. ASSUME RecoverComplete
          PROVE  attempt' = attempt
                 /\ \A j \in JobId : status'[j] = "running" => status[j] = "running"
      BY <3>1, <1>t DEF RecoverComplete, CompleteWithResult, QueueTypeOK, queueVars
    <3> QED
      BY <1>2, <3>1, <1>t, InsertIsQuiet DEF RecoverHook, RecoverNext, queueVars
  <2> QED
    BY <2>1, <2>2, <1>t, FaultsGrow, QuietRunKeeps DEF QuietRun, workVars
<1>3. ASSUME RecoveryDone PROVE RunInv'
  BY <1>3 DEF RecoveryDone, RunInv, queueVars
<1>4. ASSUME Start PROVE RunInv'
  BY <1>4 DEF Start, RunInv, Rows, queueVars
<1>5. ASSUME Stop \/ Drained \/ Crash PROVE RunInv'
  BY <1>5 DEF Stop, Drained, Crash, RunInv
<1> QED
  BY <1>1, <1>2, <1>3, <1>4, <1>5 DEF Recovery, Process

(* The claim puts a worker on the row.                                     *)
LEMMA RunStep == IndInv /\ RunInv /\ [Next]_vars => RunInv'
<1> SUFFICES ASSUME IndInv, RunInv, [Next]_vars PROVE RunInv'
  OBVIOUS
<1>1. ASSUME NEW w \in Worker, NEW j \in JobId, ClaimJob(w, j) PROVE RunInv'
  <2>1. /\ phase = "up" /\ UNCHANGED procVars /\ status' = [status EXCEPT ![j] = "running"]
        /\ attempt' = attempt /\ pc[w] = "idle" /\ pc' = [pc EXCEPT ![w] = "exec"]
        /\ wjob' = [wjob EXCEPT ![w] = j] /\ wattempt' = [wattempt EXCEPT ![w] = attempt[j]]
    BY <1>1 DEF ClaimJob, Commits, DequeueEligible, Step
  <2>2. Executed(j)'
    BY <2>1 DEF Executed, Active, IndInv, TypeOK
  <2>3. \A v \in Worker : pc[v] \in Active =>
           pc'[v] \in Active /\ wjob'[v] = wjob[v] /\ wattempt'[v] = wattempt[v]
    BY <2>1 DEF Active, IndInv, TypeOK
  <2>4. ASSUME NEW i \in JobId, i # j, Executed(i) PROVE Executed(i)'
    BY <2>1, <2>3, <2>4 DEF Executed
  <2>5. \A i \in JobId : i # j => status'[i] = status[i]
    BY <2>1 DEF IndInv, TypeOK, QueueTypeOK
  <2> QED
    BY <2>1, <2>2, <2>4, <2>5 DEF RunInv, procVars
<1>2. CASE UNCHANGED vars
  BY <1>2, QuietRunKeeps DEF vars, queueVars, procVars, workVars, recoVars, QuietRun
<1> QED
  BY <1>1, <1>2, ProducersAreQuiet, QuietRunKeeps, WorkerRuns, RecoveryRuns DEF Next, Fill

(* While the process is up and no transaction has failed, a running row is *)
(* being executed in the attempt it names, whatever crashed, was recovered *)
(* or cancelled before: rows are not left behind by completions, retries   *)
(* or the start-up.                                                        *)
THEOREM RunningRowsExecuted == Spec => []RunningIsExecuted
<1>1. Init => RunInv
  BY DEF Init, RunInv
<1>2. RunInv => RunningIsExecuted
  BY DEF RunInv, RunningIsExecuted, Executed, Rows
<1> QED
  BY <1>1, <1>2, RunStep, Invariance, PTL DEF Spec
-----------------------------------------------------------------------------
(* Finished jobs are logged.                                               *)

(* A job that can still be claimed or completed has not been logged, so    *)
(* that INSERT OR IGNORE never drops its result.                           *)
LEMMA LogStep ==
  ASSUME NoCancel, LifeInv, LogInv, [Next]_vars
  PROVE  LogInv'
<1>t. QueueTypeOK /\ FactInv /\ WorkersRun
  BY DEF LifeInv, IndInv, TypeOK
<1>n. \A j \in JobId : status[j] \in {"none", "queued", "running"} => ~completedAt[j] /\ jobLog[j] = {}
  BY <1>t DEF LogInv, FactInv, Terminal, QueueTypeOK
<1>0. ASSUME UNCHANGED <<attempt, completedAt, fact, jobLog>> PROVE LogInv'
  BY <1>0 DEF LogInv
<1>s. ASSUME NEW j \in JobId, status[j] \in {"none", "queued", "running"},
             \E s : fact' = [fact EXCEPT ![j] = s],
             \A i \in JobId : i # j => attempt'[i] = attempt[i],
             UNCHANGED <<completedAt, jobLog>>
      PROVE  LogInv'
  BY <1>s, <1>n, <1>t DEF LogInv, QueueTypeOK
<1>i. ASSUME NEW r, InsertJob(r) PROVE LogInv'
  <2>1. CASE UNCHANGED queueVars
    BY <2>1, <1>0 DEF queueVars
  <2>2. CASE ~SourceEventConflict(r)
    <3>1. PICK j \in JobId : /\ status[j] = "none" /\ fact' = [fact EXCEPT ![j] = "queued"]
                             /\ UNCHANGED <<attempt, completedAt, jobLog>>
      BY <1>i, <2>2 DEF InsertJob, FreeId
    <3> QED
      BY <3>1, <1>s
  <2> QED
    BY <1>i, <2>1, <2>2 DEF InsertJob
<1>c. ASSUME NEW j \in JobId, NEW s \in Terminal, CompleteWithResult(j, s),
             status[j] = "running" \/ fact[j] = s
      PROVE  LogInv'
  <2>1. /\ attempt' = attempt /\ fact' = [fact EXCEPT ![j] = s]
        /\ completedAt' = [completedAt EXCEPT ![j] = TRUE]
        /\ jobLog' = IF \E e \in jobLog[j] : e[1] = attempt[j]
                     THEN jobLog ELSE [jobLog EXCEPT ![j] = @ \cup {<<attempt[j], s>>}]
    BY <1>c DEF CompleteWithResult, WriteJobLog
  <2>2. ASSUME NEW i \in JobId, i # j
        PROVE  jobLog'[i] = jobLog[i] /\ fact'[i] = fact[i] /\ completedAt'[i] = completedAt[i]
    BY <2>1, <2>2, <1>t DEF QueueTypeOK
  <2>3. CASE ~completedAt[j]
    <3>1. jobLog[j] = {}
      BY <2>3 DEF LogInv
    <3>2. jobLog'[j] = {<<attempt[j], s>>}
      BY <2>1, <3>1, <1>t DEF QueueTypeOK
    <3>3. fact'[j] = s /\ completedAt'[j]
      BY <2>1, <1>t DEF QueueTypeOK
    <3> QED
      BY <2>1, <2>2, <3>2, <3>3 DEF LogInv
  <2>4. CASE completedAt[j]
    <3>1. fact[j] = s /\ <<attempt[j], s>> \in jobLog[j]
      BY <1>c, <1>n, <2>4 DEF LogInv
    <3>2. \E e \in jobLog[j] : e[1] = attempt[j]
      BY <3>1
    <3>3. jobLog' = jobLog /\ fact'[j] = s /\ completedAt'[j]
      BY <2>1, <3>2, <1>t DEF QueueTypeOK
    <3> QED
      BY <2>1, <2>2, <3>1, <3>3 DEF LogInv
  <2> QED
    BY <2>3, <2>4
<1>u. ASSUME NEW j \in JobId, NEW s, NEW a, NEW b, UpdateJobForRecovery(j, s, a, b),
             status[j] = "running"
      PROVE  LogInv'
  BY <1>u, <1>s, <1>t DEF UpdateJobForRecovery, QueueTypeOK
<1>1. CASE Produce
  <2>1. ~ScheduleCancel
    BY <1>t DEF ScheduleCancel, SchedulerAt, ScheduleEnd, WorkersRun
  <2>2. ASSUME NEW old \in SUBSET JobId, TickPrune(old) PROVE LogInv'
    BY <2>2, <1>0 DEF TickPrune, PruneJobQueue
  <2> QED
    BY <1>1, <2>1, <2>2, <1>0, <1>i DEF Produce, IngressEnqueue, CatchUpEnqueue, ScheduleDue,
       ScheduleStep, ScheduleLookup, ScheduleInsert, queueVars
<1>2. ASSUME NEW j \in JobId, RetryDue(j) PROVE LogInv'
  BY <1>2, <1>0 DEF RetryDue, RetryTimeReached
<1>3. CASE Fill
  <2>1. ASSUME NEW w \in Worker, NEW j \in JobId, ClaimJob(w, j) PROVE LogInv'
    BY <2>1, <1>s DEF ClaimJob, DequeueEligible, NextCandidate, Eligible, Rows
  <2> QED
    BY <1>3, <2>1, <1>0 DEF Fill, LoadRunningCounts, ClaimNothing, queueVars
<1>4. ASSUME NEW w \in Worker, WorkerNext(w) PROVE LogInv'
  <2>1. ASSUME ScheduleRetry(w) \/ Complete(w) PROVE LogInv'
    <3>1. wjob[w] \in JobId /\ outcome[w] \in Terminal /\ status[wjob[w]] = "running"
      BY <2>1, <1>t DEF ScheduleRetry, Complete, Step, Active, LifeInv, IndInv, WorkersHoldRows,
         TypeOK, WorkersRun
    <3> QED
      BY <2>1, <3>1, <1>0, <1>c, <1>u DEF ScheduleRetry, Complete, queueVars
  <2>2. ASSUME NEW r \in left[w], RouteNext(w, r) \/ HookNext(w, r) PROVE LogInv'
    BY <2>2, <1>0, <1>i DEF RouteNext, HookNext, Enqueue, queueVars
  <2> QED
    BY <1>4, <2>1, <2>2, <1>0 DEF WorkerNext, ExecuteBroken, ExecuteDone, ExecuteFailed,
       RouteBroken, RouteDone, HookDone, WorkerDone, queueVars
<1>5. CASE Recovery
  <2>1. ASSUME NEW j \in todo, RecoverRequeue(j) \/ RecoverMarkDead(j) PROVE LogInv'
    <3>1. j \in JobId /\ status[j] = "running"
      BY DEF LifeInv, IndInv, TypeOK, RecoveryIsAlone
    <3> QED
      BY <2>1, <3>1, <1>0, <1>u DEF RecoverRequeue, RecoverMarkDead, queueVars
  <2>2. ASSUME RecoverComplete PROVE LogInv'
    <3>1. dying \in JobId /\ "dead" \in Terminal /\ fact[dying] = "dead"
      BY <2>2, <1>t DEF RecoverComplete, LifeInv, IndInv, RecoveryIsAlone, Terminal, FactInv
    <3> QED
      BY <2>2, <3>1, <1>0, <1>c DEF RecoverComplete, queueVars
  <2>3. ASSUME NEW r \in rleft, RecoverHook(r) PROVE LogInv'
    BY <2>3, <1>0, <1>i DEF RecoverHook, queueVars
  <2> QED
    BY <1>5, <2>1, <2>2, <2>3, <1>0 DEF Recovery, RecoverNext, RecoveryDone, queueVars
<1>6. CASE Process \/ UNCHANGED vars
  BY <1>6, <1>0 DEF Process, Start, Stop, Drained, Crash, vars, queueVars
<1> QED
  BY <1>1, <1>2, <1>3, <1>4, <1>5, <1>6 DEF Next

(* Unless a schedule cancels, a job with completed_at has a job_log row    *)
(* for its last attempt with the result that its transitions name, so that *)
(* pruning loses nothing and INSERT OR IGNORE never ignores a new result.  *)
THEOREM CompletedJobsLogged == ASSUME NoCancel PROVE Spec => []CompletedIsLogged
<1>1. Init => LogInv
  BY DEF Init, QueueInit, LogInv
<1>2. LogInv => CompletedIsLogged
  BY DEF LogInv, CompletedIsLogged
<1>3. LifeInv /\ LogInv /\ [Next]_vars => LifeInv' /\ LogInv'
  BY LifeStep, LogStep
<1> QED
  BY <1>1, <1>2, <1>3, LifeInit, PTL DEF Spec
-----------------------------------------------------------------------------
(* How the table grows.                                                    *)

(* Hooks have no parent and no TTL override.                               *)
LEMMA HooksAreRoots ==
  ASSUME TypeOK, NEW j \in JobId, NEW r \in Hooks(j)
  PROVE  r.parent = NoJob /\ ~r.override
BY ProducerAssumption DEF TypeOK, QueueTypeOK, Request, Hooks

(* Steps of a worker that hold on to its requests, or prepare new ones.    *)
LEMMA ChildStep == IndInv /\ ChildInv /\ [Next]_vars => ChildInv'
<1> SUFFICES ASSUME IndInv, ChildInv, [Next]_vars PROVE ChildInv'
  OBVIOUS
<1>t. TypeOK /\ pc \in [Worker -> PC] /\ left \in [Worker -> SUBSET Request]
      /\ wjob \in [Worker -> JobId \cup {NoJob}]
  BY DEF IndInv, TypeOK
<1>0. ASSUME UNCHANGED <<pc, wjob, left, rleft>> PROVE ChildInv'
  BY <1>0 DEF ChildInv
<1>1. CASE Produce \/ (\E j \in JobId : RetryDue(j)) \/ LoadRunningCounts \/ ClaimNothing
  BY <1>1, <1>0 DEF Produce, IngressEnqueue, CatchUpEnqueue, ScheduleDue, ScheduleStep,
     ScheduleCancel, ScheduleLookup, ScheduleInsert, TickPrune, RetryDue, LoadRunningCounts, ClaimNothing,
     workVars, recoVars
<1>2. ASSUME NEW w \in Worker, NEW j \in JobId, ClaimJob(w, j) PROVE ChildInv'
  <2>1. /\ pc[w] = "idle" /\ pc' = [pc EXCEPT ![w] = "exec"] /\ wjob' = [wjob EXCEPT ![w] = j]
        /\ left' = left /\ rleft' = rleft
    BY <1>2 DEF ClaimJob, Step, recoVars
  <2>2. left[w] = {}
    BY <2>1 DEF ChildInv
  <2> QED
    BY <2>1, <2>2, <1>t DEF ChildInv
<1>3. ASSUME NEW w \in Worker, WorkerNext(w) PROVE ChildInv'
  <2>h. pc[w] \in Active => wjob[w] \in JobId
    BY DEF IndInv, WorkersHoldRows
  <2>w. ASSUME NEW to \in PC, NEW S \in SUBSET Request,
               pc' = [pc EXCEPT ![w] = to], left' = [left EXCEPT ![w] = S],
               \A v \in Worker : v # w => wjob'[v] = wjob[v], rleft' = rleft,
               \A r \in S : /\ ~r.override /\ to \in {"route", "hook"}
                            /\ to = "route" => r.parent = wjob'[w]
                            /\ to = "hook" => r.parent = NoJob
        PROVE  ChildInv'
    <3>1. \A v \in Worker : v # w => pc'[v] = pc[v] /\ left'[v] = left[v]
      BY <2>w, <1>t
    <3>2. pc'[w] = to /\ left'[w] = S
      BY <2>w, <1>t
    <3> QED
      BY <2>w, <3>1, <3>2 DEF ChildInv
  <2>1. ASSUME NEW r \in left[w], RouteNext(w, r) \/ HookNext(w, r) PROVE ChildInv'
    BY <2>1, <1>t DEF RouteNext, HookNext, ChildInv, recoVars
  <2>2. ASSUME NEW next \in SUBSET Routed, NEW s \in {"succeeded", "skipped"},
               ExecuteDone(w, s, next)
        PROVE  ChildInv'
    <3> DEFINE S == {[r EXCEPT !.parent = wjob[w]] : r \in next}
    <3>1. /\ pc[w] = "exec" /\ pc' = [pc EXCEPT ![w] = "route"] /\ left' = [left EXCEPT ![w] = S]
          /\ wjob' = wjob /\ rleft' = rleft
      BY <2>2 DEF ExecuteDone, Step, recoVars
    <3>2. wjob[w] \in JobId
      BY <3>1, <2>h DEF Active
    <3>3. \A r \in next : r \in Request /\ ~r.override
      BY RequestAssumption
    <3>4. \A r \in Request : /\ [r EXCEPT !.parent = wjob[w]] \in Request
                             /\ [r EXCEPT !.parent = wjob[w]].parent = wjob[w]
                             /\ [r EXCEPT !.parent = wjob[w]].override = r.override
      BY <3>2 DEF Request
    <3>5. ASSUME NEW q \in S PROVE q \in Request /\ ~q.override /\ q.parent = wjob[w]
      <4>1. PICK r \in next : q = [r EXCEPT !.parent = wjob[w]]
        OBVIOUS
      <4>2. r \in Request /\ ~r.override
        BY <3>3
      <4>3. q \in Request /\ q.parent = wjob[w] /\ q.override = r.override
        BY <3>4, <4>1, <4>2
      <4> QED
        BY <4>2, <4>3
    <3> HIDE DEF S
    <3> QED
      BY <3>1, <3>5, <2>w DEF PC, Active
  <2>3. ASSUME ExecuteBroken(w) \/ RouteBroken(w) \/ HookDone(w) \/ ScheduleRetry(w)
               \/ Complete(w) \/ WorkerDone(w)
        PROVE ChildInv'
    <3>1. PICK to \in PC : /\ pc' = [pc EXCEPT ![w] = to] /\ rleft' = rleft
                           /\ \A v \in Worker : v # w => wjob'[v] = wjob[v]
      BY <2>3, <1>t DEF ExecuteBroken, RouteBroken, HookDone, ScheduleRetry, Complete, WorkerDone,
         Step, recoVars, PC, Active
    <3>2. left' = [left EXCEPT ![w] = {}]
      BY <2>3, <1>t DEF ExecuteBroken, RouteBroken, HookDone, ScheduleRetry, Complete, WorkerDone,
         Step, ChildInv
    <3>3. {} \in SUBSET Request /\ \A r \in {} : FALSE
      OBVIOUS
    <3> QED
      BY <3>1, <3>2, <3>3, <2>w
  <2>4. ASSUME RouteDone(w) \/ \E s \in Failures, retryable \in BOOLEAN :
                                  ExecuteFailed(w, s, retryable)
        PROVE ChildInv'
    <3>1. PICK to \in {"hook", "finish", "retry"} :
             /\ pc[w] \in Active /\ pc' = [pc EXCEPT ![w] = to] /\ wjob' = wjob /\ rleft' = rleft
             /\ \/ to = "hook" /\ left' = [left EXCEPT ![w] = Hooks(wjob[w])]
                \/ left[w] = {} /\ left' = left
      BY <2>4 DEF RouteDone, ExecuteFailed, Step, ChildInv, recoVars, Active
    <3>2. Hooks(wjob[w]) \in SUBSET Request
          /\ \A r \in Hooks(wjob[w]) : r.parent = NoJob /\ ~r.override
      BY <3>1, <2>h, <1>t, HooksType, HooksAreRoots
    <3>3. CASE to = "hook" /\ left' = [left EXCEPT ![w] = Hooks(wjob[w])]
      BY <3>1, <3>2, <3>3, <2>w DEF PC, Active
    <3>4. CASE left[w] = {} /\ left' = left
      BY <3>1, <3>4, <1>t DEF ChildInv
    <3> QED
      BY <3>1, <3>3, <3>4
  <2> QED
    BY <1>3, <2>1, <2>2, <2>3, <2>4 DEF WorkerNext
<1>4. CASE Recovery
  <2>1. ASSUME RecoverComplete PROVE ChildInv'
    <3>1. dying \in JobId /\ rleft' = Hooks(dying) /\ UNCHANGED workVars
      BY <2>1 DEF RecoverComplete, IndInv, RecoveryIsAlone
    <3> QED
      BY <3>1, <1>t, HooksAreRoots DEF ChildInv, workVars
  <2>2. ASSUME NEW r \in rleft, RecoverHook(r) PROVE ChildInv'
    BY <2>2 DEF RecoverHook, ChildInv, workVars
  <2> QED
    BY <1>4, <2>1, <2>2, <1>0 DEF Recovery, RecoverRequeue, RecoverMarkDead, RecoverNext,
       RecoveryDone, workVars, recoVars
<1>5. CASE Process \/ UNCHANGED vars
  <2>1. ASSUME Crash PROVE ChildInv'
    BY <2>1 DEF Crash, ChildInv
  <2> QED
    BY <1>5, <2>1, <1>0 DEF Process, Start, Stop, Drained, vars, workVars, recoVars
<1> QED
  BY <1>1, <1>2, <1>3, <1>4, <1>5 DEF Next, Fill

(* Rows appear only by insertions: no retry or recovery brings a pruned    *)
(* row back, and nothing rewrites what a request has fixed.                *)
LEMMA RowsGrow ==
  ASSUME IndInv, ChildInv, [Next]_vars
  PROVE  RowsStay \/ \E r \in Request : GrowsBy(r)
<1>t. TypeOK /\ QueueTypeOK
  BY DEF IndInv, TypeOK
<1>0. ASSUME status' = status, req' = req PROVE RowsStay
  BY <1>0 DEF RowsStay
<1>s. ASSUME NEW j \in JobId, status[j] \notin NoRow, \E s : status' = [status EXCEPT ![j] = s],
             req' = req
      PROVE  RowsStay
  BY <1>s, <1>t DEF RowsStay, QueueTypeOK
<1>r. ASSUME NEW r \in Request, InsertJob(r), r.parent = NoJob, ~r.override PROVE GrowsBy(r)
  BY <1>r DEF GrowsBy
<1>1. CASE Produce
  <2>1. ASSUME NEW r \in Ingress, IngressEnqueue(r) PROVE r \in Request /\ GrowsBy(r)
    BY <2>1, <1>r, RequestAssumption, ProducerAssumption DEF IngressEnqueue
  <2>6. ASSUME NEW r \in CatchUp, CatchUpEnqueue(r) PROVE r \in Request /\ GrowsBy(r)
    <3>1. r \in Request /\ r.parent = NoJob
      BY RequestAssumption, ProducerAssumption
    <3>2. spc = "idle" /\ spc' = "idle"
      BY <2>6 DEF CatchUpEnqueue, IndInv, RecoveryIsAlone, schedVars
    <3> QED
      BY <2>6, <3>1, <3>2 DEF CatchUpEnqueue, GrowsBy
  <2>2. ASSUME ScheduleInsert PROVE RowsStay \/ (sched \in Request /\ GrowsBy(sched))
    <3>1. sched \in Scheduled /\ spc = "insert" /\ spc' = "idle"
      BY <2>2, <1>t DEF ScheduleInsert, ScheduleEnd, SchedulerAt, TypeOK
    <3>2. sched \in Request /\ sched.parent = NoJob
      BY <3>1, RequestAssumption, ProducerAssumption
    <3> QED
      BY <2>2, <3>1, <3>2, <1>0 DEF ScheduleInsert, GrowsBy, queueVars
  <2>3. ASSUME ScheduleCancel PROVE RowsStay
    <3>1. ASSUME CancelOutstandingJobs(sched.plugin, sched.command) PROVE RowsStay
      BY <3>1, <1>t DEF CancelOutstandingJobs, OutstandingOf, Rows, Outstanding, NoRow,
         QueueTypeOK, RowsStay
    <3> QED
      BY <2>3, <3>1, <1>0 DEF ScheduleCancel, queueVars
  <2>4. ASSUME NEW old \in SUBSET JobId, TickPrune(old) PROVE RowsStay
    BY <2>4, <1>t DEF TickPrune, PruneJobQueue, RowsStay, NoRow, QueueTypeOK
  <2>5. ASSUME ScheduleLookup \/ \E r \in Scheduled : ScheduleDue(r) PROVE RowsStay
    BY <2>5, <1>0 DEF ScheduleLookup, ScheduleDue, queueVars
  <2> QED
    BY <1>1, <2>1, <2>2, <2>3, <2>4, <2>5, <2>6 DEF Produce, ScheduleStep
<1>2. ASSUME NEW j \in JobId, RetryDue(j) PROVE RowsStay
  BY <1>2, <1>0 DEF RetryDue, RetryTimeReached
<1>3. CASE Fill
  <2>1. ASSUME NEW w \in Worker, NEW j \in JobId, ClaimJob(w, j) PROVE RowsStay
    BY <2>1, <1>s DEF ClaimJob, DequeueEligible, NextCandidate, Eligible, Rows, NoRow
  <2> QED
    BY <1>3, <2>1, <1>0 DEF Fill, LoadRunningCounts, ClaimNothing, queueVars
<1>4. ASSUME NEW w \in Worker, WorkerNext(w)
      PROVE  RowsStay \/ \E r \in Request : GrowsBy(r)
  <2>1. ASSUME ScheduleRetry(w) \/ Complete(w) PROVE RowsStay
    <3>1. wjob[w] \in JobId
      BY <2>1 DEF ScheduleRetry, Complete, Step, Active, IndInv, WorkersHoldRows
    <3> QED
      BY <2>1, <3>1, <1>0, <1>s DEF ScheduleRetry, Complete, UpdateJobForRecovery,
         CompleteWithResult, queueVars
  <2>2. ASSUME NEW r \in left[w], RouteNext(w, r) \/ HookNext(w, r)
        PROVE  RowsStay \/ (r \in Request /\ GrowsBy(r))
    <3>1. r \in Request /\ ~r.override
      BY <1>t DEF TypeOK, ChildInv
    <3>2. ASSUME InsertJob(r) PROVE GrowsBy(r)
      BY <2>2, <3>1, <3>2 DEF RouteNext, HookNext, ChildInv, GrowsBy
    <3> QED
      BY <2>2, <3>1, <3>2, <1>0 DEF RouteNext, HookNext, Enqueue, queueVars
  <2> QED
    BY <1>4, <2>1, <2>2, <1>0 DEF WorkerNext, ExecuteBroken, ExecuteDone, ExecuteFailed,
       RouteBroken, RouteDone, HookDone, WorkerDone, queueVars
<1>5. CASE Recovery
  <2>1. ASSUME NEW j \in todo, RecoverRequeue(j) \/ RecoverMarkDead(j) PROVE RowsStay
    <3>1. j \in JobId
      BY <1>t DEF TypeOK
    <3> QED
      BY <2>1, <3>1, <1>0, <1>s DEF RecoverRequeue, RecoverMarkDead, UpdateJobForRecovery,
         queueVars
  <2>2. ASSUME RecoverComplete PROVE RowsStay
    <3>1. dying \in JobId
      BY <2>2 DEF RecoverComplete, IndInv, RecoveryIsAlone
    <3> QED
      BY <2>2, <3>1, <1>0, <1>s DEF RecoverComplete, CompleteWithResult, queueVars
  <2>3. ASSUME NEW r \in rleft, RecoverHook(r) PROVE RowsStay \/ (r \in Request /\ GrowsBy(r))
    <3>1. r \in Request /\ r.parent = NoJob /\ ~r.override
      BY <1>t DEF TypeOK, ChildInv
    <3> QED
      BY <2>3, <3>1, <1>r, <1>0 DEF RecoverHook, queueVars
  <2> QED
    BY <1>5, <2>1, <2>2, <2>3, <1>0 DEF Recovery, RecoverNext, RecoveryDone, queueVars
<1>6. CASE Process \/ UNCHANGED vars
  BY <1>6, <1>0 DEF Process, Start, Stop, Drained, Crash, vars, queueVars
<1> QED
  BY <1>1, <1>2, <1>3, <1>4, <1>5, <1>6 DEF Next

(* What an insertion adds.                                                 *)
LEMMA InsertAdds ==
  ASSUME QueueTypeOK, NEW r, InsertJob(r)
  PROVE  \/ status' = status /\ req' = req
         \/ /\ ~SourceEventConflict(r)
            /\ \E j \in JobId : /\ status[j] = "none"
                                /\ status' = [status EXCEPT ![j] = "queued"]
                                /\ req' = [req EXCEPT ![j] = r]
BY DEF InsertJob, FreeId, queueVars

(* Initially nothing is to be enqueued.                                    *)
LEMMA ChildInit == Init => ChildInv
BY DEF Init, ChildInv

(* Unless a schedule cancels, a job gets children only while it is running *)
(* itself: the tree below a job has stopped growing when the job becomes   *)
(* terminal, which is what synchronous waits and aggregation rely on.      *)
THEOREM ChildrenInTime == ASSUME NoCancel PROVE Spec => NoLateChild
<1>1. ASSUME LifeInv, ChildInv, [Next]_vars, NEW j \in JobId, status[j] = "none",
             status'[j] = "queued", req'[j].parent # NoJob
      PROVE  status[req'[j].parent] = "running"
  <2>t. QueueTypeOK /\ IndInv /\ WorkersRun
    BY <1>1 DEF LifeInv, IndInv, TypeOK
  <2>1. PICK r \in Request : GrowsBy(r)
    BY <1>1, <2>t, RowsGrow DEF RowsStay, NoRow
  <2>2. req'[j] = r
    BY <1>1, <2>1, <2>t, InsertAdds DEF GrowsBy, QueueTypeOK
  <2>3. PICK w \in Worker : pc[w] = "route" /\ r.parent = wjob[w]
    BY <1>1, <2>1, <2>2 DEF GrowsBy
  <2> QED
    BY <2>2, <2>3, <2>t DEF WorkersRun, Active
<1>2. LifeInv /\ ChildInv /\ [Next]_vars => LifeInv' /\ ChildInv'
  BY LifeStep, ChildStep DEF LifeInv
<1>3. LifeInv /\ ChildInv /\ [Next]_vars =>
        \A j \in Rows({"none"}) :
            status'[j] = "queued" /\ req'[j].parent # NoJob
                => status[req'[j].parent] = "running"
  BY <1>1 DEF Rows
<1> QED
  BY <1>2, <1>3, LifeInit, ChildInit, PTL DEF Spec, NoLateChild

(* For every configuration: a job that is executed again after a crash and *)
(* emits the same event again has one child per event and target, since    *)
(* the unique index turns the second insertion into a no-op.               *)
THEOREM OneChildEach == Spec => []OneChildPerEvent
<1>1. Init => OneChildPerEvent
  BY DEF Init, QueueInit, OneChildPerEvent, Rows, NoRow
<1>2. ASSUME IndInv, ChildInv, OneChildPerEvent, [Next]_vars PROVE OneChildPerEvent'
  <2>t. QueueTypeOK
    BY <1>2 DEF IndInv, TypeOK
  <2>1. CASE RowsStay
    BY <1>2, <2>1 DEF RowsStay, OneChildPerEvent, Rows
  <2>2. ASSUME NEW r \in Request, GrowsBy(r) PROVE OneChildPerEvent'
    <3>1. CASE status' = status /\ req' = req
      BY <1>2, <3>1 DEF OneChildPerEvent, Rows
    <3>2. CASE ~SourceEventConflict(r)
      <4>1. CASE ~(status' = status /\ req' = req)
        <5>1. PICK j \in JobId : /\ status[j] = "none"
                                 /\ status' = [status EXCEPT ![j] = "queued"]
                                 /\ req' = [req EXCEPT ![j] = r]
          BY <2>2, <4>1, <2>t, InsertAdds DEF GrowsBy
        <5>2. /\ req'[j] = r
              /\ \A i \in JobId : i # j => req'[i] = req[i] /\ status'[i] = status[i]
          BY <5>1, <2>t DEF QueueTypeOK
        <5>3. \A i \in JobId : status[i] \notin NoRow =>
                 ~(/\ req[i].parent = r.parent /\ r.parent # NoJob
                   /\ req[i].event = r.event /\ r.event # NoEvent
                   /\ SameTarget(req[i], r))
          BY <3>2 DEF SourceEventConflict, Rows
        <5>4. SUFFICES ASSUME NEW i \in JobId, NEW k \in JobId, i # k,
                              status'[i] \notin NoRow, status'[k] \notin NoRow,
                              req'[i].parent # NoJob, req'[i].event # NoEvent,
                              SameTarget(req'[i], req'[k]),
                              req'[i].parent = req'[k].parent, req'[i].event = req'[k].event
                       PROVE  FALSE
          BY DEF OneChildPerEvent, Rows, SameTarget
        <5>5. CASE i # j /\ k # j
          BY <1>2, <5>2, <5>4, <5>5 DEF OneChildPerEvent, Rows, SameTarget
        <5>6. CASE i = j
          BY <5>2, <5>3, <5>4, <5>6 DEF SameTarget
        <5>7. CASE k = j
          BY <5>2, <5>3, <5>4, <5>7 DEF SameTarget
        <5> QED
          BY <5>5, <5>6, <5>7
      <4> QED
        BY <3>1, <4>1
    <3> QED
      BY <2>2, <2>t, <3>1, <3>2, InsertAdds DEF GrowsBy
  <2> QED
    BY <1>2, <2>1, <2>2, RowsGrow
<1>3. IndInv /\ ChildInv /\ OneChildPerEvent /\ [Next]_vars => ChildInv' /\ OneChildPerEvent'
  BY <1>2, ChildStep
<1> QED
  BY <1>1, <1>3, ChildInit, Invariance, PTL DEF Spec
-----------------------------------------------------------------------------
(* The caps on processes and on polls.                                     *)

(* Unless a schedule cancels, no more processes of a plugin run at a time  *)
(* than its parallelism: every worker that executes has a running row of   *)
(* its own, and those are capped.                                          *)
THEOREM ProcessesCapped == ASSUME NoCancel PROVE Spec => []ExecutionCap
<1>1. ASSUME LifeInv PROVE ExecutionCap
  <2> SUFFICES ASSUME NEW p \in Plugin PROVE Cardinality(Executing(p)) <= Parallelism[p]
    BY DEF ExecutionCap
  <2> DEFINE f == [w \in Executing(p) |-> wjob[w]]
  <2>1. \A w \in Executing(p) : w \in Worker /\ wjob[w] \in Running(p)
    BY <1>1 DEF Executing, LifeInv, IndInv, WorkersHoldRows, WorkersRun, Running, Rows, Active
  <2>2. \A v, w \in Executing(p) : wjob[v] = wjob[w] => v = w
    BY <1>1 DEF Executing, LifeInv, IndInv, SingleWorker, Active
  <2>3. f \in Injection(Executing(p), Running(p))
    BY <2>1, <2>2 DEF Injection, IsInjective
  <2>4. IsFiniteSet(Running(p))
    BY JobIdAssumption, FS_Subset DEF Running, Rows
  <2>5. /\ Cardinality(Executing(p)) <= Cardinality(Running(p))
        /\ Cardinality(Executing(p)) \in Nat /\ Cardinality(Running(p)) \in Nat
    BY <2>3, <2>4, FS_Injection, FS_CardinalityType
  <2>6. Cardinality(Running(p)) <= Parallelism[p]
    BY <1>1 DEF LifeInv, IndInv, CapsHold, PluginCap
  <2>7. Parallelism[p] \in Nat
    BY ParallelismAssumption
  <2> QED
    BY <2>5, <2>6, <2>7
<1>2. LifeInv /\ [Next]_vars => LifeInv'
  BY LifeStep
<1> QED
  BY <1>1, <1>2, LifeInit, PTL DEF Spec

(* Workers of a plugin that is never cancelled own running rows, and so no *)
(* retry revives a finished job of it.                                     *)
LEMMA LaneStep ==
  ASSUME IndInv, NEW p \in Plugin, NeverCancels(p), LaneRuns(p), [Next]_vars
  PROVE  LaneRuns(p)' /\ NoRevival(p)
<1>t. TypeOK /\ QueueTypeOK /\ pc \in [Worker -> PC] /\ wjob \in [Worker -> JobId \cup {NoJob}]
  BY DEF IndInv, TypeOK
<1>w. \A w \in Worker : pc[w] \in Active => wjob[w] \in JobId /\ status[wjob[w]] # "none"
  BY DEF IndInv, WorkersHoldRows
<1>k. ASSUME spc' = "cancel" => spc = "cancel" /\ sched' = sched,
             \A w \in Worker : pc'[w] \in Active => pc[w] \in Active /\ wjob'[w] = wjob[w],
             \A j \in JobId : status[j] # "none" =>
                 /\ req'[j] = req[j]
                 /\ status[j] = "running" /\ req[j].plugin = p => status'[j] = "running"
      PROVE  LaneRuns(p)'
  BY <1>k, <1>w DEF LaneRuns
<1>0. ASSUME spc' = "cancel" => spc = "cancel" /\ sched' = sched,
             \A w \in Worker : pc'[w] \in Active => pc[w] \in Active /\ wjob'[w] = wjob[w],
             status' = status, req' = req
      PROVE  LaneRuns(p)' /\ NoRevival(p)
  BY <1>0, <1>k DEF NoRevival
<1>i. ASSUME spc' = "cancel" => spc = "cancel" /\ sched' = sched, pc' = pc, wjob' = wjob,
             NEW r, InsertJob(r)
      PROVE  LaneRuns(p)' /\ NoRevival(p)
  <2>1. \A j \in JobId : status[j] # "none" => req'[j] = req[j] /\ status'[j] = status[j]
    BY <1>i, <1>t, InsertAdds DEF QueueTypeOK
  <2> QED
    BY <1>i, <2>1, <1>k DEF NoRevival
<1>1. CASE Produce
  <2>1. ASSUME NEW r, IngressEnqueue(r) \/ CatchUpEnqueue(r) PROVE LaneRuns(p)' /\ NoRevival(p)
    BY <2>1, <1>i DEF IngressEnqueue, CatchUpEnqueue, schedVars, workVars
  <2>2. ASSUME NEW r \in Scheduled, ScheduleDue(r) PROVE LaneRuns(p)' /\ NoRevival(p)
    <3>1. spc' = "cancel" => sched'.plugin # p
      BY <2>2 DEF ScheduleDue, SchedulerAt, NeverCancels
    <3> QED
      BY <2>2, <3>1 DEF ScheduleDue, LaneRuns, NoRevival, queueVars, workVars
  <2>3. ASSUME ScheduleCancel PROVE LaneRuns(p)' /\ NoRevival(p)
    <3>1. UNCHANGED <<pc, wjob>> /\ spc' # "cancel" /\ sched.plugin # p
      BY <2>3 DEF ScheduleCancel, ScheduleEnd, SchedulerAt, LaneRuns, workVars
    <3>2. ASSUME CancelOutstandingJobs(sched.plugin, sched.command)
          PROVE  LaneRuns(p)' /\ NoRevival(p)
      <4>1. req' = req /\ \A j \in JobId : \/ status'[j] = status[j]
                                           \/ status'[j] = "dead" /\ req[j].plugin # p
        BY <3>1, <3>2 DEF CancelOutstandingJobs, OutstandingOf
      <4> QED
        BY <3>1, <4>1, <1>k DEF NoRevival, Outstanding
    <3> QED
      BY <2>3, <3>1, <3>2, <1>0 DEF ScheduleCancel, queueVars
  <2>4. ASSUME ScheduleLookup PROVE LaneRuns(p)' /\ NoRevival(p)
    BY <2>4, <1>0 DEF ScheduleLookup, ScheduleEnd, SchedulerAt, queueVars, workVars
  <2>5. ASSUME ScheduleInsert PROVE LaneRuns(p)' /\ NoRevival(p)
    <3>1. UNCHANGED <<pc, wjob>> /\ spc' # "cancel" /\ (InsertJob(sched) \/ UNCHANGED queueVars)
      BY <2>5 DEF ScheduleInsert, ScheduleEnd, SchedulerAt, workVars
    <3> QED
      BY <3>1, <1>i, <1>0 DEF queueVars
  <2>6. ASSUME NEW old \in SUBSET JobId, TickPrune(old) PROVE LaneRuns(p)' /\ NoRevival(p)
    <3>1. /\ req' = req /\ UNCHANGED <<spc, sched, pc, wjob>>
          /\ \A j \in JobId : \/ status'[j] = status[j]
                              \/ status[j] # "running" /\ status'[j] = "gone"
      BY <2>6, <1>t DEF TickPrune, PruneJobQueue, Terminal, schedVars, workVars, QueueTypeOK
    <3> QED
      BY <3>1, <1>k DEF NoRevival, Outstanding
  <2> QED
    BY <1>1, <2>1, <2>2, <2>3, <2>4, <2>5, <2>6 DEF Produce, ScheduleStep
<1>2. CASE (\E j \in JobId : RetryDue(j)) \/ LoadRunningCounts \/ ClaimNothing
  BY <1>2, <1>0 DEF RetryDue, RetryTimeReached, LoadRunningCounts, ClaimNothing, queueVars,
     schedVars, workVars
<1>3. ASSUME NEW w \in Worker, NEW j \in JobId, ClaimJob(w, j)
      PROVE  LaneRuns(p)' /\ NoRevival(p)
  <2>1. /\ status[j] = "queued" /\ status' = [status EXCEPT ![j] = "running"] /\ req' = req
        /\ pc' = [pc EXCEPT ![w] = "exec"] /\ wjob' = [wjob EXCEPT ![w] = j]
        /\ spc' = spc /\ sched' = sched
    BY <1>3 DEF ClaimJob, DequeueEligible, NextCandidate, Eligible, Rows, Step, schedVars
  <2>2. \A i \in JobId : status'[i] = IF i = j THEN "running" ELSE status[i]
    BY <2>1, <1>t DEF QueueTypeOK
  <2>3. ASSUME NEW v \in Worker, pc'[v] \in Active, req'[wjob'[v]].plugin = p
        PROVE  status'[wjob'[v]] = "running"
    <3>1. CASE v = w
      BY <2>1, <2>2, <3>1, <1>t
    <3>2. CASE v # w
      BY <2>1, <2>2, <2>3, <3>2, <1>t, <1>w DEF LaneRuns
    <3> QED
      BY <3>1, <3>2
  <2> QED
    BY <2>1, <2>2, <2>3 DEF LaneRuns, NoRevival, Outstanding
<1>4. ASSUME NEW w \in Worker, WorkerNext(w) PROVE LaneRuns(p)' /\ NoRevival(p)
  <2>s. UNCHANGED <<spc, sched>>
    BY <1>4 DEF WorkerNext, ExecuteBroken, ExecuteDone, ExecuteFailed, RouteNext, HookNext,
       RouteBroken, RouteDone, HookDone, ScheduleRetry, Complete, WorkerDone, schedVars
  <2>1. ASSUME NEW r \in left[w], RouteNext(w, r) \/ HookNext(w, r)
        PROVE  LaneRuns(p)' /\ NoRevival(p)
    <3>1. UNCHANGED <<pc, wjob>> /\ (InsertJob(r) \/ UNCHANGED queueVars)
      BY <2>1 DEF RouteNext, HookNext, Enqueue
    <3> QED
      BY <2>s, <3>1, <1>i, <1>0 DEF queueVars
  <2>2. ASSUME ScheduleRetry(w) \/ Complete(w) PROVE LaneRuns(p)' /\ NoRevival(p)
    <3>1. /\ pc[w] \in Active /\ wjob[w] \in JobId /\ wjob' = wjob /\ outcome[w] \in Terminal
          /\ \E to \in {"done", "finish"} : pc' = [pc EXCEPT ![w] = to]
      BY <2>2, <1>w, <1>t DEF ScheduleRetry, Complete, Step, Active, TypeOK
    <3>2. CASE UNCHANGED queueVars
      BY <2>s, <3>1, <3>2, <1>0, <1>t DEF queueVars, Active
    <3>3. CASE ~UNCHANGED queueVars
      <4>1. /\ req' = req /\ pc' = [pc EXCEPT ![w] = "done"]
            /\ \E s \in Terminal \cup {"queued"} : status' = [status EXCEPT ![wjob[w]] = s]
        BY <2>2, <3>1, <3>3 DEF ScheduleRetry, Complete, Step, UpdateJobForRecovery,
           CompleteWithResult
      <4>2. \A j \in JobId : j # wjob[w] => status'[j] = status[j]
        BY <4>1, <1>t DEF QueueTypeOK
      <4>3. \A v \in Worker : pc'[v] \in Active =>
               v # w /\ pc[v] \in Active /\ wjob[v] # wjob[w]
        BY <3>1, <4>1, <1>t DEF Active, IndInv, SingleWorker
      <4>4. LaneRuns(p)'
        BY <2>s, <3>1, <4>1, <4>2, <4>3, <1>w DEF LaneRuns
      <4>5. NoRevival(p)
        BY <3>1, <4>2 DEF NoRevival, LaneRuns, Outstanding
      <4> QED
        BY <4>4, <4>5
    <3> QED
      BY <3>2, <3>3
  <2>3. ASSUME \/ ExecuteBroken(w) \/ RouteBroken(w) \/ RouteDone(w) \/ HookDone(w)
               \/ \E next \in SUBSET Routed :
                     ExecuteDone(w, "succeeded", next) \/ ExecuteDone(w, "skipped", next)
               \/ \E s \in Failures, retryable \in BOOLEAN : ExecuteFailed(w, s, retryable)
        PROVE LaneRuns(p)' /\ NoRevival(p)
    <3>1. /\ pc[w] \in Active /\ UNCHANGED <<queueVars, wjob>>
          /\ \E to \in Active : pc' = [pc EXCEPT ![w] = to]
      BY <2>3 DEF ExecuteBroken, RouteBroken, RouteDone, HookDone, ExecuteDone, ExecuteFailed,
         Step, Active
    <3> QED
      BY <2>s, <3>1, <1>0, <1>t DEF queueVars
  <2>4. ASSUME WorkerDone(w) PROVE LaneRuns(p)' /\ NoRevival(p)
    <3>1. UNCHANGED queueVars /\ pc' = [pc EXCEPT ![w] = "idle"]
          /\ wjob' = [wjob EXCEPT ![w] = NoJob]
      BY <2>4 DEF WorkerDone, Step
    <3> QED
      BY <2>s, <3>1, <1>0, <1>t DEF queueVars, Active
  <2> QED
    BY <1>4, <2>1, <2>2, <2>3, <2>4 DEF WorkerNext
<1>5. CASE Recovery
  <2>1. phase = "recovering" /\ UNCHANGED <<spc, sched, pc, wjob>>
    BY <1>5 DEF Recovery, RecoverRequeue, RecoverMarkDead, RecoverComplete, RecoverHook,
       RecoverNext, RecoveryDone, IndInv, RecoveryIsAlone, schedVars, workVars
  <2>2. LaneRuns(p)'
    BY <2>1 DEF LaneRuns, IndInv, RecoveryIsAlone, Active
  <2>3. ASSUME NEW j \in todo, RecoverRequeue(j) \/ RecoverMarkDead(j) PROVE NoRevival(p)
    <3>1. j \in JobId /\ status[j] = "running"
      BY DEF IndInv, TypeOK, RecoveryIsAlone
    <3> QED
      BY <2>3, <3>1, <1>t DEF RecoverRequeue, RecoverMarkDead, UpdateJobForRecovery, NoRevival,
         Outstanding, QueueTypeOK, queueVars
  <2>4. ASSUME RecoverComplete PROVE NoRevival(p)
    BY <2>4, <1>t DEF RecoverComplete, CompleteWithResult, NoRevival, Outstanding, QueueTypeOK,
       queueVars
  <2>5. ASSUME NEW r \in rleft, RecoverHook(r) PROVE NoRevival(p)
    BY <2>1, <2>5, <1>i, <1>0 DEF RecoverHook, queueVars
  <2> QED
    BY <1>5, <2>1, <2>2, <2>3, <2>4, <2>5, <1>0 DEF Recovery, RecoverNext, RecoveryDone, queueVars
<1>6. CASE Process \/ UNCHANGED vars
  <2>1. ASSUME Crash PROVE LaneRuns(p)' /\ NoRevival(p)
    BY <2>1 DEF Crash, LaneRuns, NoRevival, Active, queueVars
  <2> QED
    BY <1>6, <2>1, <1>0 DEF Process, Start, Stop, Drained, vars, queueVars, schedVars, workVars
<1> QED
  BY <1>1, <1>2, <1>3, <1>4, <1>5, <1>6 DEF Next, Fill

(* How the scheduler gets to the point where it may insert.                *)
LEMMA SchedulerMoves ==
  ASSUME [Next]_vars, spc' \in {"lookup", "insert"}
  PROVE  \/ spc # "idle" /\ sched' = sched
         \/ UNCHANGED queueVars /\ CanSchedule(sched')
BY DEF Next, Produce, IngressEnqueue, CatchUpEnqueue, ScheduleDue, ScheduleStep, ScheduleCancel,
   ScheduleLookup, ScheduleInsert, SchedulerAt, ScheduleEnd, TickPrune, RetryDue, Fill, LoadRunningCounts,
   ClaimNothing, ClaimJob, WorkerNext, ExecuteBroken, ExecuteDone, ExecuteFailed, RouteNext,
   HookNext, RouteBroken, RouteDone, HookDone, ScheduleRetry, Complete, WorkerDone, Recovery,
   RecoverRequeue, RecoverMarkDead, RecoverComplete, RecoverHook, RecoverNext, RecoveryDone,
   Process, Start, Stop, Drained, Crash, vars, schedVars

(* The polls are finitely many.                                            *)
LEMMA PollsFinite ==
  ASSUME NEW S \in SUBSET JobId
  PROVE  IsFiniteSet(S) /\ Cardinality(S) \in Nat
BY JobIdAssumption, FS_Subset, FS_CardinalityType

(* A set grows by one at most when one element is added.                   *)
LEMMA AddOne ==
  ASSUME NEW S, IsFiniteSet(S), NEW x, NEW T \in SUBSET (S \cup {x})
  PROVE  Cardinality(T) <= Cardinality(S) + 1
<1>1. IsFiniteSet(S \cup {x})
      /\ Cardinality(S \cup {x}) = IF x \in S THEN Cardinality(S) ELSE Cardinality(S) + 1
  BY FS_AddElement
<1>2. Cardinality(S) \in Nat
  BY FS_CardinalityType
<1>3. IsFiniteSet(T) /\ Cardinality(T) <= Cardinality(S \cup {x})
  BY <1>1, FS_Subset
<1>4. Cardinality(T) \in Nat
  BY <1>3, FS_CardinalityType
<1> QED
  BY <1>1, <1>2, <1>3, <1>4

(* A step adds a poll only if the scheduler has made room for it before.   *)
LEMMA PollStep ==
  ASSUME IndInv, ChildInv, NEW p \in Plugin, NeverCancels(p), LaneRuns(p), PollRoom(p),
         [Next]_vars
  PROVE  PollRoom(p)'
<1> DEFINE P == ScheduledPolls(p)
           T == TickPolls(p)
           N == MaxOutstandingPolls[p]
<1>t. QueueTypeOK
  BY DEF IndInv, TypeOK
<1>N. N \in Nat \ {0}
  BY RequestAssumption
<1>f. /\ P \in SUBSET JobId /\ P' \in SUBSET JobId
      /\ T \in SUBSET JobId /\ T' \in SUBSET JobId
  BY DEF ScheduledPolls, TickPolls, OutstandingOf, Rows
<1>p. T' \subseteq P'
  BY ProducerAssumption DEF ScheduledPolls, TickPolls
<1>c. /\ IsFiniteSet(P) /\ Cardinality(P) \in Nat /\ IsFiniteSet(P') /\ Cardinality(P') \in Nat
      /\ IsFiniteSet(T) /\ Cardinality(T) \in Nat /\ IsFiniteSet(T') /\ Cardinality(T') \in Nat
  <2> HIDE DEF P, T
  <2> QED
    BY <1>f, PollsFinite
<1>r. NoRevival(p)
  BY LaneStep
<1>m. spc' \in {"lookup", "insert"} /\ sched'.plugin = p /\ sched'.command = "poll" =>
         \/ spc \in {"lookup", "insert"} /\ sched' = sched
         \/ P' = P /\ Cardinality(P) < N
  <2> SUFFICES ASSUME spc' \in {"lookup", "insert"}, sched'.plugin = p, sched'.command = "poll"
               PROVE  \/ spc \in {"lookup", "insert"} /\ sched' = sched
                      \/ P' = P /\ Cardinality(P) < N
    OBVIOUS
  <2>1. CASE spc # "idle" /\ sched' = sched
    BY <2>1 DEF IndInv, TypeOK, LaneRuns
  <2>2. CASE UNCHANGED queueVars /\ CanSchedule(sched')
    <3>1. OutstandingForPolicy(sched') = P
      BY DEF OutstandingForPolicy, ScheduledPolls
    <3>2. P' = P
      BY <2>2 DEF ScheduledPolls, OutstandingOf, Rows, queueVars
    <3>3. Cardinality(P) = 0 \/ Cardinality(P) < MaxOutstandingPolls[sched'.plugin]
      BY <2>2, <3>1 DEF CanSchedule
    <3> QED
      BY <3>2, <3>3, <1>N
  <2> QED
    BY <2>1, <2>2, SchedulerMoves
<1>s. ASSUME P' \subseteq P, T' \subseteq T PROVE PollRoom(p)'
  <2>1. Cardinality(P') <= Cardinality(P) /\ Cardinality(T') <= Cardinality(T)
    <3> HIDE DEF P, T
    <3> QED
      BY <1>s, <1>c, FS_Subset
  <2>2. Cardinality(T') <= N
    BY <2>1, <1>c, <1>N DEF PollRoom
  <2>3. ASSUME spc' \in {"lookup", "insert"}, sched'.plugin = p, sched'.command = "poll"
        PROVE  Cardinality(P') < N
    <3>1. CASE P' = P /\ Cardinality(P) < N
      BY <3>1
    <3>2. CASE spc \in {"lookup", "insert"} /\ sched' = sched
      <4>1. Cardinality(P) < N
        BY <2>3, <3>2 DEF PollRoom
      <4> QED
        BY <4>1, <2>1, <1>c, <1>N
    <3> QED
      BY <2>3, <3>1, <3>2, <1>m
  <2> QED
    BY <2>2, <2>3 DEF PollRoom
<1>1. CASE RowsStay
  <2>1. P' \subseteq P /\ T' \subseteq T
    BY <1>1, <1>r DEF RowsStay, NoRevival, ScheduledPolls, TickPolls, OutstandingOf, Rows, Outstanding, NoRow
  <2> QED
    BY <2>1, <1>s
<1>2. ASSUME NEW r \in Request, GrowsBy(r) PROVE PollRoom(p)'
  <2>1. CASE status' = status /\ req' = req
    <3>1. P' \subseteq P /\ T' \subseteq T
      BY <2>1 DEF ScheduledPolls, TickPolls, OutstandingOf, Rows
    <3> QED
      BY <3>1, <1>s
  <2>2. CASE ~(status' = status /\ req' = req)
    <3>1. PICK j \in JobId : /\ status[j] = "none"
                             /\ status' = [status EXCEPT ![j] = "queued"]
                             /\ req' = [req EXCEPT ![j] = r]
      BY <1>2, <2>2, <1>t, InsertAdds DEF GrowsBy
    <3>2. /\ req'[j] = r
          /\ \A i \in JobId : i # j => req'[i] = req[i] /\ status'[i] = status[i]
      BY <3>1, <1>t DEF QueueTypeOK
    <3>3. CASE ~(r.override /\ r.plugin = p /\ r.command = "poll")
      <4>1. P' \subseteq P /\ T' \subseteq T
        BY <3>2, <3>3, ProducerAssumption DEF ScheduledPolls, TickPolls, OutstandingOf, Rows
      <4> QED
        BY <4>1, <1>s
    <3>4. CASE r.override /\ r \in CatchUp /\ spc' = "idle"
      <4>1. r \notin Scheduled
        BY <3>4, RequestAssumption
      <4>2. T' \subseteq T
        BY <3>2, <4>1 DEF TickPolls, OutstandingOf, Rows
      <4>3. Cardinality(T') <= Cardinality(T)
        <5> HIDE DEF T
        <5> QED
          BY <4>2, <1>c, FS_Subset
      <4>4. Cardinality(T') <= N
        BY <4>3, <1>c, <1>N DEF PollRoom
      <4> QED
        BY <3>4, <4>4 DEF PollRoom
    <3>5. CASE /\ r.override /\ r.plugin = p /\ r.command = "poll"
               /\ spc = "insert" /\ spc' = "idle" /\ sched = r
      <4>2. Cardinality(P) < N
        BY <3>5 DEF PollRoom
      <4>3. P' \subseteq P \cup {j}
        BY <3>2 DEF ScheduledPolls, OutstandingOf, Rows
      <4>4. Cardinality(P') <= Cardinality(P) + 1
        <5> HIDE DEF P
        <5> QED
          BY <4>3, <1>c, AddOne
      <4>5. Cardinality(T') <= Cardinality(P')
        <5> HIDE DEF P, T
        <5> QED
          BY <1>p, <1>c, FS_Subset
      <4>6. Cardinality(T') <= N
        BY <4>2, <4>4, <4>5, <1>c, <1>N
      <4> QED
        BY <3>5, <4>6 DEF PollRoom
    <3> QED
      BY <1>2, <3>3, <3>4, <3>5 DEF GrowsBy
  <2> QED
    BY <2>1, <2>2
<1> QED
  BY <1>1, <1>2, RowsGrow

(* As long as no schedule of a plugin cancels, the ticks of the scheduler  *)
(* have at most max_outstanding_polls polls of it outstanding, and insert  *)
(* one only while there are fewer, those of the catch-up included.  So it  *)
(* is although counting, looking up and inserting are transactions of      *)
(* their own, and retries and recovery queue polls again.  The catch-up    *)
(* itself is not bound.                                                    *)
THEOREM PollsBounded == Spec => []PollGuard
<1>1. Init => PollInv
  <2> SUFFICES ASSUME Init, NEW p \in Plugin PROVE LaneRuns(p) /\ PollRoom(p)
    BY DEF PollInv
  <2>1. TickPolls(p) = {}
    BY DEF Init, QueueInit, TickPolls, OutstandingOf, Rows, Outstanding
  <2>2. Cardinality(TickPolls(p)) = 0
    BY <2>1, FS_EmptySet
  <2>3. MaxOutstandingPolls[p] \in Nat
    BY RequestAssumption
  <2> QED
    BY <2>2, <2>3 DEF Init, LaneRuns, PollRoom, Active
<1>2. IndInv /\ ChildInv /\ PollInv /\ [Next]_vars => ChildInv' /\ PollInv'
  <2> SUFFICES ASSUME IndInv, ChildInv, PollInv, [Next]_vars PROVE ChildInv' /\ PollInv'
    OBVIOUS
  <2>1. ASSUME NEW p \in Plugin, NeverCancels(p) PROVE LaneRuns(p)' /\ PollRoom(p)'
    BY <2>1, LaneStep, PollStep DEF PollInv
  <2>2. PollInv'
    BY <2>1 DEF PollInv, NeverCancels
  <2> QED
    BY <2>2, ChildStep
<1>3. PollInv => PollGuard
  BY DEF PollInv, PollRoom, PollGuard, NeverCancels
<1> QED
  BY <1>1, <1>2, <1>3, ChildInit, Invariance, PTL DEF Spec
=============================================================================
