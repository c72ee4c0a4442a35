-------------------------- MODULE SchedulerProofs ---------------------------
(***************************************************************************)
(* Proofs about module Scheduler, for every deployment: any configurations, *)
(* any number of schedules, jobs, starts, failing writes and resets.        *)
(***************************************************************************)
EXTENDS Scheduler, SequenceTheorems, FiniteSetTheorems, TLAPS

Steps == {"down", "idle", "catchup", "slot", "load", "check", "breaker", "count", "fact", "timing",
          "window", "probe", "probeFact", "policy", "enqueue", "persist"}

(* A row of job_queue, whatever its values.                                *)
IsRow(r) == r = [status |-> r.status, sched |-> r.sched, command |-> r.command, key |-> r.key,
                 at |-> r.at, busy |-> r.busy, revived |-> r.revived, failed |-> r.failed,
                 born |-> r.born]

Control ==
    /\ deployment \in Deployments /\ conf \in Configs
    /\ now \in Nat /\ resets \in Nat /\ starts \in Nat /\ faults \in Nat
    /\ cur \in Schedule /\ pc \in Steps /\ (pc # "down" => starts >= 1)
    /\ cbFacts \in [Command -> Seq({"closed", "open", "half_open"})]
    /\ resets = 0 => opc = NoCommand

(* A job that has ended has completed_at.                                  *)
JobsOK ==
    /\ job = [j \in JobId |-> job[j]]
    /\ \A j \in JobId : /\ IsRow(job[j])
                        /\ job[j].status \in {"succeeded", "failed", "dead"} => job[j].at \in Nat

(* A breaker that is not closed has counted up to the threshold, and knows *)
(* since when; one that is half-open has waited for its cooldown.          *)
GoodBreaker(b) ==
    /\ b = [state |-> b.state, failures |-> b.failures, openedAt |-> b.openedAt, lastJob |-> b.lastJob]
    /\ b.state \in {"closed", "open", "half_open"} /\ b.failures \in Nat
    /\ b.openedAt \in Nat \cup {Null}
    /\ b.state # "closed" => b.failures >= Threshold /\ b.openedAt \in Nat
Waited(b) == now >= b.openedAt + ResetAfter

BreakersOK ==
    /\ cb = [c \in Command |-> cb[c]] /\ GoodBreaker(bk)
    /\ \A c \in Command : GoodBreaker(cb[c]) /\ (cb[c].state = "half_open" => Waited(cb[c]))

(* What the scheduler knows of the breaker at each of its steps: its copy  *)
(* is what the table says unless an operator reset it meanwhile, and once  *)
(* past the gate the breaker is not open.                                  *)
Copies ==
    /\ latest.job # NoJob => latest.at \in Nat
    /\ pc = "count" => latest.job # NoJob
    /\ resets = 0 /\ pc \in {"count", "probe"} => bk = cb[my.command]
    /\ pc = "probe" => bk.state = "open" /\ Waited(bk)
    /\ pc \in {"probeFact", "policy", "enqueue"} => cb[my.command].state # "open"

IndInv == Control /\ JobsOK /\ BreakersOK /\ Copies

(* The transitions explain the breakers, but for the one whose transition  *)
(* is about to be recorded.                                                *)
Explained(c) == cb[c].state = IF cbFacts[c] = <<>> THEN "closed" ELSE Last(cbFacts[c])
Undisturbed == starts <= 1 /\ faults = 0 /\ resets = 0 /\ (pc = "down" => starts = 0)
FactsInv ==
    Undisturbed =>
        /\ pc = "fact" => cb[my.command].state = Counted(bk, latest).state
        /\ pc = "probeFact" => cb[my.command].state = "half_open"
        /\ \A c \in Command : Explained(c) \/ (c = my.command /\ pc \in {"fact", "probeFact"})

-----------------------------------------------------------------------------
(* The setting of the current schedule, and the breaker's parameters.      *)
LEMMA SettingFacts ==
  ASSUME Control
  PROVE  /\ my \in Settings /\ my.command \in Command /\ my.interval \in Nat \ {0}
         /\ Threshold \in Nat \ {0} /\ ResetAfter \in Int /\ NumSchedules \in Nat \ {0}
         /\ 1 \in Schedule /\ \A s \in Schedule : conf[s] \in Settings
<1> DEFINE some == CHOOSE f \in Configs : TRUE
<1>1. some \in Configs
  BY DEF Control
<1>2. /\ \A f, g \in Configs : Len(f) = Len(g)
      /\ \A f \in Configs : f \in Seq(Settings) /\ f # <<>>
      /\ Threshold \in Nat \ {0} /\ ResetAfter \in Int
  BY ScheduleAssumption DEF Control, Configs, Threshold, ResetAfter
<1>3. NumSchedules = Len(some) /\ Len(conf) = NumSchedules
  BY <1>1, <1>2 DEF Control, NumSchedules
<1>4. NumSchedules \in Nat \ {0}
  BY <1>1, <1>2, <1>3, EmptySeq
<1>5. \A s \in Schedule : conf[s] \in Settings
  BY <1>2, <1>3, <1>4 DEF Control, Schedule
<1>6. my \in Settings
  BY <1>5 DEF my, Control
<1> QED
  BY <1>2, <1>4, <1>5, <1>6 DEF Settings, Schedule

(* A deployment stays, and its parameters with it.                         *)
LEMMA SameDeployment ==
  ASSUME deployment' = deployment
  PROVE  /\ Configs' = Configs /\ Threshold' = Threshold /\ ResetAfter' = ResetAfter
         /\ NumSchedules' = NumSchedules /\ Schedule' = Schedule /\ JobId' = JobId
BY DEF Configs, Threshold, ResetAfter, NumSchedules, Schedule, JobId, MaxJobs

(* On to the next schedule, or round to the first.                         *)
LEMMA SkipFacts ==
  ASSUME Control
  PROVE  /\ Skip => cur' \in Schedule /\ pc' \in {"load", "idle"}
         /\ CatchUpNext => cur' \in Schedule /\ pc' \in {"catchup", "idle"}
<1>1. NumSchedules \in Nat \ {0} /\ cur \in 1 .. NumSchedules
  BY SettingFacts DEF Control, Schedule
<1> QED
  BY <1>1 DEF Skip, CatchUpNext, NextSchedule, Schedule

(* A step that neither reads nor writes the breaker.                       *)
Quiet ==
    /\ UNCHANGED <<deployment, conf, cb, bk, latest, resets, starts>>
    /\ now' \in Nat /\ now' >= now
    /\ faults' \in Nat /\ (faults' = 0 => faults = 0)
    /\ cbFacts' \in [Command -> Seq({"closed", "open", "half_open"})]
    /\ resets = 0 => opc' = NoCommand
    /\ \/ pc' = pc /\ cur' = cur
       \/ /\ cur' \in Schedule /\ pc # "down"
          /\ pc' \in Steps \ {"count", "fact", "probe", "probeFact", "policy", "enqueue"}
          /\ pc' = "down" => faults' # 0
       \/ cur' = cur /\ pc \in {"probeFact", "policy"} /\ pc' \in {"policy", "enqueue"}

(* Time only adds to a cooldown.                                           *)
LEMMA WaitedLater ==
  ASSUME now \in Nat, now' \in Nat, now' >= now, deployment' = deployment, Control,
         NEW b, b.openedAt \in Nat, Waited(b)
  PROVE  now' >= b.openedAt + ResetAfter'
BY SettingFacts, SameDeployment DEF Waited

(* Such a step keeps what is known of the breaker.                         *)
LEMMA QuietKeeps ==
  ASSUME Control, BreakersOK, Copies, Quiet
  PROVE  Control' /\ BreakersOK' /\ Copies'
<1>0. /\ Schedule' = Schedule /\ Configs' = Configs /\ Threshold' = Threshold /\ ResetAfter' = ResetAfter
      /\ my.command \in Command /\ now \in Nat
  BY SameDeployment, SettingFacts DEF Quiet, Control
<1>1. Control'
  BY <1>0 DEF Quiet, Control, Steps
<1>3. GoodBreaker(bk)' /\ \A c \in Command : GoodBreaker(cb[c])'
  BY <1>0 DEF Quiet, BreakersOK, GoodBreaker
<1>4. \A c \in Command : cb'[c].state = "half_open" => Waited(cb[c])'
  BY <1>0, WaitedLater DEF Quiet, BreakersOK, GoodBreaker, Waited
<1>5. BreakersOK'
  BY <1>3, <1>4 DEF Quiet, BreakersOK
<1>6. pc' = "probe" => bk'.state = "open" /\ Waited(bk)'
  BY <1>0, WaitedLater DEF Quiet, BreakersOK, GoodBreaker, Copies, Waited
<1>7. pc' \in {"count", "probe", "probeFact", "policy", "enqueue"} => my' = my
  BY DEF Quiet, my
<1>8. Copies'
  BY <1>6, <1>7 DEF Quiet, Copies
<1> QED
  BY <1>1, <1>5, <1>8

(* Catch-up, ticks and the steps that decide whether a schedule is due.    *)
LEMMA CatchUpQuiet ==
  ASSUME Control, deployment' = deployment,
         CatchUpSchedule \/ EnqueueCatchUpJob \/ CatchUpDone \/ Tick
  PROVE  Quiet /\ UNCHANGED cbFacts /\ pc \notin {"fact", "probeFact"}
<1>1. CASE CatchUpSchedule
  <2>1. CatchUpNext \/ GoTo("slot")
    BY <1>1 DEF CatchUpSchedule
  <2>2. UNCHANGED <<now, conf, cb, cbFacts, bk, latest, opc, starts, faults, resets>> /\ pc = "catchup"
    BY <1>1 DEF CatchUpSchedule, dbVars, boundVars
  <2> QED
    BY <2>1, <2>2, SkipFacts DEF Quiet, Control, GoTo, Steps
<1>2. CASE EnqueueCatchUpJob
  <2>1. NoFault \/ Fault
    BY <1>2 DEF EnqueueCatchUpJob
  <2>2. UNCHANGED <<now, conf, cb, cbFacts, bk, latest, opc, pc, cur>> /\ pc = "slot"
    BY <1>2 DEF EnqueueCatchUpJob
  <2> QED
    BY <2>1, <2>2 DEF Quiet, Control, NoFault, Fault, boundVars
<1>3. CASE CatchUpDone
  <2>1. (CatchUpNext /\ NoFault) \/ (Fault /\ pc' = "down" /\ cur' = 1)
    BY <1>3 DEF CatchUpDone
  <2>2. UNCHANGED <<now, conf, cb, cbFacts, bk, latest, opc>> /\ pc = "slot"
    BY <1>3 DEF CatchUpDone, localVars
  <2> QED
    BY <2>1, <2>2, SkipFacts, SettingFacts DEF Quiet, Control, NoFault, Fault, boundVars, Steps
<1>4. CASE Tick
  <2>1. UNCHANGED <<now, conf, cb, cbFacts, bk, latest, opc, starts, faults, resets>> /\ pc = "idle"
        /\ pc' = "load" /\ cur' = 1
    BY <1>4 DEF Tick, dbVars, localVars, boundVars
  <2> QED
    BY <2>1, SettingFacts DEF Quiet, Control, Steps
<1> QED
  BY <1>1, <1>2, <1>3, <1>4

(* The steps that load an entry, decide whether it is due and store it.    *)
LEMMA DueQuiet ==
  ASSUME Control, deployment' = deployment,
         LoadEntry \/ CheckEntry \/ EveryDue \/ CronDue \/ OneShotDue \/ PersistFired
  PROVE  Quiet /\ UNCHANGED <<job, cbFacts>> /\ pc \notin {"fact", "probeFact"}
<1>1. CASE LoadEntry
  <2>1. (Skip \/ GoTo("check")) /\ (NoFault \/ Fault)
    BY <1>1 DEF LoadEntry
  <2>2. UNCHANGED <<now, conf, cb, cbFacts, job, bk, latest, opc>> /\ pc = "load"
    BY <1>1 DEF LoadEntry
  <2> QED
    BY <2>1, <2>2, SkipFacts DEF Quiet, Control, NoFault, Fault, boundVars, GoTo, Steps
<1>2. CASE CheckEntry
  <2>1. (Skip \/ GoTo("breaker")) /\ (NoFault \/ Fault)
    BY <1>2 DEF CheckEntry
  <2>2. UNCHANGED <<now, conf, cb, cbFacts, job, bk, latest, opc>> /\ pc = "check"
    BY <1>2 DEF CheckEntry
  <2> QED
    BY <2>1, <2>2, SkipFacts DEF Quiet, Control, NoFault, Fault, boundVars, GoTo, Steps
<1>3. CASE EveryDue \/ CronDue \/ OneShotDue
  <2>1. (Skip \/ GoTo("window")) /\ (NoFault \/ Fault)
    BY <1>3 DEF EveryDue, CronDue, OneShotDue
  <2>2. UNCHANGED <<now, conf, cb, cbFacts, job, bk, latest, opc>> /\ pc = "timing"
    BY <1>3 DEF EveryDue, CronDue, OneShotDue
  <2> QED
    BY <2>1, <2>2, SkipFacts DEF Quiet, Control, NoFault, Fault, boundVars, GoTo, Steps
<1>4. CASE PersistFired
  <2>1. Skip /\ (NoFault \/ Fault)
    BY <1>4 DEF PersistFired
  <2>2. UNCHANGED <<now, conf, cb, cbFacts, job, bk, latest, opc>> /\ pc = "persist"
    BY <1>4 DEF PersistFired, localVars
  <2> QED
    BY <2>1, <2>2, SkipFacts DEF Quiet, Control, NoFault, Fault, boundVars, Steps
<1> QED
  BY <1>1, <1>2, <1>3, <1>4

(* Past the gate: the policy, the insertion, and the recorded transitions. *)
LEMMA PolicyQuiet ==
  ASSUME Control, deployment' = deployment, IfRunning \/ EnqueueScheduledJob
  PROVE  Quiet /\ UNCHANGED cbFacts /\ pc \notin {"fact", "probeFact"}
<1>1. CASE IfRunning
  <2>1. (Skip \/ GoTo("enqueue")) /\ (NoFault \/ Fault)
    BY <1>1 DEF IfRunning
  <2>2. UNCHANGED <<now, conf, cb, cbFacts, bk, latest, opc>> /\ pc = "policy"
    BY <1>1 DEF IfRunning, localVars
  <2> QED
    BY <2>1, <2>2, SkipFacts DEF Quiet, Control, NoFault, Fault, boundVars, GoTo, Steps
<1>2. CASE EnqueueScheduledJob
  <2>1. (Skip \/ GoTo("persist")) /\ (NoFault \/ Fault)
    BY <1>2 DEF EnqueueScheduledJob
  <2>2. UNCHANGED <<now, conf, cb, cbFacts, bk, latest, opc>> /\ pc = "enqueue"
    BY <1>2 DEF EnqueueScheduledJob
  <2> QED
    BY <2>1, <2>2, SkipFacts DEF Quiet, Control, NoFault, Fault, boundVars, GoTo, Steps
<1> QED
  BY <1>1, <1>2

(* The recording of a transition, by the scheduler or by the operator.     *)
LEMMA RecordsQuiet ==
  ASSUME Control, BreakersOK, deployment' = deployment, RecordTransition \/ RecordHalfOpen \/ RecordReset
  PROVE  Quiet /\ UNCHANGED job
<1>0. Counted(bk, latest).state \in {"closed", "open", "half_open"}
  BY DEF Counted, ClosedBreaker
<1>1. ASSUME NEW c, NEW st \in {"closed", "open", "half_open"}, RecordState(c, st)
      PROVE  cbFacts' \in [Command -> Seq({"closed", "open", "half_open"})]
  <2> DEFINE States == {"closed", "open", "half_open"}
             App == Append(cbFacts[c], st)
  <2>0. st \in States /\ cbFacts \in [Command -> Seq(States)]
    BY DEF Control
  <2> HIDE DEF States
  <2>1. c \in Command => App \in Seq(States)
    BY <2>0
  <2>2. cbFacts' = [cbFacts EXCEPT ![c] = App]
    BY <1>1 DEF RecordState
  <2> HIDE DEF App
  <2>3. cbFacts' \in [Command -> Seq(States)]
    BY <2>0, <2>1, <2>2
  <2> QED
    BY <2>3 DEF States
<1>2. CASE RecordTransition
  <2>1. \/ RecordState(my.command, Counted(bk, latest).state) /\ GoTo("timing") /\ NoFault
        \/ Fault /\ Skip /\ UNCHANGED cbFacts
    BY <1>2 DEF RecordTransition
  <2>2. UNCHANGED <<now, conf, cb, job, bk, latest, opc>> /\ pc = "fact"
    BY <1>2 DEF RecordTransition, localVars
  <2>3. cbFacts' \in [Command -> Seq({"closed", "open", "half_open"})]
    BY <1>0, <1>1, <2>1 DEF Control
  <2> QED
    BY <2>1, <2>2, <2>3, SkipFacts DEF Quiet, Control, NoFault, Fault, boundVars, GoTo, Steps
<1>3. CASE RecordHalfOpen
  <2>1. \/ RecordState(my.command, "half_open") /\ GoTo("policy") /\ NoFault
        \/ Fault /\ Skip /\ UNCHANGED cbFacts
    BY <1>3 DEF RecordHalfOpen
  <2>2. UNCHANGED <<now, conf, cb, job, bk, latest, opc>> /\ pc = "probeFact"
    BY <1>3 DEF RecordHalfOpen, localVars
  <2>3. cbFacts' \in [Command -> Seq({"closed", "open", "half_open"})]
    BY <1>1, <2>1 DEF Control
  <2> QED
    BY <2>1, <2>2, <2>3, SkipFacts DEF Quiet, Control, NoFault, Fault, boundVars, GoTo, Steps
<1>4. CASE RecordReset
  <2>1. RecordState(opc, "closed") /\ opc' = NoCommand
    BY <1>4 DEF RecordReset
  <2>2. UNCHANGED <<now, conf, cb, job, pc, cur, bk, latest, starts, faults, resets>>
    BY <1>4 DEF RecordReset, localVars, boundVars
  <2>3. cbFacts' \in [Command -> Seq({"closed", "open", "half_open"})]
    BY <1>1, <2>1
  <2> QED
    BY <2>1, <2>2, <2>3 DEF Quiet, Control
<1> QED
  BY <1>2, <1>3, <1>4

(* Workers, retention and the clock.                                       *)
LEMMA WorldQuiet ==
  ASSUME Control, deployment' = deployment,
         (\E j \in JobId, st \in {"succeeded", "failed"} : FinishJob(j, st)) \/ Prune \/ TimePasses
         \/ \E j \in JobId : Revive(j)
  PROVE  Quiet /\ UNCHANGED <<cbFacts, pc, cur, conf>>
<1>1. UNCHANGED <<conf, cb, cbFacts, pc, cur, bk, latest, opc, starts, faults, resets>>
  BY DEF FinishJob, Revive, Prune, TimePasses, localVars, boundVars, dbVars
<1>2. now' = now \/ now' = now + 1
  BY DEF FinishJob, Revive, Prune, TimePasses
<1>3. now' \in Nat /\ now' >= now
  BY <1>2 DEF Control
<1> QED
  BY <1>1, <1>3 DEF Quiet, Control

-----------------------------------------------------------------------------
(* An inserted job comes from the catch-up or, when Enqueue has found no   *)
(* duplicate, from the tick.                                               *)
FromCatchUp(j) == job'[j].key[2] = "catchup"
FromTick(j) ==
    /\ pc = "enqueue" /\ EnqueueScheduledJob
    /\ Duplicates(my.command, TickKey, DedupeTTL) = {}
    /\ job'[j].key = TickKey /\ job'[j].command = my.command /\ job'[j].sched = cur
JobStep ==
    /\ JobsOK'
    /\ \A j \in JobId : Inserted(j) => FromCatchUp(j) \/ FromTick(j)

(* A step that leaves the queue alone.                                     *)
LEMMA SameJobs ==
  ASSUME JobsOK, UNCHANGED <<deployment, job>>
  PROVE  JobStep
<1>1. JobId' = JobId
  BY SameDeployment
<1>2. JobsOK'
  BY <1>1 DEF JobsOK, IsRow
<1> QED
  BY <1>2 DEF JobStep, Inserted

(* The row InsertJob writes.                                               *)
LEMMA Insertion ==
  ASSUME JobsOK, Control, deployment' = deployment, NEW s, NEW key, InsertJob(s, key)
  PROVE  /\ JobsOK'
         /\ \A j \in JobId : Inserted(j) =>
              job'[j].key = key /\ job'[j].command = conf[s].command /\ job'[j].sched = s
<1> DEFINE row == [status |-> "outstanding", sched |-> s, key |-> key,
                   command |-> conf[s].command, at |-> Null, busy |-> TRUE,
                   revived |-> 0, failed |-> FALSE, born |-> now]
<1>1. PICK j \in JobId : job' = [job EXCEPT ![j] = row]
  BY DEF InsertJob, FreeJob, Jobs
<1>2. JobId' = JobId
  BY SameDeployment
<1>3. IsRow(row) /\ row.status = "outstanding" /\ row.key = key
      /\ row.command = conf[s].command /\ row.sched = s
  BY DEF IsRow
<1> HIDE DEF row
<1>4. \A i \in JobId : job'[i] = IF i = j THEN row ELSE job[i]
  BY <1>1 DEF JobsOK
<1>5. job' = [i \in JobId |-> job'[i]]
  BY <1>1 DEF JobsOK
<1>6. JobsOK'
  <2>1. ASSUME NEW i \in JobId
        PROVE  /\ IsRow(job'[i])
               /\ job'[i].status \in {"succeeded", "failed", "dead"} => job'[i].at \in Nat
    BY <1>3, <1>4 DEF JobsOK
  <2>2. \A i \in JobId : IsRow(job'[i]) <=> IsRow(job[i])'
    BY DEF IsRow
  <2> QED
    BY <1>2, <1>5, <2>1, <2>2 DEF JobsOK
<1> QED
  BY <1>3, <1>4, <1>6 DEF Inserted

(* Every row is rewritten on its own, none is used for a new job.          *)
LEMMA Rewritten ==
  ASSUME JobsOK, deployment' = deployment, job' = [j \in JobId |-> job'[j]],
         \A j \in JobId : /\ IsRow(job'[j])
                          /\ job'[j].status \in {"succeeded", "failed", "dead"} => job'[j].at \in Nat
                          /\ job'[j].status = "outstanding" => job[j].status # "none"
  PROVE  JobStep
<1>1. JobId' = JobId
  BY SameDeployment
<1>2. \A j \in JobId : IsRow(job'[j]) <=> IsRow(job[j])'
  BY DEF IsRow
<1>3. JobsOK'
  BY <1>1, <1>2 DEF JobsOK
<1>4. \A j \in JobId : ~Inserted(j)
  BY DEF Inserted
<1> QED
  BY <1>3, <1>4 DEF JobStep

(* The steps that insert.                                                  *)
LEMMA InsertingSteps ==
  ASSUME JobsOK, Control, deployment' = deployment, EnqueueCatchUpJob \/ EnqueueScheduledJob
  PROVE  JobStep
<1>1. CASE UNCHANGED job
  BY <1>1, SameJobs
<1>2. CASE EnqueueCatchUpJob /\ job' # job
  <2>1. InsertJob(cur, SlotKey(slots.done + 1))
    BY <1>2 DEF EnqueueCatchUpJob
  <2>2. SlotKey(slots.done + 1)[2] = "catchup"
    BY DEF SlotKey
  <2> QED
    BY <2>1, <2>2, Insertion DEF JobStep, FromCatchUp
<1>3. CASE EnqueueScheduledJob /\ job' # job
  <2>1. InsertJob(cur, TickKey) /\ Duplicates(my.command, TickKey, DedupeTTL) = {} /\ pc = "enqueue"
    BY <1>3 DEF EnqueueScheduledJob
  <2> QED
    BY <1>3, <2>1, Insertion DEF JobStep, FromTick, my
<1> QED
  BY <1>1, <1>2, <1>3

(* The steps that end, prune or orphan jobs.                               *)
LEMMA EndingSteps ==
  ASSUME JobsOK, Control, deployment' = deployment,
         \/ IfRunning \/ Prune \/ Crash
         \/ \E j \in JobId, st \in {"succeeded", "failed"} : FinishJob(j, st)
         \/ \E j \in JobId : Revive(j)
  PROVE  JobStep
<1>0. now \in Nat /\ \A j \in JobId : IsRow(job[j])
  BY DEF Control, JobsOK
<1>1. CASE UNCHANGED job
  BY <1>1, SameJobs
<1>2. CASE IfRunning /\ job' # job
  <2>1. PICK S, running : Cancel(S, running)
    BY <1>2 DEF IfRunning
  <2>2. job' = [j \in JobId |-> job'[j]]
    BY <2>1 DEF Cancel
  <2>3. ASSUME NEW j \in JobId
        PROVE  \/ job'[j] = job[j]
               \/ job'[j] = [job[j] EXCEPT !.status = "dead", !.at = now, !.failed = TRUE,
                                           !.busy = j \in running]
    BY <2>1 DEF Cancel
  <2>4. \A j \in JobId : /\ IsRow(job'[j])
                         /\ job'[j].status \in {"succeeded", "failed", "dead"} => job'[j].at \in Nat
                         /\ job'[j].status = "outstanding" => job[j].status # "none"
    BY <1>0, <2>3 DEF IsRow, JobsOK
  <2> QED
    BY <2>2, <2>4, Rewritten
<1>3. CASE Prune
  <2>2. job' = [j \in JobId |-> job'[j]]
    BY <1>3 DEF Prune
  <2>3. ASSUME NEW j \in JobId
        PROVE  job'[j] = job[j] \/ job'[j] = [job[j] EXCEPT !.status = "gone"]
    BY <1>3 DEF Prune
  <2>4. \A j \in JobId : /\ IsRow(job'[j])
                         /\ job'[j].status \in {"succeeded", "failed", "dead"} => job'[j].at \in Nat
                         /\ job'[j].status = "outstanding" => job[j].status # "none"
    BY <1>0, <2>3 DEF IsRow, JobsOK
  <2> QED
    BY <2>2, <2>4, Rewritten
<1>4. CASE Crash
  <2>2. job' = [j \in JobId |-> job'[j]]
    BY <1>4 DEF Crash
  <2>3. ASSUME NEW j \in JobId
        PROVE  job'[j] = [job[j] EXCEPT !.busy = @ /\ job[j].status = "outstanding"]
    BY <1>4 DEF Crash
  <2>4. \A j \in JobId : /\ IsRow(job'[j])
                         /\ job'[j].status \in {"succeeded", "failed", "dead"} => job'[j].at \in Nat
                         /\ job'[j].status = "outstanding" => job[j].status # "none"
    BY <1>0, <2>3 DEF IsRow, JobsOK
  <2> QED
    BY <2>2, <2>4, Rewritten
<1>5. ASSUME NEW k \in JobId, NEW st \in {"succeeded", "failed"}, FinishJob(k, st)
      PROVE  JobStep
  <2>1. \/ job' = [job EXCEPT ![k].status = st, ![k].at = now, ![k].busy = FALSE,
                              ![k].failed = @ \/ st = "failed"]
        \/ job' = [job EXCEPT ![k].busy = FALSE]
    BY <1>5 DEF FinishJob
  <2>2. job' = [j \in JobId |-> job'[j]]
    BY <2>1 DEF JobsOK
  <2> DEFINE f == job[k].failed \/ st = "failed"
             done == [job[k] EXCEPT !.status = st, !.at = now, !.busy = FALSE, !.failed = f]
             ended == [job[k] EXCEPT !.busy = FALSE]
  <2>3. ASSUME NEW j \in JobId
        PROVE  job'[j] = job[j] \/ (j = k /\ (job'[j] = done \/ job'[j] = ended))
    BY <2>1 DEF JobsOK
  <2> DEFINE r == job[k]   no == FALSE
  <2>4. /\ IsRow(r) /\ ended = [r EXCEPT !.busy = no]
        /\ done = [r EXCEPT !.status = st, !.at = now, !.busy = no, !.failed = f]
    BY <1>0
  <2> HIDE DEF f, r, no, done, ended
  <2>5. done = [status |-> st, sched |-> r.sched, command |-> r.command, key |-> r.key,
                at |-> now, busy |-> no, revived |-> r.revived, failed |-> f, born |-> r.born]
    BY <2>4 DEF IsRow
  <2>6. ended = [status |-> r.status, sched |-> r.sched, command |-> r.command, key |-> r.key,
                 at |-> r.at, busy |-> no, revived |-> r.revived, failed |-> r.failed,
                 born |-> r.born]
    BY <2>4 DEF IsRow
  <2>7. IsRow(done) /\ done.status = st /\ done.at = now
    BY <2>5 DEF IsRow
  <2>8. IsRow(ended) /\ ended.status = r.status /\ ended.at = r.at
    BY <2>6 DEF IsRow
  <2>9. \A j \in JobId : /\ IsRow(job'[j])
                         /\ job'[j].status \in {"succeeded", "failed", "dead"} => job'[j].at \in Nat
                         /\ job'[j].status = "outstanding" => job[j].status # "none"
    BY <1>0, <2>3, <2>7, <2>8 DEF JobsOK, r
  <2> QED
    BY <2>2, <2>9, Rewritten
<1>6. ASSUME NEW k \in JobId, Revive(k)
      PROVE  JobStep
  <2>1. job' = [job EXCEPT ![k].status = "outstanding", ![k].revived = @ + 1] /\ job[k].status = "dead"
    BY <1>6 DEF Revive
  <2>2. job' = [j \in JobId |-> job'[j]]
    BY <2>1 DEF JobsOK
  <2> DEFINE n == job[k].revived + 1
  <2>3. ASSUME NEW j \in JobId
        PROVE  \/ job'[j] = job[j] /\ j # k
               \/ j = k /\ job'[j] = [job[j] EXCEPT !.status = "outstanding", !.revived = n]
    BY <2>1 DEF JobsOK
  <2> HIDE DEF n
  <2>5. ASSUME NEW r, IsRow(r)
        PROVE  IsRow([r EXCEPT !.status = "outstanding", !.revived = n])
               /\ [r EXCEPT !.status = "outstanding", !.revived = n].status = "outstanding"
    <3>1. PICK x : x = [r EXCEPT !.status = "outstanding", !.revived = n]
      OBVIOUS
    <3>2. x = [status |-> "outstanding", sched |-> r.sched, command |-> r.command, key |-> r.key,
               at |-> r.at, busy |-> r.busy, revived |-> n, failed |-> r.failed, born |-> r.born]
      BY <2>5, <3>1 DEF IsRow
    <3>3. IsRow(x) /\ x.status = "outstanding"
      BY <3>2 DEF IsRow
    <3> QED
      BY <3>1, <3>3
  <2>4. \A j \in JobId : /\ IsRow(job'[j])
                         /\ job'[j].status \in {"succeeded", "failed", "dead"} => job'[j].at \in Nat
                         /\ job'[j].status = "outstanding" => job[j].status # "none"
    BY <1>0, <2>1, <2>3, <2>5 DEF JobsOK
  <2> QED
    BY <2>2, <2>4, Rewritten
<1> QED
  BY <1>1, <1>2, <1>3, <1>4, <1>5, <1>6

-----------------------------------------------------------------------------
(* What the latest result of a command says.                               *)
LEMMA LatestFacts ==
  ASSUME JobsOK, NEW c
  PROVE  LatestCompleted(c).job # NoJob => LatestCompleted(c).at \in Nat
<1> DEFINE youngest == {j \in Completed(c) : \A i \in Completed(c) : ~CompletedAfter(i, j)}
           j == CHOOSE j \in youngest : TRUE
<1>1. CASE youngest = {}
  BY <1>1 DEF LatestCompleted, NoResult
<1>2. CASE youngest # {}
  <2>1. j \in youngest
    BY <1>2
  <2>2. j \in JobId /\ job[j].status \in {"succeeded", "failed", "dead"}
    BY <2>1 DEF Completed, Ended, Jobs
  <2>3. job[j].at \in Nat
    BY <2>2 DEF JobsOK
  <2>4. LatestCompleted(c) = [job |-> j, status |-> job[j].status, at |-> job[j].at]
    BY <1>2 DEF LatestCompleted
  <2> QED
    BY <2>3, <2>4
<1> QED
  BY <1>1, <1>2

(* Counting a result: the breaker is open with Threshold failures on its   *)
(* count, or closed, which after a failure only a closed breaker is.       *)
LEMMA CountedFacts ==
  ASSUME NEW b, NEW r, GoodBreaker(b), Control, r.at \in Nat
  PROVE  /\ GoodBreaker(Counted(b, r))
         /\ Counted(b, r).state \in {"closed", "open"}
         /\ Counted(b, r).state = "closed" /\ b.state # "closed" => r.status = "succeeded"
<1>1. Threshold \in Nat \ {0}
  BY SettingFacts
<1>2. CASE r.status = "succeeded"
  <2>1. Counted(b, r) = [state |-> "closed", failures |-> 0, openedAt |-> Null, lastJob |-> r.job]
    BY <1>2 DEF Counted, ClosedBreaker
  <2> QED
    BY <1>2, <2>1 DEF GoodBreaker
<1>3. CASE r.status # "succeeded" /\ b.failures + 1 >= Threshold
  <2>1. Counted(b, r) = [state |-> "open", failures |-> b.failures + 1, openedAt |-> r.at, lastJob |-> r.job]
    BY <1>3 DEF Counted
  <2> QED
    BY <1>1, <1>3, <2>1 DEF GoodBreaker
<1>4. CASE r.status # "succeeded" /\ ~(b.failures + 1 >= Threshold)
  <2>1. Counted(b, r) = [state |-> "closed", failures |-> b.failures + 1, openedAt |-> Null, lastJob |-> r.job]
    BY <1>4 DEF Counted
  <2>2. b.state = "closed"
    BY <1>1, <1>4 DEF GoodBreaker
  <2> QED
    BY <2>1, <2>2 DEF GoodBreaker
<1> QED
  BY <1>2, <1>3, <1>4

Good == Control /\ BreakersOK /\ Copies

(* Writing one breaker keeps the others.                                   *)
LEMMA OneBreaker ==
  ASSUME BreakersOK, UNCHANGED <<deployment, now>>, NEW c, NEW b, GoodBreaker(b), GoodBreaker(bk'),
         b.state = "half_open" => Waited(b),
         cb' = [cb EXCEPT ![c] = b]
  PROVE  BreakersOK' /\ \A x \in Command : cb'[x] = IF x = c THEN b ELSE cb[x]
<1>1. \A x \in Command : cb'[x] = IF x = c THEN b ELSE cb[x]
  BY DEF BreakersOK
<1>2. cb' = [x \in Command |-> cb'[x]]
  BY DEF BreakersOK
<1>3. Threshold' = Threshold /\ ResetAfter' = ResetAfter
  BY SameDeployment
<1>4. \A x \in Command : GoodBreaker(cb'[x]) /\ (cb'[x].state = "half_open" => Waited(cb'[x]))
  BY <1>1 DEF BreakersOK
<1>5. \A x \in Command : GoodBreaker(cb[x])' /\ (cb'[x].state = "half_open" => Waited(cb[x])')
  BY <1>3, <1>4 DEF GoodBreaker, Waited
<1>6. GoodBreaker(bk)'
  BY <1>3 DEF GoodBreaker
<1> QED
  BY <1>1, <1>2, <1>5, <1>6 DEF BreakersOK

(* The breakers are what they were, the copy is one of them or fresh.      *)
LEMMA SameBreakers ==
  ASSUME BreakersOK, UNCHANGED <<deployment, now, cb>>, GoodBreaker(bk')
  PROVE  BreakersOK'
<1>1. Threshold' = Threshold /\ ResetAfter' = ResetAfter
  BY SameDeployment
<1> QED
  BY <1>1 DEF BreakersOK, GoodBreaker, Waited

(* The process starts and ends.                                            *)
LEMMA StartCrashGood ==
  ASSUME Good, JobsOK, deployment' = deployment, Start \/ Crash
  PROVE  Good'
<1>0. Schedule' = Schedule /\ Configs' = Configs /\ 1 \in Schedule
  BY SameDeployment, SettingFacts DEF Good
<1>1. CASE Start
  <2>1. /\ UNCHANGED <<now, cb, cbFacts, bk, latest, opc, faults, resets>>
        /\ conf' \in Configs /\ starts' = starts + 1 /\ pc' = "catchup" /\ cur' = 1
    BY <1>1 DEF Start, dbVars, localVars
  <2>2. Control'
    BY <1>0, <2>1 DEF Good, Control, Steps
  <2>3. BreakersOK'
    BY <2>1, SameBreakers DEF Good, BreakersOK
  <2>4. Copies'
    BY <2>1 DEF Good, Copies
  <2> QED
    BY <2>2, <2>3, <2>4 DEF Good
<1>2. CASE Crash
  <2>1. /\ UNCHANGED <<now, conf, cb, cbFacts, opc, starts, faults, resets>>
        /\ bk' = ClosedBreaker /\ latest' = NoResult /\ pc' = "down" /\ cur' = 1
    BY <1>2 DEF Crash, boundVars
  <2>2. Control'
    BY <1>0, <2>1 DEF Good, Control, Steps
  <2>3. BreakersOK'
    <3>1. GoodBreaker(ClosedBreaker)
      BY DEF GoodBreaker, ClosedBreaker
    <3> QED
      BY <2>1, <3>1, SameBreakers DEF Good
  <2>4. Copies'
    BY <2>1 DEF Good, Copies, NoResult
  <2> QED
    BY <2>2, <2>3, <2>4 DEF Good
<1> QED
  BY <1>1, <1>2

(* The two reads of the breaker.                                           *)
LEMMA ReadsGood ==
  ASSUME Good, JobsOK, deployment' = deployment, ReadBreaker \/ CheckGate
  PROVE  Good' /\ UNCHANGED <<cb, cbFacts, starts, faults, resets>>
<1>0. Schedule' = Schedule /\ Configs' = Configs /\ my.command \in Command
  BY SameDeployment, SettingFacts DEF Good
<1>1. /\ UNCHANGED <<now, conf, cb, cbFacts, opc, starts, faults, resets>> /\ bk' = cb[my.command]
      /\ pc \in {"breaker", "window"}
  BY DEF ReadBreaker, CheckGate, dbVars, boundVars
<1>2. BreakersOK'
  BY <1>0, <1>1, SameBreakers DEF Good, BreakersOK
<1>3. CASE ReadBreaker
  <2>1. /\ latest' = LatestCompleted(my.command) /\ cur' = cur
        /\ pc' = (IF latest'.job \in {NoJob, cb[my.command].lastJob} THEN "timing" ELSE "count")
    BY <1>3 DEF ReadBreaker, GoTo
  <2>2. Control'
    BY <1>0, <1>1, <2>1 DEF Good, Control, Steps
  <2>3. Copies'
    BY <1>1, <2>1, LatestFacts DEF Copies, my
  <2> QED
    BY <1>1, <1>2, <2>2, <2>3 DEF Good
<1>4. CASE CheckGate
  <2>0. GoodBreaker(cb[my.command]) /\ Null \notin Nat
    BY <1>0 DEF Good, BreakersOK, Null
  <2>1. latest' = latest
    BY <1>4 DEF CheckGate
  <2>2. \/ Skip
        \/ bk'.state = "open" /\ CooldownElapsed(bk') /\ GoTo("probe")
        \/ bk'.state # "open" /\ GoTo("policy")
    BY <1>4 DEF CheckGate
  <2>3. Control'
    BY <1>0, <1>1, <2>2, SkipFacts DEF Good, Control, Steps, GoTo
  <2>4. ASSUME Skip PROVE Copies'
    BY <1>1, <2>1, <2>4, SkipFacts DEF Good, Copies
  <2>5. ASSUME bk'.state = "open" /\ CooldownElapsed(bk') /\ GoTo("probe") PROVE Copies'
    <3>1. Waited(bk')
      BY <1>1, <2>0, <2>5 DEF CooldownElapsed, Waited, GoodBreaker
    <3>2. Waited(bk)'
      BY <3>1, <1>1, SameDeployment DEF Waited
    <3> QED
      BY <1>1, <2>1, <2>5, <3>2 DEF Good, Copies, GoTo, my
  <2>6. ASSUME bk'.state # "open" /\ GoTo("policy") PROVE Copies'
    BY <1>1, <2>1, <2>6 DEF Good, Copies, GoTo, my
  <2> QED
    BY <1>1, <1>2, <2>2, <2>3, <2>4, <2>5, <2>6 DEF Good
<1> QED
  BY <1>3, <1>4

(* The three writes of a breaker.                                          *)
LEMMA CountGood ==
  ASSUME Good, deployment' = deployment, CountResult
  PROVE  Good' /\ BreakerSteps /\ UNCHANGED <<job, cbFacts>>
<1> DEFINE c == my.command   new == Counted(bk, latest)
<1>0. /\ Schedule' = Schedule /\ Configs' = Configs /\ c \in Command
      /\ GoodBreaker(bk) /\ latest.at \in Nat /\ pc = "count"
  BY SameDeployment, SettingFacts DEF Good, BreakersOK, Copies, CountResult
<1>1. UNCHANGED <<now, conf, cbFacts, job, bk, latest, opc>>
  BY DEF CountResult, localVars
<1>2. /\ GoodBreaker(new) /\ new.state \in {"closed", "open"}
      /\ new.state = "closed" /\ bk.state # "closed" => latest.status = "succeeded"
  BY <1>0, CountedFacts DEF Good
<1>3. CASE /\ cb' = [cb EXCEPT ![c] = new] /\ NoFault
           /\ GoTo(IF new.state = bk.state THEN "timing" ELSE "fact")
  <2> HIDE DEF c, new
  <2>1. Control'
    BY <1>0, <1>1, <1>3 DEF Good, Control, GoTo, NoFault, boundVars, Steps
  <2>2. BreakersOK' /\ \A x \in Command : cb'[x] = IF x = c THEN new ELSE cb[x]
    <3>1. GoodBreaker(bk') /\ UNCHANGED <<deployment, now>> /\ BreakersOK
      BY <1>0, <1>1 DEF Good
    <3>2. GoodBreaker(new) /\ (new.state = "half_open" => Waited(new)) /\ cb' = [cb EXCEPT ![c] = new]
      BY <1>2, <1>3
    <3> QED
      BY <3>1, <3>2, OneBreaker, Zenon
  <2>3. Copies'
    BY <1>1, <1>3 DEF Good, Copies, GoTo, NoFault, boundVars
  <2>4. BreakerSteps
    <3> SUFFICES ASSUME resets' = 0, NEW x \in Command, cb[x].state # cb'[x].state
                 PROVE  CASE cb'[x].state = "half_open" -> cb[x].state = "open"
                          [] cb'[x].state = "open" -> cb'[x].failures >= Threshold
                          [] OTHER -> latest.status = "succeeded"
      BY DEF BreakerSteps
    <3>1. x = c /\ cb'[x] = new
      BY <2>2
    <3>2. bk = cb[c]
      BY <1>0, <1>3 DEF Good, Copies, NoFault, boundVars, c
    <3> QED
      BY <1>2, <3>1, <3>2 DEF GoodBreaker
  <2> QED
    BY <1>1, <2>1, <2>2, <2>3, <2>4 DEF Good
<1>4. CASE Fault /\ Skip /\ UNCHANGED cb
  <2>1. Control'
    BY <1>0, <1>1, <1>4, SkipFacts DEF Good, Control, Fault, Steps
  <2>2. BreakersOK'
    BY <1>0, <1>1, <1>4, SameBreakers DEF Good
  <2>3. Copies'
    BY <1>1, <1>4, SkipFacts DEF Good, Copies, Fault
  <2> QED
    BY <1>1, <1>4, <2>1, <2>2, <2>3 DEF Good, BreakerSteps
<1> QED
  BY <1>3, <1>4 DEF CountResult, UpsertBreaker

(* A probe: the breaker was open unless an operator reset it meanwhile,    *)
(* and the cooldown is over.                                               *)
LEMMA HalfOpenGood ==
  ASSUME Good, deployment' = deployment, HalfOpen
  PROVE  Good' /\ BreakerSteps /\ UNCHANGED <<job, cbFacts>>
<1> DEFINE c == my.command   new == [bk EXCEPT !.state = "half_open"]
<1>0. /\ Schedule' = Schedule /\ Configs' = Configs /\ c \in Command
      /\ GoodBreaker(bk) /\ pc = "probe" /\ bk.state = "open" /\ Waited(bk)
  BY SameDeployment, SettingFacts DEF Good, BreakersOK, Copies, HalfOpen
<1>1. UNCHANGED <<now, conf, cbFacts, job, bk, latest, opc>>
  BY DEF HalfOpen, localVars
<1>2. GoodBreaker(new) /\ new.state = "half_open" /\ Waited(new)
  <2>1. new = [state |-> "half_open", failures |-> bk.failures, openedAt |-> bk.openedAt,
               lastJob |-> bk.lastJob]
    BY <1>0 DEF GoodBreaker
  <2> QED
    BY <1>0, <2>1 DEF GoodBreaker, Waited
<1>3. CASE cb' = [cb EXCEPT ![c] = new] /\ NoFault /\ GoTo("probeFact")
  <2> HIDE DEF new
  <2>1. Control'
    BY <1>0, <1>1, <1>3 DEF Good, Control, GoTo, NoFault, boundVars, Steps
  <2>2. BreakersOK' /\ \A x \in Command : cb'[x] = IF x = c THEN new ELSE cb[x]
    <3>1. GoodBreaker(bk') /\ UNCHANGED <<deployment, now>> /\ BreakersOK
      BY <1>0, <1>1 DEF Good
    <3>2. GoodBreaker(new) /\ (new.state = "half_open" => Waited(new)) /\ cb' = [cb EXCEPT ![c] = new]
      BY <1>2, <1>3
    <3> QED
      BY <3>1, <3>2, OneBreaker, Zenon
  <2>3. Copies'
    BY <1>0, <1>1, <1>2, <1>3, <2>2 DEF Good, Copies, GoTo, NoFault, boundVars, my
  <2>4. BreakerSteps
    <3> HIDE DEF c
    <3>1. ASSUME resets' = 0, NEW x \in Command, cb[x].state # cb'[x].state
          PROVE  cb'[x].state = "half_open" /\ cb[x].state = "open"
      <4>1. x = c /\ cb'[x] = new
        BY <2>2, <3>1
      <4>2. bk = cb[c]
        BY <1>0, <1>3, <3>1 DEF Good, Copies, NoFault, boundVars, c
      <4> QED
        BY <1>0, <1>2, <4>1, <4>2
    <3> QED
      BY <3>1 DEF BreakerSteps
  <2> QED
    BY <1>1, <2>1, <2>2, <2>3, <2>4 DEF Good
<1>4. CASE Fault /\ Skip /\ UNCHANGED cb
  <2>1. Control'
    BY <1>0, <1>1, <1>4, SkipFacts DEF Good, Control, Fault, Steps
  <2>2. BreakersOK'
    BY <1>0, <1>1, <1>4, SameBreakers DEF Good
  <2>3. Copies'
    BY <1>1, <1>4, SkipFacts DEF Good, Copies, Fault
  <2> QED
    BY <1>1, <1>4, <2>1, <2>2, <2>3 DEF Good, BreakerSteps
<1> QED
  BY <1>3, <1>4 DEF HalfOpen, UpsertBreaker

(* A reset closes the breaker, whatever the scheduler is about to do.      *)
LEMMA ResetGood ==
  ASSUME Good, deployment' = deployment, NEW c, ResetCircuitBreaker(c)
  PROVE  Good' /\ BreakerSteps /\ UNCHANGED job /\ resets' # 0
<1>0. Schedule' = Schedule /\ Configs' = Configs /\ my.command \in Command /\ GoodBreaker(bk)
  BY SameDeployment, SettingFacts DEF Good, BreakersOK
<1>1. /\ UNCHANGED <<now, conf, cbFacts, job, pc, cur, bk, latest, starts, faults>>
      /\ cb' = [cb EXCEPT ![c] = ClosedBreaker] /\ resets' = resets + 1
  BY DEF ResetCircuitBreaker, localVars
<1>2. GoodBreaker(ClosedBreaker) /\ ClosedBreaker.state = "closed"
  BY DEF GoodBreaker, ClosedBreaker
<1>3. resets' \in Nat /\ resets' # 0
  BY <1>1 DEF Good, Control
<1>4. Control'
  BY <1>0, <1>1, <1>3 DEF Good, Control
<1>5. BreakersOK' /\ \A x \in Command : cb'[x] = IF x = c THEN ClosedBreaker ELSE cb[x]
  BY <1>0, <1>1, <1>2, OneBreaker DEF Good
<1>6. Waited(bk)' <=> Waited(bk)
  BY <1>1, SameDeployment DEF Waited
<1>7. my' = my
  BY <1>1 DEF my
<1>8. Copies'
  BY <1>0, <1>1, <1>2, <1>3, <1>5, <1>6, <1>7 DEF Good, Copies
<1> QED
  BY <1>1, <1>3, <1>4, <1>5, <1>8 DEF Good, BreakerSteps

-----------------------------------------------------------------------------
(* Every step keeps the invariant, and moves breakers as it may.           *)
LEMMA NextInv ==
  ASSUME IndInv, Next
  PROVE  IndInv' /\ JobStep /\ BreakerSteps
<1>0. Control /\ JobsOK /\ BreakersOK /\ Copies /\ Good /\ deployment' = deployment
  BY DEF IndInv, Good, Next
<1>1. ASSUME Quiet, JobStep
      PROVE  IndInv' /\ JobStep /\ BreakerSteps
  <2>1. Control' /\ BreakersOK' /\ Copies'
    BY <1>0, <1>1, QuietKeeps
  <2>2. BreakerSteps
    BY <1>1 DEF Quiet, BreakerSteps
  <2> QED
    BY <1>1, <2>1, <2>2 DEF IndInv, JobStep
<1>2. ASSUME Good', JobStep, BreakerSteps
      PROVE  IndInv' /\ JobStep /\ BreakerSteps
  BY <1>2 DEF IndInv, Good, JobStep
<1>3. CASE CatchUpSchedule \/ EnqueueCatchUpJob \/ CatchUpDone \/ Tick
  <2>1. Quiet
    BY <1>0, <1>3, CatchUpQuiet
  <2>2. CASE EnqueueCatchUpJob
    BY <1>0, <1>1, <2>1, <2>2, InsertingSteps
  <2>3. CASE CatchUpSchedule \/ CatchUpDone \/ Tick
    <3>1. UNCHANGED job
      BY <2>3 DEF CatchUpSchedule, CatchUpDone, Tick, dbVars
    <3> QED
      BY <1>0, <1>1, <2>1, <3>1, SameJobs
  <2> QED
    BY <1>3, <2>2, <2>3
<1>4. CASE LoadEntry \/ CheckEntry \/ EveryDue \/ CronDue \/ OneShotDue \/ PersistFired
  BY <1>0, <1>1, <1>4, DueQuiet, SameJobs
<1>5. CASE IfRunning \/ EnqueueScheduledJob
  BY <1>0, <1>1, <1>5, PolicyQuiet, InsertingSteps, EndingSteps
<1>6. CASE RecordTransition \/ RecordHalfOpen \/ RecordReset
  BY <1>0, <1>1, <1>6, RecordsQuiet, SameJobs
<1>7. CASE (\E j \in JobId, st \in {"succeeded", "failed"} : FinishJob(j, st)) \/ Prune
            \/ \E j \in JobId : Revive(j)
  BY <1>0, <1>1, <1>7, WorldQuiet, EndingSteps
<1>8. CASE TimePasses
  <2>1. UNCHANGED job
    BY <1>8 DEF TimePasses, dbVars
  <2> QED
    BY <1>0, <1>1, <1>8, <2>1, WorldQuiet, SameJobs
<1>9. CASE Start
  <2>1. UNCHANGED <<job, cb>>
    BY <1>9 DEF Start, dbVars
  <2> QED
    BY <1>0, <1>2, <1>9, <2>1, StartCrashGood, SameJobs DEF BreakerSteps
<1>10. CASE Crash
  <2>1. UNCHANGED cb
    BY <1>10 DEF Crash
  <2> QED
    BY <1>0, <1>2, <1>10, <2>1, StartCrashGood, EndingSteps DEF BreakerSteps
<1>11. CASE ReadBreaker \/ CheckGate
  <2>1. UNCHANGED <<job, cb>>
    BY <1>11 DEF ReadBreaker, CheckGate, dbVars
  <2> QED
    BY <1>0, <1>2, <1>11, <2>1, ReadsGood, SameJobs DEF BreakerSteps
<1>12. CASE CountResult
  BY <1>0, <1>2, <1>12, CountGood, SameJobs
<1>13. CASE HalfOpen
  BY <1>0, <1>2, <1>13, HalfOpenGood, SameJobs
<1>14. CASE ResetCircuitBreaker("poll")
  BY <1>0, <1>2, <1>14, ResetGood, SameJobs
<1> QED
  BY <1>3, <1>4, <1>5, <1>6, <1>7, <1>8, <1>9, <1>10, <1>11, <1>12, <1>13, <1>14
     DEF Next, CatchUp, ProcessSchedule, Environment

(* It holds initially: nothing has been counted, submitted or recorded.    *)
LEMMA InitInv ==
  ASSUME Init
  PROVE  IndInv /\ FactsInv
<1>1. Control
  <2>1. deployment \in Deployments /\ conf \in Configs
    BY DEF Init
  <2>2. \A f, g \in Configs : Len(f) = Len(g)
    BY <2>1, ScheduleAssumption DEF Configs
  <2>3. conf \in Seq(Settings) /\ conf # <<>> /\ NumSchedules = Len(conf)
    BY <2>1, <2>2, ScheduleAssumption DEF Configs, NumSchedules
  <2>4. 1 \in Schedule
    BY <2>3, EmptySeq DEF Schedule
  <2>5. cbFacts \in [Command -> Seq({"closed", "open", "half_open"})]
    BY DEF Init
  <2> QED
    BY <2>1, <2>4, <2>5 DEF Init, Control, Steps
<1>2. JobsOK
  BY DEF Init, JobsOK, IsRow, NoRow
<1>3. BreakersOK
  BY DEF Init, BreakersOK, GoodBreaker, ClosedBreaker
<1>4. Copies
  BY DEF Init, Copies, NoResult
<1>5. FactsInv
  BY DEF Init, FactsInv, Explained, ClosedBreaker
<1> QED
  BY <1>1, <1>2, <1>3, <1>4, <1>5 DEF IndInv

(* The invariant of the scheduler and its breakers.                        *)
THEOREM Invariance == Spec => []IndInv
<1>1. IndInv /\ [Next]_<<vars, deployment>> => IndInv'
  <2>1. CASE Next
    BY <2>1, NextInv
  <2>2. ASSUME IndInv, UNCHANGED <<vars, deployment>> PROVE IndInv'
    <3>1. UNCHANGED <<now, conf, cb, cbFacts, job, pc, cur, bk, latest, opc, starts, faults, resets, deployment>>
      BY <2>2 DEF vars, dbVars, localVars, boundVars
    <3>2. Quiet
      BY <2>2, <3>1 DEF Quiet, IndInv, Control
    <3>3. JobsOK'
      BY <2>2, <3>1, SameJobs DEF IndInv, JobStep
    <3> QED
      BY <2>2, <3>2, <3>3, QuietKeeps DEF IndInv
  <2> QED
    BY <2>1, <2>2
<1> QED
  BY <1>1, InitInv, PTL DEF Spec

(* BreakerObeyed: a breaker moves to half-open only from open, opens with  *)
(* Threshold failures, closes on a success, and while it is open, or       *)
(* before its cooldown is over, the tick inserts no job -- for any number  *)
(* of schedules, commands, crashes, failing writes and operator resets     *)
(* between the reads and writes of reconcileCircuitBreaker, canSchedule    *)
(* and enqueueScheduledJob.                                                *)
THEOREM BreakerIsObeyed == Spec => BreakerObeyed
<1>1. IndInv /\ [Next]_<<vars, deployment>> => [BreakerSteps /\ Cooldown]_vars
  <2> SUFFICES ASSUME IndInv, Next PROVE BreakerSteps /\ Cooldown
    OBVIOUS
  <2>1. JobStep /\ BreakerSteps
    BY NextInv
  <2>2. Cooldown
    <3> SUFFICES ASSUME NEW j \in JobId, Inserted(j), job'[j].key[2] = "tick"
                 PROVE  LET b == cb[job'[j].command]
                        IN  /\ b.state # "open"
                            /\ b.state = "half_open" => now >= b.openedAt + ResetAfter
      BY DEF Cooldown
    <3>1. FromTick(j)
      BY <2>1 DEF JobStep, FromCatchUp
    <3>2. pc = "enqueue" /\ job'[j].command = my.command /\ my.command \in Command
      BY <3>1, SettingFacts DEF FromTick, IndInv
    <3> QED
      BY <3>2 DEF IndInv, Copies, BreakersOK, Waited
  <2> QED
    BY <2>1, <2>2
<1> QED
  BY <1>1, Invariance, PTL DEF Spec, BreakerObeyed

(* SuccessSpacing: the tick inserts a job of an interval schedule only     *)
(* when no success of it lies within the interval, because Enqueue looks   *)
(* for one under the same dedupe key, whatever happened since the tick     *)
(* read the latest result.                                                 *)
THEOREM SuccessesSpaced == Spec => SuccessSpacing
<1> DEFINE Spaced == \A j \in JobId :
             Inserted(j) /\ job'[j].key[2] = "tick" /\ conf[job'[j].sched].kind = "every" =>
                 \A i \in Jobs({"succeeded"}) :
                     job[i].key = job'[j].key /\ job[i].command = job'[j].command
                         => now >= job[i].at + conf[job'[j].sched].interval
<1>1. IndInv /\ [Next]_<<vars, deployment>> => [Spaced]_vars
  <2> SUFFICES ASSUME IndInv, Next, NEW j \in JobId, Inserted(j), job'[j].key[2] = "tick",
                      conf[job'[j].sched].kind = "every", NEW i \in Jobs({"succeeded"}),
                      job[i].key = job'[j].key, job[i].command = job'[j].command
               PROVE  now >= job[i].at + conf[job'[j].sched].interval
    OBVIOUS
  <2>1. FromTick(j)
    BY NextInv DEF JobStep, FromCatchUp
  <2>2. conf[job'[j].sched] = my /\ DedupeTTL = my.interval /\ my.interval \in Nat
    BY <2>1, SettingFacts DEF FromTick, my, DedupeTTL, IndInv
  <2>3. i \in JobId /\ job[i].status = "succeeded" /\ job[i].at \in Nat /\ now \in Nat
    BY DEF Jobs, IndInv, JobsOK, Control
  <2>4. i \notin Duplicates(my.command, TickKey, my.interval)
    BY <2>1, <2>2 DEF FromTick
  <2>5. ~(job[i].at >= now - my.interval)
    BY <2>1, <2>3, <2>4 DEF FromTick, Duplicates
  <2> QED
    BY <2>2, <2>3, <2>5
<1> QED
  BY <1>1, Invariance, PTL DEF Spec, SuccessSpacing

-----------------------------------------------------------------------------
(* Appending a transition makes it the last one.                           *)
LEMMA LastRecorded ==
  ASSUME Control, NEW c \in Command, NEW st, st \in {"closed", "open", "half_open"}, RecordState(c, st)
  PROVE  /\ cbFacts'[c] # <<>> /\ Last(cbFacts'[c]) = st
         /\ \A x \in Command : x # c => cbFacts'[x] = cbFacts[x]
<1> DEFINE States == {"closed", "open", "half_open"}
           old == cbFacts[c]
           new == Append(old, st)
<1>1. old \in Seq(States) /\ st \in States
  BY DEF Control
<1>2. cbFacts'[c] = new /\ \A x \in Command : x # c => cbFacts'[x] = cbFacts[x]
  BY DEF Control, RecordState
<1> HIDE DEF old, States
<1>3. Len(new) = Len(old) + 1 /\ Len(old) \in Nat /\ new[Len(old) + 1] = st /\ new \in Seq(States)
  BY <1>1
<1>4. new # <<>> /\ Last(new) = st
  BY <1>3, EmptySeq DEF Last
<1> QED
  BY <1>2, <1>4

(* A step that records nothing and writes no breaker.                      *)
LEMMA FactsKept ==
  ASSUME FactsInv, Undisturbed' => Undisturbed, UNCHANGED <<cb, cbFacts>>,
         \/ pc \notin {"fact", "probeFact"} /\ pc' \notin {"fact", "probeFact"}
         \/ UNCHANGED <<pc, cur, conf, bk, latest, deployment>>
  PROVE  FactsInv'
<1>1. \A c \in Command : Explained(c)' <=> Explained(c)
  BY DEF Explained
<1>2. CASE pc \notin {"fact", "probeFact"} /\ pc' \notin {"fact", "probeFact"}
  BY <1>1, <1>2 DEF FactsInv
<1>3. CASE UNCHANGED <<pc, cur, conf, bk, latest, deployment>>
  <2>1. my' = my /\ Counted(bk, latest)' = Counted(bk, latest)
    BY <1>3, SameDeployment DEF my, Counted
  <2> QED
    BY <1>1, <1>3, <2>1 DEF FactsInv
<1> QED
  BY <1>2, <1>3

(* The recording of a transition.                                          *)
LEMMA FactsRecorded ==
  ASSUME IndInv, FactsInv, deployment' = deployment, RecordTransition \/ RecordHalfOpen \/ RecordReset
  PROVE  FactsInv'
<1> SUFFICES ASSUME Undisturbed' PROVE FactsInv'
  BY DEF FactsInv
<1>0. Control /\ BreakersOK /\ my.command \in Command
  BY SettingFacts DEF IndInv
<1>1. Quiet
  BY <1>0, RecordsQuiet
<1>2. Undisturbed
  BY <1>1 DEF Quiet, Undisturbed
<1>3. ~RecordReset
  BY <1>2 DEF RecordReset, IndInv, Control, Undisturbed
<1>4. ~Fault
  BY <1>0 DEF Fault, Undisturbed, Control
<1> DEFINE st == IF pc = "fact" THEN Counted(bk, latest).state ELSE "half_open"
<1>5. RecordState(my.command, st) /\ pc \in {"fact", "probeFact"} /\ pc' \in {"timing", "policy"}
  BY <1>3, <1>4 DEF RecordTransition, RecordHalfOpen, GoTo
<1>6. cb[my.command].state = st
  BY <1>2, <1>5 DEF FactsInv
<1>7. st \in {"closed", "open", "half_open"}
  BY <1>0, <1>6 DEF BreakersOK, GoodBreaker
<1> HIDE DEF st
<1>8. /\ cbFacts'[my.command] # <<>> /\ Last(cbFacts'[my.command]) = st
      /\ \A x \in Command : x # my.command => cbFacts'[x] = cbFacts[x]
  BY <1>0, <1>5, <1>7, LastRecorded
<1>9. cb' = cb
  BY <1>1 DEF Quiet
<1>10. ASSUME NEW x \in Command PROVE Explained(x)'
  <2>1. CASE x = my.command
    BY <1>6, <1>8, <1>9, <2>1 DEF Explained
  <2>2. CASE x # my.command
    BY <1>2, <1>8, <1>9, <2>2 DEF Explained, FactsInv
  <2> QED
    BY <2>1, <2>2
<1> QED
  BY <1>5, <1>10 DEF FactsInv

(* The writes of a breaker: the transition, if any, is recorded next.      *)
LEMMA FactsPending ==
  ASSUME IndInv, FactsInv, deployment' = deployment, CountResult \/ HalfOpen
  PROVE  FactsInv'
<1> SUFFICES ASSUME Undisturbed' PROVE FactsInv'
  BY DEF FactsInv
<1> DEFINE c == my.command
           new == IF pc = "count" THEN Counted(bk, latest) ELSE [bk EXCEPT !.state = "half_open"]
<1>0. /\ Control /\ c \in Command /\ ~Fault
      /\ UNCHANGED <<conf, cbFacts, bk, latest>> /\ pc \in {"count", "probe"}
  BY SettingFacts DEF IndInv, Fault, Undisturbed, Control, CountResult, HalfOpen, localVars
<1>1. /\ cb' = [cb EXCEPT ![c] = new] /\ NoFault /\ cur' = cur
      /\ pc' = (IF pc = "count" THEN IF new.state = bk.state THEN "timing" ELSE "fact" ELSE "probeFact")
  BY <1>0 DEF CountResult, HalfOpen, UpsertBreaker, GoTo
<1>2. Undisturbed
  BY <1>0, <1>1 DEF Undisturbed, NoFault, boundVars
<1>3. bk = cb[c] /\ GoodBreaker(bk)
  BY <1>0, <1>2 DEF IndInv, Copies, Undisturbed, BreakersOK
<1>4. \A x \in Command : cb'[x] = IF x = c THEN new ELSE cb[x]
  BY <1>1 DEF IndInv, BreakersOK
<1>5. my' = my /\ Counted(bk, latest)' = Counted(bk, latest)
  BY <1>0, <1>1, SameDeployment DEF my, Counted
<1>6. pc = "probe" => new.state = "half_open"
  BY <1>3 DEF GoodBreaker
<1>7. \A x \in Command : Explained(x)
  BY <1>0, <1>2 DEF FactsInv
<1>8. pc = "count" => new = Counted(bk, latest)
  OBVIOUS
<1> HIDE DEF new
<1>9. ASSUME NEW x \in Command
      PROVE  Explained(x)' \/ (x = my.command' /\ pc' \in {"fact", "probeFact"})
  <2>1. CASE x # c
    BY <1>0, <1>4, <1>7, <2>1 DEF Explained
  <2>2. CASE x = c /\ pc' = "timing"
    <3>1. new.state = cb[c].state
      BY <1>0, <1>1, <1>3, <2>2
    <3> QED
      BY <1>0, <1>4, <1>7, <2>2, <3>1 DEF Explained
  <2>3. CASE x = c /\ pc' # "timing"
    BY <1>0, <1>1, <1>5, <2>3
  <2> QED
    BY <2>1, <2>2, <2>3
<1>10. pc' = "fact" => cb'[my.command'].state = Counted(bk, latest)'.state
  BY <1>0, <1>1, <1>4, <1>5, <1>8
<1>11. pc' = "probeFact" => cb'[my.command'].state = "half_open"
  BY <1>0, <1>1, <1>4, <1>5, <1>6
<1> QED
  BY <1>9, <1>10, <1>11 DEF FactsInv

(* Every step keeps the transitions in line with the breakers.             *)
LEMMA FactsNext ==
  ASSUME IndInv, FactsInv, Next
  PROVE  FactsInv'
<1>0. Control /\ BreakersOK /\ Copies /\ JobsOK /\ Good /\ deployment' = deployment
  BY DEF IndInv, Good, Next
<1>1. ASSUME Quiet, UNCHANGED cbFacts, pc \notin {"fact", "probeFact"}
      PROVE  FactsInv'
  <2>1. Undisturbed' => Undisturbed
    BY <1>1 DEF Quiet, Undisturbed
  <2>2. pc' \notin {"fact", "probeFact"} /\ UNCHANGED cb
    BY <1>1 DEF Quiet
  <2> QED
    BY <1>1, <2>1, <2>2, FactsKept
<1>2. CASE \/ CatchUpSchedule \/ EnqueueCatchUpJob \/ CatchUpDone \/ Tick
           \/ LoadEntry \/ CheckEntry \/ EveryDue \/ CronDue \/ OneShotDue \/ PersistFired
           \/ IfRunning \/ EnqueueScheduledJob
  BY <1>0, <1>1, <1>2, CatchUpQuiet, DueQuiet, PolicyQuiet
<1>3. CASE RecordTransition \/ RecordHalfOpen \/ RecordReset
  BY <1>0, <1>3, FactsRecorded
<1>4. CASE CountResult \/ HalfOpen
  BY <1>0, <1>4, FactsPending
<1>5. CASE (\E j \in JobId, st \in {"succeeded", "failed"} : FinishJob(j, st)) \/ Prune \/ TimePasses
            \/ \E j \in JobId : Revive(j)
  <2>1. Quiet /\ UNCHANGED <<cbFacts, pc, cur, conf>>
    BY <1>0, <1>5, WorldQuiet
  <2>2. Undisturbed' => Undisturbed
    BY <2>1 DEF Quiet, Undisturbed
  <2> QED
    BY <2>1, <2>2, FactsKept DEF Quiet
<1>6. CASE Start
  <2>1. /\ UNCHANGED <<cb, cbFacts, faults, resets>> /\ starts' = starts + 1
        /\ pc = "down" /\ pc' = "catchup"
    BY <1>6 DEF Start, dbVars
  <2>2. Undisturbed' => Undisturbed
    BY <1>0, <2>1 DEF Undisturbed, Control
  <2> QED
    BY <2>1, <2>2, FactsKept
<1>7. CASE Crash
  <2>1. pc # "down" /\ pc' = "down" /\ starts' = starts
    BY <1>7 DEF Crash, boundVars
  <2>2. ~Undisturbed'
    BY <1>0, <2>1 DEF Undisturbed, Control
  <2> QED
    BY <2>2 DEF FactsInv
<1>8. CASE ReadBreaker \/ CheckGate
  <2>1. UNCHANGED <<cb, cbFacts, starts, faults, resets>>
    BY <1>0, <1>8, ReadsGood
  <2>2. pc \in {"breaker", "window"}
    BY <1>8 DEF ReadBreaker, CheckGate
  <2>3. pc' \in {"timing", "count", "load", "idle", "probe", "policy"}
    BY <1>0, <1>8, SkipFacts DEF ReadBreaker, CheckGate, GoTo
  <2>4. Undisturbed' => Undisturbed
    BY <2>1, <2>2 DEF Undisturbed
  <2> QED
    BY <2>1, <2>2, <2>3, <2>4, FactsKept
<1>9. CASE ResetCircuitBreaker("poll")
  <2>1. ~Undisturbed'
    BY <1>0, <1>9, ResetGood DEF Undisturbed
  <2> QED
    BY <2>1 DEF FactsInv
<1> QED
  BY <1>2, <1>3, <1>4, <1>5, <1>6, <1>7, <1>8, <1>9 DEF Next, CatchUp, ProcessSchedule, Environment

(* FactsExplain: between ticks the last recorded transition of a breaker   *)
(* is its state, as long as no write was lost to a crash or an error and   *)
(* nobody reset it, although the breaker and its transition are written    *)
(* one after the other (recordCircuitBreakerTransition).                   *)
THEOREM FactsExplained == Spec => []FactsExplain
<1>1. IndInv /\ FactsInv /\ [Next]_<<vars, deployment>> => FactsInv'
  <2>1. ASSUME IndInv, FactsInv, UNCHANGED <<vars, deployment>> PROVE FactsInv'
    <3>1. UNCHANGED <<cb, cbFacts, pc, cur, conf, bk, latest, starts, faults, resets, deployment>>
      BY <2>1 DEF vars, dbVars, localVars, boundVars
    <3> QED
      BY <2>1, <3>1, FactsKept DEF Undisturbed
  <2> QED
    BY <2>1, FactsNext
<1>2. IndInv /\ FactsInv => FactsExplain
  BY DEF FactsInv, FactsExplain, Explained, Undisturbed
<1> QED
  BY <1>1, <1>2, InitInv, Invariance, PTL DEF Spec

-----------------------------------------------------------------------------
(* What a step does to a row.  A row keeps what it was submitted with.     *)
SameJob(j) ==
    /\ job'[j].key = job[j].key /\ job'[j].sched = job[j].sched
    /\ job'[j].born = job[j].born /\ job'[j].command = job[j].command
Rewrites(j, status, at, busy, failed) ==
    /\ SameJob(j)
    /\ job'[j].status = status /\ job'[j].at = at
    /\ job'[j].busy = busy /\ job'[j].failed = failed
    /\ job'[j].revived = job[j].revived

(* A worker's result.                                                      *)
LEMMA FinishRows ==
  ASSUME JobsOK, NEW k \in JobId, NEW st \in {"succeeded", "failed"}, FinishJob(k, st)
  PROVE  /\ \A j \in JobId \ {k} : job'[j] = job[j]
         /\ job[k].busy
         /\ job[k].status # "gone" => Rewrites(k, st, now, FALSE, job[k].failed \/ st = "failed")
         /\ job[k].status = "gone" => Rewrites(k, "gone", job[k].at, FALSE, job[k].failed)
<1> DEFINE f == job[k].failed \/ st = "failed"
           no == FALSE
           r == job[k]
           done == [r EXCEPT !.status = st, !.at = now, !.busy = no, !.failed = f]
           ended == [r EXCEPT !.busy = no]
<1>1. job = [j \in JobId |-> job[j]] /\ IsRow(r)
  BY DEF JobsOK
<1>2. job[k].status # "gone" => job' = [job EXCEPT ![k] = done]
  BY DEF FinishJob
<1>3. job[k].status = "gone" => job' = [job EXCEPT ![k] = ended]
  BY DEF FinishJob
<1>4. job[k].busy
  BY DEF FinishJob
<1>9. /\ done = [r EXCEPT !.status = st, !.at = now, !.busy = no, !.failed = f]
      /\ ended = [r EXCEPT !.busy = no]
  OBVIOUS
<1> HIDE DEF f, no, r, done, ended
<1>5. done = [status |-> st, sched |-> r.sched, command |-> r.command, key |-> r.key,
              at |-> now, busy |-> no, revived |-> r.revived, failed |-> f, born |-> r.born]
  BY <1>1, <1>9 DEF IsRow
<1>6. ended = [status |-> r.status, sched |-> r.sched, command |-> r.command, key |-> r.key,
               at |-> r.at, busy |-> no, revived |-> r.revived, failed |-> r.failed, born |-> r.born]
  BY <1>1, <1>9 DEF IsRow
<1>7. CASE job[k].status # "gone"
  <2>1. (\A j \in JobId \ {k} : job'[j] = job[j]) /\ job'[k] = done
    BY <1>1, <1>2, <1>7
  <2>2. Rewrites(k, st, now, no, f)
    BY <2>1, <1>5 DEF Rewrites, SameJob, r
  <2> QED
    BY <1>4, <1>7, <2>1, <2>2 DEF no, f
<1>8. CASE job[k].status = "gone"
  <2>1. (\A j \in JobId \ {k} : job'[j] = job[j]) /\ job'[k] = ended
    BY <1>1, <1>3, <1>8
  <2>2. Rewrites(k, "gone", job[k].at, no, job[k].failed)
    BY <2>1, <1>6, <1>8 DEF Rewrites, SameJob, r
  <2> QED
    BY <1>4, <1>8, <2>1, <2>2 DEF no
<1> QED
  BY <1>7, <1>8

(* A cancelled job that is queued again.                                   *)
LEMMA ReviveRows ==
  ASSUME JobsOK, NEW k \in JobId, Revive(k)
  PROVE  /\ \A j \in JobId \ {k} : job'[j] = job[j]
         /\ job[k].busy /\ job[k].status = "dead" /\ SameJob(k)
         /\ job'[k].status = "outstanding" /\ job'[k].busy = job[k].busy
         /\ job'[k].failed = job[k].failed /\ job'[k].revived = job[k].revived + 1
<1> DEFINE n == job[k].revived + 1   r == job[k]
           again == [r EXCEPT !.status = "outstanding", !.revived = n]
<1>1. job = [j \in JobId |-> job[j]] /\ IsRow(r)
  BY DEF JobsOK
<1>2. job' = [job EXCEPT ![k] = again] /\ job[k].busy /\ job[k].status = "dead"
  BY DEF Revive
<1>3. again = [r EXCEPT !.status = "outstanding", !.revived = n]
  OBVIOUS
<1> HIDE DEF n, r, again
<1>4. again = [status |-> "outstanding", sched |-> r.sched, command |-> r.command, key |-> r.key,
               at |-> r.at, busy |-> r.busy, revived |-> n, failed |-> r.failed, born |-> r.born]
  BY <1>1, <1>3 DEF IsRow
<1>5. (\A j \in JobId \ {k} : job'[j] = job[j]) /\ job'[k] = again
  BY <1>1, <1>2
<1>6. /\ again.status = "outstanding" /\ again.sched = r.sched /\ again.command = r.command
      /\ again.key = r.key /\ again.busy = r.busy /\ again.revived = n /\ again.failed = r.failed
      /\ again.born = r.born
  BY <1>4, Zenon
<1>7. SameJob(k)
  BY <1>5, <1>6 DEF SameJob, r
<1> QED
  BY <1>2, <1>5, <1>6, <1>7, Zenon DEF r, n

(* A cancelled job, whose worker may go on.                                *)
LEMMA CancelRows ==
  ASSUME JobsOK, NEW S \in SUBSET JobId, NEW running, Cancel(S, running), NEW j \in JobId
  PROVE  /\ j \notin S => job'[j] = job[j]
         /\ j \in S => Rewrites(j, "dead", now, j \in running, TRUE)
<1> DEFINE b == j \in running   yes == TRUE   r == job[j]
           dead == [r EXCEPT !.status = "dead", !.at = now, !.failed = yes, !.busy = b]
<1>1. IsRow(r)
  BY DEF JobsOK
<1>2. job'[j] = IF j \in S THEN dead ELSE job[j]
  BY DEF Cancel
<1>5. dead = [r EXCEPT !.status = "dead", !.at = now, !.failed = yes, !.busy = b]
  OBVIOUS
<1> HIDE DEF b, yes, r, dead
<1>3. dead = [status |-> "dead", sched |-> r.sched, command |-> r.command, key |-> r.key,
              at |-> now, busy |-> b, revived |-> r.revived, failed |-> yes, born |-> r.born]
  BY <1>1, <1>5 DEF IsRow
<1>4. j \in S => Rewrites(j, "dead", now, b, yes)
  BY <1>2, <1>3 DEF Rewrites, SameJob, r
<1> QED
  BY <1>2, <1>4 DEF b, yes

(* A pruned row is gone, and nothing else happens to it.                   *)
Old == {j \in Ended : job[j].at < now - Retention}
(* Rows that are pruned.                                                   *)
LEMMA PruneRows ==
  ASSUME JobsOK, Prune, NEW j \in JobId
  PROVE  /\ j \notin Old => job'[j] = job[j]
         /\ j \in Old => Rewrites(j, "gone", job[j].at, job[j].busy, job[j].failed)
         /\ later' = {p \in later : {p[1], p[2]} \cap Old = {}}
<1> DEFINE r == job[j]
           gone == [r EXCEPT !.status = "gone"]
<1>1. IsRow(r)
  BY DEF JobsOK
<1>2. job'[j] = IF j \in Old THEN gone ELSE job[j]
  BY DEF Prune, Old
<1>5. later' = {p \in later : {p[1], p[2]} \cap Old = {}}
  BY DEF Prune, Old
<1> HIDE DEF r
<1>3. gone = [status |-> "gone", sched |-> r.sched, command |-> r.command, key |-> r.key,
              at |-> r.at, busy |-> r.busy, revived |-> r.revived, failed |-> r.failed, born |-> r.born]
  BY <1>1 DEF IsRow
<1> HIDE DEF gone
<1>4. j \in Old => Rewrites(j, "gone", job[j].at, job[j].busy, job[j].failed)
  BY <1>2, <1>3 DEF Rewrites, SameJob, r
<1> QED
  BY <1>2, <1>4, <1>5

(* A crash ends the workers.                                               *)
LEMMA CrashRows ==
  ASSUME JobsOK, Crash, NEW j \in JobId
  PROVE  Rewrites(j, job[j].status, job[j].at, job[j].busy /\ job[j].status = "outstanding", job[j].failed)
<1> DEFINE b == job[j].busy /\ job[j].status = "outstanding"   r == job[j]
           left == [r EXCEPT !.busy = b]
<1>1. IsRow(r)
  BY DEF JobsOK
<1>2. job'[j] = left
  BY DEF Crash
<1> HIDE DEF b, r
<1>3. left = [status |-> r.status, sched |-> r.sched, command |-> r.command, key |-> r.key,
              at |-> r.at, busy |-> b, revived |-> r.revived, failed |-> r.failed, born |-> r.born]
  BY <1>1 DEF IsRow
<1> HIDE DEF left
<1>4. Rewrites(j, job[j].status, job[j].at, b, job[j].failed)
  BY <1>2, <1>3 DEF Rewrites, SameJob, r
<1> QED
  BY <1>4 DEF b

(* A new row: the first that is free.                                      *)
Inserts(k, s, key) ==
    /\ k \in FreeJob /\ \A j \in JobId \ {k} : job'[j] = job[j]
    /\ job'[k].status = "outstanding" /\ job'[k].sched = s /\ job'[k].key = key
    /\ job'[k].command = conf[s].command /\ job'[k].born = now
    /\ job'[k].failed = FALSE /\ job'[k].at = Null /\ job'[k].busy /\ job'[k].revived = 0
(* A row that is inserted.                                                 *)
LEMMA InsertRows ==
  ASSUME JobsOK, NEW s, NEW key, InsertJob(s, key)
  PROVE  \E k \in FreeJob : Inserts(k, s, key)
<1> DEFINE yes == TRUE  no == FALSE
           row == [status |-> "outstanding", sched |-> s, key |-> key,
                   command |-> conf[s].command, at |-> Null, busy |-> yes,
                   revived |-> 0, failed |-> no, born |-> now]
<1>1. PICK k \in FreeJob : job' = [job EXCEPT ![k] = row]
  BY DEF InsertJob
<1>2. k \in JobId /\ job = [j \in JobId |-> job[j]]
  BY <1>1 DEF FreeJob, Jobs, JobsOK
<1> HIDE DEF yes, no
<1>3. /\ row.status = "outstanding" /\ row.sched = s /\ row.key = key /\ row.at = Null
      /\ row.command = conf[s].command /\ row.born = now /\ row.failed = no
      /\ row.busy = yes /\ row.revived = 0
  OBVIOUS
<1> HIDE DEF row
<1>4. (\A j \in JobId \ {k} : job'[j] = job[j]) /\ job'[k] = row
  BY <1>1, <1>2
<1>5. Inserts(k, s, key)
  BY <1>1, <1>3, <1>4 DEF Inserts, no, yes
<1> QED
  BY <1>1, <1>5

(* Multiples of an interval.                                               *)
LEMMA Multiples ==
  ASSUME NEW k \in Nat, NEW a \in Nat, NEW b \in Nat, a <= b
  PROVE  k * a \in Nat /\ k * a <= k * b
<1>1. k * b = k * a + k * (b - a)
  OBVIOUS
<1>2. b - a \in Nat /\ k * (b - a) \in Nat /\ k * a \in Nat
  OBVIOUS
<1> QED
  BY <1>1, <1>2

(* Division by an interval.                                                *)
LEMMA Division ==
  ASSUME NEW x \in Nat, NEW k \in Nat \ {0}
  PROVE  /\ x \div k \in Nat /\ k * (x \div k) <= x /\ x < k * (x \div k) + k
         /\ (k * (x \div k)) % k = 0
<1>1. x \div k \in Nat /\ k * (x \div k) <= x /\ x < k * (x \div k) + k
  OBVIOUS
<1> DEFINE q == x \div k  m == (k * q) \div k  r == (k * q) % k
<1>2. q \in Nat /\ k * q \in Nat
  BY <1>1
<1> HIDE DEF q
<1>3. m \in Int /\ r \in 0..(k - 1) /\ k * q = k * m + r
  BY <1>2
<1> HIDE DEF m, r
<1>4. k * q - k * m = k * (q - m) /\ q - m \in Int
  BY <1>2, <1>3
<1>5. CASE q - m >= 1
  <2>1. k * (q - m) = k + k * (q - m - 1) /\ k * (q - m - 1) >= 0
    BY <1>2, <1>3, <1>5, Multiples
  <2> QED
    BY <1>2, <1>3, <1>4, <2>1
<1>6. CASE q - m <= -1
  <2>1. k * (q - m) = -k - k * (m - q - 1) /\ k * (m - q - 1) >= 0
    BY <1>2, <1>3, <1>6, Multiples
  <2> QED
    BY <1>2, <1>3, <1>4, <2>1
<1>7. CASE q - m = 0
  BY <1>2, <1>3, <1>4, <1>7, <1>1 DEF r, q
<1> QED
  BY <1>2, <1>3, <1>5, <1>6, <1>7

(* The missed slots lie in the past.                                       *)
LEMMA MissedSlots ==
  ASSUME NEW last \in Nat, NEW t \in Nat, NEW k \in Nat \ {0}
  PROVE  /\ CountMissedRuns(last, t, k) \in Nat
         /\ CountMissedRuns(last, t, k) # 0 => last + k * CountMissedRuns(last, t, k) <= t
<1> DEFINE x == t - (last + k)   q == x \div k
<1>1. CASE t <= last \/ t < last + k
  BY <1>1 DEF CountMissedRuns
<1>2. CASE ~(t <= last \/ t < last + k)
  <2>1. x \in Nat
    BY <1>2
  <2>2. q \in Nat /\ k * q <= x
    BY <2>1, Division
  <2>3. CountMissedRuns(last, t, k) = q + 1
    BY <1>2 DEF CountMissedRuns
  <2> HIDE DEF q
  <2>4. k * (q + 1) = k * q + k /\ k * q \in Nat
    BY <2>2
  <2> QED
    BY <2>1, <2>2, <2>3, <2>4
<1> QED
  BY <1>1, <1>2

(* The next match of a cron expression.                                    *)
LEMMA NextMatch ==
  ASSUME NEW c, c.interval \in Nat \ {0}, NEW t \in Nat
  PROVE  CronNextAfter(c, t) \in Nat /\ CronNextAfter(c, t) > t /\ CronMatches(c, CronNextAfter(c, t))
<1> DEFINE k == c.interval  q == t \div k  y == t + k
<1>1. q \in Nat /\ k * q <= t /\ t < k * q + k
  BY Division
<1>2. y \div k = q + 1
  BY <1>1
<1>3. (k * (y \div k)) % k = 0
  <2>1. y \in Nat /\ k \in Nat \ {0}
    OBVIOUS
  <2> HIDE DEF y, k
  <2> QED
    BY <2>1, Division
<1>4. CronNextAfter(c, t) = k * (q + 1)
  BY <1>1 DEF CronNextAfter
<1>5. k * (q + 1) = k * q + k /\ k * q \in Nat
  BY <1>1
<1> QED
  BY <1>1, <1>2, <1>3, <1>4, <1>5 DEF CronMatches

(* The rows of the queue: ids are given in order, a row carries the key it *)
(* was submitted under, and no two rows of a command that are outstanding  *)
(* carry the same: for a missed slot none that may be queued again either, *)
(* for a tick none that has not been queued again.                         *)
Status == {"none", "outstanding", "succeeded", "failed", "dead", "gone"}
Keyed(j) ==
    \/ job[j].key = <<job[j].sched, "tick", 0>>
    \/ \E t \in 0..now : job[j].key = <<job[j].sched, "catchup", t>>
RowOK(j) ==
    /\ job[j].status \in Status
    /\ job[j].revived \in Nat
    /\ job[j].status = "none" => job[j].key = <<>> /\ ~job[j].busy
    /\ job[j].status # "none" =>
         job[j].born \in Nat /\ job[j].born <= now /\ job[j].sched \in Schedule /\ Keyed(j)
InOrder == \A i, j \in JobId : i < j /\ job[i].status = "none" => job[j].status = "none"
Live(j) == job[j].status = "outstanding" \/ (job[j].status = "dead" /\ job[j].busy)
Fresh(j) == job[j].status = "outstanding" /\ job[j].revived = 0
NoDuplicates ==
    \A i, j \in JobId :
        /\ i # j /\ job[i].command = job[j].command
        /\ (Fresh(i) /\ Fresh(j)) \/ (Live(i) /\ Live(j) /\ job[i].key[2] = "catchup")
        => job[i].key # job[j].key
RowsOK == (\A j \in JobId : RowOK(j)) /\ InOrder /\ NoDuplicates

(* No worker outlives its process: when one starts, no cancelled job is    *)
(* left that could be queued again.                                        *)
NoLeftovers ==
    pc \in {"down", "catchup", "slot"} =>
        \A j \in JobId : job[j].status = "dead" => ~job[j].busy

(* The slots of a catch-up are past.                                       *)
SlotsOK ==
    /\ pc \in {"catchup", "slot"} => slots.now \in Nat /\ slots.now <= now
    /\ pc = "slot" =>
         /\ slots = [now |-> slots.now, left |-> slots.left, done |-> slots.done, base |-> slots.base]
         /\ slots.left \in Nat /\ slots.done \in Nat /\ slots.base \in Nat /\ my.kind = "every"
         /\ slots.base + my.interval * (slots.done + slots.left) <= now

(* A step that submits nothing.                                            *)
Kept(j) ==
    /\ SameJob(j) /\ job'[j].status \in Status
    /\ job'[j].status = "none" <=> job[j].status = "none"
    /\ job'[j].status = "none" => ~job'[j].busy
    /\ job'[j].revived \in Nat
    /\ (Live(j)' => Live(j)) /\ (Fresh(j)' => Fresh(j))
NothingSubmitted == \A j \in JobId : Kept(j)

(* A step that submits a job of the schedule at hand, no duplicate.        *)
Submits(k, key) ==
    /\ Inserts(k, cur, key)
    /\ \E ttl : Duplicates(my.command, key, ttl) = {}
    /\ \/ EnqueueScheduledJob /\ pc = "enqueue" /\ pc' = "persist" /\ cur' = cur /\ key = TickKey
       \/ /\ EnqueueCatchUpJob /\ pc = "slot" /\ slots.left > 0 /\ pc' = pc /\ cur' = cur
          /\ key = SlotKey(slots.done + 1)

(* Nothing else happens to the queue.                                      *)
LEMMA QueueSteps ==
  ASSUME IndInv, RowsOK, Next
  PROVE  NothingSubmitted \/ \E k \in FreeJob : \E key : Submits(k, key)
<1>0. /\ JobsOK /\ Control
      /\ \A j \in JobId : /\ job[j].status \in Status /\ (job[j].status = "none" => ~job[j].busy)
                         /\ job[j].revived \in Nat
  BY DEF IndInv, RowsOK, RowOK
<1>1. CASE UNCHANGED job
  BY <1>0, <1>1 DEF NothingSubmitted, Kept, SameJob, Live, Fresh
<1>2. CASE EnqueueCatchUpJob /\ job' # job
  <2> DEFINE key == SlotKey(slots.done + 1)
  <2>1. /\ InsertJob(cur, key) /\ Duplicates(my.command, key, my.interval) = {}
        /\ pc = "slot" /\ slots.left > 0 /\ pc' = pc /\ cur' = cur
    BY <1>2 DEF EnqueueCatchUpJob
  <2>2. PICK k \in FreeJob : Inserts(k, cur, key)
    BY <1>0, <2>1, InsertRows
  <2>3. Submits(k, key)
    BY <1>2, <2>1, <2>2 DEF Submits
  <2> QED
    BY <2>3
<1>3. CASE EnqueueScheduledJob /\ job' # job
  <2>1. /\ InsertJob(cur, TickKey) /\ Duplicates(my.command, TickKey, DedupeTTL) = {}
        /\ pc = "enqueue" /\ pc' = "persist" /\ cur' = cur
    BY <1>3 DEF EnqueueScheduledJob, GoTo
  <2>2. PICK k \in FreeJob : Inserts(k, cur, TickKey)
    BY <1>0, <2>1, InsertRows
  <2>3. Submits(k, TickKey)
    BY <1>3, <2>1, <2>2 DEF Submits
  <2> QED
    BY <2>3
<1>4. CASE IfRunning /\ job' # job
  <2>1. PICK S, running : S \in SUBSET JobId /\ Cancel(S, running) /\ S = Outstanding(my.command)
    BY <1>4 DEF IfRunning, Outstanding, Jobs
  <2>2. \A j \in S : job[j].status = "outstanding"
    BY <2>1 DEF Outstanding, Jobs
  <2>3. ASSUME NEW j \in JobId PROVE Kept(j)
    BY <1>0, <2>1, <2>2, CancelRows DEF Kept, Rewrites, SameJob, Status, Live, Fresh
  <2> QED
    BY <2>3 DEF NothingSubmitted
<1>5. CASE Prune
  <2>1. ASSUME NEW j \in JobId PROVE Kept(j)
    <3>1. j \in Old => job[j].status \in {"succeeded", "failed", "dead"}
      BY DEF Old, Ended, Jobs
    <3> QED
      BY <1>0, <1>5, <3>1, PruneRows DEF Kept, Rewrites, SameJob, Status, Live, Fresh
  <2> QED
    BY <2>1 DEF NothingSubmitted
<1>6. CASE Crash
  BY <1>0, <1>6, CrashRows DEF NothingSubmitted, Kept, Rewrites, Live, Fresh
<1>7. ASSUME NEW k \in JobId, NEW st \in {"succeeded", "failed"}, FinishJob(k, st)
      PROVE  NothingSubmitted
  <2>0. job[k].status # "none"
    BY <1>0, <1>7, FinishRows
  <2>1. ASSUME NEW j \in JobId PROVE Kept(j)
    <3>1. CASE j # k
      BY <1>0, <1>7, <3>1, FinishRows DEF Kept, SameJob, Live, Fresh
    <3>2. CASE j = k
      BY <1>0, <1>7, <2>0, <3>2, FinishRows DEF Kept, Rewrites, Status, Live, Fresh
    <3> QED
      BY <3>1, <3>2
  <2> QED
    BY <2>1 DEF NothingSubmitted
<1>9. ASSUME NEW k \in JobId, Revive(k)
      PROVE  NothingSubmitted
  <2>1. ASSUME NEW j \in JobId PROVE Kept(j)
    <3>1. CASE j # k
      BY <1>0, <1>9, <3>1, ReviveRows DEF Kept, SameJob, Live, Fresh
    <3>2. CASE j = k
      BY <1>0, <1>9, <3>2, ReviveRows DEF Kept, Status, Live, Fresh
    <3> QED
      BY <3>1, <3>2
  <2> QED
    BY <2>1 DEF NothingSubmitted
<1>8. \/ UNCHANGED job \/ EnqueueCatchUpJob \/ EnqueueScheduledJob \/ IfRunning \/ Prune \/ Crash
      \/ (\E j \in JobId, st \in {"succeeded", "failed"} : FinishJob(j, st))
      \/ \E j \in JobId : Revive(j)
  BY DEF Next, CatchUp, ProcessSchedule, Environment, Start, CatchUpSchedule, CatchUpDone, Tick,
         LoadEntry, CheckEntry, ReadBreaker, CountResult, RecordTransition, EveryDue, CronDue,
         OneShotDue, CheckGate, HalfOpen, RecordHalfOpen, PersistFired, ResetCircuitBreaker,
         RecordReset, TimePasses, dbVars
<1> QED
  BY <1>1, <1>2, <1>3, <1>4, <1>5, <1>6, <1>7, <1>8, <1>9

(* Time does not run backwards, and passes only on its own.                *)
LEMMA Clock ==
  ASSUME Next, Control
  PROVE  now' \in Nat /\ now' >= now /\ (UNCHANGED now \/ TimePasses)
<1>1. UNCHANGED now \/ TimePasses
  BY DEF Next, CatchUp, ProcessSchedule, Environment, Start, CatchUpSchedule, CatchUpDone, Tick,
         LoadEntry, CheckEntry, ReadBreaker, CountResult, RecordTransition, EveryDue, CronDue,
         OneShotDue, CheckGate, HalfOpen, RecordHalfOpen, PersistFired, ResetCircuitBreaker,
         RecordReset, EnqueueCatchUpJob, EnqueueScheduledJob, IfRunning, Prune, Crash, FinishJob, Revive
<1> QED
  BY <1>1 DEF TimePasses, Control

(* Rows stay in order.                                                     *)
LEMMA RowsKept ==
  ASSUME RowsOK, NothingSubmitted, deployment' = deployment, now \in Nat, now' \in Nat, now' >= now
  PROVE  RowsOK'
<1>0. JobId' = JobId /\ Schedule' = Schedule
  BY SameDeployment
<1>1. ASSUME NEW j \in JobId PROVE RowOK(j)'
  <2>1. Keyed(j) => Keyed(j)'
    <3>1. 0..now \subseteq 0..now'
      OBVIOUS
    <3> QED
      BY <3>1 DEF Keyed, NothingSubmitted, Kept, SameJob
  <2> QED
    BY <1>0, <2>1 DEF RowsOK, RowOK, NothingSubmitted, Kept, SameJob
<1>2. InOrder'
  BY <1>0 DEF RowsOK, InOrder, NothingSubmitted, Kept
<1>3. NoDuplicates'
  <2>1. \A j \in JobId : (Live(j)' => Live(j)) /\ (Fresh(j)' => Fresh(j)) /\ SameJob(j)
    BY DEF NothingSubmitted, Kept
  <2> QED
    BY <1>0, <2>1 DEF RowsOK, NoDuplicates, SameJob
<1> QED
  BY <1>0, <1>1, <1>2, <1>3 DEF RowsOK

(* A new row takes the next id and a key that is free.                     *)
LEMMA RowsSubmitted ==
  ASSUME RowsOK, NoLeftovers, Control, SlotsOK, UNCHANGED <<deployment, now>>,
         NEW k \in FreeJob, NEW key, Submits(k, key)
  PROVE  RowsOK'
<1>0. JobId' = JobId /\ Schedule' = Schedule /\ cur \in Schedule /\ now \in Nat
  BY SameDeployment DEF Control
<1>1. /\ k \in JobId /\ job[k].status = "none" /\ \A i \in JobId : job[i].status = "none" => k <= i
      /\ JobId \subseteq Nat
  BY DEF FreeJob, Jobs, JobId
<1>2. key = <<cur, "tick", 0>> \/ \E t \in 0..now : key = <<cur, "catchup", t>>
  <2>1. CASE key = TickKey
    BY <2>1 DEF TickKey
  <2>2. CASE pc = "slot" /\ slots.left > 0 /\ key = SlotKey(slots.done + 1)
    <3>1. /\ slots.left \in Nat /\ slots.done \in Nat /\ slots.base \in Nat /\ my.interval \in Nat
          /\ slots.base + my.interval * (slots.done + slots.left) <= now
      BY <2>2, SettingFacts DEF SlotsOK
    <3>2. /\ my.interval * (slots.done + 1) \in Nat
          /\ my.interval * (slots.done + 1) <= my.interval * (slots.done + slots.left)
      BY <2>2, <3>1, Multiples
    <3>3. slots.base + my.interval * (slots.done + 1) \in 0..now
      <4> DEFINE x == my.interval * (slots.done + 1)  y == my.interval * (slots.done + slots.left)
      <4>1. y \in Nat
        BY <3>1, Multiples
      <4>2. slots.base + y <= now /\ x \in Nat /\ x <= y
        BY <3>1, <3>2
      <4> HIDE DEF x, y
      <4>3. slots.base + x \in 0..now
        BY <1>0, <3>1, <4>1, <4>2
      <4> QED
        BY <4>3 DEF x
    <3> QED
      BY <2>2, <3>3 DEF SlotKey
  <2> QED
    BY <2>1, <2>2 DEF Submits
<1>3. \A j \in JobId \ {k} : job'[j] = job[j]
  BY DEF Submits, Inserts
<1>4. /\ job'[k].status = "outstanding" /\ job'[k].sched = cur /\ job'[k].key = key
      /\ job'[k].command = my.command /\ job'[k].born = now /\ job'[k].revived = 0
  BY DEF Submits, Inserts, my
<1>5. ASSUME NEW j \in JobId PROVE RowOK(j)'
  <2>1. CASE j = k
    BY <1>0, <1>2, <1>4, <2>1 DEF RowOK, Keyed, Status
  <2>2. CASE j # k
    BY <1>0, <1>3, <2>2 DEF RowsOK, RowOK, Keyed
  <2> QED
    BY <2>1, <2>2
<1>6. InOrder'
  <2>1. ASSUME NEW i \in JobId, NEW j \in JobId, i < j, job'[i].status = "none"
        PROVE  job'[j].status = "none"
    <3>1. i # k /\ job[i].status = "none" /\ job[j].status = "none"
      BY <1>3, <1>4, <2>1 DEF RowsOK, InOrder
    <3>2. k <= i /\ i \in Nat /\ j \in Nat /\ k \in Nat
      BY <1>1, <3>1
    <3>3. j # k
      BY <2>1, <3>2
    <3> QED
      BY <1>3, <3>1, <3>3
  <2> QED
    BY <1>0, <2>1 DEF InOrder
<1>7. \A i \in JobId : job[i].status = "outstanding" /\ job[i].command = my.command => job[i].key # key
  BY DEF Submits, Duplicates
<1>9. key[2] = "catchup" => \A i \in JobId : Live(i) => job[i].status = "outstanding"
  <2>1. key[2] = "catchup" => pc = "slot"
    BY DEF Submits, TickKey
  <2> QED
    BY <2>1 DEF NoLeftovers, Live
<1>8. NoDuplicates'
  <2>1. \A i \in JobId \ {k} : /\ (Live(i)' <=> Live(i)) /\ (Fresh(i)' <=> Fresh(i))
                              /\ job'[i].key = job[i].key /\ job'[i].command = job[i].command
    BY <1>3 DEF Live, Fresh
  <2>2. ASSUME NEW i \in JobId \ {k}, job[i].command = my.command, job[i].key = key
        PROVE  ~Fresh(i) /\ ~(Live(i) /\ key[2] = "catchup")
    BY <1>7, <1>9, <2>2 DEF Fresh
  <2> QED
    BY <1>0, <1>4, <2>1, <2>2 DEF RowsOK, NoDuplicates
<1> QED
  BY <1>0, <1>5, <1>6, <1>8 DEF RowsOK

(* Entries, the scheduler's copy of one, and the latest result it has read. *)
EntriesOK ==
    /\ entry \in [Schedule -> EntryState] /\ es \in EntryState
    /\ latest = NoResult \/ (/\ latest.job \in JobId /\ latest.at \in Nat
                             /\ latest.status \in {"succeeded", "failed", "dead"})

(* The entry at hand is written, or none.                                  *)
WritesEntry == (UNCHANGED entry \/ \E e \in EntryState : Upsert(e)) /\ es' \in EntryState

(* The intervals a jittered schedule waits for.                            *)
LEMMA IntervalFacts ==
  ASSUME Control
  PROVE  \A i \in Intervals(my) : i \in Nat
<1>1. my.interval \in Nat /\ my.jitter \in Nat
  BY SettingFacts DEF Settings
<1> QED
  BY <1>1 DEF Intervals

(* An entry whose fields are set to proper values.                         *)
LEMMA EntryFields ==
  ASSUME NEW e \in EntryState
  PROVE  /\ \A v \in Command \cup {NoCommand} : [e EXCEPT !.command = v] \in EntryState
         /\ \A v \in {"active", "paused_invalid", "exhausted"} : [e EXCEPT !.status = v] \in EntryState
         /\ \A v \in Nat \cup {Null} : [e EXCEPT !.lastFired = v] \in EntryState
         /\ \A v \in Nat \cup {Null} : [e EXCEPT !.next = v] \in EntryState
         /\ \A v \in JobId, t \in Nat, u \in Nat :
              [e EXCEPT !.lastSuccess = v, !.lastSuccessAt = t, !.next = u] \in EntryState
BY DEF EntryState

(* What a catch-up writes into an entry.                                   *)
LEMMA CatchUpEntries ==
  ASSUME Control, EntriesOK, SlotsOK, CatchUpSchedule \/ CatchUpDone
  PROVE  WritesEntry
<1>0. /\ my \in Settings /\ my.command \in Command /\ my.interval \in Nat \ {0} /\ cur \in Schedule
      /\ now \in Nat /\ entry[cur] \in EntryState /\ es \in EntryState
  BY SettingFacts DEF Control, EntriesOK
<1>1. CASE CatchUpSchedule
  <2> DEFINE e == entry[cur]   base == CatchUpBase(e)
             v == IF e.command = NoCommand THEN my.command ELSE e.command
  <2>1. base \in Nat \cup {Null}
    BY <1>0 DEF CatchUpBase, EntryState
  <2>2. UNCHANGED es \/ es' = [e EXCEPT !.lastFired = base, !.command = v]
    BY <1>1 DEF CatchUpSchedule
  <2>3. v \in Command \cup {NoCommand}
    BY <1>0 DEF EntryState
  <2>5. e \in EntryState
    BY <1>0
  <2> HIDE DEF e, base, v
  <2>4. [e EXCEPT !.lastFired = base, !.command = v] \in EntryState
    BY <2>5, <2>1, <2>3 DEF EntryState
  <2>6. UNCHANGED entry
    BY <1>1 DEF CatchUpSchedule, dbVars
  <2> QED
    BY <1>0, <2>2, <2>4, <2>6 DEF WritesEntry
<1>2. CASE CatchUpDone
  <2> DEFINE fired == IF my.catchUp = "run_once" THEN slots.now
                      ELSE slots.base + my.interval * slots.done
             next == IF es.next = Null \/ es.next < fired THEN fired + my.interval ELSE es.next
  <2>1. slots.base \in Nat /\ slots.done \in Nat /\ slots.now \in Nat
    BY <1>2 DEF CatchUpDone, SlotsOK
  <2>2. my.interval * slots.done \in Nat
    BY <1>0, <2>1, Multiples
  <2>3. fired \in Nat
    BY <1>0, <2>1, <2>2
  <2>4. UNCHANGED entry \/ Upsert([es EXCEPT !.lastFired = fired, !.next = next])
    BY <1>2 DEF CatchUpDone
  <2> HIDE DEF fired
  <2>5. next \in Nat \cup {Null}
    BY <1>0, <2>3 DEF EntryState
  <2> HIDE DEF next
  <2>6. [es EXCEPT !.lastFired = fired, !.next = next] \in EntryState
    BY <1>0, <2>3, <2>5 DEF EntryState
  <2>7. UNCHANGED es
    BY <1>2 DEF CatchUpDone, localVars
  <2> QED
    BY <1>0, <2>4, <2>6, <2>7 DEF WritesEntry
<1> QED
  BY <1>1, <1>2

(* What loading and checking an entry writes.                              *)
LEMMA LoadEntries ==
  ASSUME Control, EntriesOK, LoadEntry \/ CheckEntry
  PROVE  WritesEntry
<1>0. /\ my \in Settings /\ my.command \in Command /\ cur \in Schedule
      /\ now \in Nat /\ entry[cur] \in EntryState /\ es \in EntryState
  BY SettingFacts DEF Control, EntriesOK
<1>1. CASE LoadEntry
  <2> DEFINE e == entry[cur]
             st == IF e.status = "paused_invalid" THEN "active" ELSE e.status
             fresh == [e EXCEPT !.command = my.command, !.lastSuccess = NoJob,
                                !.lastSuccessAt = Null, !.next = Null, !.status = st]
             mine == [e EXCEPT !.command = my.command]
  <2>1. (UNCHANGED entry \/ Upsert(fresh)) /\ (es' = mine \/ es' = fresh \/ UNCHANGED es)
    BY <1>1 DEF LoadEntry
  <2>2. e \in EntryState /\ st \in {"active", "paused_invalid", "paused_manual", "exhausted"}
    BY <1>0 DEF EntryState
  <2> HIDE DEF e, st
  <2>3. fresh \in EntryState /\ mine \in EntryState
    BY <1>0, <2>2 DEF EntryState
  <2> QED
    BY <1>0, <2>1, <2>3 DEF WritesEntry
<1>2. CASE CheckEntry
  <2>1. /\ UNCHANGED entry \/ Upsert([es EXCEPT !.status = "paused_invalid"])
                           \/ Upsert([es EXCEPT !.status = "active"])
        /\ UNCHANGED es \/ es' = [es EXCEPT !.status = "active"]
    BY <1>2 DEF CheckEntry
  <2> QED
    BY <1>0, <2>1, EntryFields DEF WritesEntry
<1> QED
  BY <1>1, <1>2

(* What the due state of a schedule, and firing it, write.                 *)
LEMMA DueEntries ==
  ASSUME Control, EntriesOK, EveryDue \/ CronDue \/ OneShotDue \/ PersistFired
  PROVE  WritesEntry
<1>0. /\ my \in Settings /\ my.interval \in Nat \ {0} /\ my.time \in Nat /\ cur \in Schedule
      /\ now \in Nat /\ entry[cur] \in EntryState /\ es \in EntryState
  BY SettingFacts DEF Control, EntriesOK, Settings
<1>1. CASE EveryDue
  <2> DEFINE moved(i) == [es EXCEPT !.lastSuccess = latest.job, !.lastSuccessAt = latest.at,
                                    !.next = latest.at + i]
  <2>1. \/ UNCHANGED <<entry, es>>
        \/ NewSuccess /\ \E i \in Intervals(my) : es' = moved(i) /\ Upsert(moved(i))
    BY <1>1 DEF EveryDue
  <2>2. ASSUME NewSuccess, NEW i \in Intervals(my) PROVE moved(i) \in EntryState
    <3>1. latest.job \in JobId /\ latest.at \in Nat /\ latest.at + i \in Nat
      BY <2>2, IntervalFacts DEF NewSuccess, EntriesOK, NoResult
    <3> QED
      BY <1>0, <3>1, EntryFields
  <2> QED
    BY <1>0, <2>1, <2>2 DEF WritesEntry
<1>2. CASE CronDue
  <2>1. \/ UNCHANGED <<entry, es>>
        \/ /\ es' = [es EXCEPT !.next = CronNextAfter(my, now - 1)] /\ Upsert(es')
           /\ ~CronMatches(my, now)
    BY <1>2 DEF CronDue
  <2>2. ~CronMatches(my, now) => now # 0
    BY <1>0 DEF CronMatches
  <2>3. ~CronMatches(my, now) => CronNextAfter(my, now - 1) \in Nat
    BY <1>0, <2>2, NextMatch
  <2> QED
    BY <1>0, <2>1, <2>3, EntryFields DEF WritesEntry
<1>3. CASE OneShotDue
  <2> DEFINE t == IF my.kind = "at" THEN my.time ELSE now + my.time
  <2>1. \/ UNCHANGED <<entry, es>>
        \/ es' = [es EXCEPT !.next = t] /\ Upsert([es EXCEPT !.next = t])
    BY <1>3 DEF OneShotDue
  <2>2. t \in Nat
    BY <1>0
  <2> HIDE DEF t
  <2> QED
    BY <1>0, <2>1, <2>2, EntryFields DEF WritesEntry
<1>4. CASE PersistFired
  <2>1. UNCHANGED es /\ (UNCHANGED entry \/ \E i \in Intervals(my) : Upsert(Fired(es, i)))
    BY <1>4 DEF PersistFired, localVars
  <2>2. ASSUME NEW i \in Intervals(my) PROVE Fired(es, i) \in EntryState
    <3> DEFINE f == [es EXCEPT !.lastFired = now]
    <3>1. f \in EntryState
      BY <1>0, EntryFields
    <3>4. now + i \in Nat /\ CronNextAfter(my, now) \in Nat
      BY <1>0, IntervalFacts, NextMatch
    <3>2. \/ Fired(es, i) = f \/ Fired(es, i) = [f EXCEPT !.next = now + i]
          \/ Fired(es, i) = [f EXCEPT !.next = CronNextAfter(my, now)]
          \/ Fired(es, i) = [f EXCEPT !.status = "exhausted", !.next = Null]
      BY DEF Fired
    <3> HIDE DEF f
    <3>3. [f EXCEPT !.status = "exhausted", !.next = Null] \in EntryState
      BY <3>1 DEF EntryState
    <3>5. \A v \in Nat : [f EXCEPT !.next = v] \in EntryState
      BY <3>1, EntryFields
    <3> QED
      BY <3>1, <3>2, <3>3, <3>4, <3>5
  <2> QED
    BY <1>0, <2>1, <2>2 DEF WritesEntry
<1> QED
  BY <1>1, <1>2, <1>3, <1>4

(* The jobs whose results the breakers have counted last.                  *)
LastJobsOK ==
    /\ bk.lastJob \in JobId \cup {NoJob} /\ opc \in Command \cup {NoCommand}
    /\ \A c \in Command : cb[c].lastJob \in JobId \cup {NoJob}

(* The latest result: none, or that of a row which none is younger than.   *)
LEMMA LatestIs ==
  ASSUME NEW c
  PROVE  \/ LatestCompleted(c) = NoResult
         \/ \E j \in Completed(c) :
              /\ LatestCompleted(c) = [job |-> j, status |-> job[j].status, at |-> job[j].at]
              /\ \A i \in Completed(c) : ~CompletedAfter(i, j)
<1> DEFINE youngest == {j \in Completed(c) : \A i \in Completed(c) : ~CompletedAfter(i, j)}
           j == CHOOSE j \in youngest : TRUE
<1>1. CASE youngest = {}
  BY <1>1 DEF LatestCompleted
<1>2. CASE youngest # {}
  <2>1. j \in youngest
    BY <1>2
  <2>2. LatestCompleted(c) = [job |-> j, status |-> job[j].status, at |-> job[j].at]
    BY <1>2 DEF LatestCompleted
  <2> QED
    BY <2>1, <2>2
<1> QED
  BY <1>1, <1>2

(* Entries and the latest result keep their types.                         *)
LEMMA EntriesNext ==
  ASSUME IndInv, EntriesOK, SlotsOK, Next
  PROVE  EntriesOK'
<1>0. /\ Control /\ JobsOK /\ deployment' = deployment /\ JobId' = JobId /\ Schedule' = Schedule
      /\ EntryState' = EntryState /\ cur \in Schedule
  BY SameDeployment DEF IndInv, Next, Control, EntryState
<1>1. /\ \/ UNCHANGED <<entry, es>> \/ Crash
         \/ CatchUpSchedule \/ CatchUpDone \/ LoadEntry \/ CheckEntry
         \/ EveryDue \/ CronDue \/ OneShotDue \/ PersistFired
      /\ UNCHANGED latest \/ Crash \/ ReadBreaker
  BY DEF Next, CatchUp, ProcessSchedule, Environment, Start, CatchUpSchedule, CatchUpDone, Tick,
         LoadEntry, CheckEntry, ReadBreaker, CountResult, RecordTransition, EveryDue, CronDue,
         OneShotDue, CheckGate, HalfOpen, RecordHalfOpen, PersistFired, ResetCircuitBreaker,
         RecordReset, EnqueueCatchUpJob, EnqueueScheduledJob, IfRunning, Prune, FinishJob, Revive,
         TimePasses, dbVars, localVars
<1>2. CASE Crash
  <2>1. entry' = entry /\ es' = NewEntry /\ latest' = NoResult
    BY <1>2 DEF Crash
  <2>2. NewEntry \in EntryState
    BY DEF NewEntry, EntryState
  <2> QED
    BY <1>0, <2>1, <2>2 DEF EntriesOK, NoResult
<1>3. CASE ~Crash
  <2>1. WritesEntry
    BY <1>0, <1>1, <1>3, CatchUpEntries, LoadEntries, DueEntries DEF WritesEntry, EntriesOK
  <2>2. entry' \in [Schedule -> EntryState] /\ es' \in EntryState
    BY <1>0, <2>1 DEF WritesEntry, EntriesOK, Upsert
  <2>3. latest' = NoResult \/ (/\ latest'.job \in JobId /\ latest'.at \in Nat
                               /\ latest'.status \in {"succeeded", "failed", "dead"})
    <3>1. CASE UNCHANGED latest
      BY <3>1 DEF EntriesOK
    <3>2. CASE ReadBreaker
      <4>1. latest' = LatestCompleted(my.command)
        BY <3>2 DEF ReadBreaker
      <4>2. \A j \in Completed(my.command) : /\ j \in JobId /\ job[j].at \in Nat
                                             /\ job[j].status \in {"succeeded", "failed", "dead"}
        BY <1>0 DEF Completed, Ended, Jobs, JobsOK
      <4> QED
        BY <4>1, <4>2, LatestIs
    <3> QED
      BY <1>1, <1>3, <3>1, <3>2
  <2> QED
    BY <1>0, <2>2, <2>3 DEF EntriesOK, NoResult
<1> QED
  BY <1>2, <1>3

(* A breaker names a job, or none.                                         *)
LEMMA LastJobsNext ==
  ASSUME IndInv, LastJobsOK, EntriesOK, Next
  PROVE  LastJobsOK'
<1>0. /\ deployment' = deployment /\ JobId' = JobId /\ my.command \in Command
      /\ cb = [c \in Command |-> cb[c]] /\ GoodBreaker(bk) /\ "poll" \in Command
  BY SameDeployment, SettingFacts, ScheduleAssumption DEF IndInv, BreakersOK, Next
<1>1. /\ \/ UNCHANGED <<cb, bk, opc>> \/ Crash \/ ReadBreaker \/ CheckGate
         \/ CountResult \/ HalfOpen \/ ResetCircuitBreaker("poll") \/ RecordReset
  BY DEF Next, CatchUp, ProcessSchedule, Environment, Start, CatchUpSchedule, CatchUpDone, Tick,
         LoadEntry, CheckEntry, RecordTransition, EveryDue, CronDue,
         OneShotDue, RecordHalfOpen, PersistFired,
         EnqueueCatchUpJob, EnqueueScheduledJob, IfRunning, Prune, FinishJob, Revive,
         TimePasses, dbVars, localVars
<1>2. CASE UNCHANGED <<cb, bk, opc>>
  BY <1>0, <1>2 DEF LastJobsOK
<1>3. CASE Crash
  BY <1>0, <1>3 DEF Crash, LastJobsOK, ClosedBreaker
<1>4. CASE ReadBreaker \/ CheckGate
  BY <1>0, <1>4 DEF ReadBreaker, CheckGate, LastJobsOK, dbVars
<1>5. CASE CountResult
  <2>1. UNCHANGED <<bk, opc>> /\ (UNCHANGED cb \/ cb' = [cb EXCEPT ![my.command] = Counted(bk, latest)])
    BY <1>5 DEF CountResult, UpsertBreaker, localVars
  <2>2. Counted(bk, latest).lastJob = latest.job /\ latest.job \in JobId \cup {NoJob}
    BY DEF Counted, ClosedBreaker, EntriesOK, NoResult
  <2> HIDE DEF Counted
  <2> QED
    BY <1>0, <2>1, <2>2 DEF LastJobsOK
<1>6. CASE HalfOpen
  <2> DEFINE b == [bk EXCEPT !.state = "half_open"]
  <2>1. UNCHANGED <<bk, opc>> /\ (UNCHANGED cb \/ cb' = [cb EXCEPT ![my.command] = b])
    BY <1>6 DEF HalfOpen, UpsertBreaker, localVars
  <2>2. b.lastJob = bk.lastJob
    BY <1>0 DEF GoodBreaker
  <2> HIDE DEF b
  <2> QED
    BY <1>0, <2>1, <2>2 DEF LastJobsOK
<1>7. CASE ResetCircuitBreaker("poll")
  BY <1>0, <1>7 DEF ResetCircuitBreaker, LastJobsOK, ClosedBreaker, localVars
<1>8. CASE RecordReset
  BY <1>0, <1>8 DEF RecordReset, LastJobsOK, localVars
<1> QED
  BY <1>1, <1>2, <1>3, <1>4, <1>5, <1>6, <1>7, <1>8

(* The steps that touch rows.                                              *)
Cancels(S, running) ==
    Cancel(S, running) /\ S = Outstanding(my.command) /\ my.ifRunning = "cancel"

(* What a step does to rows and to the order of their results.             *)
LEMMA RowSteps ==
  ASSUME IndInv, RowsOK, Next
  PROVE  \/ UNCHANGED <<job, later>>
         \/ (\E k \in FreeJob : \E key : Inserts(k, cur, key)) /\ UNCHANGED <<later, now>>
         \/ /\ IfRunning /\ UNCHANGED now
            /\ \E S \in SUBSET JobId : \E running : Cancels(S, running)
         \/ (\E k \in JobId, st \in {"succeeded", "failed"} : FinishJob(k, st)) /\ UNCHANGED now
         \/ (\E k \in JobId : Revive(k)) /\ UNCHANGED now
         \/ Prune /\ UNCHANGED now
         \/ Crash /\ UNCHANGED <<later, now>>
<1>0. JobsOK
  BY DEF IndInv
<1>1. CASE EnqueueCatchUpJob \/ EnqueueScheduledJob
  <2>1. UNCHANGED <<now, later>> /\ (UNCHANGED job \/ \E key : InsertJob(cur, key))
    BY <1>1 DEF EnqueueCatchUpJob, EnqueueScheduledJob
  <2> QED
    BY <1>0, <2>1, InsertRows
<1>2. CASE IfRunning
  <2>1. UNCHANGED <<job, later>> \/ \E running : Cancels(Outstanding(my.command), running)
    BY <1>2 DEF IfRunning, Cancels
  <2>2. Outstanding(my.command) \in SUBSET JobId /\ UNCHANGED now
    BY <1>2 DEF Outstanding, Jobs, IfRunning
  <2> QED
    BY <1>2, <2>1, <2>2
<1>3. CASE Prune \/ Crash
  BY <1>3 DEF Prune, Crash
<1>4. CASE \E k \in JobId, st \in {"succeeded", "failed"} : FinishJob(k, st)
  BY <1>4 DEF FinishJob
<1>6. CASE \E k \in JobId : Revive(k)
  BY <1>6 DEF Revive
<1>5. \/ UNCHANGED <<job, later>> \/ EnqueueCatchUpJob \/ EnqueueScheduledJob \/ IfRunning \/ Prune \/ Crash
      \/ (\E j \in JobId, st \in {"succeeded", "failed"} : FinishJob(j, st))
      \/ \E j \in JobId : Revive(j)
  BY DEF Next, CatchUp, ProcessSchedule, Environment, Start, CatchUpSchedule, CatchUpDone, Tick,
         LoadEntry, CheckEntry, ReadBreaker, CountResult, RecordTransition, EveryDue, CronDue,
         OneShotDue, CheckGate, HalfOpen, RecordHalfOpen, PersistFired, ResetCircuitBreaker,
         RecordReset, TimePasses, dbVars
<1> QED
  BY <1>1, <1>2, <1>3, <1>4, <1>5, <1>6

(* The slots of a catch-up stay past.                                      *)
LEMMA SlotsNext ==
  ASSUME IndInv, EntriesOK, SlotsOK, Next
  PROVE  SlotsOK'
<1>0. /\ Control /\ now \in Nat /\ now' \in Nat /\ now' >= now /\ cur \in Schedule
      /\ my \in Settings /\ my.interval \in Nat \ {0} /\ entry[cur] \in EntryState
  BY Clock, SettingFacts DEF IndInv, Control, EntriesOK
<1>1. \/ (CatchUpSchedule /\ pc' = "slot") \/ EnqueueCatchUpJob \/ (Start /\ pc' = "catchup")
      \/ pc' \notin {"catchup", "slot"} \/ UNCHANGED <<pc, cur, conf, slots>>
      \/ pc \in {"catchup", "slot"} /\ pc' = "catchup" /\ UNCHANGED slots
  <2>1. CASE Start \/ CatchUp
    BY <1>0, <2>1, SkipFacts DEF CatchUp, Start, CatchUpSchedule, CatchUpDone, localVars, GoTo
  <2>2. CASE Tick \/ ProcessSchedule
    BY <1>0, <2>2, SkipFacts DEF Tick, ProcessSchedule,
         LoadEntry, CheckEntry, ReadBreaker, CountResult, RecordTransition, EveryDue, CronDue,
         OneShotDue, CheckGate, HalfOpen, RecordHalfOpen, PersistFired,
         EnqueueScheduledJob, IfRunning, GoTo
  <2>3. CASE Environment
    BY <2>3 DEF Environment, ResetCircuitBreaker, RecordReset, Prune, FinishJob, Revive, Crash,
         TimePasses, localVars
  <2> QED
    BY <2>1, <2>2, <2>3 DEF Next
<1>2. CASE CatchUpSchedule /\ pc' = "slot"
  <2> DEFINE base == CatchUpBase(entry[cur])
             missed == CountMissedRuns(base, slots.now, my.interval)
             left == IF my.catchUp = "run_all" THEN Least(missed, CatchUpMax) ELSE 1
  <2>1. /\ my.kind = "every" /\ base # Null /\ missed # 0 /\ UNCHANGED <<now, conf, cur>>
        /\ slots' = [now |-> slots.now, left |-> left, done |-> 0, base |-> base] /\ pc = "catchup"
    BY <1>2 DEF CatchUpSchedule, CatchUpNext, NextSchedule, GoTo
  <2>2. base \in Nat
    BY <1>0, <2>1 DEF CatchUpBase, EntryState
  <2>9. slots.now \in Nat /\ slots.now <= now
    BY <2>1 DEF SlotsOK
  <2> HIDE DEF base
  <2>3. missed \in Nat /\ base + my.interval * missed <= slots.now
    BY <1>0, <2>1, <2>2, <2>9, MissedSlots
  <2> HIDE DEF missed
  <2>4. left \in Nat /\ left <= missed
    BY <2>1, <2>3, ScheduleAssumption DEF Least
  <2> HIDE DEF left
  <2>5. my.interval * left \in Nat /\ my.interval * left <= my.interval * missed
    BY <1>0, <2>3, <2>4, Multiples
  <2>6. my.interval * missed \in Nat
    BY <1>0, <2>3, Multiples
  <2>7. base + my.interval * left <= now
    <3> DEFINE x == my.interval * left  y == my.interval * missed
    <3>1. x \in Nat /\ y \in Nat /\ x <= y /\ base + y <= slots.now
      BY <2>3, <2>5, <2>6
    <3> HIDE DEF x, y
    <3>2. base + x <= now
      BY <1>0, <2>2, <2>9, <3>1
    <3> QED
      BY <3>2 DEF x
  <2>8. my' = my /\ 0 + left = left
    BY <2>1, <2>4 DEF my
  <2> QED
    BY <1>0, <2>1, <2>2, <2>4, <2>7, <2>8, <2>9 DEF SlotsOK
<1>3. CASE EnqueueCatchUpJob
  <2>1. /\ pc = "slot" /\ slots.left > 0 /\ UNCHANGED <<now, pc, cur, conf>>
        /\ slots' = [slots EXCEPT !.left = @ - 1, !.done = @ + 1]
    BY <1>3 DEF EnqueueCatchUpJob
  <2>2. /\ slots = [now |-> slots.now, left |-> slots.left, done |-> slots.done, base |-> slots.base]
        /\ slots.left \in Nat /\ slots.done \in Nat /\ slots.base \in Nat /\ my.kind = "every"
        /\ slots.base + my.interval * (slots.done + slots.left) <= now
        /\ slots.now \in Nat /\ slots.now <= now
    BY <2>1 DEF SlotsOK
  <2>3. slots' = [now |-> slots.now, left |-> slots.left - 1, done |-> slots.done + 1, base |-> slots.base]
    BY <2>1, <2>2
  <2>4. (slots.done + 1) + (slots.left - 1) = slots.done + slots.left
    BY <2>2
  <2>5. my' = my
    BY <2>1 DEF my
  <2>6. /\ slots' = [now |-> slots'.now, left |-> slots'.left, done |-> slots'.done, base |-> slots'.base]
        /\ slots'.now = slots.now /\ slots'.left \in Nat /\ slots'.done \in Nat /\ slots'.base = slots.base
        /\ slots'.done + slots'.left = slots.done + slots.left
    <3> DEFINE l == slots.left - 1  d == slots.done + 1  b == slots.base
    <3>1. l \in Nat /\ d \in Nat /\ d + l = slots.done + slots.left
      BY <2>1, <2>2
    <3>2. slots' = [now |-> slots.now, left |-> l, done |-> d, base |-> b]
      BY <2>3
    <3> HIDE DEF l, d
    <3> QED
      BY <3>1, <3>2
  <2> QED
    BY <2>1, <2>2, <2>5, <2>6 DEF SlotsOK
<1>4. CASE pc = "slot" /\ UNCHANGED <<pc, cur, conf, slots>>
  <2>1. my' = my
    BY <1>4 DEF my
  <2>2. /\ slots.left \in Nat /\ slots.done \in Nat /\ slots.base \in Nat
        /\ slots.base + my.interval * (slots.done + slots.left) <= now
        /\ slots.now \in Nat /\ slots.now <= now
    BY <1>4 DEF SlotsOK
  <2>3. slots.base + my.interval * (slots.done + slots.left) <= now'
    <3> DEFINE x == my.interval * (slots.done + slots.left)
    <3>1. x \in Nat /\ slots.base + x <= now
      BY <1>0, <2>2, Multiples
    <3> HIDE DEF x
    <3>2. slots.base + x <= now'
      BY <1>0, <2>2, <3>1
    <3> QED
      BY <3>2 DEF x
  <2> QED
    BY <1>0, <1>4, <2>1, <2>2, <2>3 DEF SlotsOK
<1>5. CASE pc \in {"catchup", "slot"} /\ pc' = "catchup" /\ UNCHANGED slots
  BY <1>0, <1>5 DEF SlotsOK
<1>6. CASE Start /\ pc' = "catchup"
  <2>1. slots'.now = now /\ now' = now
    BY <1>6 DEF Start, NoSlots
  <2> QED
    BY <1>0, <1>6, <2>1 DEF SlotsOK
<1>7. CASE pc' \notin {"catchup", "slot"}
  BY <1>7 DEF SlotsOK
<1>8. CASE pc \notin {"slot"} /\ UNCHANGED <<pc, cur, conf, slots>>
  BY <1>0, <1>8 DEF SlotsOK
<1> QED
  BY <1>1, <1>2, <1>3, <1>4, <1>5, <1>6, <1>7, <1>8

(* A process that ends takes its workers along, and only a tick cancels.   *)
LEMMA LeftoversNext ==
  ASSUME IndInv, RowsOK, NoLeftovers, Next
  PROVE  NoLeftovers'
<1>0. JobsOK /\ Control /\ JobId' = JobId
  BY SameDeployment DEF IndInv, Next
<1>1. CASE Crash
  <2>1. ASSUME NEW j \in JobId PROVE job'[j].status = "dead" => ~job'[j].busy
    BY <1>0, <1>1, CrashRows DEF Rewrites
  <2> QED
    BY <1>0, <2>1 DEF NoLeftovers
<1>2. CASE IfRunning
  BY <1>0, <1>2, SkipFacts DEF IfRunning, GoTo, NoLeftovers
<1>3. CASE ~Crash /\ ~IfRunning
  <2>1. pc' \in {"down", "catchup", "slot"} => pc \in {"down", "catchup", "slot"}
    BY <1>3, <1>0, SkipFacts DEF Next, CatchUp, ProcessSchedule, Environment, Start, CatchUpSchedule, CatchUpDone, Tick,
         LoadEntry, CheckEntry, ReadBreaker, CountResult, RecordTransition, EveryDue, CronDue,
         OneShotDue, CheckGate, HalfOpen, RecordHalfOpen, PersistFired, ResetCircuitBreaker,
         RecordReset, EnqueueCatchUpJob, EnqueueScheduledJob, Prune, FinishJob, Revive, TimePasses, GoTo
  <2>2. ASSUME NEW j \in JobId, job'[j].status = "dead", job'[j].busy
        PROVE  job[j].status = "dead" /\ job[j].busy
    <3>1. CASE Prune
      BY <1>0, <2>2, <3>1, PruneRows DEF Rewrites
    <3>2. ASSUME NEW k \in JobId, NEW st \in {"succeeded", "failed"}, FinishJob(k, st)
          PROVE  job[j].status = "dead" /\ job[j].busy
      BY <1>0, <2>2, <3>2, FinishRows DEF Rewrites
    <3>3. ASSUME NEW k \in JobId, Revive(k)
          PROVE  job[j].status = "dead" /\ job[j].busy
      BY <1>0, <2>2, <3>3, ReviveRows
    <3>4. CASE \E k \in FreeJob : \E key : Inserts(k, cur, key)
      BY <2>2, <3>4 DEF Inserts
    <3>5. \/ UNCHANGED job \/ Prune \/ (\E k \in FreeJob : \E key : Inserts(k, cur, key))
          \/ (\E k \in JobId, st \in {"succeeded", "failed"} : FinishJob(k, st))
          \/ \E k \in JobId : Revive(k)
      BY <1>3, RowSteps DEF IfRunning
    <3> QED
      BY <2>2, <3>1, <3>2, <3>3, <3>4, <3>5
  <2> QED
    BY <1>0, <2>1, <2>2 DEF NoLeftovers
<1> QED
  BY <1>1, <1>2, <1>3

-----------------------------------------------------------------------------
(* The first run of the process, as long as no write has failed.           *)
Smooth == starts <= 1 /\ faults = 0 /\ (pc = "down" => starts = 0)

OneShot(s) == conf[s].kind \in {"at", "after"}
DueSteps == {"window", "probe", "probeFact", "policy", "enqueue"}
EntrySteps == DueSteps \cup {"check", "breaker", "count", "fact", "timing"}

(* Before the first start there is no entry and no job.                    *)
NoneYet ==
    starts = 0 => /\ pc = "down" /\ \A s \in Schedule : entry[s].command = NoCommand
                  /\ \A j \in JobId : job[j].status = "none"
(* The configuration is the first one, so no entry is started afresh.      *)
Commands ==
    /\ \A s \in Schedule : entry[s].command \in {NoCommand, conf[s].command}
    /\ pc \in EntrySteps \cup {"slot", "persist"} => es.command \in {NoCommand, my.command}
(* The copy of the entry says what the table says.                         *)
Loaded ==
    pc \in EntrySteps =>
        es.status = entry[cur].status /\ es.next = entry[cur].next /\ es.status # "exhausted"
(* A cron schedule that is due has reached its time.                       *)
CronReached == pc \in DueSteps /\ my.kind = "cron" => es.next = Null \/ now >= es.next
(* A schedule that has fired will not fire for the same reason again: its  *)
(* entry says so, unless it is about to be written.                        *)
DoneFor(s) ==
    /\ OneShot(s) => entry[s].status = "exhausted"
    /\ conf[s].kind = "cron" =>
         /\ entry[s].next \in Nat /\ CronMatches(conf[s], entry[s].next)
         /\ \A j \in JobsOf(s) : job[j].born < entry[s].next
Spent == \A s \in Schedule : JobsOf(s) # {} => DoneFor(s) \/ (cur = s /\ pc = "persist")

Firing == NoneYet /\ Commands /\ Loaded /\ CronReached /\ Spent
FiringInv == Smooth => Firing

(* What FiresOnce says of a schedule that fires.                           *)
OnceFor(s) ==
    /\ OneShot(s) => \A i, j \in JobsOf(s) : i = j
    /\ conf[s].kind = "cron" => \A i, j \in JobsOf(s) :
         i < j => \E t \in (job[i].born + 1)..job[j].born : CronMatches(conf[s], t)
OnceInv == starts <= 1 /\ faults = 0 => \A s \in Schedule : OnceFor(s)

(* A step after which every schedule has fired as often as before.         *)
NobodyFires ==
    \A s \in Schedule : JobsOf(s)' = JobsOf(s) /\ \A j \in JobsOf(s) : job'[j].born = job[j].born

(* A step that submits nothing fires nothing.                              *)
LEMMA NothingFires ==
  ASSUME NothingSubmitted, deployment' = deployment
  PROVE  NobodyFires
<1>0. JobId' = JobId
  BY SameDeployment
<1>1. \A j \in JobId : /\ job'[j].key = job[j].key /\ job'[j].sched = job[j].sched
                       /\ job'[j].born = job[j].born
  BY DEF NothingSubmitted, Kept, SameJob
<1> QED
  BY <1>0, <1>1 DEF NobodyFires, JobsOf, TickJob

(* A job of a catch-up does not count.                                     *)
LEMMA CatchUpFires ==
  ASSUME RowsOK, deployment' = deployment, NEW k \in FreeJob, NEW key, Inserts(k, cur, key), NEW t,
         key = <<cur, "catchup", t>>
  PROVE  NobodyFires
<1>0. JobId' = JobId /\ k \in JobId /\ job[k].key = <<>>
  BY SameDeployment DEF FreeJob, Jobs, RowsOK, RowOK
<1>1. job'[k].key[2] = "catchup" /\ \A j \in JobId \ {k} : job'[j] = job[j]
  BY DEF Inserts
<1> QED
  BY <1>0, <1>1 DEF NobodyFires, JobsOf, TickJob

(* What an entry vouches for, it still does while it says the same.        *)
LEMMA DoneForKept ==
  ASSUME NobodyFires, UNCHANGED <<deployment, conf>>, NEW s \in Schedule, DoneFor(s),
         \/ conf[s].kind = "every"
         \/ /\ entry'[s].next = entry[s].next
            /\ entry'[s].status = entry[s].status \/ conf[s].kind = "cron"
  PROVE  DoneFor(s)'
<1>1. JobsOf(s)' = JobsOf(s) /\ \A j \in JobsOf(s) : job'[j].born = job[j].born
  BY DEF NobodyFires
<1>2. OneShot(s) <=> OneShot(s)'
  BY DEF OneShot
<1> QED
  BY <1>1, <1>2 DEF DoneFor, CronMatches, OneShot

(* Only the entry at hand is written, and still vouches for its schedule.  *)
LEMMA SpentKept ==
  ASSUME Spent, NobodyFires, UNCHANGED <<deployment, conf>>, pc # "persist",
         \A s \in Schedule : s # cur => entry'[s] = entry[s], NEW h \in Schedule, h = cur,
         JobsOf(h) # {} /\ DoneFor(h) => DoneFor(h)' \/ (pc' = "persist" /\ cur' = h)
  PROVE  Spent'
<1>0. JobId' = JobId /\ Schedule' = Schedule
  BY SameDeployment
<1>1. \A s \in Schedule : JobsOf(s)' = JobsOf(s)
  BY DEF NobodyFires
<1>2. ASSUME NEW s \in Schedule, JobsOf(s) # {}
      PROVE  DoneFor(s)' \/ (cur' = s /\ pc' = "persist")
  <2>1. DoneFor(s)
    BY <1>2 DEF Spent
  <2>2. CASE s = h
    BY <1>2, <2>1, <2>2
  <2>3. CASE s # h
    BY <2>1, <2>3, DoneForKept
  <2> QED
    BY <2>2, <2>3
<1> QED
  BY <1>0, <1>1, <1>2 DEF Spent

(* Steps that leave the entries alone.                                     *)
Elsewhere ==
    /\ UNCHANGED <<deployment, conf, entry, es, starts>>
    /\ now' >= now /\ (faults' = 0 => faults = 0)
    /\ \/ pc' = pc /\ cur' = cur
       \/ cur' = cur /\ pc \in EntrySteps /\ pc' \in EntrySteps /\ (pc' \in DueSteps => pc \in DueSteps)
       \/ pc \notin {"persist", "down"} /\ pc' \in {"load", "idle"}

(* A step that leaves the entries alone keeps what they say of firing.     *)
LEMMA ElsewhereKeeps ==
  ASSUME FiringInv, EntriesOK, Control, Elsewhere, NobodyFires, now' \in Nat,
         starts = 0 => NothingSubmitted
  PROVE  FiringInv'
<1> SUFFICES ASSUME Smooth' PROVE Firing'
  BY DEF FiringInv
<1>0. /\ JobId' = JobId /\ Schedule' = Schedule /\ es \in EntryState /\ now \in Nat
      /\ pc # "down" => starts >= 1
  BY SameDeployment DEF Elsewhere, EntriesOK, Control
<1>1. Smooth /\ Firing
  <2>1. Smooth
    BY DEF Smooth, Elsewhere, EntrySteps, DueSteps
  <2> QED
    BY <2>1 DEF FiringInv
<1>2. NoneYet'
  BY <1>0, <1>1 DEF Firing, NoneYet, Elsewhere, NothingSubmitted, Kept, EntrySteps, DueSteps
<1>3. my' = my \/ pc' \in {"load", "idle"}
  BY DEF Elsewhere, my
<1>4. Commands'
  BY <1>0, <1>1, <1>3 DEF Firing, Commands, Elsewhere, EntrySteps, DueSteps
<1>5. Loaded'
  BY <1>0, <1>1 DEF Firing, Loaded, Elsewhere, EntrySteps, DueSteps
<1>6. CronReached'
  BY <1>0, <1>1, <1>3 DEF Firing, CronReached, Elsewhere, EntrySteps, DueSteps, EntryState
<1>7. Spent'
  <2>1. \A s \in Schedule : JobsOf(s)' = JobsOf(s)
    BY DEF NobodyFires
  <2>2. ASSUME NEW s \in Schedule, JobsOf(s) # {}
        PROVE  DoneFor(s)' \/ (cur' = s /\ pc' = "persist")
    <3>1. CASE DoneFor(s)
      BY <3>1, DoneForKept DEF Elsewhere
    <3>2. CASE cur = s /\ pc = "persist"
      BY <3>2 DEF Elsewhere, EntrySteps, DueSteps
    <3> QED
      BY <1>1, <2>2, <3>1, <3>2 DEF Firing, Spent
  <2> QED
    BY <1>0, <2>1, <2>2 DEF Spent
<1> QED
  BY <1>2, <1>4, <1>5, <1>6, <1>7 DEF Firing

(* The steps that leave the entries alone.                                 *)
LEMMA ElsewhereSteps ==
  ASSUME Control, Next,
         \/ Tick \/ ReadBreaker \/ CountResult \/ RecordTransition \/ CheckGate \/ HalfOpen
         \/ RecordHalfOpen \/ IfRunning \/ (EnqueueScheduledJob /\ pc' # "persist")
         \/ EnqueueCatchUpJob \/ (Environment /\ ~Crash)
  PROVE  Elsewhere
<1>0. deployment' = deployment /\ now' >= now
  BY Clock DEF Next
<1>1. UNCHANGED <<conf, entry, es, starts>>
  BY DEF Tick, ReadBreaker, CountResult, RecordTransition, CheckGate, HalfOpen, RecordHalfOpen,
         IfRunning, EnqueueScheduledJob, EnqueueCatchUpJob, Environment, FinishJob, Revive, Prune,
         ResetCircuitBreaker, RecordReset, TimePasses, dbVars, localVars, boundVars, NoFault, Fault
<1>2. faults' = 0 => faults = 0
  <2>1. UNCHANGED faults \/ faults' = faults + 1
    BY DEF Tick, ReadBreaker, CountResult, RecordTransition, CheckGate, HalfOpen, RecordHalfOpen,
           IfRunning, EnqueueScheduledJob, EnqueueCatchUpJob, Environment, FinishJob, Revive, Prune,
           ResetCircuitBreaker, RecordReset, TimePasses, boundVars, NoFault, Fault
  <2> QED
    BY <2>1 DEF Control
<1>3. Skip => pc' \in {"load", "idle"}
  BY SkipFacts
<1>4. CASE Tick \/ EnqueueCatchUpJob \/ (Environment /\ ~Crash)
  BY <1>0, <1>1, <1>2, <1>4 DEF Elsewhere, Tick, EnqueueCatchUpJob, Environment, FinishJob, Revive, Prune,
         ResetCircuitBreaker, RecordReset, TimePasses
<1>5. CASE ReadBreaker \/ CountResult \/ RecordTransition
  <2>1. /\ pc \in {"breaker", "count", "fact"}
        /\ Skip \/ (cur' = cur /\ pc' \in {"count", "fact", "timing"})
    BY <1>5 DEF ReadBreaker, CountResult, RecordTransition, GoTo
  <2> QED
    BY <1>0, <1>1, <1>2, <1>3, <2>1 DEF Elsewhere, EntrySteps, DueSteps
<1>6. CASE \/ CheckGate \/ HalfOpen \/ RecordHalfOpen \/ IfRunning
           \/ (EnqueueScheduledJob /\ pc' # "persist")
  <2>1. pc \in DueSteps /\ (Skip \/ (cur' = cur /\ pc' \in DueSteps))
    BY <1>6 DEF CheckGate, HalfOpen, RecordHalfOpen, IfRunning, EnqueueScheduledJob, GoTo, DueSteps
  <2> QED
    BY <1>0, <1>1, <1>2, <1>3, <2>1 DEF Elsewhere, EntrySteps, DueSteps
<1> QED
  BY <1>4, <1>5, <1>6

(* The scheduler writes the entry at hand.                                 *)
Here ==
    /\ UNCHANGED <<deployment, conf, starts, now, job>>
    /\ faults' = 0 => faults = 0
    /\ \A s \in Schedule : s # cur => entry'[s] = entry[s]
    /\ \/ pc' \in {"load", "idle", "catchup"}
       \/ cur' = cur /\ pc' \in (EntrySteps \ DueSteps) \cup {"window", "slot"}

(* A step that writes the entry at hand, and fires nothing.                *)
LEMMA HereKeeps ==
  ASSUME FiringInv, Control, RowsOK, Here, pc \notin {"persist", "down"}, NEW h \in Schedule, h = cur,
         Smooth /\ Firing /\ faults' = 0 =>
           /\ entry'[h].command \in {NoCommand, my.command}
           /\ \/ JobsOf(h) = {} \/ ~DoneFor(h) \/ my.kind = "every"
              \/ /\ entry'[h].next = entry[h].next
                 /\ entry'[h].status = entry[h].status \/ my.kind = "cron"
           /\ pc' \in EntrySteps \cup {"slot"} => es'.command \in {NoCommand, my.command}
           /\ pc' \in EntrySteps => /\ es'.status = entry'[h].status /\ es'.next = entry'[h].next
                                    /\ es'.status # "exhausted"
           /\ pc' = "window" /\ my.kind = "cron" => es'.next = Null \/ now >= es'.next
  PROVE  FiringInv'
<1> SUFFICES ASSUME Smooth' PROVE Firing'
  BY DEF FiringInv
<1>0. /\ JobId' = JobId /\ Schedule' = Schedule /\ starts >= 1 /\ starts' = starts /\ starts \in Nat
      /\ NothingSubmitted /\ deployment' = deployment
  BY SameDeployment DEF Here, Control, NothingSubmitted, Kept, SameJob, RowsOK, RowOK, Live, Fresh
<1>1. Smooth /\ Firing /\ faults' = 0
  <2>1. Smooth /\ faults' = 0
    BY DEF Smooth, Here
  <2> QED
    BY <2>1 DEF FiringInv
<1>2. NoneYet'
  BY <1>0 DEF NoneYet
<1>3. pc' \in EntrySteps \cup {"slot"} => my' = my /\ cur' = cur
  BY DEF Here, my, EntrySteps, DueSteps
<1>4. Commands'
  <2>1. pc' # "persist" /\ conf' = conf
    BY DEF Here, EntrySteps, DueSteps
  <2>2. \A s \in Schedule : entry'[s].command \in {NoCommand, conf'[s].command}
    BY <1>1, <2>1 DEF Here, Firing, Commands, my
  <2> QED
    BY <1>0, <1>1, <1>3, <2>1, <2>2 DEF Here, Commands
<1>5. Loaded'
  BY <1>0, <1>1, <1>3 DEF Here, Loaded
<1>6. CronReached'
  BY <1>0, <1>1, <1>3 DEF Here, CronReached, EntrySteps, DueSteps
<1>7. Spent'
  <2>1. JobsOf(h) # {} /\ DoneFor(h) => DoneFor(h)'
    BY <1>0, <1>1, NothingFires, DoneForKept DEF Here, my
  <2> QED
    BY <1>0, <1>1, <2>1, NothingFires, SpentKept DEF Here, Firing
<1> QED
  BY <1>2, <1>4, <1>5, <1>6, <1>7 DEF Firing

(* A catch-up that moves an interval schedule on.                          *)
LEMMA FiringCatchUp ==
  ASSUME FiringInv, IndInv, RowsOK, EntriesOK, SlotsOK, deployment' = deployment,
         CatchUpSchedule \/ CatchUpDone
  PROVE  FiringInv'
<1>0. /\ Control /\ my \in Settings /\ cur \in Schedule /\ entry[cur] \in EntryState
      /\ entry = [s \in Schedule |-> entry[s]] /\ es \in EntryState
      /\ CatchUpNext => pc' \in {"catchup", "idle"}
      /\ faults \in Nat
  BY SettingFacts, SkipFacts DEF IndInv, Control, EntriesOK
<1>a. PICK h \in Schedule : h = cur
  BY <1>0
<1>b. Firing => entry[h].command \in {NoCommand, my.command}
  BY <1>0, <1>a DEF Firing, Commands, my
<1>1. CASE CatchUpSchedule
  <2> DEFINE e == entry[cur]
             v == IF e.command = NoCommand THEN my.command ELSE e.command
  <2>1. /\ pc = "catchup" /\ UNCHANGED <<conf, starts, now, job, entry, faults>>
        /\ CatchUpNext \/ (GoTo("slot") /\ es' = [e EXCEPT !.lastFired = CatchUpBase(e), !.command = v])
    BY <1>1 DEF CatchUpSchedule, dbVars, boundVars
  <2>2. e.command \in {NoCommand, my.command} => v = my.command
    OBVIOUS
  <2>3. GoTo("slot") => es'.command = v
    <3>1. CASE CatchUpNext
      BY <1>0, <3>1 DEF GoTo
    <3>2. CASE es' = [e EXCEPT !.lastFired = CatchUpBase(e), !.command = v]
      BY <1>0, <3>2 DEF EntryState
    <3> QED
      BY <2>1, <3>1, <3>2
  <2>4. Here
    BY <1>0, <2>1 DEF Here, GoTo
  <2>5. pc' \notin EntrySteps /\ (pc' = "slot" => GoTo("slot"))
    BY <1>0, <2>1 DEF EntrySteps, DueSteps, GoTo
  <2>6. pc' \in {"slot", "catchup", "idle"} /\ entry' = entry /\ pc \notin {"persist", "down"}
    BY <1>0, <2>1 DEF GoTo
  <2>7. Firing /\ pc' \in EntrySteps \cup {"slot"} => es'.command = my.command
    BY <1>a, <1>b, <2>2, <2>3, <2>5
  <2> QED
    BY <1>0, <1>a, <1>b, <2>4, <2>5, <2>6, <2>7, HereKeeps DEF EntrySteps, DueSteps
<1>2. CASE CatchUpDone
  <2> DEFINE fired == IF my.catchUp = "run_once" THEN slots.now
                      ELSE slots.base + my.interval * slots.done
             next == IF es.next = Null \/ es.next < fired THEN fired + my.interval ELSE es.next
             e == [es EXCEPT !.lastFired = fired, !.next = next]
  <2>1. /\ pc = "slot" /\ UNCHANGED <<conf, starts, now, job, es>>
        /\ \/ Upsert(e) /\ CatchUpNext /\ UNCHANGED faults
           \/ UNCHANGED entry /\ pc' = "down" /\ faults' = faults + 1
    BY <1>2 DEF CatchUpDone, NoFault, Fault, boundVars, localVars
  <2>2. my.kind = "every"
    BY <2>1 DEF SlotsOK
  <2>3. e.command = es.command
    BY <1>0 DEF EntryState
  <2> HIDE DEF e
  <2>4. CASE pc' = "down"
    BY <1>0, <2>1, <2>4 DEF FiringInv, Smooth
  <2>5. CASE pc' # "down"
    <3>1. Upsert(e) /\ CatchUpNext /\ UNCHANGED faults
      BY <2>1, <2>5
    <3>2. entry' = [entry EXCEPT ![h] = e]
      BY <1>a, <3>1 DEF Upsert
    <3>3. Here
      BY <1>0, <1>a, <2>1, <3>1, <3>2 DEF Here
    <3>4. entry'[h] = e
      BY <1>0, <3>2
    <3>5. Firing => e.command \in {NoCommand, my.command}
      BY <2>1, <2>3 DEF Firing, Commands
    <3> QED
      BY <1>0, <1>a, <2>1, <2>2, <3>1, <3>3, <3>4, <3>5, HereKeeps DEF EntrySteps, DueSteps
  <2> QED
    BY <2>4, <2>5
<1> QED
  BY <1>1, <1>2

(* An entry that is loaded, and checked, stays spent.                      *)
LEMMA FiringLoad ==
  ASSUME FiringInv, IndInv, RowsOK, EntriesOK, deployment' = deployment, LoadEntry \/ CheckEntry
  PROVE  FiringInv'
<1>0. /\ Control /\ my \in Settings /\ cur \in Schedule /\ entry[cur] \in EntryState
      /\ entry = [s \in Schedule |-> entry[s]] /\ es \in EntryState
      /\ Skip => pc' \in {"load", "idle"}
      /\ faults \in Nat
  BY SettingFacts, SkipFacts DEF IndInv, Control, EntriesOK
<1>a. PICK h \in Schedule : h = cur
  BY <1>0
<1>b. Firing => entry[h].command \in {NoCommand, my.command}
  BY <1>0, <1>a DEF Firing, Commands, my
<1>1. CASE LoadEntry
  <2> DEFINE mine == [entry[h] EXCEPT !.command = my.command]
  <2>1. /\ pc = "load" /\ UNCHANGED <<conf, starts, now, job>>
        /\ faults' = faults \/ faults' = faults + 1
        /\ Skip \/ GoTo("check")
        /\ \A s \in Schedule : s # cur => entry'[s] = entry[s]
    BY <1>0, <1>1 DEF LoadEntry, NoFault, Fault, boundVars, Upsert
  <2>2. entry[h].command \in {NoCommand, my.command} /\ faults' = faults =>
          /\ entry' = entry /\ es' = mine
          /\ GoTo("check") => es'.status # "exhausted"
    BY <1>0, <1>1, <1>a DEF LoadEntry, Fault, GoTo
  <2>3. mine.command = my.command /\ mine.status = entry[h].status /\ mine.next = entry[h].next
    BY <1>0, <1>a DEF EntryState
  <2>4. Here
    BY <1>0, <2>1 DEF Here, GoTo, EntrySteps, DueSteps
  <2> HIDE DEF mine
  <2>5. Smooth /\ faults' = 0 => faults' = faults
    BY <2>1, <1>0 DEF Smooth
  <2>6. pc' \in {"load", "idle"} \/ (pc' = "check" /\ GoTo("check"))
    BY <1>0, <2>1 DEF GoTo
  <2> QED
    BY <1>0, <1>a, <1>b, <2>1, <2>2, <2>3, <2>4, <2>5, <2>6, HereKeeps DEF EntrySteps, DueSteps
<1>2. CASE CheckEntry
  <2> DEFINE active == [es EXCEPT !.status = "active"]
             invalid == [es EXCEPT !.status = "paused_invalid"]
  <2>1. /\ pc = "check" /\ UNCHANGED <<conf, starts, now, job>>
        /\ faults' = faults \/ faults' = faults + 1
        /\ \/ Skip /\ es' = es /\ (Upsert(invalid) \/ entry' = entry)
           \/ GoTo("breaker") /\ es' = active /\ Upsert(active)
           \/ GoTo("breaker") /\ es' = es /\ entry' = entry
    BY <1>2 DEF CheckEntry, NoFault, Fault, boundVars
  <2>2. /\ active.command = es.command /\ active.next = es.next /\ active.status # "exhausted"
        /\ invalid.command = es.command /\ invalid.next = es.next
    BY <1>0 DEF EntryState
  <2> HIDE DEF active, invalid
  <2>3. \A e : Upsert(e) => entry'[h] = e /\ \A s \in Schedule : s # h => entry'[s] = entry[s]
    BY <1>0, <1>a DEF Upsert
  <2>4. Here
    BY <1>0, <1>a, <2>1, <2>3 DEF Here, GoTo, EntrySteps, DueSteps
  <2>5. Firing => /\ es.command \in {NoCommand, my.command} /\ es.status # "exhausted"
                  /\ es.status = entry[h].status /\ es.next = entry[h].next
    BY <1>a, <2>1 DEF Firing, Commands, Loaded, EntrySteps
  <2>6. Firing => entry'[h].command \in {NoCommand, my.command} /\ entry'[h].next = entry[h].next
    BY <1>b, <2>1, <2>2, <2>3, <2>5
  <2>7. Firing /\ DoneFor(h) => my.kind \in {"every", "cron"}
    BY <1>0, <1>a, <2>5 DEF DoneFor, OneShot, my, Settings
  <2>8. pc' \in {"load", "idle", "breaker"}
    BY <1>0, <2>1 DEF GoTo
  <2>9. Firing /\ pc' = "breaker" =>
          /\ es'.command \in {NoCommand, my.command} /\ es'.status # "exhausted"
          /\ es'.status = entry'[h].status /\ es'.next = entry'[h].next
    BY <1>0, <2>1, <2>2, <2>3, <2>5
  <2> QED
    BY <1>0, <1>a, <2>1, <2>4, <2>6, <2>7, <2>8, <2>9, HereKeeps DEF EntrySteps, DueSteps
<1> QED
  BY <1>1, <1>2

(* A due state that is evaluated makes no spent entry due again.           *)
LEMMA FiringDue ==
  ASSUME FiringInv, IndInv, RowsOK, EntriesOK, deployment' = deployment, EveryDue \/ CronDue \/ OneShotDue
  PROVE  FiringInv'
<1>0. /\ Control /\ my \in Settings /\ cur \in Schedule /\ entry[cur] \in EntryState
      /\ entry = [s \in Schedule |-> entry[s]] /\ es \in EntryState
      /\ Skip => pc' \in {"load", "idle"}
      /\ faults \in Nat /\ now \in Nat
  BY SettingFacts, SkipFacts DEF IndInv, Control, EntriesOK
<1>a. PICK h \in Schedule : h = cur
  BY <1>0
<1>1. /\ pc = "timing" /\ UNCHANGED <<conf, starts, now, job>> /\ (Skip \/ GoTo("window"))
      /\ faults' = faults \/ faults' = faults + 1
  BY DEF EveryDue, CronDue, OneShotDue, NoFault, Fault, boundVars
<1>2. \A e : Upsert(e) => entry'[h] = e /\ \A s \in Schedule : s # h => entry'[s] = entry[s]
  BY <1>0, <1>a DEF Upsert
<1>3. pc' \in {"load", "idle", "window"} /\ (pc' = "window" => cur' = cur /\ GoTo("window"))
  BY <1>0, <1>1 DEF GoTo
<1>4. Firing => /\ es.command \in {NoCommand, my.command} /\ es.status # "exhausted"
                /\ entry[h].command \in {NoCommand, my.command}
                /\ es.status = entry[h].status /\ es.next = entry[h].next
  BY <1>0, <1>1, <1>a DEF Firing, Commands, Loaded, EntrySteps, my
<1>5. \/ entry' = entry /\ es' = es
      \/ /\ \A s \in Schedule : s # h => entry'[s] = entry[s]
         /\ entry'[h] = es' /\ es'.command = es.command /\ es'.status = es.status
         /\ my.kind = "cron" => es.next = Null
  <2>1. CASE EveryDue
    <3> DEFINE moved(i) == [es EXCEPT !.lastSuccess = latest.job, !.lastSuccessAt = latest.at,
                                      !.next = latest.at + i]
    <3>1. \/ UNCHANGED <<entry, es>>
          \/ \E i \in Intervals(my) : es' = moved(i) /\ Upsert(moved(i))
      BY <2>1 DEF EveryDue
    <3>2. \A i : moved(i).command = es.command /\ moved(i).status = es.status
      BY <1>0 DEF EntryState
    <3>3. my.kind = "every"
      BY <2>1 DEF EveryDue
    <3> HIDE DEF moved
    <3> QED
      BY <1>2, <3>1, <3>2, <3>3
  <2>2. CASE CronDue
    <3> DEFINE t == CronNextAfter(my, now - 1)
    <3>1. \/ UNCHANGED <<entry, es>>
          \/ es' = [es EXCEPT !.next = t] /\ Upsert(es') /\ es.next = Null
      BY <2>2 DEF CronDue
    <3> HIDE DEF t
    <3>2. [es EXCEPT !.next = t].command = es.command /\ [es EXCEPT !.next = t].status = es.status
      BY <1>0 DEF EntryState
    <3>3. Upsert(es') => entry'[h] = es' /\ \A s \in Schedule : s # h => entry'[s] = entry[s]
      BY <1>0, <1>a DEF Upsert
    <3> QED
      BY <3>1, <3>2, <3>3
  <2>3. CASE OneShotDue
    <3> DEFINE t == IF my.kind = "at" THEN my.time ELSE now + my.time
    <3>1. \/ UNCHANGED <<entry, es>>
          \/ es' = [es EXCEPT !.next = t] /\ Upsert([es EXCEPT !.next = t]) /\ es.next = Null
      BY <2>3 DEF OneShotDue
    <3> HIDE DEF t
    <3>2. [es EXCEPT !.next = t].command = es.command /\ [es EXCEPT !.next = t].status = es.status
      BY <1>0 DEF EntryState
    <3> QED
      BY <1>2, <3>1, <3>2
  <2> QED
    BY <2>1, <2>2, <2>3
<1>6. Here
  BY <1>0, <1>a, <1>1, <1>3, <1>5 DEF Here
<1>7. Firing /\ DoneFor(h) /\ JobsOf(h) # {} =>
        my.kind = "every" \/ (my.kind = "cron" /\ entry' = entry)
  <2>1. Null \notin Nat
    BY DEF Null
  <2> QED
    BY <1>0, <1>a, <1>4, <1>5, <2>1 DEF DoneFor, OneShot, my, Settings
<1>8. pc' = "window" /\ my.kind = "cron" => es'.next = Null \/ now >= es'.next
  <2>1. CASE CronDue
    <3>1. Skip => pc' # "window"
      BY <1>0
    <3> QED
      BY <2>1, <3>1 DEF CronDue
  <2>2. CASE EveryDue \/ OneShotDue
    BY <2>2 DEF EveryDue, OneShotDue
  <2> QED
    BY <2>1, <2>2
<1> QED
  BY <1>0, <1>a, <1>1, <1>3, <1>4, <1>5, <1>6, <1>7, <1>8, HereKeeps DEF EntrySteps, DueSteps

(* A schedule fires, and its entry says so.                                *)
LEMMA FiringPersist ==
  ASSUME FiringInv, IndInv, RowsOK, EntriesOK, deployment' = deployment, PersistFired
  PROVE  FiringInv'
<1> SUFFICES ASSUME Smooth' PROVE Firing'
  BY DEF FiringInv
<1>0. /\ Control /\ my \in Settings /\ my.interval \in Nat \ {0} /\ cur \in Schedule
      /\ entry = [s \in Schedule |-> entry[s]] /\ es \in EntryState
      /\ Skip => pc' \in {"load", "idle"}
      /\ faults \in Nat /\ now \in Nat /\ starts \in Nat /\ Schedule' = Schedule /\ JobId' = JobId
  BY SettingFacts, SkipFacts, SameDeployment DEF IndInv, Control, EntriesOK
<1>1. /\ pc = "persist" /\ UNCHANGED <<conf, starts, now, job>> /\ Skip
      /\ \/ faults' = faults + 1
         \/ faults' = faults /\ \E i \in Intervals(my) : Upsert(Fired(es, i))
  BY DEF PersistFired, NoFault, Fault, boundVars
<1>2. PICK h \in Schedule : h = cur
  BY <1>0
<1>3. Smooth /\ Firing /\ starts >= 1
  <2>1. Smooth
    BY <1>0, <1>1 DEF Smooth
  <2> QED
    BY <1>1, <1>0, <2>1 DEF FiringInv, Control
<1>4. PICK i \in Intervals(my) : entry' = [entry EXCEPT ![h] = Fired(es, i)]
  BY <1>0, <1>1, <1>2 DEF Smooth, Upsert
<1>5. entry'[h] = Fired(es, i) /\ \A s \in Schedule : s # h => entry'[s] = entry[s]
  BY <1>0, <1>4
<1>6. NothingSubmitted
  BY <1>1 DEF NothingSubmitted, Kept, SameJob, RowsOK, RowOK, Live, Fresh
<1>7. /\ Fired(es, i).command = es.command
      /\ my.kind = "cron" => Fired(es, i).next = CronNextAfter(my, now)
      /\ my.kind \in {"at", "after"} => Fired(es, i).status = "exhausted"
  <2> DEFINE f == [es EXCEPT !.lastFired = now]
  <2>1. f \in EntryState /\ f.command = es.command
    BY <1>0 DEF EntryState
  <2>2. CASE my.kind = "every"
    <3>1. Fired(es, i) = f \/ Fired(es, i) = [f EXCEPT !.next = now + i]
      BY <2>2 DEF Fired
    <3> HIDE DEF f
    <3> QED
      BY <2>1, <2>2, <3>1 DEF EntryState
  <2>3. CASE my.kind = "cron"
    <3>1. Fired(es, i) = [f EXCEPT !.next = CronNextAfter(my, now)]
      BY <2>3 DEF Fired
    <3> HIDE DEF f
    <3> QED
      BY <2>1, <2>3, <3>1 DEF EntryState
  <2>4. CASE my.kind \in {"at", "after"}
    <3>1. Fired(es, i) = [f EXCEPT !.status = "exhausted", !.next = Null]
      BY <2>4 DEF Fired
    <3> HIDE DEF f
    <3> QED
      BY <2>1, <2>4, <3>1 DEF EntryState
  <2> QED
    BY <1>0, <2>2, <2>3, <2>4 DEF Settings
<1>8. NoneYet' /\ Loaded' /\ CronReached'
  BY <1>0, <1>1, <1>3 DEF NoneYet, Loaded, CronReached, EntrySteps, DueSteps
<1>9. Commands'
  <2>1. es.command \in {NoCommand, my.command}
    BY <1>1, <1>3 DEF Firing, Commands
  <2>2. \A s \in Schedule : entry'[s].command \in {NoCommand, conf'[s].command}
    BY <1>1, <1>2, <1>3, <1>5, <1>7, <2>1 DEF Firing, Commands, my
  <2> QED
    BY <1>0, <1>1, <2>2 DEF Commands, EntrySteps, DueSteps
<1>10. Spent'
  <2>1. NobodyFires
    BY <1>6, NothingFires
  <2>2. ASSUME NEW s \in Schedule, JobsOf(s) # {} PROVE DoneFor(s)'
    <3>1. CASE s # h
      <4>1. DoneFor(s)
        BY <1>2, <1>3, <2>2, <3>1 DEF Firing, Spent
      <4> QED
        BY <1>1, <1>5, <2>1, <3>1, <4>1, DoneForKept
    <3>2. CASE s = h
      <4>1. conf'[s] = my /\ conf[s] = my
        BY <1>1, <1>2, <3>2 DEF my
      <4>2. OneShot(s)' => entry'[s].status = "exhausted"
        BY <1>5, <1>7, <3>2, <4>1 DEF OneShot
      <4>3. ASSUME my.kind = "cron"
            PROVE  /\ entry'[s].next \in Nat /\ CronMatches(my, entry'[s].next)
                   /\ entry'[s].next > now
        BY <1>0, <1>5, <1>7, <3>2, <4>3, NextMatch
      <4>4. \A j \in JobsOf(s)' : job'[j].born \in Nat /\ job'[j].born <= now
        <5>1. \A j \in JobsOf(s) : j \in JobId /\ job[j].status # "none"
          BY DEF JobsOf, TickJob, RowsOK, RowOK
        <5> QED
          BY <1>1, <2>1, <5>1 DEF NobodyFires, RowsOK, RowOK
      <4>5. my.kind = "cron" => \A j \in JobsOf(s)' : job'[j].born < entry'[s].next
        BY <1>0, <4>3, <4>4
      <4> QED
        BY <4>1, <4>2, <4>3, <4>5 DEF DoneFor, CronMatches
    <3> QED
      BY <3>1, <3>2
  <2> QED
    BY <1>0, <2>1, <2>2 DEF Spent, NobodyFires
<1> QED
  BY <1>8, <1>9, <1>10 DEF Firing

(* The job is submitted, or Enqueue has found it submitted.                *)
LEMMA FiringEnqueue ==
  ASSUME FiringInv, IndInv, RowsOK, EntriesOK, deployment' = deployment, EnqueueScheduledJob, pc' = "persist"
  PROVE  FiringInv'
<1> SUFFICES ASSUME Smooth' PROVE Firing'
  BY DEF FiringInv
<1>0. /\ Control /\ JobsOK /\ cur \in Schedule /\ starts \in Nat /\ faults \in Nat
      /\ Schedule' = Schedule /\ JobId' = JobId /\ (Skip => pc' \in {"load", "idle"})
  BY SkipFacts, SameDeployment DEF IndInv, Control
<1>1. /\ pc = "enqueue" /\ cur' = cur /\ UNCHANGED <<conf, entry, es, now, faults, starts>>
      /\ UNCHANGED job \/ InsertJob(cur, TickKey)
  BY <1>0 DEF EnqueueScheduledJob, NoFault, boundVars, GoTo
<1>2. Smooth /\ Firing /\ starts >= 1
  <2>1. Smooth
    BY <1>0, <1>1 DEF Smooth
  <2> QED
    BY <1>1, <1>0, <2>1 DEF FiringInv, Control
<1>3. NoneYet' /\ Loaded' /\ CronReached'
  BY <1>0, <1>1, <1>2 DEF NoneYet, Loaded, CronReached, EntrySteps, DueSteps
<1>4. Commands'
  <2>1. my' = my
    BY <1>1 DEF my
  <2> QED
    BY <1>0, <1>1, <1>2, <2>1 DEF Firing, Commands, EntrySteps, DueSteps
<1>5. \A s \in Schedule : s # cur => JobsOf(s)' = JobsOf(s) /\ \A j \in JobsOf(s) : job'[j] = job[j]
  <2>1. CASE UNCHANGED job
    BY <1>0, <2>1 DEF JobsOf, TickJob
  <2>2. CASE InsertJob(cur, TickKey)
    <3>1. PICK k \in FreeJob : Inserts(k, cur, TickKey)
      BY <1>0, <2>2, InsertRows
    <3>2. /\ k \in JobId /\ job[k].key = <<>> /\ job'[k].sched = cur
          /\ \A j \in JobId \ {k} : job'[j] = job[j]
      BY <3>1 DEF FreeJob, Jobs, RowsOK, RowOK, Inserts
    <3> QED
      BY <1>0, <3>2 DEF JobsOf, TickJob
  <2> QED
    BY <1>1, <2>1, <2>2
<1>6. Spent'
  <2>1. ASSUME NEW s \in Schedule, s # cur, JobsOf(s)' # {} PROVE DoneFor(s)'
    <3>1. DoneFor(s)
      BY <1>1, <1>2, <1>5, <2>1 DEF Firing, Spent
    <3>2. conf'[s] = conf[s] /\ entry'[s] = entry[s]
      BY <1>1
    <3> QED
      BY <1>5, <2>1, <3>1, <3>2 DEF DoneFor, OneShot, CronMatches
  <2> QED
    BY <1>0, <1>1, <2>1 DEF Spent
<1> QED
  BY <1>3, <1>4, <1>6 DEF Firing

(* A start comes before the first job, a crash ends the first run.         *)
LEMMA FiringStart ==
  ASSUME FiringInv, IndInv, RowsOK, EntriesOK, deployment' = deployment, Start \/ Crash
  PROVE  FiringInv'
<1> SUFFICES ASSUME Smooth' PROVE Firing'
  BY DEF FiringInv
<1>0. /\ Control /\ starts \in Nat /\ Schedule' = Schedule /\ JobId' = JobId
  BY SameDeployment DEF IndInv, Control
<1>1. CASE Crash
  BY <1>0, <1>1 DEF Crash, Control, Smooth, boundVars
<1>2. CASE Start
  <2>1. /\ pc = "down" /\ starts' = starts + 1 /\ pc' = "catchup" /\ UNCHANGED <<entry, job, es, faults>>
    BY <1>2 DEF Start, dbVars, localVars
  <2>2. starts = 0
    BY <1>0, <2>1 DEF Smooth
  <2>3. Firing
    BY <2>1, <2>2 DEF FiringInv, Smooth
  <2>4. NoneYet' /\ Loaded' /\ CronReached'
    BY <2>1, <2>2 DEF NoneYet, Loaded, CronReached, EntrySteps, DueSteps
  <2>5. Commands'
    BY <1>0, <2>1, <2>2, <2>3 DEF Firing, NoneYet, Commands, EntrySteps, DueSteps
  <2>6. \A j \in JobId : job'[j].key = <<>>
    BY <2>1, <2>2, <2>3 DEF Firing, NoneYet, RowsOK, RowOK
  <2>7. Spent'
    BY <1>0, <2>6 DEF Spent, JobsOf, TickJob
  <2> QED
    BY <2>4, <2>5, <2>7 DEF Firing
<1> QED
  BY <1>1, <1>2

(* Every step keeps what the entries say of firing.                        *)
LEMMA FiringNext ==
  ASSUME FiringInv, IndInv, RowsOK, EntriesOK, SlotsOK, Next
  PROVE  FiringInv'
<1>0. /\ Control /\ JobsOK /\ deployment' = deployment /\ now' \in Nat
      /\ pc # "down" => starts >= 1
  BY Clock DEF IndInv, Control, Next
<1>1. CASE CatchUpSchedule \/ CatchUpDone
  BY <1>0, <1>1, FiringCatchUp
<1>2. CASE LoadEntry \/ CheckEntry
  BY <1>0, <1>2, FiringLoad
<1>3. CASE EveryDue \/ CronDue \/ OneShotDue
  BY <1>0, <1>3, FiringDue
<1>4. CASE PersistFired
  BY <1>0, <1>4, FiringPersist
<1>5. CASE EnqueueScheduledJob /\ pc' = "persist"
  BY <1>0, <1>5, FiringEnqueue
<1>6. CASE Start \/ Crash
  BY <1>0, <1>6, FiringStart
<1>7. CASE EnqueueCatchUpJob
  <2>1. Elsewhere
    BY <1>0, <1>7, ElsewhereSteps
  <2>2. pc = "slot" /\ pc' = pc
    BY <1>7 DEF EnqueueCatchUpJob
  <2>3. CASE NothingSubmitted
    BY <1>0, <2>1, <2>3, NothingFires, ElsewhereKeeps
  <2>4. CASE \E k \in FreeJob : \E key : Submits(k, key)
    <3>1. PICK k, key : k \in FreeJob /\ Submits(k, key)
      BY <2>4
    <3>2. key = SlotKey(slots.done + 1) /\ Inserts(k, cur, key)
      BY <2>2, <3>1 DEF Submits
    <3>3. PICK t : key = <<cur, "catchup", t>>
      BY <3>2 DEF SlotKey
    <3>4. NobodyFires
      BY <1>0, <3>1, <3>2, <3>3, CatchUpFires
    <3> QED
      BY <1>0, <2>1, <2>2, <3>4, ElsewhereKeeps
  <2> QED
    BY <2>3, <2>4, QueueSteps
<1>8. CASE /\ ~EnqueueCatchUpJob /\ ~(EnqueueScheduledJob /\ pc' = "persist")
           /\ \/ Tick \/ ReadBreaker \/ CountResult \/ RecordTransition \/ CheckGate \/ HalfOpen
              \/ RecordHalfOpen \/ IfRunning \/ (EnqueueScheduledJob /\ pc' # "persist")
              \/ (Environment /\ ~Crash)
  <2>1. Elsewhere
    BY <1>0, <1>8, ElsewhereSteps
  <2>2. NothingSubmitted
    BY <1>8, QueueSteps DEF Submits
  <2> QED
    BY <1>0, <2>1, <2>2, NothingFires, ElsewhereKeeps
<1> QED
  BY <1>1, <1>2, <1>3, <1>4, <1>5, <1>6, <1>7, <1>8 DEF Next, CatchUp, ProcessSchedule, Environment

(* A one-shot schedule has one job and a cron schedule one per match.      *)
LEMMA OnceNext ==
  ASSUME OnceInv, FiringInv, IndInv, RowsOK, EntriesOK, Next
  PROVE  OnceInv'
<1> SUFFICES ASSUME starts' <= 1, faults' = 0, NEW s \in Schedule PROVE OnceFor(s)'
  <2>1. Schedule' = Schedule
    BY SameDeployment DEF Next
  <2> QED
    BY <2>1 DEF OnceInv
<1>0. /\ Control /\ JobsOK /\ deployment' = deployment /\ now' \in Nat /\ JobId' = JobId
      /\ pc # "down" => starts >= 1
      /\ starts \in Nat /\ faults \in Nat
  BY Clock, SameDeployment DEF IndInv, Control, Next
<1>1. /\ starts' = starts \/ Start
      /\ faults' = faults \/ faults' = faults + 1
      /\ conf' = conf \/ Start
  BY DEF Next, CatchUp, ProcessSchedule, Environment, Start, CatchUpSchedule, CatchUpDone, Tick,
         LoadEntry, CheckEntry, ReadBreaker, CountResult, RecordTransition, EveryDue, CronDue,
         OneShotDue, CheckGate, HalfOpen, RecordHalfOpen, PersistFired, ResetCircuitBreaker,
         RecordReset, EnqueueCatchUpJob, EnqueueScheduledJob, IfRunning, Prune, FinishJob, Revive,
         TimePasses, Crash, boundVars, NoFault, Fault
<1>2. faults = 0
  BY <1>0, <1>1
<1>3. CASE Start
  <2>1. starts = 0 /\ pc = "down" /\ UNCHANGED job
    BY <1>0, <1>3 DEF Start, dbVars
  <2>2. \A j \in JobId : job'[j].key = <<>>
    BY <1>2, <2>1 DEF FiringInv, Smooth, Firing, NoneYet, RowsOK, RowOK
  <2>3. JobsOf(s)' = {}
    BY <1>0, <2>2 DEF JobsOf, TickJob
  <2> QED
    BY <2>3 DEF OnceFor
<1>4. CASE ~Start /\ NobodyFires
  <2>1. OnceFor(s) /\ conf' = conf
    BY <1>1, <1>2, <1>4 DEF OnceInv
  <2>2. JobsOf(s)' = JobsOf(s) /\ \A j \in JobsOf(s) : job'[j].born = job[j].born
    BY <1>4 DEF NobodyFires
  <2> QED
    BY <2>1, <2>2 DEF OnceFor, OneShot, CronMatches
<1>5. ASSUME ~Start, NEW k \in FreeJob, NEW key, Submits(k, key), key = TickKey, pc = "enqueue", pc' = "persist"
      PROVE  OnceFor(s)'
  <2>1. OnceFor(s) /\ conf' = conf /\ starts >= 1 /\ Smooth /\ Firing
    BY <1>0, <1>1, <1>2, <1>5 DEF OnceInv, FiringInv, Smooth
  <2>2. /\ k \in JobId /\ job[k].key = <<>> /\ job'[k].sched = cur /\ job'[k].born = now
        /\ job[k].status = "none" /\ job'[k].key = TickKey
        /\ \A j \in JobId \ {k} : job'[j] = job[j]
    BY <1>5 DEF FreeJob, Jobs, RowsOK, RowOK, Submits, Inserts
  <2>3. CASE s # cur
    <3>1. JobsOf(s)' = JobsOf(s) /\ \A j \in JobsOf(s) : job'[j].born = job[j].born
      BY <1>0, <2>2, <2>3 DEF JobsOf, TickJob
    <3> QED
      BY <2>1, <3>1 DEF OnceFor, OneShot, CronMatches
  <2>4. CASE s = cur
    <3>1. JobsOf(s)' = JobsOf(s) \cup {k}
      <4>1. TickJob(k)'
        BY <2>2 DEF TickJob, TickKey
      <4>2. k \notin JobsOf(s)
        BY <2>2 DEF JobsOf, TickJob
      <4>3. \A j \in JobId \ {k} : TickJob(j)' <=> TickJob(j)
        BY <2>2 DEF TickJob
      <4> QED
        BY <1>0, <2>2, <2>4, <4>1, <4>2, <4>3 DEF JobsOf
    <3>2. JobsOf(s) # {} => DoneFor(s)
      BY <1>5, <2>1 DEF Firing, Spent
    <3>3. es.status = entry[s].status /\ es.next = entry[s].next /\ es.status # "exhausted"
      BY <1>5, <2>1, <2>4 DEF Firing, Loaded, EntrySteps, DueSteps
    <3>4. OneShot(s)' => JobsOf(s) = {}
      BY <2>1, <3>2, <3>3 DEF OneShot, DoneFor
    <3>5. my.kind = "cron" => es.next = Null \/ now >= es.next
      BY <1>5, <2>1 DEF Firing, CronReached, DueSteps
    <3>6. ASSUME NEW i \in JobsOf(s) PROVE i \in Nat /\ k \in Nat /\ i < k /\ i # k
      <4>1. i \in JobId /\ job[i].status # "none" /\ i # k
        BY <2>2 DEF JobsOf, TickJob, RowsOK, RowOK
      <4>2. i \in Nat /\ k \in Nat
        BY <2>2, <4>1 DEF JobId
      <4>3. ~(k < i)
        BY <2>2, <4>1 DEF RowsOK, InOrder
      <4> QED
        BY <4>1, <4>2, <4>3
    <3>7. ASSUME conf'[s].kind = "cron", NEW i \in JobsOf(s)
          PROVE  \E t \in (job[i].born + 1)..now : CronMatches(conf[s], t)
      <4>1. conf[s] = my /\ my.kind = "cron"
        BY <2>1, <2>4, <3>7 DEF my
      <4>2. /\ entry[s].next \in Nat /\ CronMatches(conf[s], entry[s].next)
            /\ job[i].born < entry[s].next
        BY <3>2, <3>7, <4>1 DEF DoneFor
      <4>3. now >= entry[s].next
        BY <3>3, <3>5, <4>1, <4>2 DEF Null
      <4>4. job[i].born \in Nat /\ now \in Nat
        BY <1>0 DEF JobsOf, TickJob, RowsOK, RowOK, Control
      <4>5. entry[s].next \in (job[i].born + 1)..now
        BY <4>2, <4>3, <4>4
      <4> QED
        BY <4>2, <4>5
    <3>8. \A i \in JobsOf(s) : job'[i].born = job[i].born
      BY <2>2, <3>6 DEF JobsOf
    <3>9. OneShot(s)' => \A i, j \in JobsOf(s)' : i = j
      BY <3>1, <3>4
    <3>10. ASSUME conf'[s].kind = "cron", NEW i \in JobsOf(s)', NEW j \in JobsOf(s)', i < j
           PROVE  \E t \in (job'[i].born + 1)..job'[j].born : CronMatches(conf[s], t)
      <4>1. i # k
        <5>1. k \in Nat /\ (j \in JobsOf(s) => j \in Nat /\ j < k)
          BY <2>2, <3>6 DEF JobId
        <5>2. CASE j = k
          BY <3>10, <5>1, <5>2
        <5>3. CASE j # k
          <6>1. j \in Nat /\ j < k
            BY <3>1, <3>10, <5>1, <5>3
          <6> QED
            BY <3>10, <5>1, <6>1
        <5> QED
          BY <5>2, <5>3
      <4>2. CASE j = k
        BY <2>2, <3>1, <3>7, <3>8, <3>10, <4>1, <4>2
      <4>3. CASE j # k
        BY <2>1, <3>1, <3>8, <3>10, <4>1, <4>3 DEF OnceFor
      <4> QED
        BY <4>2, <4>3
    <3> QED
      BY <2>1, <3>9, <3>10 DEF OnceFor, CronMatches
  <2> QED
    BY <2>3, <2>4
<1>6. ASSUME ~Start, NEW k \in FreeJob, NEW key, Submits(k, key), key = SlotKey(slots.done + 1)
      PROVE  NobodyFires
  <2>1. Inserts(k, cur, key)
    BY <1>6 DEF Submits
  <2>2. PICK t : key = <<cur, "catchup", t>>
    BY <1>6 DEF SlotKey
  <2> QED
    BY <1>0, <2>1, <2>2, CatchUpFires
<1> QED
  BY <1>0, <1>3, <1>4, <1>5, <1>6, QueueSteps, NothingFires DEF Submits

(* A set whose elements are all the same.                                  *)
LEMMA AtMostOne ==
  ASSUME NEW S, \A i, j \in S : i = j
  PROVE  Cardinality(S) <= 1
<1>1. CASE S = {}
  BY <1>1, FS_EmptySet
<1>2. CASE S # {}
  <2>1. PICK x \in S : TRUE
    BY <1>2
  <2>2. S = {x}
    BY <2>1
  <2> QED
    BY <2>2, FS_Singleton
<1> QED
  BY <1>1, <1>2

(* The inductive invariant of entries and rows.                            *)
FiresInv ==
    /\ IndInv /\ EntriesOK /\ LastJobsOK /\ SlotsOK /\ RowsOK /\ NoLeftovers
    /\ FiringInv /\ OnceInv

(* Nothing has fired initially.                                            *)
LEMMA FiresInit ==
  ASSUME Init
  PROVE  FiresInv
<1>1. IndInv
  BY InitInv
<1>2. EntriesOK
  <2>1. NewEntry \in EntryState
    BY DEF NewEntry, EntryState
  <2> QED
    BY <2>1 DEF Init, EntriesOK
<1>3. LastJobsOK
  BY DEF Init, LastJobsOK, ClosedBreaker
<1>4. SlotsOK
  BY DEF Init, SlotsOK
<1>5. \A j \in JobId : /\ job[j].status = "none" /\ job[j].key = <<>> /\ ~job[j].busy
                       /\ job[j].revived = 0
  BY DEF Init, NoRow
<1>6. RowsOK /\ NoLeftovers
  BY <1>5 DEF RowsOK, RowOK, InOrder, NoDuplicates, Status, Live, Fresh, NoLeftovers
<1>7. \A s \in Schedule : JobsOf(s) = {}
  BY <1>5 DEF JobsOf, TickJob
<1>8. FiringInv
  BY <1>5, <1>7 DEF Init, FiringInv, Firing, NoneYet, Commands, Loaded, CronReached, Spent,
                    NewEntry, EntrySteps, DueSteps
<1>9. OnceInv
  BY <1>7 DEF OnceInv, OnceFor
<1> QED
  BY <1>1, <1>2, <1>3, <1>4, <1>6, <1>8, <1>9 DEF FiresInv

(* Every step keeps the invariant of entries and rows.                     *)
LEMMA FiresNext ==
  ASSUME FiresInv, Next
  PROVE  FiresInv'
<1>0. /\ IndInv /\ EntriesOK /\ LastJobsOK /\ SlotsOK /\ RowsOK /\ NoLeftovers
      /\ FiringInv /\ OnceInv
  BY DEF FiresInv
<1>1. /\ IndInv' /\ EntriesOK' /\ LastJobsOK' /\ SlotsOK' /\ NoLeftovers'
      /\ FiringInv' /\ OnceInv'
  BY <1>0, NextInv, EntriesNext, LastJobsNext, SlotsNext, LeftoversNext, FiringNext, OnceNext
<1>2. RowsOK'
  <2>1. deployment' = deployment /\ Control /\ now \in Nat /\ now' \in Nat /\ now' >= now
    BY <1>0, Clock DEF Next, IndInv, Control
  <2>2. CASE NothingSubmitted
    BY <1>0, <2>1, <2>2, RowsKept
  <2>3. ASSUME NEW k \in FreeJob, NEW key, Submits(k, key) PROVE RowsOK'
    <3>1. UNCHANGED now
      BY <2>3 DEF Submits, EnqueueScheduledJob, EnqueueCatchUpJob
    <3> QED
      BY <1>0, <2>1, <2>3, <3>1, RowsSubmitted
  <2> QED
    BY <1>0, <2>2, <2>3, QueueSteps
<1> QED
  BY <1>1, <1>2 DEF FiresInv

(* So does a step in which nothing happens.                                *)
LEMMA FiresStutter ==
  ASSUME FiresInv, UNCHANGED <<vars, deployment>>
  PROVE  FiresInv'
<1>1. UNCHANGED <<now, conf, entry, cb, cbFacts, job, later, pc, cur, es, bk, latest, hit, slots, opc,
                  starts, faults, resets, deployment>>
  BY DEF vars, dbVars, localVars, boundVars
<1>2. IndInv'
  <2>1. Quiet
    BY <1>1 DEF Quiet, FiresInv, IndInv, Control
  <2>2. JobsOK'
    BY <1>1, SameJobs DEF FiresInv, IndInv, JobStep
  <2> QED
    BY <2>1, <2>2, QuietKeeps DEF FiresInv, IndInv
<1>3. EntriesOK'
  BY <1>1 DEF FiresInv, EntriesOK, EntryState, Schedule, NumSchedules, Configs, JobId, MaxJobs, NoResult
<1>4. LastJobsOK'
  BY <1>1 DEF FiresInv, LastJobsOK, JobId, MaxJobs
<1>5. SlotsOK'
  BY <1>1 DEF FiresInv, SlotsOK, my
<1>6. NothingSubmitted /\ JobId' = JobId /\ Schedule' = Schedule /\ now \in Nat
  BY <1>1, SameDeployment DEF NothingSubmitted, Kept, SameJob, FiresInv, RowsOK, RowOK, IndInv, Control,
                              Live, Fresh
<1>7. RowsOK'
  BY <1>1, <1>6, RowsKept DEF FiresInv
<1>10. NoLeftovers'
  BY <1>1, <1>6 DEF FiresInv, NoLeftovers
<1>8. FiringInv'
  <2>1. Elsewhere
    BY <1>1, <1>6 DEF Elsewhere
  <2> QED
    BY <1>1, <1>6, <2>1, NothingFires, ElsewhereKeeps DEF FiresInv, IndInv
<1>9. OnceInv'
  <2>1. NobodyFires
    BY <1>1, <1>6, NothingFires
  <2> QED
    BY <1>1, <1>6, <2>1 DEF FiresInv, OnceInv, OnceFor, NobodyFires, OneShot, CronMatches
<1> QED
  BY <1>2, <1>3, <1>4, <1>5, <1>7, <1>8, <1>9, <1>10 DEF FiresInv

(* The invariant of entries and rows.                                      *)
THEOREM FiresInvariance == Spec => []FiresInv
<1>1. FiresInv /\ [Next]_<<vars, deployment>> => FiresInv'
  BY FiresNext, FiresStutter
<1> QED
  BY <1>1, FiresInit, PTL DEF Spec

(* FiresOnce: a one-shot schedule has one job, or after a crash one that   *)
(* is outstanding and was never cancelled, a cron schedule one per         *)
(* matching minute and a missed slot one that is outstanding, whatever     *)
(* happens between the insertion (enqueueScheduledJob, enqueueCatchUpJob)  *)
(* and the entry that records it, and although failOrRetry queues jobs     *)
(* again that a schedule has cancelled, for every deployment.              *)
THEOREM FiringOnce == Spec => []FiresOnce
<1>1. FiresInv => FiresOnce
  <2> SUFFICES ASSUME FiresInv PROVE FiresOnce
    OBVIOUS
  <2>0. RowsOK /\ OnceInv /\ now \in Nat
    BY DEF FiresInv, IndInv, Control
  <2>1. \A s \in Schedule : \A j \in JobsOf(s) : j \in JobId /\ job[j].key = <<s, "tick", 0>>
    <3> SUFFICES ASSUME NEW s \in Schedule, NEW j \in JobsOf(s)
                 PROVE  j \in JobId /\ job[j].key = <<s, "tick", 0>>
      OBVIOUS
    <3>1. j \in JobId /\ job[j].sched = s /\ job[j].key # <<>> /\ job[j].key[2] = "tick"
      BY DEF JobsOf, TickJob
    <3>2. Keyed(j)
      BY <2>0, <3>1 DEF RowsOK, RowOK
    <3> QED
      BY <3>1, <3>2 DEF Keyed
  <2>2. OneShotOnce
    <3> SUFFICES ASSUME NEW s \in Schedule, conf[s].kind \in {"at", "after"}
                 PROVE  /\ Cardinality({j \in JobsOf(s) \cap Outstanding(conf[s].command) :
                                            job[j].revived = 0}) <= 1
                        /\ starts <= 1 /\ faults = 0 => Cardinality(JobsOf(s)) <= 1
      BY DEF OneShotOnce
    <3>1. \A i, j \in {k \in JobsOf(s) \cap Outstanding(conf[s].command) : job[k].revived = 0} : i = j
      BY <2>0, <2>1 DEF RowsOK, NoDuplicates, Outstanding, Jobs, Fresh
    <3>2. starts <= 1 /\ faults = 0 => \A i, j \in JobsOf(s) : i = j
      BY <2>0 DEF OnceInv, OnceFor, OneShot
    <3> QED
      BY <3>1, <3>2, AtMostOne
  <2>3. CronOncePerMatch
    BY <2>0 DEF OnceInv, OnceFor, CronOncePerMatch
  <2>4. CatchUpSlots
    <3>1. ASSUME NEW j \in JobId, job[j].key # <<>>, job[j].key[2] = "catchup"
          PROVE  job[j].key[3] <= now
      <4>1. Keyed(j)
        BY <2>0, <3>1 DEF RowsOK, RowOK
      <4> QED
        BY <2>0, <3>1, <4>1 DEF Keyed
    <3> QED
      BY <2>0, <3>1 DEF CatchUpSlots, RowsOK, NoDuplicates, Jobs, Live
  <2> QED
    BY <2>2, <2>3, <2>4 DEF FiresOnce
<1> QED
  BY <1>1, FiresInvariance, PTL

-----------------------------------------------------------------------------
(* The outcomes of the jobs: what a row says about failure, and that a job *)
(* has one result as long as no schedule cancels.                          *)
Outcome(j) ==
    /\ job[j].status \in {"failed", "dead"} => job[j].failed
    /\ ~Cancelling /\ job[j].status \in {"none", "outstanding"} => ~job[j].failed
    /\ ~Cancelling /\ job[j].busy => job[j].status = "outstanding"
    /\ job[j].status \in {"succeeded", "failed", "dead"} => job[j].at <= now
(* completed_at orders the rows that have ended.                           *)
Ordered ==
    /\ later \subseteq Ended \X Ended
    /\ \A i, j \in Ended :
         /\ <<i, j>> \in later => job[i].at >= job[j].at
         /\ <<i, j>> \in later <=> i # j /\ <<j, i>> \notin later
OutcomesOK == (\A j \in JobId : Outcome(j)) /\ Ordered

(* The failures of a command that were there for the breaker to see up to  *)
(* the result of job l.                                                    *)
FailedUpTo(c, l) ==
    {j \in JobId : /\ job[j].failed /\ job[j].command = c
                   /\ \/ job[j].status = "gone"
                      \/ l \in Completed(c) /\ j \in Ended /\ ~CompletedAfter(j, l)}
Visible(c, l) == Cardinality(FailedUpTo(c, l))

(* Whether schedules cancel does not change.                               *)
LEMMA CancellingFacts ==
  ASSUME deployment' = deployment, Control
  PROVE  Cancelling' = Cancelling /\ (my.ifRunning = "cancel" => Cancelling)
<1>1. Cancelling' = Cancelling
  BY SameDeployment DEF Cancelling
<1> QED
  BY <1>1 DEF Cancelling, Control, my

(* Ended, row by row.                                                      *)
LEMMA EndedIs ==
  /\ Ended = {j \in JobId : job[j].status \in {"succeeded", "failed", "dead"}}
  /\ JobId' = JobId => Ended' = {j \in JobId : job'[j].status \in {"succeeded", "failed", "dead"}}
BY DEF Ended, Jobs

(* Every step keeps the outcomes and their order.                          *)
LEMMA OutcomesNext ==
  ASSUME IndInv, RowsOK, OutcomesOK, Next
  PROVE  OutcomesOK'
<1>0. /\ Control /\ JobsOK /\ deployment' = deployment /\ now' \in Nat /\ JobId' = JobId
      /\ now \in Nat /\ now' >= now /\ Cancelling' = Cancelling
      /\ \A j \in Ended : j \in JobId /\ job[j].at \in Nat /\ job[j].at <= now
  BY Clock, SameDeployment, CancellingFacts, EndedIs DEF IndInv, Control, Next, JobsOK, OutcomesOK, Outcome
<1> DEFINE Old3 == {"succeeded", "failed", "dead"}
<1>1. CASE UNCHANGED <<job, later>>
  <2>1. Ended' = Ended
    BY <1>0, <1>1, EndedIs
  <2>2. Ordered'
    BY <1>1, <2>1 DEF Ordered, OutcomesOK
  <2>3. ASSUME NEW j \in JobId PROVE Outcome(j)'
    <3>1. job'[j] = job[j] /\ Outcome(j) /\ (job[j].status \in Old3 => job[j].at \in Nat)
      BY <1>0, <1>1 DEF OutcomesOK, JobsOK
    <3> QED
      BY <1>0, <3>1 DEF Outcome
  <2> QED
    BY <1>0, <2>2, <2>3 DEF OutcomesOK
<1>2. ASSUME NEW k \in FreeJob, NEW key, Inserts(k, cur, key), UNCHANGED <<later, now>>
      PROVE  OutcomesOK'
  <2>1. /\ k \in JobId /\ job[k].status = "none" /\ job'[k].status = "outstanding"
        /\ job'[k].failed = FALSE /\ \A j \in JobId \ {k} : job'[j] = job[j]
    BY <1>2 DEF FreeJob, Jobs, Inserts
  <2>2. Ended' = Ended /\ k \notin Ended
    BY <1>0, <2>1, EndedIs
  <2>3. \A j \in Ended : job'[j] = job[j]
    BY <1>0, <2>1, <2>2
  <2>4. Ordered'
    BY <1>2, <2>2, <2>3 DEF Ordered, OutcomesOK
  <2>5. ASSUME NEW j \in JobId PROVE Outcome(j)'
    <3>1. CASE j = k
      BY <2>1, <3>1 DEF Outcome
    <3>2. CASE j # k
      BY <1>0, <1>2, <2>1, <3>2 DEF Outcome, OutcomesOK
    <3> QED
      BY <3>1, <3>2
  <2> QED
    BY <1>0, <2>4, <2>5 DEF OutcomesOK
<1>3. ASSUME NEW S \in SUBSET JobId, NEW running, Cancels(S, running), UNCHANGED now
      PROVE  OutcomesOK'
  <2>1. /\ Cancelling /\ \A j \in S : job[j].status = "outstanding"
        /\ later' = later \cup (S \X Ended) \cup {p \in S \X S : p[1] > p[2]}
    BY <1>0, <1>3, CancellingFacts DEF Cancels, Cancel, Outstanding, Jobs
  <2>2. \A j \in JobId : /\ j \notin S => job'[j] = job[j]
                         /\ j \in S => Rewrites(j, "dead", now, j \in running, TRUE)
    BY <1>0, <1>3, CancelRows DEF Cancels
  <2>3. Ended' = Ended \cup S /\ Ended \cap S = {}
    BY <1>0, <2>1, <2>2, EndedIs DEF Rewrites
  <2>4. ASSUME NEW j \in JobId PROVE Outcome(j)'
    BY <1>0, <1>3, <2>1, <2>2 DEF Outcome, OutcomesOK, Rewrites
  <2>5. Ordered'
    <3>1. later' \subseteq Ended' \X Ended'
      BY <2>1, <2>3 DEF Ordered, OutcomesOK
    <3>2. ASSUME NEW i \in Ended', NEW j \in Ended'
          PROVE  /\ <<i, j>> \in later' => job'[i].at >= job'[j].at
                 /\ <<i, j>> \in later' <=> i # j /\ <<j, i>> \notin later'
      <4>1. i \in Nat /\ j \in Nat /\ i \in JobId /\ j \in JobId
        BY <1>0, <2>3, EndedIs DEF JobId
      <4>2. \A a, b : <<a, b>> \in later' <=>
              \/ <<a, b>> \in later \/ (a \in S /\ b \in Ended) \/ (a \in S /\ b \in S /\ a > b)
        BY <2>1
      <4>3. \A a, b : <<a, b>> \in later => a \in Ended /\ b \in Ended
        BY DEF Ordered, OutcomesOK
      <4>4. CASE i \in Ended /\ j \in Ended
        BY <1>0, <2>2, <2>3, <4>1, <4>2, <4>4 DEF Ordered, OutcomesOK
      <4>5. CASE i \in S /\ j \in Ended
        <5>1. job'[i].at = now /\ job'[j].at = job[j].at
          BY <2>2, <2>3, <4>1, <4>5 DEF Rewrites
        <5> QED
          BY <1>0, <2>3, <4>2, <4>3, <4>5, <5>1
      <4>6. CASE i \in Ended /\ j \in S
        BY <2>3, <4>2, <4>3, <4>6
      <4>7. CASE i \in S /\ j \in S
        <5>1. job'[i].at = now /\ job'[j].at = now
          BY <2>2, <4>1, <4>7 DEF Rewrites
        <5> QED
          BY <1>0, <2>3, <4>1, <4>2, <4>3, <4>7, <5>1
      <4> QED
        BY <2>3, <4>4, <4>5, <4>6, <4>7
    <3> QED
      BY <3>1, <3>2 DEF Ordered
  <2> QED
    BY <1>0, <2>4, <2>5 DEF OutcomesOK
<1>4. ASSUME NEW k \in JobId, NEW st \in {"succeeded", "failed"}, FinishJob(k, st), UNCHANGED now
      PROVE  OutcomesOK'
  <2>1. /\ job[k].busy /\ \A j \in JobId \ {k} : job'[j] = job[j]
        /\ job[k].status # "gone" => Rewrites(k, st, now, FALSE, job[k].failed \/ st = "failed")
        /\ job[k].status = "gone" => Rewrites(k, "gone", job[k].at, FALSE, job[k].failed)
    BY <1>0, <1>4, FinishRows
  <2>2. ASSUME NEW j \in JobId PROVE Outcome(j)'
    <3>1. CASE j # k
      BY <1>0, <1>4, <2>1, <3>1 DEF Outcome, OutcomesOK
    <3>2. CASE j = k /\ job[k].status # "gone"
      <4>1. Rewrites(k, st, now, FALSE, job[k].failed \/ st = "failed")
        BY <2>1, <3>2
      <4>2. /\ job'[k].status = st /\ job'[k].at = now /\ ~job'[k].busy
            /\ st = "failed" => job'[k].failed
        BY <4>1 DEF Rewrites
      <4> QED
        BY <1>0, <1>4, <3>2, <4>2 DEF Outcome
    <3>3. CASE j = k /\ job[k].status = "gone"
      <4>1. job'[k].status = "gone" /\ ~job'[k].busy
        BY <2>1, <3>3 DEF Rewrites
      <4> QED
        BY <3>3, <4>1 DEF Outcome
    <3> QED
      BY <3>1, <3>2, <3>3
  <2>3. CASE job[k].status = "gone"
    <3>1. UNCHANGED later /\ job'[k].status = "gone"
      BY <1>4, <2>1, <2>3 DEF FinishJob, Rewrites
    <3>2. Ended' = Ended /\ k \notin Ended
      BY <1>0, <2>1, <2>3, <3>1, EndedIs
    <3>3. \A j \in Ended : job'[j] = job[j]
      BY <1>0, <2>1, <3>2
    <3>4. Ordered'
      BY <3>1, <3>2, <3>3 DEF Ordered, OutcomesOK
    <3> QED
      BY <1>0, <2>2, <3>4 DEF OutcomesOK
  <2>4. CASE job[k].status # "gone"
    <3>1. later' = {p \in later : k \notin {p[1], p[2]}} \cup ({k} \X (Ended \ {k}))
      BY <1>4, <2>4 DEF FinishJob
    <3>2. job'[k].status = st /\ job'[k].at = now
      BY <2>1, <2>4 DEF Rewrites
    <3>3. Ended' = Ended \cup {k}
      BY <1>0, <2>1, <3>2, EndedIs
    <3>4. \A a, b : <<a, b>> \in later => a \in Ended /\ b \in Ended
      BY DEF Ordered, OutcomesOK
    <3>5. \A a, b : <<a, b>> \in later' <=>
            \/ <<a, b>> \in later /\ a # k /\ b # k
            \/ a = k /\ b \in Ended /\ b # k
      BY <3>1
    <3>6. later' \subseteq Ended' \X Ended'
      BY <3>1, <3>3 DEF Ordered, OutcomesOK
    <3>7. ASSUME NEW i \in Ended', NEW j \in Ended'
          PROVE  /\ <<i, j>> \in later' => job'[i].at >= job'[j].at
                 /\ <<i, j>> \in later' <=> i # j /\ <<j, i>> \notin later'
      <4>1. CASE i # k /\ j # k
        <5>1. i \in Ended /\ j \in Ended /\ job'[i] = job[i] /\ job'[j] = job[j]
          BY <1>0, <2>1, <3>3, <3>7, <4>1
        <5> QED
          BY <3>5, <4>1, <5>1 DEF Ordered, OutcomesOK
      <4>2. CASE i = k /\ j # k
        <5>1. j \in Ended /\ job'[j] = job[j] /\ job'[i].at = now /\ job[j].at \in Nat /\ job[j].at <= now
          BY <1>0, <2>1, <3>2, <3>3, <3>7, <4>2
        <5> QED
          BY <1>0, <3>5, <4>2, <5>1
      <4>3. CASE j = k
        BY <3>3, <3>5, <3>7, <4>3
      <4> QED
        BY <4>1, <4>2, <4>3
    <3>8. Ordered'
      BY <3>6, <3>7 DEF Ordered
    <3> QED
      BY <1>0, <2>2, <3>8 DEF OutcomesOK
  <2> QED
    BY <2>3, <2>4
<1>5. ASSUME Prune, UNCHANGED now
      PROVE  OutcomesOK'
  <2>1. /\ \A j \in JobId : /\ j \notin Old => job'[j] = job[j]
                            /\ j \in Old => Rewrites(j, "gone", job[j].at, job[j].busy, job[j].failed)
        /\ later' = {p \in later : {p[1], p[2]} \cap Old = {}}
    <3>1. 1 \in JobId
      BY <1>0, ScheduleAssumption DEF Control, JobId, MaxJobs
    <3> QED
      BY <1>0, <1>5, <3>1, PruneRows
  <2>2. Ended' = Ended \ Old /\ Old \subseteq Ended
    BY <1>0, <2>1, EndedIs DEF Rewrites, Old
  <2>3. \A a, b : <<a, b>> \in later' <=> <<a, b>> \in later /\ a \notin Old /\ b \notin Old
    BY <2>1
  <2>4. \A j \in Ended' : j \in Ended /\ j \notin Old /\ job'[j] = job[j]
    BY <1>0, <2>1, <2>2
  <2>5. Ordered'
    <3>1. later' \subseteq Ended' \X Ended'
      BY <2>1, <2>2 DEF Ordered, OutcomesOK
    <3> QED
      BY <2>3, <2>4, <3>1 DEF Ordered, OutcomesOK
  <2>6. ASSUME NEW j \in JobId PROVE Outcome(j)'
    <3>1. CASE j \notin Old
      BY <1>0, <1>5, <2>1, <3>1 DEF Outcome, OutcomesOK
    <3>2. CASE j \in Old
      <4>1. job'[j].status = "gone" /\ job'[j].busy = job[j].busy
        BY <2>1, <3>2 DEF Rewrites
      <4>2. Outcome(j) /\ job[j].status \in {"succeeded", "failed", "dead"}
        BY <2>2, <3>2, EndedIs DEF OutcomesOK
      <4> QED
        BY <1>0, <4>1, <4>2 DEF Outcome
    <3> QED
      BY <3>1, <3>2
  <2> QED
    BY <1>0, <2>5, <2>6 DEF OutcomesOK
<1>6. ASSUME Crash, UNCHANGED <<later, now>>
      PROVE  OutcomesOK'
  <2>1. \A j \in JobId :
          Rewrites(j, job[j].status, job[j].at, job[j].busy /\ job[j].status = "outstanding", job[j].failed)
    BY <1>0, <1>6, CrashRows
  <2>2. \A j \in JobId : /\ job'[j].status = job[j].status /\ job'[j].at = job[j].at
                         /\ job'[j].failed = job[j].failed
                         /\ job'[j].busy => job[j].busy
    BY <2>1 DEF Rewrites
  <2>3. Ended' = Ended
    BY <1>0, <2>2, EndedIs
  <2>4. \A j \in Ended : job'[j].at = job[j].at
    BY <1>0, <2>2
  <2>5. Ordered'
    BY <1>6, <2>3, <2>4 DEF Ordered, OutcomesOK
  <2>6. ASSUME NEW j \in JobId PROVE Outcome(j)'
    BY <1>0, <1>6, <2>2 DEF Outcome, OutcomesOK
  <2> QED
    BY <1>0, <2>5, <2>6 DEF OutcomesOK
<1>7. ASSUME NEW k \in JobId, Revive(k), UNCHANGED now
      PROVE  OutcomesOK'
  <2>1. /\ \A j \in JobId \ {k} : job'[j] = job[j]
        /\ job[k].busy /\ job[k].status = "dead" /\ job'[k].status = "outstanding"
    BY <1>0, <1>7, ReviveRows
  <2>2. Cancelling
    BY <2>1 DEF OutcomesOK, Outcome
  <2>3. ASSUME NEW j \in JobId PROVE Outcome(j)'
    <3>1. CASE j = k
      BY <1>0, <2>1, <2>2, <3>1 DEF Outcome
    <3>2. CASE j # k
      BY <1>0, <1>7, <2>1, <3>2 DEF Outcome, OutcomesOK
    <3> QED
      BY <3>1, <3>2
  <2>4. Ended' = Ended \ {k} /\ k \in Ended
    BY <1>0, <2>1, EndedIs
  <2>5. later' = {p \in later : k \notin {p[1], p[2]}}
    BY <1>7 DEF Revive
  <2>6. \A a, b : <<a, b>> \in later' <=> <<a, b>> \in later /\ a # k /\ b # k
    BY <2>5
  <2>7. \A j \in Ended' : j \in Ended /\ j # k /\ job'[j] = job[j]
    BY <1>0, <2>1, <2>4
  <2>8. Ordered'
    <3>1. later' \subseteq Ended' \X Ended'
      BY <2>4, <2>5 DEF Ordered, OutcomesOK
    <3> QED
      BY <2>6, <2>7, <3>1 DEF Ordered, OutcomesOK
  <2> QED
    BY <1>0, <2>3, <2>8 DEF OutcomesOK
<1> QED
  BY <1>1, <1>2, <1>3, <1>4, <1>5, <1>6, <1>7, RowSteps

(* The sets that are counted are finite.                                   *)
LEMMA FiniteCounts ==
  ASSUME Control
  PROVE  /\ IsFiniteSet(JobId)
         /\ \A S \in SUBSET JobId : IsFiniteSet(S) /\ Cardinality(S) \in Nat
         /\ \A S, T \in SUBSET JobId : S \subseteq T => Cardinality(S) <= Cardinality(T)
<1>1. MaxJobs \in Nat
  BY ScheduleAssumption DEF Control, MaxJobs
<1>2. IsFiniteSet(JobId)
  BY <1>1, FS_Interval DEF JobId
<1>3. \A S \in SUBSET JobId : IsFiniteSet(S) /\ Cardinality(S) \in Nat
  BY <1>2, FS_Subset, FS_CardinalityType
<1>4. ASSUME NEW S \in SUBSET JobId, NEW T \in SUBSET JobId, S \subseteq T
      PROVE  Cardinality(S) <= Cardinality(T)
  BY <1>3, <1>4, FS_Subset
<1> QED
  BY <1>2, <1>3, <1>4

(* One element more or less.                                               *)
LEMMA OneLess ==
  ASSUME Control, NEW S \in SUBSET JobId, NEW T \in SUBSET JobId, NEW k
  PROVE  /\ S \ {k} \subseteq T => Cardinality(S) <= Cardinality(T) + 1
         /\ S \cup {k} \subseteq T /\ k \notin S => Cardinality(S) + 1 <= Cardinality(T)
<1>1. IsFiniteSet(S) /\ Cardinality(S) \in Nat /\ IsFiniteSet(T) /\ Cardinality(T) \in Nat
  BY FiniteCounts
<1>2. ASSUME S \ {k} \subseteq T PROVE Cardinality(S) <= Cardinality(T) + 1
  <2>1. /\ IsFiniteSet(S \ {k}) /\ Cardinality(S \ {k}) <= Cardinality(T) /\ Cardinality(S \ {k}) \in Nat
    BY <1>2, FiniteCounts
  <2>2. k \in S => Cardinality(S \ {k}) = Cardinality(S) - 1
    BY <1>1, FS_RemoveElement
  <2>3. k \notin S => S \ {k} = S
    OBVIOUS
  <2>4. CASE k \in S
    BY <1>1, <2>1, <2>2, <2>4
  <2>5. CASE k \notin S
    <3>1. Cardinality(S) <= Cardinality(T)
      BY <2>1, <2>3, <2>5
    <3> QED
      BY <1>1, <3>1
  <2> QED
    BY <2>4, <2>5
<1>3. ASSUME S \cup {k} \subseteq T, k \notin S PROVE Cardinality(S) + 1 <= Cardinality(T)
  <2>1. Cardinality(S \cup {k}) = Cardinality(S) + 1
    BY <1>1, <1>3, FS_AddElement
  <2>2. Cardinality(S \cup {k}) <= Cardinality(T)
    BY <1>3, FiniteCounts
  <2> QED
    BY <2>1, <2>2
<1> QED
  BY <1>2, <1>3

(* A step takes no visible failure away.                                   *)
Grows(c, l) == FailedUpTo(c, l) \subseteq FailedUpTo(c, l)'

(* Counting what is visible.                                               *)
LEMMA VisibleFacts ==
  ASSUME Control, deployment' = deployment, NEW c, NEW l
  PROVE  /\ Visible(c, l) \in Nat
         /\ Grows(c, l) => Visible(c, l)' \in Nat /\ Visible(c, l) <= Visible(c, l)'
<1> DEFINE A == FailedUpTo(c, l)  A1 == FailedUpTo(c, l)'
<1>0. JobId' = JobId
  BY SameDeployment
<1>1. A \in SUBSET JobId /\ A1 \in SUBSET JobId
  BY <1>0 DEF FailedUpTo
<1>2. Visible(c, l) = Cardinality(A) /\ Visible(c, l)' = Cardinality(A1) /\ (Grows(c, l) <=> A \subseteq A1)
  BY DEF Visible, Grows
<1> HIDE DEF A, A1
<1> QED
  BY <1>1, <1>2, FiniteCounts

(* No step takes a visible failure away.                                   *)
LEMMA FailuresGrow ==
  ASSUME ~Cancelling, IndInv, RowsOK, OutcomesOK, Next, NEW c, NEW l
  PROVE  Grows(c, l)
<1>0. /\ Control /\ JobsOK /\ deployment' = deployment /\ JobId' = JobId /\ now \in Nat /\ Retention \in Int
      /\ \A j \in Ended : j \in JobId /\ job[j].at \in Nat /\ job[j].at <= now
      /\ \A a, b : <<a, b>> \in later => a \in Ended /\ b \in Ended
  <2>1. Retention \in Int
    BY ScheduleAssumption DEF IndInv, Control, Retention
  <2> QED
    BY <2>1, SameDeployment, EndedIs DEF IndInv, Control, Next, JobsOK, OutcomesOK, Outcome, Ordered
<1>1. /\ \A j \in FailedUpTo(c, l) :
           /\ j \in JobId /\ job[j].failed /\ job[j].command = c
           /\ \/ job[j].status = "gone"
              \/ l \in Ended /\ job[l].command = c /\ j \in Ended /\ <<j, l>> \notin later
      /\ \A j \in JobId :
           /\ job'[j].failed /\ job'[j].command = c
           /\ \/ job'[j].status = "gone"
              \/ /\ l \in Ended /\ job[l].command = c /\ l \in Ended' /\ j \in Ended'
                 /\ <<j, l>> \notin later'
           => j \in FailedUpTo(c, l)'
  <2>1. \A j \in Ended : j \in JobId /\ job'[j].command = job[j].command
    <3>1. CASE NothingSubmitted
      BY <1>0, <3>1 DEF NothingSubmitted, Kept, SameJob
    <3>2. ASSUME NEW k \in FreeJob, NEW key, Submits(k, key), NEW j \in Ended
          PROVE  job'[j].command = job[j].command
      BY <1>0, <3>2, EndedIs DEF FreeJob, Jobs, Submits, Inserts
    <3> QED
      BY <1>0, <3>1, <3>2, QueueSteps
  <2> QED
    BY <1>0, <2>1 DEF FailedUpTo, CompletedAfter, Completed
<1>2. \A j \in JobId : job[j].status \in {"none", "outstanding"} => ~job[j].failed
  BY DEF OutcomesOK, Outcome
<1>3. CASE UNCHANGED <<job, later>>
  <2>1. Ended' = Ended
    BY <1>0, <1>3, EndedIs
  <2> QED
    BY <1>1, <1>3, <2>1 DEF Grows
<1>4. ASSUME NEW k \in FreeJob, NEW key, Inserts(k, cur, key), UNCHANGED <<later, now>>
      PROVE  Grows(c, l)
  <2>1. /\ k \in JobId /\ job[k].status = "none" /\ job'[k].status = "outstanding"
        /\ \A j \in JobId \ {k} : job'[j] = job[j]
    BY <1>4 DEF FreeJob, Jobs, Inserts
  <2>2. Ended' = Ended
    BY <1>0, <2>1, EndedIs
  <2> QED
    BY <1>1, <1>2, <1>4, <2>1, <2>2 DEF Grows
<1>5. ASSUME NEW S \in SUBSET JobId, NEW running, Cancels(S, running)
      PROVE  Grows(c, l)
  BY <1>0, <1>5, CancellingFacts DEF Cancels
<1>9. ASSUME NEW k \in JobId, Revive(k)
      PROVE  Grows(c, l)
  BY <1>0, <1>9, ReviveRows DEF OutcomesOK, Outcome
<1>6. ASSUME NEW k \in JobId, NEW st \in {"succeeded", "failed"}, FinishJob(k, st), UNCHANGED now
      PROVE  Grows(c, l)
  <2>1. /\ job[k].busy /\ \A j \in JobId \ {k} : job'[j] = job[j]
        /\ job[k].status # "gone" => Rewrites(k, st, now, FALSE, job[k].failed \/ st = "failed")
    BY <1>0, <1>6, FinishRows
  <2>2. job[k].status = "outstanding" /\ ~job[k].failed
    BY <1>2, <2>1 DEF OutcomesOK, Outcome
  <2>3. later' = {p \in later : k \notin {p[1], p[2]}} \cup ({k} \X (Ended \ {k}))
    BY <1>6, <2>2 DEF FinishJob
  <2>4. job'[k].status = st
    BY <2>1, <2>2 DEF Rewrites
  <2>5. Ended' = Ended \cup {k}
    BY <1>0, <2>1, <2>4, EndedIs
  <2>6. \A a, b : <<a, b>> \in later' /\ a # k => <<a, b>> \in later
    BY <2>3
  <2> QED
    BY <1>1, <2>1, <2>2, <2>5, <2>6 DEF Grows
<1>7. ASSUME Prune, UNCHANGED now
      PROVE  Grows(c, l)
  <2>1. /\ \A j \in JobId : /\ j \notin Old => job'[j] = job[j]
                            /\ j \in Old => Rewrites(j, "gone", job[j].at, job[j].busy, job[j].failed)
        /\ later' = {p \in later : {p[1], p[2]} \cap Old = {}}
    <3>1. 1 \in JobId
      BY <1>0, ScheduleAssumption DEF Control, JobId, MaxJobs
    <3> QED
      BY <1>0, <1>7, <3>1, PruneRows
  <2>2. \A j \in JobId : /\ job'[j].command = job[j].command /\ job'[j].busy = job[j].busy
                         /\ job'[j].failed = job[j].failed
                         /\ j \in Old \/ job[j].status = "gone" => job'[j].status = "gone"
    <3>1. \A j \in JobId : j \in Old => job'[j].status = "gone"
      BY <2>1 DEF Rewrites
    <3> QED
      BY <2>1, <3>1 DEF Rewrites, SameJob
  <2>3. Ended' = Ended \ Old /\ Old \subseteq Ended
    BY <1>0, <2>1, EndedIs DEF Rewrites, Old
  <2>5. ASSUME NEW j \in FailedUpTo(c, l) PROVE j \in FailedUpTo(c, l)'
    <3>1. CASE job[j].status = "gone" \/ j \in Old
      BY <1>1, <2>2, <2>5, <3>1
    <3>2. CASE job[j].status # "gone" /\ j \notin Old
      <4>1. l \in Ended /\ j \in Ended /\ <<j, l>> \notin later
        BY <1>1, <2>5, <3>2
      <4>2. l \notin Old
        <5>1. CASE j = l
          BY <3>2, <5>1
        <5>2. CASE j # l
          <6>1. <<l, j>> \in later /\ job[l].at >= job[j].at
            BY <4>1, <5>2 DEF OutcomesOK, Ordered
          <6>2. ~(job[j].at < now - Retention)
            BY <3>2, <4>1 DEF Old
          <6> QED
            BY <1>0, <4>1, <6>1, <6>2 DEF Old
        <5> QED
          BY <5>1, <5>2
      <4>3. <<j, l>> \notin later'
        BY <2>1, <4>1
      <4> QED
        BY <1>1, <2>2, <2>3, <2>5, <3>2, <4>1, <4>2, <4>3
    <3> QED
      BY <3>1, <3>2
  <2> QED
    BY <2>5 DEF Grows
<1>8. ASSUME Crash, UNCHANGED <<later, now>>
      PROVE  Grows(c, l)
  <2>1. \A j \in JobId :
          Rewrites(j, job[j].status, job[j].at, job[j].busy /\ job[j].status = "outstanding", job[j].failed)
    BY <1>0, <1>8, CrashRows
  <2>2. \A j \in JobId : /\ job'[j].status = job[j].status /\ job'[j].command = job[j].command
                         /\ job'[j].failed = job[j].failed
                         /\ job'[j].busy => job[j].busy
    BY <2>1 DEF Rewrites, SameJob
  <2>3. Ended' = Ended
    BY <1>0, <2>2, EndedIs
  <2> QED
    BY <1>1, <1>8, <2>2, <2>3 DEF Grows
<1> QED
  BY <1>3, <1>4, <1>5, <1>6, <1>7, <1>8, <1>9, RowSteps

(* A failure that is the latest result of its command is not among those   *)
(* seen up to an earlier result.                                           *)
LEMMA NewFailure ==
  ASSUME IndInv, OutcomesOK, deployment' = deployment, NEW c, NEW l, NEW j \in Completed(c), j # l,
         \A i \in Completed(c) : ~CompletedAfter(i, j), job[j].status # "succeeded"
  PROVE  Visible(c, l) + 1 <= Visible(c, j)
<1> DEFINE A == FailedUpTo(c, l)  B == FailedUpTo(c, j)
<1>0. Control
  BY DEF IndInv
<1>1. /\ j \in JobId /\ j \in Ended /\ job[j].command = c /\ job[j].failed
      /\ job[j].status # "gone"
  BY EndedIs DEF Completed, OutcomesOK, Outcome
<1>2. A \subseteq B
  <2> SUFFICES ASSUME NEW i \in A PROVE i \in B
    OBVIOUS
  <2>1. i \in JobId /\ job[i].failed /\ job[i].command = c /\ (job[i].status = "gone" \/ i \in Ended)
    BY DEF FailedUpTo
  <2>2. i \in Ended => ~CompletedAfter(i, j)
    BY <2>1 DEF Completed
  <2> QED
    BY <2>1, <2>2 DEF FailedUpTo
<1>3. j \in B
  BY <1>1 DEF FailedUpTo, CompletedAfter, OutcomesOK, Ordered
<1>4. j \notin A
  BY <1>1 DEF FailedUpTo, CompletedAfter, OutcomesOK, Ordered, Completed
<1>5. A \in SUBSET JobId /\ B \in SUBSET JobId
  BY DEF FailedUpTo
<1>6. Visible(c, l) = Cardinality(A) /\ Visible(c, j) = Cardinality(B)
  BY DEF Visible
<1> HIDE DEF A, B
<1>7. /\ Cardinality(A) \in Nat /\ Cardinality(B) \in Nat
      /\ Cardinality(A) + 1 <= Cardinality(B)
  BY <1>0, <1>2, <1>3, <1>4, <1>5, FiniteCounts, OneLess
<1> QED
  BY <1>6, <1>7

(* What a breaker may have counted up to a job.                            *)
Backed(n, c, l) == n \in Nat /\ n <= Visible(c, l)

(* It stays backed.                                                        *)
LEMMA StaysBacked ==
  ASSUME ~Cancelling, IndInv, RowsOK, OutcomesOK, Next, NEW n, NEW c, NEW l, Backed(n, c, l)
  PROVE  Backed(n, c, l)'
<1>1. Control /\ deployment' = deployment
  BY DEF IndInv, Next
<1>2. Grows(c, l)
  BY FailuresGrow
<1>3. Visible(c, l) \in Nat /\ Visible(c, l)' \in Nat /\ Visible(c, l) <= Visible(c, l)'
  BY <1>1, <1>2, VisibleFacts
<1> QED
  BY <1>3 DEF Backed

(* The breakers that are not written stay backed, and so do the copies as  *)
(* long as the scheduler is where it was.                                  *)
CopiesBacked ==
    /\ pc = "count" /\ latest.status # "succeeded" => Backed(bk.failures + 1, my.command, latest.job)
    /\ pc = "probe" => Backed(bk.failures, my.command, bk.lastJob)
AllBacked == (\A c \in Command : Backed(cb[c].failures, c, cb[c].lastJob)) /\ CopiesBacked

(* A breaker that is not written stays backed.                             *)
LEMMA BreakersBacked ==
  ASSUME ~Cancelling, IndInv, RowsOK, OutcomesOK, Next, AllBacked, NEW c \in Command, cb'[c] = cb[c]
  PROVE  Backed(cb[c].failures, c, cb[c].lastJob)'
<1>1. PICK n, l : n = cb[c].failures /\ l = cb[c].lastJob
  OBVIOUS
<1>2. Backed(n, c, l)
  BY <1>1 DEF AllBacked
<1>3. Backed(n, c, l)'
  BY <1>2, StaysBacked
<1>4. cb'[c].failures = n /\ cb'[c].lastJob = l
  BY <1>1
<1> QED
  BY <1>3, <1>4

(* The copies stay backed while the scheduler stays where it is.           *)
LEMMA CopiesStayBacked ==
  ASSUME ~Cancelling, IndInv, RowsOK, OutcomesOK, Next, AllBacked, UNCHANGED <<bk, latest>>,
         pc' \notin {"count", "probe"} \/ UNCHANGED <<pc, cur, conf>>
  PROVE  CopiesBacked'
<1>0. CASE pc' \notin {"count", "probe"}
  BY <1>0 DEF CopiesBacked
<1>1. CASE UNCHANGED <<pc, cur, conf>>
  <2>1. my' = my
    BY <1>1 DEF my
  <2>2. PICK c, f, n, k, l : c = my.command /\ f = bk.failures /\ n = bk.failures + 1
                             /\ k = latest.job /\ l = bk.lastJob
    OBVIOUS
  <2>3. ASSUME pc = "count", latest.status # "succeeded" PROVE Backed(n, c, k)'
    BY <2>2, <2>3, StaysBacked DEF AllBacked, CopiesBacked
  <2>4. ASSUME pc = "probe" PROVE Backed(f, c, l)'
    BY <2>2, <2>4, StaysBacked DEF AllBacked, CopiesBacked
  <2>5. /\ my'.command = c /\ bk'.failures = f /\ bk'.failures + 1 = n /\ latest'.job = k /\ bk'.lastJob = l
    BY <2>1, <2>2
  <2> QED
    BY <1>1, <2>3, <2>4, <2>5 DEF CopiesBacked
<1> QED
  BY <1>0, <1>1

(* A step that leaves the breakers alone.                                  *)
LEMMA QuietBacked ==
  ASSUME ~Cancelling, IndInv, RowsOK, OutcomesOK, Next, AllBacked, UNCHANGED <<cb, bk, latest>>,
         pc' \notin {"count", "probe"} \/ UNCHANGED <<pc, cur, conf>>
  PROVE  AllBacked'
BY BreakersBacked, CopiesStayBacked DEF AllBacked

(* One breaker is written.                                                 *)
LEMMA WrittenBacked ==
  ASSUME ~Cancelling, IndInv, RowsOK, OutcomesOK, Next, AllBacked, NEW c, NEW n, NEW l, NEW b,
         cb' = [cb EXCEPT ![c] = b], b.failures = n, b.lastJob = l, Backed(n, c, l)
  PROVE  \A x \in Command : Backed(cb[x].failures, x, cb[x].lastJob)'
<1> SUFFICES ASSUME NEW x \in Command PROVE Backed(cb[x].failures, x, cb[x].lastJob)'
  OBVIOUS
<1>0. cb = [y \in Command |-> cb[y]]
  BY DEF IndInv, BreakersOK
<1>1. CASE x # c
  <2>1. cb'[x] = cb[x]
    BY <1>0, <1>1
  <2> QED
    BY <2>1, BreakersBacked
<1>2. CASE x = c
  <2>1. cb'[x].failures = n /\ cb'[x].lastJob = l
    BY <1>0, <1>2
  <2>2. Backed(n, c, l)'
    BY StaysBacked
  <2> QED
    BY <1>2, <2>1, <2>2
<1> QED
  BY <1>1, <1>2

(* reconcileCircuitBreaker: the failure it is about to count is new.       *)
LEMMA ReadBacked ==
  ASSUME ~Cancelling, IndInv, RowsOK, OutcomesOK, Next, AllBacked, EntriesOK, LastJobsOK, ReadBreaker
  PROVE  AllBacked'
<1>0. /\ Control /\ deployment' = deployment /\ my.command \in Command
      /\ GoodBreaker(cb[my.command])
  BY SettingFacts DEF IndInv, Next, BreakersOK
<1>1. /\ UNCHANGED <<conf, cur, cb, job, later>> /\ bk' = cb[my.command]
      /\ latest' = LatestCompleted(my.command)
      /\ pc' = (IF latest'.job \in {NoJob, cb[my.command].lastJob} THEN "timing" ELSE "count")
  BY DEF ReadBreaker, GoTo, dbVars
<1>2. \A c \in Command : Backed(cb[c].failures, c, cb[c].lastJob)'
  BY <1>1, BreakersBacked
<1>3. PICK c, n, l : c \in Command /\ c = my.command /\ n = cb[c].failures /\ l = cb[c].lastJob
  BY <1>0
<1>4. ASSUME pc' = "count", latest'.status # "succeeded"
      PROVE  Backed(bk.failures + 1, my.command, latest.job)'
  <2>1. latest'.job # NoJob /\ latest'.job # l
    BY <1>1, <1>3, <1>4
  <2>2. PICK j \in Completed(c) :
          /\ latest' = [job |-> j, status |-> job[j].status, at |-> job[j].at]
          /\ \A i \in Completed(c) : ~CompletedAfter(i, j)
    BY <1>1, <1>3, <2>1, LatestIs DEF NoResult
  <2>3. job[j].status # "succeeded" /\ j # l /\ latest'.job = j
    BY <1>4, <2>1, <2>2
  <2>4. Visible(c, l) + 1 <= Visible(c, j)
    BY <1>0, <2>2, <2>3, NewFailure
  <2>5. Visible(c, l) \in Nat /\ Visible(c, j) \in Nat
    BY <1>0, VisibleFacts
  <2>6. Backed(n, c, l)
    BY <1>3 DEF AllBacked
  <2>7. PICK m : m = n + 1
    OBVIOUS
  <2>8. Backed(m, c, j)
    BY <2>4, <2>5, <2>6, <2>7 DEF Backed
  <2>9. Backed(m, c, j)'
    BY <2>8, StaysBacked
  <2>10. bk'.failures + 1 = m /\ my'.command = c /\ latest'.job = j
    BY <1>1, <1>3, <2>3, <2>7 DEF my
  <2> QED
    BY <2>9, <2>10
<1>5. pc' # "probe"
  BY <1>1
<1> QED
  BY <1>2, <1>4, <1>5 DEF AllBacked, CopiesBacked

(* canSchedule copies a breaker.                                           *)
LEMMA GateBacked ==
  ASSUME ~Cancelling, IndInv, RowsOK, OutcomesOK, Next, AllBacked, CheckGate
  PROVE  AllBacked'
<1>0. Control /\ my.command \in Command
  BY SettingFacts DEF IndInv
<1>1. /\ UNCHANGED <<conf, cb>> /\ bk' = cb[my.command]
      /\ pc' \notin {"count", "probe"} \/ (pc' = "probe" /\ cur' = cur)
  BY <1>0, SkipFacts DEF CheckGate, GoTo, dbVars
<1>2. \A c \in Command : Backed(cb[c].failures, c, cb[c].lastJob)'
  BY <1>1, BreakersBacked
<1>3. PICK c \in Command : c = my.command
  BY <1>0
<1>4. ASSUME pc' = "probe" PROVE Backed(bk.failures, my.command, bk.lastJob)'
  <2>1. Backed(cb[c].failures, c, cb[c].lastJob)'
    BY <1>2
  <2>2. my'.command = c /\ bk'.failures = cb'[c].failures /\ bk'.lastJob = cb'[c].lastJob
    BY <1>1, <1>3, <1>4 DEF my
  <2> QED
    BY <2>1, <2>2
<1> QED
  BY <1>1, <1>2, <1>4 DEF AllBacked, CopiesBacked

(* The count is what the copy said, and one more.                          *)
LEMMA CountBacked ==
  ASSUME ~Cancelling, IndInv, RowsOK, OutcomesOK, Next, AllBacked, CountResult
  PROVE  AllBacked'
<1>0. /\ Control /\ GoodBreaker(bk) /\ pc = "count" /\ UNCHANGED <<bk, latest>>
  BY DEF IndInv, BreakersOK, CountResult, localVars
<1>1. pc' \notin {"count", "probe"}
  BY <1>0, SkipFacts DEF CountResult, GoTo
<1>2. CopiesBacked'
  BY <1>0, <1>1, CopiesStayBacked
<1>3. CASE UNCHANGED cb
  BY <1>2, <1>3, BreakersBacked DEF AllBacked
<1>4. CASE UpsertBreaker(Counted(bk, latest))
  <2>1. PICK c, b, n, l : /\ c = my.command /\ b = Counted(bk, latest)
                          /\ n = b.failures /\ l = latest.job
    OBVIOUS
  <2>2. cb' = [cb EXCEPT ![c] = b]
    BY <1>4, <2>1 DEF UpsertBreaker
  <2>3. b.lastJob = l /\ Backed(n, c, l)
    <3>1. CASE latest.status = "succeeded"
      <4>1. b.lastJob = l /\ n = 0
        BY <2>1, <3>1 DEF Counted, ClosedBreaker
      <4>2. Visible(c, l) \in Nat
        BY <1>0, VisibleFacts DEF Next
      <4> QED
        BY <4>1, <4>2 DEF Backed
    <3>2. CASE latest.status # "succeeded"
      <4>1. b.lastJob = l /\ n = bk.failures + 1
        BY <2>1, <3>2 DEF Counted
      <4> QED
        BY <1>0, <2>1, <3>2, <4>1 DEF AllBacked, CopiesBacked
    <3> QED
      BY <3>1, <3>2
  <2>4. \A x \in Command : Backed(cb[x].failures, x, cb[x].lastJob)'
    BY <2>1, <2>2, <2>3, WrittenBacked
  <2> QED
    BY <1>2, <2>4 DEF AllBacked
<1> QED
  BY <1>3, <1>4 DEF CountResult

(* A probe keeps the count of the copy, a reset forgets it.                *)
LEMMA ProbeBacked ==
  ASSUME ~Cancelling, IndInv, RowsOK, OutcomesOK, Next, AllBacked, HalfOpen
  PROVE  AllBacked'
<1>0. /\ Control /\ GoodBreaker(bk) /\ pc = "probe" /\ UNCHANGED <<bk, latest>>
  BY DEF IndInv, BreakersOK, HalfOpen, localVars
<1>1. pc' \notin {"count", "probe"}
  BY <1>0, SkipFacts DEF HalfOpen, GoTo
<1>2. CopiesBacked'
  BY <1>0, <1>1, CopiesStayBacked
<1>3. CASE UNCHANGED cb
  BY <1>2, <1>3, BreakersBacked DEF AllBacked
<1>4. CASE UpsertBreaker([bk EXCEPT !.state = "half_open"])
  <2>1. PICK c, b, n, l : /\ c = my.command /\ b = [bk EXCEPT !.state = "half_open"]
                          /\ n = bk.failures /\ l = bk.lastJob
    OBVIOUS
  <2>2. cb' = [cb EXCEPT ![c] = b]
    BY <1>4, <2>1 DEF UpsertBreaker
  <2>3. b.failures = n /\ b.lastJob = l
    BY <1>0, <2>1 DEF GoodBreaker
  <2>4. Backed(n, c, l)
    BY <1>0, <2>1 DEF AllBacked, CopiesBacked
  <2>5. \A x \in Command : Backed(cb[x].failures, x, cb[x].lastJob)'
    BY <2>2, <2>3, <2>4, WrittenBacked
  <2> QED
    BY <1>2, <2>5 DEF AllBacked
<1> QED
  BY <1>3, <1>4 DEF HalfOpen

(* A reset forgets the count.                                              *)
LEMMA ResetBacked ==
  ASSUME ~Cancelling, IndInv, RowsOK, OutcomesOK, Next, AllBacked, ResetCircuitBreaker("poll")
  PROVE  AllBacked'
<1>0. UNCHANGED <<bk, latest, pc, cur, conf>> /\ cb' = [cb EXCEPT !["poll"] = ClosedBreaker]
  BY DEF ResetCircuitBreaker, localVars
<1>1. CopiesBacked'
  BY <1>0, CopiesStayBacked
<1>2. PICK c, b, n, l : c = "poll" /\ b = ClosedBreaker /\ n = 0 /\ l = NoJob
  OBVIOUS
<1>3. b.failures = n /\ b.lastJob = l /\ cb' = [cb EXCEPT ![c] = b]
  BY <1>0, <1>2 DEF ClosedBreaker
<1>4. Backed(n, c, l)
  <2>1. Visible(c, l) \in Nat
    BY VisibleFacts DEF IndInv, Next
  <2> QED
    BY <1>2, <2>1 DEF Backed
<1>5. \A x \in Command : Backed(cb[x].failures, x, cb[x].lastJob)'
  BY <1>3, <1>4, WrittenBacked
<1> QED
  BY <1>1, <1>5 DEF AllBacked

(* The process starts and ends.                                            *)
LEMMA StartCrashBacked ==
  ASSUME ~Cancelling, IndInv, RowsOK, OutcomesOK, Next, AllBacked, Start \/ Crash
  PROVE  AllBacked'
<1>1. cb' = cb /\ pc' \in {"catchup", "down"}
  BY DEF Start, Crash, dbVars
<1>2. CopiesBacked'
  BY <1>1 DEF CopiesBacked
<1> QED
  BY <1>1, <1>2, BreakersBacked DEF AllBacked

(* Every step keeps the counts backed.                                     *)
LEMMA BackedNext ==
  ASSUME ~Cancelling, IndInv, RowsOK, OutcomesOK, Next, AllBacked, EntriesOK, LastJobsOK
  PROVE  AllBacked'
<1>0. Control /\ BreakersOK /\ Copies /\ deployment' = deployment
  BY DEF IndInv, Next
<1>1. CASE Quiet
  BY <1>1, QuietBacked DEF Quiet
<1>2. CASE CatchUpSchedule \/ EnqueueCatchUpJob \/ CatchUpDone \/ Tick
  BY <1>0, <1>1, <1>2, CatchUpQuiet
<1>3. CASE LoadEntry \/ CheckEntry \/ EveryDue \/ CronDue \/ OneShotDue \/ PersistFired
  BY <1>0, <1>1, <1>3, DueQuiet
<1>4. CASE IfRunning \/ EnqueueScheduledJob
  BY <1>0, <1>1, <1>4, PolicyQuiet
<1>5. CASE RecordTransition \/ RecordHalfOpen \/ RecordReset
  BY <1>0, <1>1, <1>5, RecordsQuiet
<1>6. CASE (\E j \in JobId, st \in {"succeeded", "failed"} : FinishJob(j, st)) \/ Prune \/ TimePasses
            \/ \E j \in JobId : Revive(j)
  BY <1>0, <1>1, <1>6, WorldQuiet
<1> QED
  BY <1>2, <1>3, <1>4, <1>5, <1>6, ReadBacked, GateBacked, CountBacked, ProbeBacked, ResetBacked,
     StartCrashBacked DEF Next, CatchUp, ProcessSchedule, Environment

(* The inductive invariant of rows and breakers.                           *)
CountsInv == FiresInv /\ OutcomesOK /\ (~Cancelling => AllBacked)

(* Nothing has ended, failed or been counted initially.                    *)
LEMMA CountsInit ==
  ASSUME Init
  PROVE  CountsInv
<1>0. FiresInv
  BY FiresInit
<1>1. \A j \in JobId : job[j].status = "none" /\ ~job[j].failed /\ ~job[j].busy
  BY DEF Init, NoRow
<1>2. Ended = {} /\ later = {} /\ pc = "down"
  BY <1>1 DEF Init, Ended, Jobs
<1>3. OutcomesOK
  BY <1>1, <1>2 DEF OutcomesOK, Ordered, Outcome
<1>4. ASSUME NEW c \in Command PROVE Backed(cb[c].failures, c, cb[c].lastJob)
  <2>1. cb[c].failures = 0
    BY DEF Init, ClosedBreaker
  <2>2. Visible(c, cb[c].lastJob) \in Nat
    <3>1. PICK l : l = cb[c].lastJob
      OBVIOUS
    <3>2. FailedUpTo(c, l) = {}
      BY <1>1 DEF FailedUpTo
    <3> QED
      BY <3>1, <3>2, FS_EmptySet DEF Visible
  <2> QED
    BY <2>1, <2>2 DEF Backed
<1> QED
  BY <1>0, <1>2, <1>3, <1>4 DEF CountsInv, AllBacked, CopiesBacked

(* Nothing changes when nothing happens.                                   *)
LEMMA CountsStutter ==
  ASSUME CountsInv, UNCHANGED <<vars, deployment>>
  PROVE  CountsInv'
<1>1. UNCHANGED <<now, conf, entry, cb, job, later, pc, cur, bk, latest, deployment>>
  BY DEF vars, dbVars, localVars
<1>2. FiresInv'
  BY FiresStutter DEF CountsInv
<1>3. JobId' = JobId /\ Cancelling' = Cancelling
  BY <1>1, SameDeployment DEF Cancelling
<1>4. Ended' = Ended
  BY <1>1, <1>3, EndedIs
<1>5. OutcomesOK'
  <2>1. \A j \in JobId : Outcome(j)'
    BY <1>1, <1>3 DEF CountsInv, OutcomesOK, Outcome
  <2>2. Ordered'
    BY <1>1, <1>4 DEF CountsInv, OutcomesOK, Ordered
  <2> QED
    BY <1>3, <2>1, <2>2 DEF OutcomesOK
<1>6. \A n, c, l : Backed(n, c, l)' <=> Backed(n, c, l)
  <2> SUFFICES ASSUME NEW n, NEW c, NEW l PROVE Backed(n, c, l)' <=> Backed(n, c, l)
    OBVIOUS
  <2>1. Completed(c)' = Completed(c)
    BY <1>1, <1>4 DEF Completed
  <2>2. FailedUpTo(c, l)' = FailedUpTo(c, l)
    BY <1>1, <1>3, <1>4, <2>1 DEF FailedUpTo, CompletedAfter
  <2> QED
    BY <1>3, <2>2 DEF Backed, Visible
<1>7. ASSUME ~Cancelling PROVE AllBacked'
  <2>1. AllBacked
    BY <1>7 DEF CountsInv
  <2>2. ASSUME NEW c \in Command PROVE Backed(cb[c].failures, c, cb[c].lastJob)'
    <3>1. PICK n, l : n = cb[c].failures /\ l = cb[c].lastJob
      OBVIOUS
    <3>2. Backed(n, c, l)' /\ cb'[c].failures = n /\ cb'[c].lastJob = l
      BY <1>1, <1>6, <2>1, <3>1 DEF AllBacked
    <3> QED
      BY <3>2
  <2>3. PICK c, f, n, k, l : c = my.command /\ f = bk.failures /\ n = bk.failures + 1
                             /\ k = latest.job /\ l = bk.lastJob
    OBVIOUS
  <2>4. my'.command = c /\ bk'.failures = f /\ bk'.failures + 1 = n /\ latest'.job = k /\ bk'.lastJob = l
    BY <1>1, <2>3 DEF my
  <2>5. /\ pc = "count" /\ latest.status # "succeeded" => Backed(n, c, k)'
        /\ pc = "probe" => Backed(f, c, l)'
    BY <1>6, <2>1, <2>3 DEF AllBacked, CopiesBacked
  <2> QED
    BY <1>1, <2>2, <2>4, <2>5 DEF AllBacked, CopiesBacked
<1> QED
  BY <1>2, <1>3, <1>5, <1>7 DEF CountsInv

(* The invariant of rows and breakers.                                     *)
THEOREM CountsInvariance == Spec => []CountsInv
<1>1. CountsInv /\ [Next]_<<vars, deployment>> => CountsInv'
  <2>1. ASSUME CountsInv, Next PROVE CountsInv'
    <3>1. /\ FiresInv /\ OutcomesOK /\ (~Cancelling => AllBacked)
          /\ IndInv /\ RowsOK /\ EntriesOK /\ LastJobsOK
      BY <2>1 DEF CountsInv, FiresInv
    <3>2. Cancelling' = Cancelling
      BY <2>1, <3>1, CancellingFacts DEF IndInv, Next
    <3> QED
      BY <2>1, <3>1, <3>2, FiresNext, OutcomesNext, BackedNext DEF CountsInv
  <2> QED
    BY <2>1, CountsStutter
<1> QED
  BY <1>1, CountsInit, PTL DEF Spec

(* What is visible are failures.                                           *)
LEMMA VisibleFails ==
  ASSUME Control, NEW c, NEW l
  PROVE  /\ Visible(c, l) \in Nat
         /\ Visible(c, l) <= Cardinality({j \in JobId : job[j].command = c /\ job[j].failed})
<1> DEFINE A == FailedUpTo(c, l)
           T == {j \in JobId : job[j].command = c /\ job[j].failed}
<1>1. A \in SUBSET JobId /\ T \in SUBSET JobId /\ A \subseteq T
  BY DEF FailedUpTo
<1>2. Visible(c, l) = Cardinality(A)
  BY DEF Visible
<1> HIDE DEF A, T
<1>3. Visible(c, l) \in Nat /\ Visible(c, l) <= Cardinality(T)
  BY <1>1, <1>2, FiniteCounts
<1> QED
  BY <1>3 DEF T

(* BreakerExplained: unless a schedule cancels, no failure is on a         *)
(* breaker's count twice although the latest result is read again in every *)
(* tick, rows are pruned and an operator resets the breaker in between     *)
(* (reconcileCircuitBreaker); always, every table holds what it may, and   *)
(* between ticks the recorded transitions lead to the state of the         *)
(* breaker.                                                                *)
THEOREM BreakerIsExplained == Spec => []BreakerExplained
<1>1. CountsInv => TypeOK /\ FailuresReal
  <2> SUFFICES ASSUME CountsInv PROVE TypeOK /\ FailuresReal
    OBVIOUS
  <2>0. Control /\ BreakersOK /\ EntriesOK /\ LastJobsOK /\ RowsOK /\ OutcomesOK
    BY DEF CountsInv, FiresInv, IndInv
  <2>1. TypeOK
    <3>1. bk \in Breaker /\ \A c \in Command : cb[c] \in Breaker
      <4>1. ASSUME NEW b, GoodBreaker(b), b.lastJob \in JobId \cup {NoJob}
            PROVE  b \in Breaker
        BY <4>1 DEF GoodBreaker, Breaker
      <4> QED
        BY <2>0, <4>1 DEF BreakersOK, LastJobsOK
    <3>2. cb \in [Command -> Breaker]
      BY <2>0, <3>1 DEF BreakersOK
    <3>3. later \subseteq JobId \X JobId
      BY <2>0, EndedIs DEF OutcomesOK, Ordered
    <3>4. \A j \in JobId : job[j].status \in {"none", "outstanding", "succeeded", "failed", "dead", "gone"}
      BY <2>0 DEF RowsOK, RowOK, Status
    <3> QED
      BY <2>0, <3>1, <3>2, <3>3, <3>4 DEF TypeOK, Control, EntriesOK, LastJobsOK
  <2>2. FailuresReal
    <3> SUFFICES ASSUME ~Cancelling, NEW c \in Command
                 PROVE  cb[c].failures <= Cardinality({j \in JobId : job[j].command = c /\ job[j].failed})
      BY DEF FailuresReal
    <3> DEFINE most == Cardinality({j \in JobId : job[j].command = c /\ job[j].failed})
    <3>1. PICK l : l = cb[c].lastJob
      OBVIOUS
    <3>2. cb[c].failures \in Nat /\ cb[c].failures <= Visible(c, l)
      BY <2>0, <3>1 DEF CountsInv, AllBacked, Backed
    <3>3. Visible(c, l) \in Nat /\ Visible(c, l) <= most
      BY <2>0, VisibleFails
    <3>4. most \in Nat
      BY <2>0, FiniteCounts
    <3> HIDE DEF most
    <3>5. cb[c].failures <= most
      BY <3>2, <3>3, <3>4
    <3> QED
      BY <3>5 DEF most
  <2> QED
    BY <2>1, <2>2
<1>2. TypeOK /\ FailuresReal /\ FactsExplain => BreakerExplained
  BY DEF BreakerExplained
<1> QED
  BY <1>1, <1>2, CountsInvariance, FactsExplained, PTL
=============================================================================
