----------------------------- MODULE Scheduler ------------------------------
(***************************************************************************)
(* The scheduler of one plugin (internal/scheduler): its schedule entries, *)
(* the circuit breakers of its commands, the catch-up at start-up and the  *)
(* tick, one database write per step.  Whatever else happens -- workers    *)
(* finish jobs, time passes, rows are pruned, an operator resets a         *)
(* breaker, the process crashes -- may happen between any two of them.     *)
(*                                                                         *)
(* The jobs are those the scheduler submits.  How a job is executed is the *)
(* subject of Dispatch; here a job is outstanding until it has a result.   *)
(* Time is counted in units of one cron minute.                            *)
(***************************************************************************)
EXTENDS Integers, Sequences, FiniteSets, SequencesExt

CONSTANTS
    Command,
    TickInterval,  \* service.tick_interval, the dedupe TTL of cron and one-shot
    CatchUpMax,    \* catchUpRunAllMax
    Deployments,   \* the settings of the plugin, with bounds
    JobLimit       \* the largest of their bounds on jobs

VARIABLE deployment  \* chosen initially

(* A deployment: the configurations (sequences of schedule settings, all   *)
(* of the same length) the process may be started with, the settings of    *)
(* the breaker, max_outstanding_polls, max_attempts of its jobs and        *)
(* job_queue_retention, and bounds on time, jobs, starts, failing writes   *)
(* and operator resets.                                                    *)
Configs == deployment.configs
Threshold == deployment.threshold
ResetAfter == deployment.resetAfter
MaxOutstanding == deployment.maxOutstanding
MaxAttempts == deployment.attempts
Retention == deployment.retention
MaxTime == deployment.time
MaxJobs == deployment.jobs
MaxStarts == deployment.starts
MaxFaults == deployment.faults
MaxResets == deployment.resets

NumSchedules == Len(CHOOSE f \in Configs : TRUE)
Schedule == 1..NumSchedules
JobId == 1..MaxJobs
Null == -1               \* a NULL timestamp
NoJob == 0
NoCommand == "none"      \* there is no row for the schedule yet

(***************************************************************************)
(* The settings of a schedule.  "valid" stands for everything that         *)
(* processSchedule verifies: exactly one well-formed expression, and a     *)
(* command that is not "handle" and that the plugin has.  The window of    *)
(* not_on and only_between is the set of times it admits.  A cron          *)
(* expression matches the multiples of its interval.                       *)
(***************************************************************************)
Settings ==
    [kind : {"every", "cron", "at", "after"}, command : Command, valid : BOOLEAN,
     interval : Nat \ {0}, jitter : Nat, time : Nat, window : SUBSET Nat,
     catchUp : {"skip", "run_once", "run_all"}, ifRunning : {"skip", "queue", "cancel"}]

ASSUME ScheduleAssumption ==
    /\ CatchUpMax \in Nat /\ JobLimit \in Nat /\ "poll" \in Command
    /\ \A d \in Deployments :
        /\ d.configs # {} /\ d.jobs \in 1..JobLimit
        /\ d.threshold \in Nat \ {0} /\ d.maxOutstanding \in Nat \ {0}
        /\ d.attempts \in Nat \ {0}
        /\ d.resetAfter \in Int /\ d.retention \in Int
        /\ \A f, g \in d.configs : Len(f) = Len(g)
        /\ \A f \in d.configs : f \in Seq(Settings) /\ f # <<>>

VARIABLES
    now,
    conf,       \* the configuration in use
    entry,      \* schedule_entries, by schedule
    cb,         \* circuit_breakers, by command
    cbFacts,    \* circuit_breaker_transitions, by command: the to_states
    job,        \* job_queue rows of the scheduler, by job
    later,      \* the order of completed_at: pairs of jobs, the later one first
    pc, cur,    \* the step and the schedule the scheduler is at
    es,         \* its copy of the entry
    bk, latest, \* its copies of the breaker and of the latest result
    hit,        \* Enqueue reported a duplicate
    slots,      \* catch-up: its time, slots still to enqueue, and base time
    opc,        \* the operator's reset is between its two writes, for a command
    starts, faults, resets

dbVars == <<entry, cb, cbFacts, job, later>>
localVars == <<es, bk, latest, hit, slots>>
boundVars == <<starts, faults, resets>>
vars == <<now, conf, dbVars, pc, cur, localVars, opc, boundVars>>

NewEntry == [command |-> NoCommand, status |-> "active", lastFired |-> Null,
             lastSuccess |-> NoJob, lastSuccessAt |-> Null, next |-> Null]
ClosedBreaker == [state |-> "closed", failures |-> 0, openedAt |-> Null, lastJob |-> NoJob]
NoResult == [job |-> NoJob, status |-> "none", at |-> Null]
NoSlots == [now |-> 0, left |-> 0, done |-> 0, base |-> 0]
(* "revived" counts the retries of a job that had been cancelled.  Two     *)
(* fields are history: whether the job ever failed or was cancelled, and   *)
(* when it was inserted.                                                   *)
NoRow == [status |-> "none", sched |-> 0, command |-> NoCommand, key |-> <<>>, at |-> Null,
          busy |-> FALSE, revived |-> 0, failed |-> FALSE, born |-> Null]

Init ==
    /\ deployment \in Deployments
    /\ now = 0
    /\ conf \in Configs
    /\ entry = [s \in Schedule |-> NewEntry]
    /\ cb = [c \in Command |-> ClosedBreaker]
    /\ cbFacts = [c \in Command |-> <<>>]
    /\ job = [j \in JobId |-> NoRow]
    /\ later = {}
    /\ pc = "down" /\ cur = 1
    /\ es = NewEntry /\ bk = ClosedBreaker /\ latest = NoResult /\ hit = FALSE
    /\ slots = NoSlots
    /\ opc = NoCommand
    /\ starts = 0 /\ faults = 0 /\ resets = 0
-----------------------------------------------------------------------------
(* Queries.                                                                *)
Jobs(S) == {j \in JobId : job[j].status \in S}
Ended == Jobs({"succeeded", "failed", "dead"})
Outstanding(c) == {j \in Jobs({"outstanding"}) : job[j].command = c}

(* LatestCompletedCommandResult: the youngest completed_at of the command. *)
Completed(c) == {j \in Ended : job[j].command = c}

CompletedAfter(i, j) == <<i, j>> \in later

LatestCompleted(c) ==
    LET youngest == {j \in Completed(c) : \A i \in Completed(c) : ~CompletedAfter(i, j)}
    IN  IF youngest = {} THEN NoResult
        ELSE LET j == CHOOSE j \in youngest : TRUE
             IN  [job |-> j, status |-> job[j].status, at |-> job[j].at]

(* The two lookups of Enqueue: outstanding, or succeeded within the TTL.   *)
Duplicates(c, key, ttl) ==
    {j \in JobId : /\ job[j].command = c /\ job[j].key = key
                   /\ \/ job[j].status = "outstanding"
                      \/ job[j].status = "succeeded" /\ job[j].at >= now - ttl}

FreeJob == {j \in Jobs({"none"}) : \A i \in Jobs({"none"}) : j <= i}

InsertJob(s, key) ==
    \E j \in FreeJob :
        job' = [job EXCEPT ![j] = [status |-> "outstanding", sched |-> s, key |-> key,
                                   command |-> conf[s].command, at |-> Null, busy |-> TRUE,
                                   revived |-> 0, failed |-> FALSE, born |-> now]]
-----------------------------------------------------------------------------
(* Control.  A failing write gives the schedule up for this tick.          *)
Fault == faults < MaxFaults /\ faults' = faults + 1 /\ UNCHANGED <<starts, resets>>

GoTo(step) == pc' = step /\ UNCHANGED cur

(* On to the next schedule, or the end of the loop.                        *)
NextSchedule(first, after) ==
    IF cur < NumSchedules THEN pc' = first /\ cur' = cur + 1
                          ELSE pc' = after /\ cur' = 1

Skip == NextSchedule("load", "idle")

NoFault == UNCHANGED boundVars

Upsert(e) == entry' = [entry EXCEPT ![cur] = e]

my == conf[cur]

(* calculateJitteredInterval                                               *)
Intervals(c) == {c.interval + d : d \in IF c.jitter = 0 THEN {0} ELSE 0..(c.jitter - 1)}
-----------------------------------------------------------------------------
(* Start loads a configuration and catches up, schedule by schedule, as    *)
(* of the time it begins to.                                               *)
Start ==
    /\ pc = "down" /\ starts < MaxStarts
    /\ conf' \in Configs
    /\ starts' = starts + 1
    /\ pc' = "catchup" /\ cur' = 1
    /\ slots' = [NoSlots EXCEPT !.now = now]
    /\ UNCHANGED <<now, dbVars, es, bk, latest, hit, opc, faults, resets>>

(* countMissedRuns                                                         *)
CountMissedRuns(last, t, interval) ==
    IF t <= last \/ t < last + interval THEN 0 ELSE (t - (last + interval)) \div interval + 1

Least(a, b) == IF a < b THEN a ELSE b

CatchUpNext == NextSchedule("catchup", "idle")

CatchUpBase(e) == IF e.lastFired = Null THEN e.lastSuccessAt ELSE e.lastFired

(* catchUpSchedule up to its loop.                                         *)
CatchUpSchedule ==
    /\ pc = "catchup"
    /\ LET e == entry[cur]
           base == CatchUpBase(e)
           missed == CountMissedRuns(base, slots.now, my.interval)
       IN  IF my.kind # "every" \/ my.catchUp = "skip" \/ base = Null \/ missed = 0
           THEN CatchUpNext /\ UNCHANGED <<es, slots>>
           ELSE /\ GoTo("slot")
                /\ es' = [e EXCEPT !.lastFired = base,
                                   !.command = IF @ = NoCommand THEN my.command ELSE @]
                /\ slots' = [now |-> slots.now,
                             left |-> IF my.catchUp = "run_all"
                                        THEN Least(missed, CatchUpMax) ELSE 1,
                             done |-> 0, base |-> base]
    /\ UNCHANGED <<now, conf, dbVars, bk, latest, hit, opc, boundVars>>

(* One turn of the loop: a job for one missed slot, under a key of its     *)
(* own.  Neither the breaker nor the outstanding jobs are looked at, and   *)
(* an error only skips the slot.                                           *)
SlotKey(i) == <<cur, "catchup", slots.base + my.interval * i>>

EnqueueCatchUpJob ==
    /\ pc = "slot" /\ slots.left > 0
    /\ slots' = [slots EXCEPT !.left = @ - 1, !.done = @ + 1]
    /\ LET key == SlotKey(slots.done + 1)
       IN  \/ Duplicates(my.command, key, my.interval) # {} /\ UNCHANGED job /\ NoFault
           \/ /\ Duplicates(my.command, key, my.interval) = {}
              /\ InsertJob(cur, key) /\ NoFault
           \/ FreeJob = {} /\ UNCHANGED job /\ NoFault
           \/ Fault /\ UNCHANGED job
    /\ UNCHANGED <<now, conf, entry, cb, cbFacts, later, pc, cur, es, bk, latest, hit, opc>>

(* The entry is advanced past the slots; an error makes Start fail.        *)
CatchUpDone ==
    /\ pc = "slot" /\ slots.left = 0
    /\ LET fired == IF my.catchUp = "run_once" THEN slots.now
                    ELSE slots.base + my.interval * slots.done
       IN  \/ /\ Upsert([es EXCEPT !.lastFired = fired,
                           !.next = IF @ = Null \/ @ < fired THEN fired + my.interval ELSE @])
              /\ CatchUpNext /\ NoFault
           \/ Fault /\ UNCHANGED entry /\ pc' = "down" /\ cur' = 1
    /\ UNCHANGED <<now, conf, cb, cbFacts, job, later, localVars, opc>>
-----------------------------------------------------------------------------
(* A tick walks through the schedules; a pass begins at any time.          *)
Tick ==
    /\ pc = "idle"
    /\ pc' = "load" /\ cur' = 1
    /\ UNCHANGED <<now, conf, dbVars, localVars, opc, boundVars>>

(* processSchedule loads the entry.  A new command starts it afresh, but   *)
(* an exhausted or manually paused entry stays what it is.                 *)
LoadEntry ==
    /\ pc = "load"
    /\ LET e == entry[cur]
           same == e.command \in {NoCommand, my.command}
           fresh == [e EXCEPT !.command = my.command, !.lastSuccess = NoJob,
                              !.lastSuccessAt = Null, !.next = Null,
                              !.status = IF @ = "paused_invalid" THEN "active" ELSE @]
           mine == IF same THEN [e EXCEPT !.command = my.command] ELSE fresh
       IN  \/ /\ IF same THEN UNCHANGED entry ELSE Upsert(fresh)
              /\ es' = mine
              /\ IF mine.status \in {"paused_manual", "exhausted"} THEN Skip ELSE GoTo("check")
              /\ NoFault
           \/ ~same /\ Fault /\ Skip /\ UNCHANGED <<entry, es>>
    /\ UNCHANGED <<now, conf, cb, cbFacts, job, later, bk, latest, hit, slots, opc>>

(* An invalid entry is paused; one that has become valid is reactivated.   *)
CheckEntry ==
    /\ pc = "check"
    /\ \/ /\ ~my.valid
          /\ \/ Upsert([es EXCEPT !.status = "paused_invalid"]) /\ NoFault
             \/ Fault /\ UNCHANGED entry
          /\ Skip /\ UNCHANGED es
       \/ /\ my.valid /\ es.status = "paused_invalid"
          /\ \/ /\ es' = [es EXCEPT !.status = "active"]
                /\ Upsert([es EXCEPT !.status = "active"]) /\ GoTo("breaker") /\ NoFault
             \/ Fault /\ Skip /\ UNCHANGED <<entry, es>>
       \/ /\ my.valid /\ es.status # "paused_invalid"
          /\ GoTo("breaker") /\ NoFault /\ UNCHANGED <<entry, es>>
    /\ UNCHANGED <<now, conf, cb, cbFacts, job, later, bk, latest, hit, slots, opc>>

(* reconcileCircuitBreaker reads breaker and latest result; a result is    *)
(* counted once.                                                           *)
ReadBreaker ==
    /\ pc = "breaker"
    /\ bk' = cb[my.command]
    /\ latest' = LatestCompleted(my.command)
    /\ GoTo(IF latest'.job \in {NoJob, cb[my.command].lastJob} THEN "timing" ELSE "count")
    /\ UNCHANGED <<now, conf, dbVars, es, hit, slots, opc, boundVars>>

Counted(b, r) ==
    IF r.status = "succeeded"
    THEN [ClosedBreaker EXCEPT !.lastJob = r.job]
    ELSE LET open == b.failures + 1 >= Threshold
         IN  [state |-> IF open THEN "open" ELSE "closed", failures |-> b.failures + 1,
              openedAt |-> IF open THEN r.at ELSE Null, lastJob |-> r.job]

UpsertBreaker(b) == cb' = [cb EXCEPT ![my.command] = b]

CountResult ==
    /\ pc = "count"
    /\ \/ /\ UpsertBreaker(Counted(bk, latest))
          /\ GoTo(IF Counted(bk, latest).state = bk.state THEN "timing" ELSE "fact")
          /\ NoFault
       \/ Fault /\ Skip /\ UNCHANGED cb
    /\ UNCHANGED <<now, conf, entry, cbFacts, job, later, localVars, opc>>

RecordState(c, state) == cbFacts' = [cbFacts EXCEPT ![c] = Append(@, state)]

RecordTransition ==
    /\ pc = "fact"
    /\ \/ RecordState(my.command, Counted(bk, latest).state) /\ GoTo("timing") /\ NoFault
       \/ Fault /\ Skip /\ UNCHANGED cbFacts
    /\ UNCHANGED <<now, conf, entry, cb, job, later, localVars, opc>>
-----------------------------------------------------------------------------
(* Is the schedule due?  reconcileScheduleTiming moves an interval         *)
(* schedule on when it sees a new success.                                 *)
NewSuccess == latest.status = "succeeded" /\ latest.job # es.lastSuccess

EveryDue ==
    /\ pc = "timing" /\ my.kind = "every"
    /\ \/ /\ NewSuccess
          /\ \E i \in Intervals(my) :
               LET e == [es EXCEPT !.lastSuccess = latest.job, !.lastSuccessAt = latest.at,
                                   !.next = latest.at + i]
               IN  /\ es' = e /\ Upsert(e)
                   /\ IF now < e.next THEN Skip ELSE GoTo("window")
          /\ NoFault
       \/ NewSuccess /\ Fault /\ Skip /\ UNCHANGED <<entry, es>>
       \/ /\ ~NewSuccess /\ UNCHANGED <<entry, es>> /\ NoFault
          /\ IF now < es.next THEN Skip ELSE GoTo("window")
    /\ UNCHANGED <<now, conf, cb, cbFacts, job, later, bk, latest, hit, slots, opc>>

(* Mutant: a match at the given time counts as the next one.               *)
CronNextFrom(c, t) == ((t + c.interval - 1) \div c.interval) * c.interval

CronMatches(c, t) == t % c.interval = 0
CronNextAfter(c, t) == (t \div c.interval + 1) * c.interval

(* evaluateCronDueState                                                    *)
CronDue ==
    /\ pc = "timing" /\ my.kind = "cron"
    /\ \/ /\ IF es.next = Null THEN CronMatches(my, now) ELSE now >= es.next
          /\ GoTo("window") /\ UNCHANGED <<entry, es>> /\ NoFault
       \/ /\ es.next = Null /\ ~CronMatches(my, now)
          /\ \/ /\ es' = [es EXCEPT !.next = CronNextAfter(my, now - 1)] /\ Upsert(es')
                /\ NoFault
             \/ Fault /\ UNCHANGED <<entry, es>>
          /\ Skip
       \/ es.next # Null /\ now < es.next /\ Skip /\ UNCHANGED <<entry, es>> /\ NoFault
    /\ UNCHANGED <<now, conf, cb, cbFacts, job, later, bk, latest, hit, slots, opc>>

(* A one-shot schedule keeps the time it was first given.                  *)
OneShotDue ==
    /\ pc = "timing" /\ my.kind \in {"at", "after"}
    /\ LET t == IF my.kind = "at" THEN my.time ELSE now + my.time
           e == IF es.next = Null THEN [es EXCEPT !.next = t] ELSE es
       IN  \/ /\ es' = e
              /\ IF es.next = Null THEN Upsert(e) ELSE UNCHANGED entry
              /\ IF now < e.next THEN Skip ELSE GoTo("window")
              /\ NoFault
           \/ es.next = Null /\ Fault /\ Skip /\ UNCHANGED <<entry, es>>
    /\ UNCHANGED <<now, conf, cb, cbFacts, job, later, bk, latest, hit, slots, opc>>

(* Mutant: the cooldown runs from the moment the breaker is looked at.     *)
NoCooldown(b) == now >= ResetAfter

CooldownElapsed(b) == b.openedAt = Null \/ now >= b.openedAt + ResetAfter

(* scheduleConstraintsAllowAt, then canSchedule reads the breaker.         *)
CheckGate ==
    /\ pc = "window"
    /\ bk' = cb[my.command]
    /\ \/ now \notin my.window /\ Skip
       \/ now \in my.window /\ bk'.state = "open" /\ ~CooldownElapsed(bk') /\ Skip
       \/ now \in my.window /\ bk'.state = "open" /\ CooldownElapsed(bk') /\ GoTo("probe")
       \/ now \in my.window /\ bk'.state # "open" /\ GoTo("policy")
    /\ UNCHANGED <<now, conf, dbVars, es, latest, hit, slots, opc, boundVars>>

(* Mutant: the move to half-open is not recorded.                          *)
HalfOpenSilently ==
    /\ pc = "probe"
    /\ UpsertBreaker([bk EXCEPT !.state = "half_open"]) /\ GoTo("policy") /\ NoFault
    /\ UNCHANGED <<now, conf, entry, cbFacts, job, later, localVars, opc>>

HalfOpen ==
    /\ pc = "probe"
    /\ \/ UpsertBreaker([bk EXCEPT !.state = "half_open"]) /\ GoTo("probeFact") /\ NoFault
       \/ Fault /\ Skip /\ UNCHANGED cb
    /\ UNCHANGED <<now, conf, entry, cbFacts, job, later, localVars, opc>>

RecordHalfOpen ==
    /\ pc = "probeFact"
    /\ \/ RecordState(my.command, "half_open") /\ GoTo("policy") /\ NoFault
       \/ Fault /\ Skip /\ UNCHANGED cbFacts
    /\ UNCHANGED <<now, conf, entry, cb, job, later, localVars, opc>>

(* if_running.  Cancelling marks rows dead; the worker of a cancelled job  *)
(* that is running goes on (busy).                                         *)
Cancel(S, running) ==
    /\ job' = [j \in JobId |->
                 IF j \in S THEN [job[j] EXCEPT !.status = "dead", !.at = now, !.failed = TRUE,
                                                !.busy = j \in running]
                 ELSE job[j]]
    /\ later' = later \cup (S \X Ended) \cup {p \in S \X S : p[1] > p[2]}

IfRunning ==
    /\ pc = "policy"
    /\ LET out == Outstanding(my.command)
       IN  \/ /\ \/ my.ifRunning = "skip" /\ out # {}
                 \/ my.ifRunning = "queue" /\ Cardinality(out) >= MaxOutstanding
              /\ Skip /\ UNCHANGED <<job, later>> /\ NoFault
           \/ /\ \/ my.ifRunning = "skip" /\ out = {}
                 \/ my.ifRunning = "queue" /\ Cardinality(out) < MaxOutstanding
                 \/ my.ifRunning = "cancel" /\ out = {}
              /\ GoTo("enqueue") /\ UNCHANGED <<job, later>> /\ NoFault
           \/ /\ my.ifRunning = "cancel" /\ out # {}
              /\ \/ (\E running \in SUBSET out : Cancel(out, running)) /\ GoTo("enqueue") /\ NoFault
                 \/ Fault /\ Skip /\ UNCHANGED <<job, later>>
    /\ UNCHANGED <<now, conf, entry, cb, cbFacts, localVars, opc>>

TickKey == <<cur, "tick", 0>>

DedupeTTL == IF my.kind = "every" THEN my.interval ELSE TickInterval

(* Mutant: a success within the TTL is no duplicate.                       *)
EnqueueScheduledAgain ==
    /\ pc = "enqueue"
    /\ LET dups == Duplicates(my.command, TickKey, DedupeTTL) \cap Jobs({"outstanding"})
       IN  \/ dups # {} /\ hit' = TRUE /\ UNCHANGED job /\ GoTo("persist") /\ NoFault
           \/ dups = {} /\ hit' = FALSE /\ InsertJob(cur, TickKey) /\ GoTo("persist") /\ NoFault
           \/ dups = {} /\ FreeJob = {} /\ Skip /\ UNCHANGED <<job, hit>> /\ NoFault
    /\ UNCHANGED <<now, conf, entry, cb, cbFacts, later, es, bk, latest, slots, opc>>

(* enqueueScheduledJob.  (With all ids used the insertion counts as failed.) *)
EnqueueScheduledJob ==
    /\ pc = "enqueue"
    /\ LET dups == Duplicates(my.command, TickKey, DedupeTTL)
       IN  \/ dups # {} /\ hit' = TRUE /\ UNCHANGED job /\ GoTo("persist") /\ NoFault
           \/ dups = {} /\ hit' = FALSE /\ InsertJob(cur, TickKey) /\ GoTo("persist") /\ NoFault
           \/ dups = {} /\ FreeJob = {} /\ Skip /\ UNCHANGED <<job, hit>> /\ NoFault
           \/ Fault /\ Skip /\ UNCHANGED <<job, hit>>
    /\ UNCHANGED <<now, conf, entry, cb, cbFacts, later, es, bk, latest, slots, opc>>

(* The entry after firing: an interval schedule waits for the success it   *)
(* will see, or a full interval when the job was a duplicate; a one-shot   *)
(* schedule is exhausted.  An error is logged, the tick goes on.           *)
Fired(e, i) ==
    LET f == [e EXCEPT !.lastFired = now]
    IN  CASE my.kind = "every" -> IF hit THEN [f EXCEPT !.next = now + i] ELSE f
          [] my.kind = "cron" -> [f EXCEPT !.next = CronNextAfter(my, now)]
          [] OTHER -> [f EXCEPT !.status = "exhausted", !.next = Null]

(* Mutant: the exhausted state is written only if a job was inserted.      *)
PersistFiredUnlessHit ==
    /\ pc = "persist"
    /\ \/ ~hit /\ (\E i \in Intervals(my) : Upsert(Fired(es, i))) /\ NoFault
       \/ hit /\ UNCHANGED entry /\ NoFault
       \/ Fault /\ UNCHANGED entry
    /\ Skip
    /\ UNCHANGED <<now, conf, cb, cbFacts, job, later, localVars, opc>>

PersistFired ==
    /\ pc = "persist"
    /\ \/ (\E i \in Intervals(my) : Upsert(Fired(es, i))) /\ NoFault
       \/ Fault /\ UNCHANGED entry
    /\ Skip
    /\ UNCHANGED <<now, conf, cb, cbFacts, job, later, localVars, opc>>
-----------------------------------------------------------------------------
(* The environment.  A worker finishes a job, cancelled or not, unless its *)
(* row was pruned meanwhile.                                               *)
FinishJob(j, s) ==
    /\ pc # "down" /\ job[j].busy
    /\ \/ /\ job[j].status # "gone"
          /\ job' = [job EXCEPT ![j].status = s, ![j].at = now, ![j].busy = FALSE,
                               ![j].failed = @ \/ s = "failed"]
          /\ later' = {p \in later : j \notin {p[1], p[2]}} \cup ({j} \X (Ended \ {j}))
       \/ /\ job[j].status = "gone"
          /\ job' = [job EXCEPT ![j].busy = FALSE] /\ UNCHANGED later
    /\ UNCHANGED <<now, conf, entry, cb, cbFacts, pc, cur, localVars, opc, boundVars>>

(* A cancelled job whose worker fails with attempts left is queued again:  *)
(* failOrRetry does not look at the status of the row.  It keeps           *)
(* completed_at, but has no result until it ends or is cancelled again.    *)
Revive(j) ==
    /\ pc # "down" /\ job[j].busy /\ job[j].status = "dead"
    /\ job[j].revived + 1 < MaxAttempts
    /\ job' = [job EXCEPT ![j].status = "outstanding", ![j].revived = @ + 1]
    /\ later' = {p \in later : j \notin {p[1], p[2]}}
    /\ UNCHANGED <<now, conf, entry, cb, cbFacts, pc, cur, localVars, opc, boundVars>>

(* PruneJobQueue, at the end of a tick.                                    *)
Prune ==
    /\ pc = "idle"
    /\ LET old == {j \in Ended : job[j].at < now - Retention}
       IN  /\ old # {}
           /\ job' = [j \in JobId |-> IF j \in old THEN [job[j] EXCEPT !.status = "gone"]
                                      ELSE job[j]]
           /\ later' = {p \in later : {p[1], p[2]} \cap old = {}}
    /\ UNCHANGED <<now, conf, entry, cb, cbFacts, pc, cur, localVars, opc, boundVars>>

(* `ductile system reset`: ResetCircuitBreaker of the command poll, from a *)
(* process of its own.                                                     *)
ResetCircuitBreaker(c) ==
    /\ opc = NoCommand /\ resets < MaxResets
    /\ cb' = [cb EXCEPT ![c] = ClosedBreaker]
    /\ opc' = c /\ resets' = resets + 1
    /\ UNCHANGED <<now, conf, entry, cbFacts, job, later, pc, cur, localVars, starts, faults>>

RecordReset ==
    /\ opc # NoCommand
    /\ RecordState(opc, "closed")
    /\ opc' = NoCommand
    /\ UNCHANGED <<now, conf, entry, cb, job, later, pc, cur, localVars, boundVars>>

TimePasses ==
    /\ now < MaxTime
    /\ now' = now + 1
    /\ UNCHANGED <<conf, dbVars, pc, cur, localVars, opc, boundVars>>

(* The process ends, by a crash or by a stop, which cancels every write.   *)
(* Its workers end too: outstanding rows are queued again or declared dead *)
(* by the next start (they go on), cancelled ones stay what they are.      *)
Crash ==
    /\ pc # "down" /\ starts < MaxStarts
    /\ pc' = "down" /\ cur' = 1
    /\ es' = NewEntry /\ bk' = ClosedBreaker /\ latest' = NoResult /\ hit' = FALSE
    /\ slots' = NoSlots
    /\ job' = [j \in JobId |-> [job[j] EXCEPT !.busy = @ /\ job[j].status = "outstanding"]]
    /\ UNCHANGED <<now, conf, entry, cb, cbFacts, later, opc, boundVars>>
-----------------------------------------------------------------------------
CatchUp == CatchUpSchedule \/ EnqueueCatchUpJob \/ CatchUpDone

ProcessSchedule ==
    \/ LoadEntry \/ CheckEntry \/ ReadBreaker \/ CountResult \/ RecordTransition
    \/ EveryDue \/ CronDue \/ OneShotDue \/ CheckGate \/ HalfOpen \/ RecordHalfOpen
    \/ IfRunning \/ EnqueueScheduledJob \/ PersistFired

Environment ==
    \/ \E j \in JobId, s \in {"succeeded", "failed"} : FinishJob(j, s)
    \/ \E j \in JobId : Revive(j)
    \/ Prune
    \/ ResetCircuitBreaker("poll")
    \/ RecordReset \/ TimePasses \/ Crash

Next ==
    /\ Start \/ CatchUp \/ Tick \/ ProcessSchedule \/ Environment
    /\ UNCHANGED deployment

Spec == Init /\ [][Next]_<<vars, deployment>>
-----------------------------------------------------------------------------
EntryState == [command : Command \cup {NoCommand},
               status : {"active", "paused_invalid", "paused_manual", "exhausted"},
               lastFired : Nat \cup {Null}, lastSuccess : JobId \cup {NoJob},
               lastSuccessAt : Nat \cup {Null}, next : Nat \cup {Null}]
Breaker == [state : {"closed", "open", "half_open"}, failures : Nat,
            openedAt : Nat \cup {Null}, lastJob : JobId \cup {NoJob}]

TypeOK ==
    /\ now \in Nat /\ cur \in Schedule
    /\ entry \in [Schedule -> EntryState] /\ es \in EntryState
    /\ cb \in [Command -> Breaker] /\ bk \in Breaker
    /\ \A j \in JobId : job[j].status \in {"none", "outstanding", "succeeded", "failed", "dead", "gone"}
    /\ later \subseteq JobId \X JobId
    /\ opc \in Command \cup {NoCommand}

(* As long as no schedule cancels, a breaker never counts a result twice,  *)
(* although the one it looks at is the same in every tick until another    *)
(* job ends, results are pruned and an operator resets it in between.      *)
(* (When a cancelled job is retried, the latest result of its command is   *)
(* again an older one, which is not the job the breaker counted last.)     *)
Cancelling == \E f \in Configs, s \in Schedule : f[s].ifRunning = "cancel"

FailuresReal ==
    ~Cancelling => \A c \in Command :
        cb[c].failures <= Cardinality({j \in JobId : job[j].command = c /\ job[j].failed})

TickJob(j) == job[j].key # <<>> /\ job[j].key[2] = "tick"

Inserted(j) == job[j].status = "none" /\ job'[j].status = "outstanding"

(* An interval schedule does not run again within its interval after a     *)
(* success, even when the success comes after the tick has read the latest *)
(* result: then the dedupe lookup of Enqueue sees it.                      *)
SuccessSpacing ==
    [][\A j \in JobId :
          Inserted(j) /\ job'[j].key[2] = "tick" /\ conf[job'[j].sched].kind = "every" =>
              \A i \in Jobs({"succeeded"}) :
                  job[i].key = job'[j].key /\ job[i].command = job'[j].command
                      => now >= job[i].at + conf[job'[j].sched].interval]_vars

(* A one-shot schedule fires once as long as the process is not            *)
(* interrupted; when it crashes between the insertion and the exhausted    *)
(* state, its command never has two jobs of it outstanding, but for jobs   *)
(* that a retry has brought back after the schedule cancelled them.        *)
JobsOf(s) == {j \in JobId : job[j].sched = s /\ TickJob(j)}

OneShotOnce ==
    \A s \in Schedule : conf[s].kind \in {"at", "after"} =>
        /\ Cardinality({j \in JobsOf(s) \cap Outstanding(conf[s].command) :
                            job[j].revived = 0}) <= 1
        /\ starts <= 1 /\ faults = 0 => Cardinality(JobsOf(s)) <= 1

(* While a breaker is open the tick inserts no job, and the first one      *)
(* after that not before the cooldown is over.                             *)
Cooldown ==
    \A j \in JobId : Inserted(j) /\ job'[j].key[2] = "tick" =>
        LET b == cb[job'[j].command]
        IN  /\ b.state # "open"
            /\ b.state = "half_open" => now >= b.openedAt + ResetAfter

(* A breaker moves to half-open only from open, opens with Threshold       *)
(* failures on its count, and a failed probe opens it again instead of     *)
(* starting a new count.                                                   *)
BreakerSteps ==
    resets' = 0 => \A c \in Command : cb[c].state # cb'[c].state =>
        CASE cb'[c].state = "half_open" -> cb[c].state = "open"
          [] cb'[c].state = "open" -> cb'[c].failures >= Threshold
          [] OTHER -> latest.status = "succeeded"

(* The breaker moves as it should and holds jobs back while it is open,    *)
(* although tick, probe and results of jobs interleave.                    *)
BreakerObeyed == [][BreakerSteps /\ Cooldown]_vars

(* A cron schedule fires at most once per matching minute: between two of  *)
(* its jobs there is a match, however late the window, the breaker or      *)
(* outstanding jobs let it fire.                                           *)
CronOncePerMatch ==
    starts <= 1 /\ faults = 0 =>
        \A s \in Schedule, i, j \in JobId :
            /\ conf[s].kind = "cron" /\ i < j /\ {i, j} \subseteq JobsOf(s)
            => \E t \in (job[i].born + 1)..job[j].born : CronMatches(conf[s], t)

(* Between ticks the transition facts explain the state of the breaker, as *)
(* long as no write was lost (a crash or a failed insertion) and nobody    *)
(* reset it meanwhile.                                                     *)
FactsExplain ==
    pc = "idle" /\ starts <= 1 /\ faults = 0 /\ resets = 0 =>
        \A c \in Command :
            cb[c].state = IF cbFacts[c] = <<>> THEN "closed" ELSE Last(cbFacts[c])

(* However often it is started, after a catch-up no slot of an interval    *)
(* has two jobs of one command outstanding, and none lies in the future.   *)
CatchUpSlots ==
    \A i, j \in JobId :
        /\ job[j].key # <<>> /\ job[j].key[2] = "catchup" => job[j].key[3] <= now
        /\ /\ i # j /\ {i, j} \subseteq Jobs({"outstanding"})
           /\ job[i].command = job[j].command /\ job[i].key[2] = "catchup"
           => job[i].key # job[j].key

(* The state of a breaker can be told from the jobs that failed and from   *)
(* the transitions that were recorded (reconcileCircuitBreaker).           *)
BreakerExplained == TypeOK /\ FailuresReal /\ FactsExplain

(* A schedule fires once for what makes it due: a one-shot time, a cron    *)
(* match, a missed slot, over delays, crashes and restarts.                *)
FiresOnce == OneShotOnce /\ CronOncePerMatch /\ CatchUpSlots
-----------------------------------------------------------------------------
(* A deployment of one schedule whose breaker cannot open (an attempt of a *)
(* job has a result and, revived, lets an older one be counted again),     *)
(* with job ids for every crash and every fault that may make it fire      *)
(* again.                                                                  *)
Alone ==
    /\ NumSchedules = 1 /\ Threshold > 2 * MaxAttempts * MaxJobs
    /\ MaxJobs >= MaxStarts + MaxFaults

(* The ticker keeps the scheduler going, time passes, a process that is    *)
(* down is started again, a plugin ends because it has a deadline.  (This  *)
(* is asked only where it is needed.)                                      *)
Finish(j) == j \in JobId /\ (FinishJob(j, "succeeded") \/ FinishJob(j, "failed"))

Fairness ==
    /\ WF_vars(Alone /\ Start) /\ WF_vars(Alone /\ TimePasses)
    /\ WF_vars(Alone /\ (CatchUp \/ Tick \/ ProcessSchedule))
    /\ \A j \in 1..JobLimit : WF_vars(Alone /\ Finish(j))

FairSpec == Spec /\ Fairness

(* A one-shot schedule ends up exhausted, whatever crashes and failing     *)
(* writes get in between and whether or not it was interrupted right after *)
(* firing, if no other schedule and no breaker holds it up (or the model's *)
(* clock ends before its time).                                            *)
OneShotFires ==
    (Alone /\ conf[1].kind \in {"at", "after"})
        ~> (entry[1].status = "exhausted" \/ entry[1].next > MaxTime)
=============================================================================
