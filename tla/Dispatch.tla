------------------------------ MODULE Dispatch ------------------------------
(***************************************************************************)
(* The dispatcher (internal/dispatch) over the job queue, together with    *)
(* what else changes queue rows while it runs: the scheduler's enqueue,    *)
(* cancel and prune, the other producers, crash recovery at start-up, and  *)
(* the life of the process (start, graceful stop, crash).                  *)
(*                                                                         *)
(* A worker is a goroutine that runs executeJob on one claimed job.  What  *)
(* the plugin answers is a free choice; what the worker does with the      *)
(* answer, transaction by transaction, is not.                             *)
(***************************************************************************)
EXTENDS JobQueue

CONSTANTS
    Worker,         \* worker slots: service.max_workers of them
    Parallelism,    \* Parallelism[p]: effective parallelism of plugin p
    Ingress,        \* requests of API, webhook and relay
    Scheduled,      \* requests of the scheduler's ticks
    CatchUp,        \* requests of its catch-up at start, one per missed slot
    Routed,         \* dispatches the router may derive from a job's events
    Failures,       \* how a plugin may fail: "failed", "timed_out"
    HookOf,         \* HookOf[p]: requests of the hook pipelines of plugin p
    Policy,         \* Policy[r]: if_running of the schedule of request r
    MaxOutstandingPolls,
    NoRequest,
    MaxStarts,      \* bound: starts of the process
    MaxFaults       \* bound: transactions that fail although the process is up

ASSUME WorkerAssumption == Worker # {} /\ IsFiniteSet(Worker)
ASSUME ParallelismAssumption == Parallelism \in [Plugin -> Nat \ {0}]
ASSUME BoundsAssumption == MaxStarts \in Nat /\ MaxFaults \in Nat
ASSUME RequestAssumption ==
    /\ Ingress \subseteq Request /\ \A r \in Ingress : ~r.override
    /\ Scheduled \subseteq Request /\ NoRequest \notin Request
    /\ CatchUp \subseteq Request /\ CatchUp \cap Scheduled = {}
    /\ Routed \subseteq Request /\ \A r \in Routed : ~r.override
    /\ Failures \subseteq {"failed", "timed_out"}
    /\ HookOf \in [Plugin -> SUBSET Request]
    /\ \A p \in Plugin : \A r \in HookOf[p] : r.key = NoKey
    /\ Policy \in [Scheduled -> {"skip", "queue", "cancel"}]
    /\ MaxOutstandingPolls \in [Plugin -> Nat \ {0}]
(* Only the dispatcher sets a parent, and only for what it routes; the      *)
(* scheduler, and nobody else, overrides the dedupe TTL.                   *)
ASSUME ProducerAssumption ==
    /\ \A r \in Ingress \cup Scheduled \cup CatchUp : r.parent = NoJob
    /\ \A r \in Scheduled \cup CatchUp : r.override
    /\ \A p \in Plugin : \A r \in HookOf[p] : r.parent = NoJob /\ ~r.override

VARIABLES
    phase,     \* "down", "recovering", "up" or "stopping"
    starts,    \* starts so far
    faults,    \* failed transactions so far
    spc,       \* what the scheduler does next
    sched,     \* ... with the request of the schedule that is due
    filling,   \* fillWorkers has read the running counts
    skip,      \* ... and these plugins are at their cap
    pc,        \* what each worker does next
    wjob,      \* the job (as it was when claimed) of each worker:
    wattempt,  \* its id and its attempt
    outcome,   \* the terminal status the worker is to write
    left,      \* dispatches the worker has still to enqueue
    todo,      \* orphans that recovery has still to treat
    dying,     \* the orphan that recovery is declaring dead
    rpc,       \* what recovery does next with it
    rleft      \* hook jobs that recovery has still to enqueue for it

procVars == <<phase, starts, faults>>
schedVars == <<spc, sched>>
fillVars == <<filling, skip>>
workVars == <<pc, wjob, wattempt, outcome, left>>
recoVars == <<todo, dying, rpc, rleft>>
vars == <<queueVars, procVars, schedVars, fillVars, workVars, recoVars>>

Active == {"exec", "route", "hook", "retry", "finish"}
PC == Active \cup {"done", "idle"}

Init ==
    /\ QueueInit
    /\ phase = "down" /\ starts = 0 /\ faults = 0
    /\ spc = "idle" /\ sched = NoRequest /\ filling = FALSE /\ skip = {}
    /\ pc = [w \in Worker |-> "idle"]
    /\ wjob = [w \in Worker |-> NoJob]
    /\ wattempt = [w \in Worker |-> 0]
    /\ outcome = [w \in Worker |-> "failed"]
    /\ left = [w \in Worker |-> {}]
    /\ todo = {} /\ dying = NoJob /\ rpc = "next" /\ rleft = {}
-----------------------------------------------------------------------------
(***************************************************************************)
(* Transactions.  A write of the running process commits, or fails: always *)
(* once the runtime context is cancelled (graceful stop), otherwise at     *)
(* most MaxFaults times.                                                   *)
(***************************************************************************)
Commits == phase = "up" /\ UNCHANGED procVars

Fault == faults < MaxFaults /\ faults' = faults + 1 /\ UNCHANGED <<phase, starts>>

Fails ==
    \/ phase = "stopping" /\ UNCHANGED procVars
    \/ phase = "up" /\ Fault

(* The row is gone: the transaction finds nothing and returns an error.    *)
RowMissing(j) == status[j] \in NoRow /\ UNCHANGED procVars

(* The bound on enqueues is reached; counts as a failed insertion.         *)
NoRoom == QueueFull /\ UNCHANGED procVars

Step(w, from, to) == pc[w] = from /\ pc' = [pc EXCEPT ![w] = to]
-----------------------------------------------------------------------------
(* The producers.                                                          *)

(* A request by API, webhook or relay.  The listeners use the context of   *)
(* the request, so they can still enqueue while the runtime stops.  A      *)
(* request that is dropped as a duplicate, or fails, changes nothing.      *)
IngressEnqueue(r) ==
    /\ phase \in {"up", "stopping"}
    /\ UNCHANGED procVars
    /\ InsertJob(r)
    /\ UNCHANGED <<schedVars, fillVars, workVars, recoVars>>

(* The jobs that count against a schedule: of polls only the scheduler's    *)
(* own (outstandingForPolicy).                                             *)
OutstandingForPolicy(r) ==
    {j \in OutstandingOf(r.plugin, r.command) : r.command = "poll" => req[j].override}

(* Mutant: one poll more than max_outstanding_polls.                       *)
CanScheduleOneMore(r) ==
    LET outstanding == Cardinality(OutstandingForPolicy(r))
    IN  \/ Policy[r] = "skip" /\ outstanding = 0
        \/ Policy[r] = "queue" /\ outstanding <= MaxOutstandingPolls[r.plugin]
        \/ Policy[r] = "cancel" /\ outstanding = 0

(* canSchedule for the request r of a schedule that is due.                *)
CanSchedule(r) ==
    LET outstanding == Cardinality(OutstandingForPolicy(r))
    IN  \/ Policy[r] = "skip" /\ outstanding = 0
        \/ Policy[r] = "queue" /\ outstanding < MaxOutstandingPolls[r.plugin]
        \/ Policy[r] = "cancel" /\ outstanding = 0

SchedulerAt(from, to) == spc = from /\ spc' = to

ScheduleDue(r) ==
    /\ Commits
    /\ \/ SchedulerAt("idle", "lookup") /\ CanSchedule(r)
       \/ SchedulerAt("idle", "cancel") /\ ~CanSchedule(r) /\ Policy[r] = "cancel"
    /\ sched' = r
    /\ UNCHANGED <<queueVars, fillVars, workVars, recoVars>>

(* Leave the schedule: enqueued, deduplicated, or an error.                *)
ScheduleEnd(from) == SchedulerAt(from, "idle") /\ sched' = NoRequest

(* All outstanding jobs of the target are cancelled, whoever enqueued them.*)
ScheduleCancel ==
    /\ \/ /\ SchedulerAt("cancel", "lookup")
          /\ Commits
          /\ CancelOutstandingJobs(sched.plugin, sched.command)
          /\ UNCHANGED sched
       \/ ScheduleEnd("cancel") /\ Fails /\ UNCHANGED queueVars
    /\ UNCHANGED <<fillVars, workVars, recoVars>>

ScheduleLookup ==
    /\ \/ /\ SchedulerAt("lookup", "insert")
          /\ Commits
          /\ DedupeAdmits(sched)
          /\ UNCHANGED sched
       \/ ScheduleEnd("lookup") /\ Commits /\ MayBeDropped(sched)
       \/ ScheduleEnd("lookup") /\ Fails
    /\ UNCHANGED <<queueVars, fillVars, workVars, recoVars>>

ScheduleInsert ==
    /\ ScheduleEnd("insert")
    /\ \/ Commits /\ InsertJob(sched)
       \/ (Fails \/ NoRoom) /\ UNCHANGED queueVars
    /\ UNCHANGED <<fillVars, workVars, recoVars>>

ScheduleStep == ScheduleCancel \/ ScheduleLookup \/ ScheduleInsert

(* The retention pass at the end of a tick.  job_log, job_transitions and  *)
(* job_attempts are pruned by retentions of their own, which are longer:   *)
(* the model keeps what they record for good.                              *)
TickPrune(old) ==
    /\ Commits
    /\ spc = "idle"
    /\ PruneJobQueue(old)
    /\ UNCHANGED <<schedVars, fillVars, workVars, recoVars>>

RetryDue(j) ==
    /\ RetryTimeReached(j)
    /\ UNCHANGED <<procVars, schedVars, fillVars, workVars, recoVars>>
-----------------------------------------------------------------------------
(* fillWorkers: read the running counts, then claim, while a slot is free. *)

(* Mutant: a lane is full only above its cap.                              *)
AboveCap == {p \in Plugin : Cardinality(Running(p)) > Parallelism[p]}

AtCap == {p \in Plugin : Cardinality(Running(p)) >= Parallelism[p]}

LoadRunningCounts ==
    /\ Commits
    /\ ~filling
    /\ \E w \in Worker : pc[w] = "idle"
    /\ filling' = TRUE
    /\ skip' = AtCap
    /\ UNCHANGED <<queueVars, schedVars, workVars, recoVars>>

(* Mutant: the running counts are read once for all claims of a pass.      *)
ClaimJobStaleCounts(w, j) ==
    /\ Commits
    /\ filling
    /\ DequeueEligible(j, skip)
    /\ Step(w, "idle", "exec")
    /\ wjob' = [wjob EXCEPT ![w] = j]
    /\ wattempt' = [wattempt EXCEPT ![w] = attempt[j]]
    /\ UNCHANGED <<schedVars, fillVars, outcome, left, recoVars>>

ClaimJob(w, j) ==
    /\ Commits
    /\ filling
    /\ DequeueEligible(j, skip)
    /\ Step(w, "idle", "exec")
    /\ wjob' = [wjob EXCEPT ![w] = j]
    /\ wattempt' = [wattempt EXCEPT ![w] = attempt[j]]
    /\ filling' = FALSE
    /\ skip' = {}
    /\ UNCHANGED <<schedVars, outcome, left, recoVars>>

(* No eligible job, or the transaction fails: fillWorkers returns.         *)
ClaimNothing ==
    /\ filling
    /\ \/ Commits /\ \A j \in JobId : NextCandidate(j, skip) => attempt[j] \in claims[j]
       \/ Fails
    /\ filling' = FALSE
    /\ skip' = {}
    /\ UNCHANGED <<queueVars, schedVars, workVars, recoVars>>
-----------------------------------------------------------------------------
(* executeJob.                                                             *)

(* Preflight, registry, configuration, plugin state or `with` fails, or    *)
(* the plugin succeeded and its state updates cannot be stored.            *)
ExecuteBroken(w) ==
    /\ Step(w, "exec", "finish")
    /\ outcome' = [outcome EXCEPT ![w] = "failed"]
    /\ UNCHANGED <<queueVars, procVars, schedVars, fillVars, wjob, wattempt, left, recoVars>>

(* Mutant: the job is completed before its successors are routed.          *)
ExecuteDoneCompletesFirst(w, s, next) ==
    /\ Step(w, "exec", "route")
    /\ Commits
    /\ CompleteWithResult(wjob[w], s)
    /\ outcome' = [outcome EXCEPT ![w] = s]
    /\ left' = [left EXCEPT ![w] = {[r EXCEPT !.parent = wjob[w]] : r \in next}]
    /\ UNCHANGED <<schedVars, fillVars, wjob, wattempt, recoVars>>

(* The plugin (or core.switch, core.relay) succeeds, or the step's `if`    *)
(* is false: the successors are routed first.                              *)
ExecuteDone(w, s, next) ==
    /\ Step(w, "exec", "route")
    /\ outcome' = [outcome EXCEPT ![w] = s]
    /\ left' = [left EXCEPT ![w] = {[r EXCEPT !.parent = wjob[w]] : r \in next}]
    /\ UNCHANGED <<queueVars, procVars, schedVars, fillVars, wjob, wattempt, recoVars>>

Hooks(j) == IF req[j].step THEN {} ELSE HookOf[req[j].plugin]

(* Mutant: one retry too many.                                             *)
AttemptsExhaustedLate(w) == wattempt[w] > MaxAttempts

(* decideRetryPolicy: every row has a max_attempts above zero, so the      *)
(* configuration of the plugin is never asked.                             *)
AttemptsExhausted(w) == wattempt[w] >= MaxAttempts

(* The plugin fails or times out: failOrRetry.                             *)
ExecuteFailed(w, s, retryable) ==
    /\ outcome' = [outcome EXCEPT ![w] = s]
    /\ \/ /\ Step(w, "exec", "retry")
          /\ retryable /\ ~AttemptsExhausted(w)
          /\ UNCHANGED left
       \/ /\ Step(w, "exec", "hook")
          /\ ~retryable \/ AttemptsExhausted(w)
          /\ left' = [left EXCEPT ![w] = Hooks(wjob[w])]
    /\ UNCHANGED <<queueVars, procVars, schedVars, fillVars, wjob, wattempt, recoVars>>

(* routeEvents enqueues one successor.                                     *)
RouteNext(w, r) ==
    /\ pc[w] = "route"
    /\ r \in left[w]
    /\ Commits
    /\ Enqueue(r)
    /\ left' = [left EXCEPT ![w] = @ \ {r}]
    /\ UNCHANGED <<schedVars, fillVars, pc, wjob, wattempt, outcome, recoVars>>

(* routeEvents fails (route, context, enqueue): the job fails for good.    *)
RouteBroken(w) ==
    /\ left[w] # {}
    /\ Step(w, "route", "finish")
    /\ outcome' = [outcome EXCEPT ![w] = "failed"]
    /\ left' = [left EXCEPT ![w] = {}]
    /\ UNCHANGED <<queueVars, procVars, schedVars, fillVars, wjob, wattempt, recoVars>>

(* A skipped job fires no hooks.                                           *)
RouteDone(w) ==
    /\ left[w] = {}
    /\ \/ /\ Step(w, "route", "hook")
          /\ outcome[w] = "succeeded"
          /\ left' = [left EXCEPT ![w] = Hooks(wjob[w])]
       \/ /\ Step(w, "route", "finish")
          /\ outcome[w] = "skipped"
          /\ UNCHANGED left
    /\ UNCHANGED <<queueVars, procVars, schedVars, fillVars, wjob, wattempt, outcome, recoVars>>

(* maybeFireHooks enqueues one hook job; a failure is only logged.         *)
HookNext(w, r) ==
    /\ pc[w] = "hook"
    /\ r \in left[w]
    /\ \/ Commits /\ InsertJob(r)
       \/ (Fails \/ NoRoom) /\ UNCHANGED queueVars
    /\ left' = [left EXCEPT ![w] = @ \ {r}]
    /\ UNCHANGED <<schedVars, fillVars, pc, wjob, wattempt, outcome, recoVars>>

HookDone(w) ==
    /\ left[w] = {}
    /\ Step(w, "hook", "finish")
    /\ UNCHANGED <<queueVars, procVars, schedVars, fillVars, wjob, wattempt, outcome, left, recoVars>>

(* Mutant: no return after the retry is scheduled.                         *)
ScheduleRetryFallsThrough(w) ==
    /\ Step(w, "retry", "finish")
    /\ \/ /\ Commits
          /\ UpdateJobForRecovery(wjob[w], "queued", wattempt[w] + 1, TRUE)
       \/ (Fails \/ RowMissing(wjob[w])) /\ UNCHANGED queueVars
    /\ UNCHANGED <<schedVars, fillVars, wjob, wattempt, outcome, left, recoVars>>

(* UpdateJobForRecovery schedules the retry; if it cannot, the job is      *)
(* completed with its failure although attempts remain.                    *)
ScheduleRetry(w) ==
    /\ \/ /\ Step(w, "retry", "done")
          /\ Commits
          /\ UpdateJobForRecovery(wjob[w], "queued", wattempt[w] + 1, TRUE)
       \/ /\ Step(w, "retry", "finish")
          /\ Fails \/ RowMissing(wjob[w])
          /\ UNCHANGED queueVars
    /\ UNCHANGED <<schedVars, fillVars, wjob, wattempt, outcome, left, recoVars>>

(* Mutant: the completion is repeated until it commits.                    *)
CompleteUntilCommitted(w) ==
    /\ Step(w, "finish", "done")
    /\ Commits
    /\ CompleteWithResult(wjob[w], outcome[w])
    /\ UNCHANGED <<schedVars, fillVars, wjob, wattempt, outcome, left, recoVars>>

(* completeJob: an error of CompleteWithResult is logged and ignored.      *)
Complete(w) ==
    /\ Step(w, "finish", "done")
    /\ \/ Commits /\ CompleteWithResult(wjob[w], outcome[w])
       \/ (Fails \/ RowMissing(wjob[w])) /\ UNCHANGED queueVars
    /\ UNCHANGED <<schedVars, fillVars, wjob, wattempt, outcome, left, recoVars>>

(* executeJob returns, and the dispatch loop takes note of it (workerDone).*)
WorkerDone(w) ==
    /\ Step(w, "done", "idle")
    /\ wjob' = [wjob EXCEPT ![w] = NoJob]
    /\ wattempt' = [wattempt EXCEPT ![w] = 0]
    /\ outcome' = [outcome EXCEPT ![w] = "failed"]
    /\ UNCHANGED <<queueVars, procVars, schedVars, fillVars, left, recoVars>>
-----------------------------------------------------------------------------
(***************************************************************************)
(* The process.  A start opens the database and recovers the jobs that are *)
(* still marked running before the dispatcher begins.                      *)
(***************************************************************************)
(* Mutant: failed rows are taken for orphans, too.                         *)
StartWithFailed ==
    /\ phase = "down"
    /\ starts < MaxStarts
    /\ phase' = "recovering"
    /\ starts' = starts + 1
    /\ todo' = Rows({"running", "failed"})
    /\ UNCHANGED <<queueVars, faults, schedVars, fillVars, workVars, dying, rpc, rleft>>

Start ==
    /\ phase = "down"
    /\ starts < MaxStarts
    /\ phase' = "recovering"
    /\ starts' = starts + 1
    /\ todo' = Rows({"running"})
    /\ UNCHANGED <<queueVars, faults, schedVars, fillVars, workVars, dying, rpc, rleft>>

(* Mutant: the attempt is compared before it is incremented.               *)
RecoverRequeueOneMore(j) ==
    /\ phase = "recovering" /\ rpc = "next" /\ j \in todo
    /\ attempt[j] <= MaxAttempts
    /\ todo' = todo \ {j}
    /\ \/ UpdateJobForRecovery(j, "queued", attempt[j] + 1, FALSE) /\ UNCHANGED procVars
       \/ Fault /\ UNCHANGED queueVars
    /\ UNCHANGED <<schedVars, fillVars, workVars, dying, rpc, rleft>>

(* recoverOrphanedJobs takes the next orphan.                              *)
RecoverRequeue(j) ==
    /\ phase = "recovering" /\ rpc = "next" /\ j \in todo
    /\ attempt[j] + 1 <= MaxAttempts
    /\ todo' = todo \ {j}
    /\ \/ UpdateJobForRecovery(j, "queued", attempt[j] + 1, FALSE) /\ UNCHANGED procVars
       \/ Fault /\ UNCHANGED queueVars
    /\ UNCHANGED <<schedVars, fillVars, workVars, dying, rpc, rleft>>

RecoverMarkDead(j) ==
    /\ phase = "recovering" /\ rpc = "next" /\ j \in todo
    /\ attempt[j] + 1 > MaxAttempts
    /\ todo' = todo \ {j}
    /\ \/ /\ UpdateJobForRecovery(j, "dead", attempt[j] + 1, FALSE)
          /\ dying' = j /\ rpc' = "log"
          /\ UNCHANGED procVars
       \/ Fault /\ UNCHANGED <<queueVars, dying, rpc>>
    /\ UNCHANGED <<schedVars, fillVars, workVars, rleft>>

(* ... completes the dead one (an error is logged and ignored) ...         *)
RecoverComplete ==
    /\ rpc = "log"
    /\ rpc' = "hook"
    /\ rleft' = Hooks(dying)
    /\ \/ CompleteWithResult(dying, "dead") /\ UNCHANGED procVars
       \/ Fault /\ UNCHANGED queueVars
    /\ UNCHANGED <<schedVars, fillVars, workVars, todo, dying>>

(* ... and enqueues its hook jobs.                                         *)
RecoverHook(r) ==
    /\ rpc = "hook" /\ r \in rleft
    /\ rleft' = rleft \ {r}
    /\ \/ InsertJob(r) /\ UNCHANGED procVars
       \/ (Fault \/ NoRoom) /\ UNCHANGED queueVars
    /\ UNCHANGED <<schedVars, fillVars, workVars, todo, dying, rpc>>

RecoverNext ==
    /\ rpc = "hook" /\ rleft = {}
    /\ rpc' = "next" /\ dying' = NoJob
    /\ UNCHANGED <<queueVars, procVars, schedVars, fillVars, workVars, todo, rleft>>

(* runStartupCatchUp, after recovery and before the first tick: a job for  *)
(* a missed slot of a schedule, whatever is outstanding.  canSchedule is   *)
(* not asked.  The lookup and the insertion are one step, since nothing    *)
(* else runs yet.  A request that is dropped as a duplicate changes        *)
(* nothing, nor does one that fails, which is only logged.  Which slots    *)
(* were missed, and the schedule's entry, are Scheduler's.                 *)
CatchUpEnqueue(r) ==
    /\ phase = "recovering" /\ todo = {} /\ rpc = "next"
    /\ UNCHANGED procVars
    /\ DedupeAdmits(r)
    /\ InsertJob(r)
    /\ UNCHANGED <<schedVars, fillVars, workVars, recoVars>>

(* Mutant: the dispatcher starts while orphans are left.                   *)
RecoveryDoneEarly ==
    /\ phase = "recovering" /\ rpc = "next"
    /\ phase' = "up"
    /\ UNCHANGED <<queueVars, starts, faults, schedVars, fillVars, workVars, recoVars>>

(* The catch-up is over, with or without jobs enqueued; an entry it cannot *)
(* read or write makes the start fail, which is a Crash.                   *)
RecoveryDone ==
    /\ phase = "recovering" /\ todo = {} /\ rpc = "next"
    /\ phase' = "up"
    /\ UNCHANGED <<queueVars, starts, faults, schedVars, fillVars, workVars, recoVars>>

(* runtimeState.Stop: cancel the context, wait for the workers.            *)
Stop ==
    /\ phase = "up"
    /\ phase' = "stopping"
    /\ UNCHANGED <<queueVars, starts, faults, schedVars, fillVars, workVars, recoVars>>

Drained ==
    /\ phase = "stopping" /\ spc = "idle" /\ ~filling
    /\ \A w \in Worker : pc[w] = "idle"
    /\ phase' = "down"
    /\ UNCHANGED <<queueVars, starts, faults, schedVars, fillVars, workVars, recoVars>>

(* Everything in memory is lost.                                           *)
Crash ==
    /\ phase # "down"
    /\ phase' = "down"
    /\ spc' = "idle" /\ sched' = NoRequest /\ filling' = FALSE /\ skip' = {}
    /\ pc' = [w \in Worker |-> "idle"]
    /\ wjob' = [w \in Worker |-> NoJob]
    /\ wattempt' = [w \in Worker |-> 0]
    /\ outcome' = [w \in Worker |-> "failed"]
    /\ left' = [w \in Worker |-> {}]
    /\ todo' = {} /\ dying' = NoJob /\ rpc' = "next" /\ rleft' = {}
    /\ UNCHANGED <<queueVars, starts, faults>>
-----------------------------------------------------------------------------
WorkerNext(w) ==
    \/ ExecuteBroken(w)
    \/ \E next \in SUBSET Routed :
          ExecuteDone(w, "succeeded", next) \/ ExecuteDone(w, "skipped", next)
    \/ \E s \in Failures, retryable \in BOOLEAN :
          ExecuteFailed(w, s, retryable)
    \/ \E r \in left[w] : RouteNext(w, r) \/ HookNext(w, r)
    \/ RouteBroken(w) \/ RouteDone(w) \/ HookDone(w)
    \/ ScheduleRetry(w) \/ Complete(w) \/ WorkerDone(w)

Fill == LoadRunningCounts \/ ClaimNothing \/ \E w \in Worker, j \in JobId : ClaimJob(w, j)

Recovery ==
    \/ \E j \in todo : RecoverRequeue(j) \/ RecoverMarkDead(j)
    \/ RecoverComplete
    \/ \E r \in rleft : RecoverHook(r)
    \/ RecoverNext \/ RecoveryDone

Produce ==
    \/ \E r \in Ingress : IngressEnqueue(r)
    \/ \E r \in CatchUp : CatchUpEnqueue(r)
    \/ \E r \in Scheduled : ScheduleDue(r)
    \/ ScheduleStep
    \/ \E old \in SUBSET JobId : TickPrune(old)

Process == Start \/ Stop \/ Drained \/ Crash

Next ==
    \/ Produce
    \/ \E j \in JobId : RetryDue(j)
    \/ Fill
    \/ \E w \in Worker : WorkerNext(w)
    \/ Recovery
    \/ Process

Spec == Init /\ [][Next]_vars
-----------------------------------------------------------------------------
TypeOK ==
    /\ QueueTypeOK
    /\ phase \in {"down", "recovering", "up", "stopping"}
    /\ starts \in Nat /\ faults \in Nat
    /\ spc \in {"idle", "cancel", "lookup", "insert"}
    /\ sched \in Scheduled \cup {NoRequest}
    /\ spc # "idle" => sched # NoRequest
    /\ filling \in BOOLEAN /\ skip \subseteq Plugin
    /\ pc \in [Worker -> PC]
    /\ wjob \in [Worker -> JobId \cup {NoJob}]
    /\ wattempt \in [Worker -> Nat]
    /\ outcome \in [Worker -> Terminal]
    /\ left \in [Worker -> SUBSET Request]
    /\ todo \subseteq JobId
    /\ dying \in JobId \cup {NoJob}
    /\ rpc \in {"next", "log", "hook"}
    /\ rleft \subseteq Request

(* At most one running row per dedupe key and target, although producers,  *)
(* retries and recovery queue any number of them (DequeueEligible).        *)
TargetExclusive ==
    \A i, j \in Rows({"running"}) :
        i # j /\ req[i].key # NoKey /\ SameTarget(req[i], req[j])
            => req[i].key # req[j].key

(* No more running rows of a plugin than its parallelism, although the     *)
(* counts are read in one transaction and the claim is made in another.    *)
PluginCap == \A p \in Plugin : Cardinality(Running(p)) <= Parallelism[p]

(* The attempt of a queued row was never claimed: the insertion into       *)
(* job_attempts cannot violate UNIQUE(job_id, attempt), which would make   *)
(* every later DequeueEligible fail on the same head of the queue.         *)
FreshAttempt == \A j \in Rows({"queued"}) : attempt[j] \notin claims[j]

(* Retries by the dispatcher and re-queueing by recovery draw on the same  *)
(* budget: however they alternate, a job is claimed at most MaxAttempts    *)
(* times.                                                                  *)
ClaimsBounded == \A j \in JobId : claims[j] \subseteq 1..MaxAttempts

(* Two goroutines never execute the same job, cancelled or not.            *)
SingleWorker ==
    \A v, w \in Worker :
        v # w /\ pc[v] \in Active /\ pc[w] \in Active => wjob[v] # wjob[w]

(* While the process is up and no transaction has failed, a running row    *)
(* is being executed, in the attempt the row names.  (After a failed       *)
(* CompleteWithResult the row stays running until the next start.)         *)
RunningIsExecuted ==
    phase = "up" /\ faults = 0 =>
        \A j \in Rows({"running"}) :
            \E w \in Worker :
                pc[w] \in Active /\ wjob[w] = j /\ wattempt[w] = attempt[j]

(* The cached status of a row is that of the latest transition fact, which *)
(* is what GetJobLineage compares.                                         *)
FactsAgree == \A j \in JobId \ Rows({"gone"}) : fact[j] = status[j]

(* A job with completed_at has a job_log row for its last attempt, with    *)
(* its result: pruning the queue row afterwards loses nothing.             *)
CompletedIsLogged ==
    \A j \in JobId : completedAt[j] => <<attempt[j], fact[j]>> \in jobLog[j]

(* A terminal status is never left: neither a worker nor recovery revives  *)
(* a finished job, or changes its result.                                  *)
TerminalIsFinal ==
    [][\A j \in Rows(Terminal) : status'[j] \in {status[j], "gone"}]_vars

(* The guard of the scheduler, as long as no schedule of a plugin cancels: *)
(* its ticks have at most max_outstanding_polls polls outstanding, and a   *)
(* tick about to insert one finds fewer than that, those of the catch-up   *)
(* included, although counting, looking up and inserting are transactions  *)
(* of their own and retries and recovery queue polls again.  The catch-up  *)
(* does not ask the guard: after a start there may be more polls than      *)
(* max_outstanding_polls, whatever its documentation says.                 *)
ScheduledPolls(p) == {j \in OutstandingOf(p, "poll") : req[j].override}

TickPolls(p) == {j \in OutstandingOf(p, "poll") : req[j] \in Scheduled}

PollGuard ==
    \A p \in Plugin :
        (\A r \in Scheduled : r.plugin = p => Policy[r] # "cancel") =>
            /\ Cardinality(TickPolls(p)) <= MaxOutstandingPolls[p]
            /\ spc = "insert" /\ sched.plugin = p /\ sched.command = "poll"
                 => Cardinality(ScheduledPolls(p)) < MaxOutstandingPolls[p]

(* A job is routed only while its parent is running: the tree below a job  *)
(* stops growing before the job becomes terminal.                          *)
NoLateChild ==
    [][\A j \in Rows({"none"}) :
          status'[j] = "queued" /\ req'[j].parent # NoJob
              => status[req'[j].parent] = "running"]_vars

(* No more processes of a plugin execute at the same time than its         *)
(* parallelism allows.                                                     *)
Executing(p) == {w \in Worker : pc[w] = "exec" /\ req[wjob[w]].plugin = p}
ExecutionCap == \A p \in Plugin : Cardinality(Executing(p)) <= Parallelism[p]

(* A job that is executed again after a crash and emits the same event     *)
(* again has at most one child per event and target.                       *)
OneChildPerEvent ==
    \A i, j \in JobId \ Rows(NoRow) :
        /\ i # j /\ req[i].parent # NoJob /\ req[i].event # NoEvent
        /\ SameTarget(req[i], req[j])
        => <<req[i].parent, req[i].event>> # <<req[j].parent, req[j].event>>
-----------------------------------------------------------------------------
(***************************************************************************)
(* The inductive invariant behind the invariants above.                    *)
(***************************************************************************)

(* The attempt of a row is the last one claimed or, in a queued row, the   *)
(* next one; rows that may still be claimed are within their budget.       *)
AttemptBudget ==
    \A j \in JobId :
        /\ attempt[j] >= 1
        /\ claims[j] \subseteq 1..attempt[j]
        /\ claims[j] \subseteq 1..MaxAttempts
        /\ status[j] \in Outstanding => attempt[j] <= MaxAttempts
        /\ status[j] = "queued" => attempt[j] \notin claims[j]
        /\ status[j] = "none" => attempt[j] = 1 /\ claims[j] = {}

(* The row of an active worker was claimed and has not been queued again:  *)
(* it is running, cancelled or gone, and its attempt is the worker's.      *)
WorkersHoldRows ==
    \A w \in Worker : pc[w] \in Active =>
        /\ wjob[w] \in JobId
        /\ status[wjob[w]] \notin {"none", "queued"}
        /\ wattempt[w] = attempt[wjob[w]]
        /\ pc[w] = "retry" => wattempt[w] < MaxAttempts

(* Recovery runs before everything else of the process.                    *)
RecoveryIsAlone ==
    /\ phase \in {"down", "recovering"} =>
           ~filling /\ spc = "idle" /\ \A w \in Worker : pc[w] = "idle"
    /\ phase # "recovering" => todo = {} /\ rpc = "next"
    /\ \A j \in todo : status[j] = "running"
    /\ rpc # "next" => dying \in JobId /\ status[dying] = "dead"

(* While a job is chosen, the plugins not skipped are below their cap.     *)
CapsHold == PluginCap /\ (filling => AtCap \subseteq skip)

(* Attempts, claims, workers and recovery fit together in every state:     *)
(* with it, each step of any actor preserves the invariants above.         *)
IndInv ==
    /\ TypeOK
    /\ AttemptBudget
    /\ TargetExclusive
    /\ CapsHold
    /\ WorkersHoldRows
    /\ SingleWorker
    /\ RecoveryIsAlone
-----------------------------------------------------------------------------
(* What the documentation says of cancellation.                            *)

(* completed_at is null until the job is terminal.                         *)
CompletedIsTerminal ==
    \A j \in JobId : completedAt[j] => status[j] \in Terminal \cup {"gone"}
-----------------------------------------------------------------------------
(***************************************************************************)
(* Dispatch implements JobLifecycle, as long as no schedule cancels.  The  *)
(* stage of a job is its last recorded status, which outlives its row.     *)
(***************************************************************************)
Stage(s) ==
    CASE s = "none" -> "new"
      [] s = "queued" -> "waiting"
      [] s = "running" -> "claimed"
      [] OTHER -> s

Life == INSTANCE JobLifecycle WITH
    Result <- Terminal,
    stage <- [j \in JobId |-> Stage(fact[j])],
    used <- [j \in JobId |-> Cardinality(claims[j])]

(* Whatever workers, producers, retries, failing transactions, crashes and *)
(* recovery do, every job goes through the life cycle that JobLifecycle    *)
(* describes: one claim at a time, MaxAttempts claims in all, one result.  *)
LifeCycle == Life!LifeSpec
-----------------------------------------------------------------------------
(***************************************************************************)
(* Fairness.  The tick of one second keeps fillWorkers going, a goroutine  *)
(* that can take a step takes it, plugins end (their deadline kills them;  *)
(* a graceful stop does not, it waits), time passes.  Nothing is assumed   *)
(* of producers, of starts, stops and crashes.                             *)
(***************************************************************************)
Fairness ==
    /\ WF_vars(Fill)
    /\ WF_vars(Recovery)
    /\ WF_vars(ScheduleStep)
    /\ WF_vars(Drained)
    /\ \A w \in Worker : WF_vars(WorkerNext(w))
    /\ \A j \in JobId : WF_vars(RetryDue(j))

FairSpec == Spec /\ Fairness

(* If the process stays up and its transactions commit, every queued job   *)
(* reaches a terminal status: it is not starved by older jobs, by a lane   *)
(* at its cap, by a held key or by its own retries.                        *)
QueuedFinishes ==
    <>[](phase \in {"recovering", "up"}) =>
        \A j \in JobId : status[j] = "queued" ~> status[j] \in Terminal \cup {"gone"}

(* A graceful stop ends: no worker, no pass of fillWorkers and no tick     *)
(* waits for ever once the context is cancelled.                           *)
StopEnds == phase = "stopping" ~> phase = "down"
=============================================================================
