------------------------------ MODULE JobQueue ------------------------------
(***************************************************************************)
(* The work queue of Ductile (internal/queue): the tables job_queue,       *)
(* job_transitions, job_attempts and job_log, and the operations that      *)
(* change them.  Every operation below is one SQLite transaction.  The     *)
(* database handle has a single connection (internal/storage), so          *)
(* transactions never overlap and each one is one step.                    *)
(*                                                                         *)
(* A column of job_queue is a variable indexed by job.  Job ids are        *)
(* numbers handed out in insertion order: they stand for the order         *)
(* (created_at, rowid) in which DequeueEligible looks at candidates.       *)
(***************************************************************************)
EXTENDS Naturals, FiniteSets

CONSTANTS
    JobId,        \* rows the model has room for (the bound on enqueues)
    Plugin,
    Command,
    Key,          \* dedupe keys
    NoKey,        \* dedupe_key IS NULL
    Event,        \* event ids that a re-executed job emits again unchanged
    NoEvent,      \* source_event_id NULL, or a uuid made for one execution only
    NoJob,        \* parent_job_id IS NULL
    MaxAttempts   \* max_attempts of every job

ASSUME JobIdAssumption == JobId \subseteq Nat /\ IsFiniteSet(JobId)
ASSUME NoJobAssumption == NoJob \notin JobId
ASSUME TargetAssumption == Plugin # {} /\ Command # {}
ASSUME MaxAttemptsAssumption == MaxAttempts \in Nat \ {0}

VARIABLES
    status,       \* job_queue.status; "none": id unused, "gone": row pruned
    attempt,      \* job_queue.attempt
    req,          \* the columns an EnqueueRequest fixes for good
    backoff,      \* next_retry_at lies in the future
    completedAt,  \* completed_at IS NOT NULL
    fact,         \* to_status of the latest job_transitions row of the job
    claims,       \* attempts of the job that have a job_attempts row
    jobLog        \* job_log rows of the job, as pairs <<attempt, status>>

queueVars == <<status, attempt, req, backoff, completedAt, fact, claims, jobLog>>

Outstanding == {"queued", "running"}
Terminal == {"succeeded", "skipped", "failed", "timed_out", "dead"}
Status == Outstanding \cup Terminal
NoRow == {"none", "gone"}

(***************************************************************************)
(* What a producer submits.  "override" says that the caller set a dedupe  *)
(* TTL of its own, "step" that the job carries an event_context_id.        *)
(***************************************************************************)
Request == [plugin : Plugin, command : Command, key : Key \cup {NoKey},
            override : BOOLEAN, step : BOOLEAN,
            parent : JobId \cup {NoJob}, event : Event \cup {NoEvent}]

SameTarget(r, s) == r.plugin = s.plugin /\ r.command = s.command

Rows(S) == {j \in JobId : status[j] \in S}

Running(p) == {j \in Rows({"running"}) : req[j].plugin = p}

BlankRequest ==
    [plugin |-> CHOOSE p \in Plugin : TRUE, command |-> CHOOSE c \in Command : TRUE,
     key |-> NoKey, override |-> FALSE, step |-> FALSE,
     parent |-> NoJob, event |-> NoEvent]

QueueInit ==
    /\ status = [j \in JobId |-> "none"]
    /\ attempt = [j \in JobId |-> 1]
    /\ req = [j \in JobId |-> BlankRequest]
    /\ backoff = [j \in JobId |-> FALSE]
    /\ completedAt = [j \in JobId |-> FALSE]
    /\ fact = [j \in JobId |-> "none"]
    /\ claims = [j \in JobId |-> {}]
    /\ jobLog = [j \in JobId |-> {}]
-----------------------------------------------------------------------------
(***************************************************************************)
(* Enqueue.  With a dedupe key, Enqueue first looks for a job that makes   *)
(* the new one a duplicate, in queries of their own, and inserts the row   *)
(* in a later transaction.  The in-flight lookup is made only for callers  *)
(* that override the TTL.  The lookup for a recent success drops a request *)
(* while the success is young enough, which any success may or may not be. *)
(***************************************************************************)
SameKey(j, r) == r.key # NoKey /\ req[j].key = r.key /\ SameTarget(req[j], r)

FindOutstandingByDedupeKey(r) == {j \in Rows(Outstanding) : SameKey(j, r)}

FindSucceededByDedupeKey(r) == {j \in Rows({"succeeded"}) : SameKey(j, r)}

DedupeAdmits(r) == r.override => FindOutstandingByDedupeKey(r) = {}

MayBeDropped(r) == ~DedupeAdmits(r) \/ FindSucceededByDedupeKey(r) # {}

(* Mutant: only a running row counts as a redelivery.                      *)
SourceEventConflictRunning(r) ==
    \E j \in Rows({"running"}) :
        /\ req[j].parent = r.parent /\ r.parent # NoJob
        /\ req[j].event = r.event /\ r.event # NoEvent
        /\ SameTarget(req[j], r)

(* The unique index on (parent_job_id, source_event_id, plugin, command):  *)
(* NULLs are distinct, so only rows with a parent and an event conflict.   *)
SourceEventConflict(r) ==
    \E j \in JobId \ Rows(NoRow) :
        /\ req[j].parent = r.parent /\ r.parent # NoJob
        /\ req[j].event = r.event /\ r.event # NoEvent
        /\ SameTarget(req[j], r)

FreeId(j) == status[j] = "none" /\ \A i \in JobId : i < j => status[i] # "none"

QueueFull == Rows({"none"}) = {}

InsertJob(r) ==
    IF SourceEventConflict(r)
    THEN UNCHANGED queueVars
    ELSE \E j \in JobId :
           /\ FreeId(j)
           /\ status' = [status EXCEPT ![j] = "queued"]
           /\ req' = [req EXCEPT ![j] = r]
           /\ fact' = [fact EXCEPT ![j] = "queued"]
           /\ UNCHANGED <<attempt, backoff, completedAt, claims, jobLog>>

(* Lookups and insertion in one step, for callers without a TTL override:  *)
(* nothing that happens between the two changes what they may do.          *)
Enqueue(r) ==
    \/ InsertJob(r)
    \/ MayBeDropped(r) /\ UNCHANGED queueVars
-----------------------------------------------------------------------------
(* Mutant: a key is held by older queued rows instead of running ones.     *)
KeyHeldByQueued(j) ==
    /\ req[j].key # NoKey
    /\ \E i \in Rows({"queued"}) :
           i < j /\ req[i].key = req[j].key /\ SameTarget(req[i], req[j])

(***************************************************************************)
(* DequeueEligible claims the oldest queued row that is due, whose plugin  *)
(* is not in skip, and whose key is not held by a running row with the     *)
(* same target.  UNIQUE(job_id, attempt) makes the transaction fail when   *)
(* the attempt was claimed before: then nothing is claimed at all.         *)
(***************************************************************************)
KeyHeld(j) ==
    /\ req[j].key # NoKey
    /\ \E i \in Rows({"running"}) :
           req[i].key = req[j].key /\ SameTarget(req[i], req[j])

Eligible(skip) ==
    {j \in Rows({"queued"}) :
        ~backoff[j] /\ req[j].plugin \notin skip /\ ~KeyHeld(j)}

NextCandidate(j, skip) ==
    j \in Eligible(skip) /\ \A i \in Eligible(skip) : j <= i

DequeueEligible(j, skip) ==
    /\ NextCandidate(j, skip)
    /\ attempt[j] \notin claims[j]
    /\ status' = [status EXCEPT ![j] = "running"]
    /\ fact' = [fact EXCEPT ![j] = "running"]
    /\ claims' = [claims EXCEPT ![j] = @ \cup {attempt[j]}]
    /\ UNCHANGED <<attempt, req, backoff, completedAt, jobLog>>
-----------------------------------------------------------------------------
(* INSERT OR IGNORE INTO job_log: the id is the job and its attempt.       *)
WriteJobLog(j, s) ==
    jobLog' = IF \E e \in jobLog[j] : e[1] = attempt[j]
              THEN jobLog
              ELSE [jobLog EXCEPT ![j] = @ \cup {<<attempt[j], s>>}]

(* CompleteWithResult looks up the row but not which status it leaves.     *)
CompleteWithResult(j, s) ==
    /\ status[j] \notin NoRow
    /\ status' = [status EXCEPT ![j] = s]
    /\ fact' = [fact EXCEPT ![j] = s]
    /\ completedAt' = [completedAt EXCEPT ![j] = TRUE]
    /\ WriteJobLog(j, s)
    /\ UNCHANGED <<attempt, req, backoff, claims>>

(* Mutant: the new attempt is not stored.                                  *)
UpdateForgetsAttempt(j, s, a, wait) ==
    /\ status[j] \notin NoRow
    /\ status' = [status EXCEPT ![j] = s]
    /\ fact' = [fact EXCEPT ![j] = s]
    /\ backoff' = [backoff EXCEPT ![j] = wait]
    /\ UNCHANGED <<attempt, req, completedAt, claims, jobLog>>

(* Mutant: completed_at is set along with a terminal status.               *)
UpdateCompletes(j, s, a, wait) ==
    /\ status[j] \notin NoRow
    /\ status' = [status EXCEPT ![j] = s]
    /\ fact' = [fact EXCEPT ![j] = s]
    /\ attempt' = [attempt EXCEPT ![j] = a]
    /\ backoff' = [backoff EXCEPT ![j] = wait]
    /\ completedAt' = [completedAt EXCEPT ![j] = s \in Terminal]
    /\ UNCHANGED <<req, claims, jobLog>>

(* UpdateJobForRecovery serves retries as well as crash recovery.  It      *)
(* leaves completed_at alone.                                              *)
UpdateJobForRecovery(j, s, a, wait) ==
    /\ status[j] \notin NoRow
    /\ status' = [status EXCEPT ![j] = s]
    /\ fact' = [fact EXCEPT ![j] = s]
    /\ attempt' = [attempt EXCEPT ![j] = a]
    /\ backoff' = [backoff EXCEPT ![j] = wait]
    /\ UNCHANGED <<req, completedAt, claims, jobLog>>

OutstandingOf(p, c) ==
    {j \in Rows(Outstanding) : req[j].plugin = p /\ req[j].command = c}

(* Mutant: the rows are cancelled without their transition facts.          *)
CancelWithoutFact(p, c) ==
    LET cancelled == OutstandingOf(p, c)
    IN  /\ status' = [j \in JobId |->
                        IF j \in cancelled THEN "dead" ELSE status[j]]
        /\ completedAt' = [j \in JobId |-> j \in cancelled \/ completedAt[j]]
        /\ UNCHANGED <<attempt, req, backoff, fact, claims, jobLog>>

(* CancelOutstandingJobs marks every outstanding job of a target dead; the *)
(* worker of a running one is not told, and no job_log row is written.     *)
CancelOutstandingJobs(p, c) ==
    LET cancelled == OutstandingOf(p, c)
    IN  /\ status' = [j \in JobId |->
                        IF j \in cancelled THEN "dead" ELSE status[j]]
        /\ fact' = [j \in JobId |->
                        IF j \in cancelled THEN "dead" ELSE fact[j]]
        /\ completedAt' = [j \in JobId |-> j \in cancelled \/ completedAt[j]]
        /\ UNCHANGED <<attempt, req, backoff, claims, jobLog>>

(* PruneJobQueue deletes the terminal rows whose completed_at is older     *)
(* than the retention: some of the rows that have one.                     *)
PruneJobQueue(old) ==
    /\ old # {}
    /\ \A j \in old : status[j] \in Terminal /\ completedAt[j]
    /\ status' = [j \in JobId |-> IF j \in old THEN "gone" ELSE status[j]]
    /\ UNCHANGED <<attempt, req, backoff, completedAt, fact, claims, jobLog>>

(* Time passes: the next_retry_at of a job is reached.                     *)
RetryTimeReached(j) ==
    /\ backoff[j]
    /\ backoff' = [backoff EXCEPT ![j] = FALSE]
    /\ UNCHANGED <<status, attempt, req, completedAt, fact, claims, jobLog>>
-----------------------------------------------------------------------------
QueueTypeOK ==
    /\ status \in [JobId -> Status \cup NoRow]
    /\ attempt \in [JobId -> Nat]
    /\ req \in [JobId -> Request]
    /\ backoff \in [JobId -> BOOLEAN]
    /\ completedAt \in [JobId -> BOOLEAN]
    /\ fact \in [JobId -> Status \cup NoRow]
    /\ claims \in [JobId -> SUBSET Nat]
    /\ jobLog \in [JobId -> SUBSET (Nat \X Terminal)]
=============================================================================
