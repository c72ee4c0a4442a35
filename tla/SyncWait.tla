------------------------------ MODULE SyncWait ------------------------------
(***************************************************************************)
(* Synchronous pipeline calls: the API handler enqueues the root job and    *)
(* waits in WaitForJobTree while workers execute jobs, enqueue successors,  *)
(* complete rows and signal every waiter.  A reload moves the jobs to a     *)
(* dispatcher that knows no waiter.  What happens to a single job beyond    *)
(* that is module Dispatch; pipeline steps run the command "handle", which  *)
(* cannot be scheduled, so the scheduler cancels none of them.              *)
(***************************************************************************)
EXTENDS Integers, FiniteSets

CONSTANTS Requests,     \* synchronous requests
          Deployments,
          JobLimit      \* the largest of their bounds on jobs

VARIABLE deployment     \* chosen initially

Callers == deployment.callers      \* the requests that are made
MaxJobs == deployment.jobs         \* rows of job_queue
MaxSync == deployment.sync         \* api.max_concurrent_sync
MaxRetries == deployment.retries   \* retries in a behaviour
Reloads == deployment.reloads      \* whether a reload happens

ASSUME SyncAssumption ==
    \A d \in Deployments : /\ d.callers \subseteq Requests
                           /\ d.jobs \in 1 .. JobLimit /\ d.sync \in Nat \ {0}
                           /\ d.retries \in Nat /\ d.reloads \in BOOLEAN

Jobs == 1 .. MaxJobs
NoJob == 0

VARIABLES
    rows,         \* number of rows
    parent,       \* parent_job_id
    status,       \* job_queue.status
    worker,       \* the goroutine executing a job: off, exec, completed
    pc,           \* the handler of each request
    root,         \* job each request waits for
    tree,         \* rows read last: job -> status
    sem,          \* holders of the semaphore
    completions,  \* Dispatcher.completions: requests with a channel
    signal,       \* channels with a pending notification
    retries,
    moved         \* a reload happened

jobVars == <<rows, parent, status, worker, retries>>
reqVars == <<pc, root, tree, sem, completions>>
vars == <<jobVars, reqVars, signal, moved>>

Init ==
    /\ deployment \in Deployments
    /\ rows = 0 /\ retries = 0 /\ moved = FALSE
    /\ parent = [j \in Jobs |-> NoJob]
    /\ status = [j \in Jobs |-> "queued"] /\ worker = [j \in Jobs |-> "off"]
    /\ pc = [c \in Requests |-> "start"] /\ root = [c \in Requests |-> NoJob]
    /\ tree = [c \in Requests |-> <<>>]
    /\ sem = {} /\ completions = {} /\ signal = {}

\* job_tree, the recursive table of GetJobTree: the least set of rows that has
\* the root and the children of its rows.
ClosedUnder(r, S) == /\ r \in 1 .. rows => r \in S
                     /\ \A j \in 1 .. rows : parent[j] \in S => j \in S
Tree(r) == {j \in 1 .. rows : \A S \in SUBSET (1 .. rows) : ClosedUnder(r, S) => j \in S}
GetJobTree(r) == [j \in Tree(r) |-> status[j]]
jobTreeComplete(t) == \A j \in DOMAIN t : t[j] \notin {"queued", "running"}

-----------------------------------------------------------------------------
(* The handler of POST /pipeline/{pipeline} and WaitForJobTree.             *)

Insert(p) ==
    /\ rows < MaxJobs
    /\ rows' = rows + 1
    /\ parent' = [parent EXCEPT ![rows + 1] = p]

Trigger(c) ==
    /\ pc[c] = "start" /\ c \in Callers
    /\ Insert(NoJob)
    /\ root' = [root EXCEPT ![c] = rows + 1]
    /\ pc' = [pc EXCEPT ![c] = "queued"]
    /\ UNCHANGED <<status, worker, retries, tree, sem, completions, signal, moved>>

\* The semaphore is tried after the job was enqueued; without a slot the
\* answer is 503.
Acquire(c) ==
    /\ pc[c] = "queued"
    /\ \/ /\ Cardinality(sem) < MaxSync
          /\ sem' = sem \cup {c} /\ pc' = [pc EXCEPT ![c] = "register"]
       \/ /\ Cardinality(sem) >= MaxSync
          /\ pc' = [pc EXCEPT ![c] = "busy"] /\ UNCHANGED sem
    /\ UNCHANGED <<jobVars, root, tree, completions, signal, moved>>

Register(c) ==
    /\ pc[c] = "register"
    /\ completions' = completions \cup {c}
    /\ pc' = [pc EXCEPT ![c] = "read"]
    /\ UNCHANGED <<jobVars, root, tree, sem, signal, moved>>

\* The handler answers: its channel and its slot are given back.
Answer(c, how) ==
    /\ pc' = [pc EXCEPT ![c] = how]
    /\ completions' = completions \ {c}
    /\ signal' = signal \ {c}
    /\ sem' = sem \ {c}

\* settledJobTree, first read and confirmation.
ReadTree(c) ==
    /\ pc[c] = "read"
    /\ tree' = [tree EXCEPT ![c] = GetJobTree(root[c])]
    /\ pc' = [pc EXCEPT ![c] = IF jobTreeComplete(GetJobTree(root[c])) THEN "confirm" ELSE "wait"]
    /\ UNCHANGED <<jobVars, root, sem, completions, signal, moved>>

Confirm(c) ==
    LET t == GetJobTree(root[c])
    IN /\ pc[c] = "confirm"
       /\ tree' = [tree EXCEPT ![c] = t]
       /\ \/ /\ jobTreeComplete(t) /\ Cardinality(DOMAIN t) = Cardinality(DOMAIN tree[c])
             /\ Answer(c, "done")
          \/ /\ ~(jobTreeComplete(t) /\ Cardinality(DOMAIN t) = Cardinality(DOMAIN tree[c]))
             /\ pc' = [pc EXCEPT ![c] = "wait"]
             /\ UNCHANGED <<sem, completions, signal>>
       /\ UNCHANGED <<jobVars, root, moved>>

Wake(c) ==
    /\ pc[c] = "wait" /\ c \in signal
    /\ signal' = signal \ {c}
    /\ pc' = [pc EXCEPT ![c] = "read"]
    /\ UNCHANGED <<jobVars, root, tree, sem, completions, moved>>

\* 202: the pipeline goes on.
Timeout(c) ==
    /\ pc[c] = "wait"
    /\ Answer(c, "timeout")
    /\ UNCHANGED <<jobVars, root, tree, moved>>

\* The client went away.
Disconnect(c) ==
    /\ pc[c] = "wait"
    /\ Answer(c, "gone")
    /\ UNCHANGED <<jobVars, root, tree, moved>>

-----------------------------------------------------------------------------
(* Workers.                                                                 *)

Dequeue(j) ==
    /\ j <= rows /\ status[j] = "queued" /\ worker[j] = "off"
    /\ status' = [status EXCEPT ![j] = "running"]
    /\ worker' = [worker EXCEPT ![j] = "exec"]
    /\ UNCHANGED <<rows, parent, retries, reqVars, signal, moved>>

\* mutant: successors are also routed after the job was completed
EnqueueLate(j) ==
    /\ worker[j] \in {"exec", "completed"}
    /\ Insert(j)
    /\ UNCHANGED <<status, worker, retries, reqVars, signal, moved>>

\* routeEvents enqueues one successor.
EnqueueChild(j) ==
    /\ worker[j] = "exec"
    /\ Insert(j)
    /\ UNCHANGED <<status, worker, retries, reqVars, signal, moved>>

\* failOrRetry: only before anything was routed.
Retry(j) ==
    /\ worker[j] = "exec" /\ Tree(j) = {j} /\ retries < MaxRetries
    /\ retries' = retries + 1
    /\ status' = [status EXCEPT ![j] = "queued"]
    /\ worker' = [worker EXCEPT ![j] = "off"]
    /\ UNCHANGED <<rows, parent, reqVars, signal, moved>>

Complete(j) ==
    /\ worker[j] = "exec"
    /\ \E s \in {"succeeded", "failed"} : status' = [status EXCEPT ![j] = s]
    /\ worker' = [worker EXCEPT ![j] = "completed"]
    /\ UNCHANGED <<rows, parent, retries, reqVars, signal, moved>>

\* mutant: only the waiter of this job is told
NotifyRoot(j) ==
    /\ worker[j] = "completed"
    /\ worker' = [worker EXCEPT ![j] = "off"]
    /\ signal' = signal \cup {c \in completions : root[c] = j}
    /\ UNCHANGED <<rows, parent, status, retries, reqVars, moved>>

\* Every waiter of this dispatcher is told; a channel holds one notification.
notifyCompletion(j) ==
    /\ worker[j] = "completed"
    /\ worker' = [worker EXCEPT ![j] = "off"]
    /\ signal' = IF moved THEN signal ELSE signal \cup completions
    /\ UNCHANGED <<rows, parent, status, retries, reqVars, moved>>

\* A reload: the new runtime gives running rows back, its dispatcher has no
\* completion channels; the requests stay with the old server.
Reload ==
    /\ Reloads /\ ~moved
    /\ moved' = TRUE
    /\ status' = [j \in Jobs |-> IF status[j] = "running" THEN "queued" ELSE status[j]]
    /\ worker' = [j \in Jobs |-> "off"]
    /\ UNCHANGED <<rows, parent, retries, reqVars, signal>>

-----------------------------------------------------------------------------

Handler(c) ==
    Trigger(c) \/ Acquire(c) \/ Register(c) \/ ReadTree(c) \/ Confirm(c) \/ Wake(c)
Work(j) == Dequeue(j) \/ Complete(j) \/ notifyCompletion(j)
Next ==
    /\ \/ \E c \in Requests : Handler(c) \/ Timeout(c) \/ Disconnect(c)
       \/ \E j \in Jobs : Work(j) \/ EnqueueChild(j) \/ Retry(j)
       \/ Reload
    /\ UNCHANGED deployment

Spec == Init /\ [][Next]_<<vars, deployment>>

\* Goroutines run.  The timer of WaitForJobTree is relied on after a reload
\* only: nothing obliges it to fire while a wait lasts.
Fairness ==
    /\ \A c \in Requests : WF_vars(Handler(c)) /\ WF_vars(moved /\ Timeout(c))
    /\ \A j \in 1 .. JobLimit : WF_vars(j \in Jobs /\ Work(j))
FairSpec == Spec /\ Fairness

-----------------------------------------------------------------------------
\* A synchronous answer is the whole tree: every row below the root, all
\* ended, with the status they ended in, and nothing is added to the tree or
\* run again afterwards.
CompleteAnswer ==
    \A c \in Requests : pc[c] = "done" =>
      jobTreeComplete(tree[c]) /\ tree[c] = GetJobTree(root[c])

\* A request has a channel and a slot exactly while it waits, so slots are
\* neither lost nor given back twice on any way out.
SlotsHeld ==
    /\ completions = {c \in Requests : pc[c] \in {"read", "confirm", "wait"}}
    /\ sem = completions \cup {c \in Requests : pc[c] = "register"}
    /\ signal \subseteq completions /\ Cardinality(sem) <= MaxSync

\* What a call is told, and what it holds while it waits, are right.
CallsSound == CompleteAnswer /\ SlotsHeld

Ended(c) == pc[c] \in {"done", "timeout", "gone", "busy"}

\* No wake-up is lost: once the tree has ended the waiter answers, without
\* the help of its timer unless there was a reload, whichever job of the tree
\* ended last.
WakesUp ==
    \A c \in Requests :
      (pc[c] \in {"read", "confirm", "wait"} /\ jobTreeComplete(GetJobTree(root[c]))) ~> Ended(c)

\* Every request that was accepted is answered, also when a reload takes its
\* jobs to another dispatcher.
Answered == \A c \in Requests : pc[c] = "queued" ~> Ended(c)
=============================================================================
