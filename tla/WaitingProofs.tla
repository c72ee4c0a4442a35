---------------------------- MODULE WaitingProofs ---------------------------
(***************************************************************************)
(* Proofs about who waits for whom: the synchronous calls of SyncWait, for *)
(* every deployment, and the streams of EventHub, for any publishers,      *)
(* clients and capacities.                                                 *)
(***************************************************************************)
EXTENDS Waiting, FiniteSetTheorems, SequenceTheorems, TLAPS


TypeOK ==
    /\ deployment \in Deployments
    /\ rows \in 0 .. MaxJobs
    /\ parent \in [Jobs -> Int]
    /\ status \in [Jobs -> {"queued", "running", "succeeded", "failed"}]
    /\ worker \in [Jobs -> {"off", "exec", "completed"}]
    /\ pc \in [Requests -> {"start", "queued", "busy", "register", "read", "confirm", "wait", "done",
                            "timeout", "gone"}]
    /\ root \in [Requests -> Int] /\ tree = [c \in Requests |-> tree[c]]

(* A call waits for a row that exists.                                     *)
Rooted == \A c \in Requests : root[c] \in 0 .. rows

(* A worker executes a row that is running.                                *)
ExecIsRunning == \A j \in Jobs : worker[j] = "exec" => j <= rows /\ status[j] = "running"

IndInv == TypeOK /\ Rooted /\ ExecIsRunning /\ IsFiniteSet(sem) /\ CallsSound

-----------------------------------------------------------------------------
(* The bounds of a deployment are numbers, and it stays.                   *)
LEMMA DeploymentFacts ==
  ASSUME deployment \in Deployments
  PROVE  MaxJobs \in Nat /\ MaxSync \in Nat /\ Jobs \subseteq Nat \ {0}
BY SyncAssumption DEF MaxJobs, MaxSync, Jobs

(* The tree of a root is closed itself.                                    *)
LEMMA TreeClosed ==
  ASSUME rows \in Nat, NEW r
  PROVE  Tree(r) \subseteq 1 .. rows /\ ClosedUnder(r, Tree(r))
<1>1. Tree(r) \subseteq 1 .. rows
  BY DEF Tree
<1>2. r \in 1 .. rows => r \in Tree(r)
  BY DEF Tree, ClosedUnder
<1>3. ASSUME NEW j \in 1 .. rows, parent[j] \in Tree(r) PROVE j \in Tree(r)
  <2>1. ASSUME NEW S \in SUBSET (1 .. rows), ClosedUnder(r, S) PROVE j \in S
    <3>1. parent[j] \in S
      BY <1>3, <2>1 DEF Tree
    <3> QED
      BY <2>1, <3>1 DEF ClosedUnder
  <2> QED
    BY <2>1 DEF Tree
<1> QED
  BY <1>1, <1>2, <1>3 DEF ClosedUnder

(* Rows that are not touched make the same tree.                           *)
LEMMA SameTree ==
  ASSUME rows' = rows, \A j \in 1 .. rows : parent'[j] = parent[j], NEW r
  PROVE  Tree(r)' = Tree(r)
<1>1. \A S \in SUBSET (1 .. rows) : ClosedUnder(r, S)' <=> ClosedUnder(r, S)
  BY DEF ClosedUnder
<1> QED
  BY <1>1 DEF Tree

(* A new row is in the trees of its parent only.                           *)
LEMMA TreeWithoutRow ==
  ASSUME rows \in Nat, rows' = rows + 1, \A j \in 1 .. rows : parent'[j] = parent[j],
         NEW r \in Int, r # rows + 1, parent'[rows + 1] \notin Tree(r)
  PROVE  Tree(r)' = Tree(r)
<1>0. 1 .. rows' = (1 .. rows) \cup {rows + 1} /\ rows + 1 \notin 1 .. rows
  OBVIOUS
<1>c. Tree(r) \subseteq 1 .. rows /\ ClosedUnder(r, Tree(r))
  BY TreeClosed
<1>1. ClosedUnder(r, Tree(r)) => \A S : S = Tree(r) => ClosedUnder(r, S)'
  BY <1>0, <1>c DEF ClosedUnder
<1>2. ASSUME NEW j \in Tree(r)' PROVE j \in Tree(r)
  <2>1. ASSUME NEW S, S = Tree(r) PROVE j \in S
    BY <1>0, <1>1, <1>c, <1>2, <2>1 DEF Tree
  <2> QED
    BY <2>1
<1>3. ASSUME NEW j \in Tree(r) PROVE j \in Tree(r)'
  <2>1. ASSUME NEW S \in SUBSET (1 .. rows'), ClosedUnder(r, S)' PROVE j \in S
    <3>1. ClosedUnder(r, S \cap (1 .. rows))
      BY <1>0, <2>1 DEF ClosedUnder
    <3>2. S \cap (1 .. rows) \in SUBSET (1 .. rows)
      OBVIOUS
    <3> QED
      BY <1>3, <3>1, <3>2 DEF Tree
  <2>2. j \in 1 .. rows'
    BY <1>0, <1>3, <1>c
  <2> QED
    BY <2>1, <2>2 DEF Tree
<1> QED
  BY <1>2, <1>3

(* What a step may do to the rows: a job that has ended keeps its status,  *)
(* and a new row is a root or the child of a running job.                  *)
RowsMove ==
    /\ \A j \in 1 .. rows : status[j] \notin {"queued", "running"} => status'[j] = status[j]
    /\ \A j \in 1 .. rows : parent'[j] = parent[j]
    /\ \/ rows' = rows
       \/ /\ rows' = rows + 1
          /\ parent'[rows + 1] = NoJob \/ (parent'[rows + 1] \in 1 .. rows /\ status[parent'[rows + 1]] = "running")

(* A tree that has ended stays as it is.                                   *)
LEMMA EndedTreeStays ==
  ASSUME rows \in Nat, RowsMove, NEW r \in 0 .. rows, jobTreeComplete(GetJobTree(r))
  PROVE  GetJobTree(r)' = GetJobTree(r)
<1>1. \A j \in Tree(r) : j \in 1 .. rows /\ status[j] \notin {"queued", "running"}
  BY TreeClosed DEF jobTreeComplete, GetJobTree
<1>2. \A j \in Tree(r) : status'[j] = status[j]
  BY <1>1 DEF RowsMove
<1>3. CASE rows' = rows
  BY <1>2, <1>3, SameTree DEF RowsMove, GetJobTree
<1>4. CASE rows' = rows + 1
  <2>1. parent'[rows + 1] \notin Tree(r)
    BY <1>1, <1>4 DEF RowsMove, NoJob
  <2>2. Tree(r)' = Tree(r)
    BY <1>4, <2>1, TreeWithoutRow DEF RowsMove
  <2> QED
    BY <1>2, <2>2 DEF GetJobTree
<1> QED
  BY <1>3, <1>4 DEF RowsMove

(* So what a call was told, or is told now, stays true.                    *)
LEMMA AnswerKept ==
  ASSUME IndInv, RowsMove,
         \A c \in Requests : pc'[c] = "done" =>
            /\ root'[c] = root[c]
            /\ \/ pc[c] = "done" /\ tree'[c] = tree[c]
               \/ tree'[c] = GetJobTree(root[c]) /\ jobTreeComplete(tree'[c])
  PROVE  CompleteAnswer'
<1> SUFFICES ASSUME NEW c \in Requests, pc'[c] = "done"
             PROVE  jobTreeComplete(tree'[c]) /\ tree'[c] = GetJobTree(root[c])'
  BY DEF CompleteAnswer, jobTreeComplete
<1>1. /\ jobTreeComplete(tree'[c]) /\ tree'[c] = GetJobTree(root[c])
      /\ root[c] \in 0 .. rows /\ rows \in Nat
  BY DeploymentFacts DEF IndInv, CallsSound, CompleteAnswer, Rooted, TypeOK
<1>2. \A r \in 0 .. rows : r = root[c] => GetJobTree(r)' = GetJobTree(r)
  BY <1>1, EndedTreeStays
<1>3. \A r : r = root'[c] => GetJobTree(root[c])' = GetJobTree(r)'
  BY DEF GetJobTree, Tree, ClosedUnder
<1> QED
  BY <1>1, <1>2, <1>3

-----------------------------------------------------------------------------
(* No row, no call.                                                        *)
LEMMA InitInv == Init => IndInv
<1> SUFFICES ASSUME Init PROVE IndInv
  OBVIOUS
<1>d. MaxJobs \in Nat /\ MaxSync \in Nat /\ deployment \in Deployments
  BY DeploymentFacts DEF Init
<1>1. TypeOK /\ Rooted /\ ExecIsRunning
  BY <1>d DEF Init, TypeOK, Rooted, ExecIsRunning, NoJob
<1>2. IsFiniteSet(sem) /\ Cardinality(sem) = 0
  BY FS_EmptySet DEF Init
<1>3. CompleteAnswer
  BY DEF Init, CompleteAnswer
<1>4. SlotsHeld
  BY <1>d, <1>2 DEF Init, SlotsHeld
<1> QED
  BY <1>1, <1>2, <1>3, <1>4 DEF IndInv, CallsSound

(* A handler that leaves the rows alone.                                   *)
LEMMA RowsAlone ==
  ASSUME IndInv, deployment' = deployment, UNCHANGED jobVars, root' = root,
         pc' \in [Requests -> {"start", "queued", "busy", "register", "read", "confirm", "wait", "done",
                               "timeout", "gone"}],
         tree' = [c \in Requests |-> tree'[c]]
  PROVE  TypeOK' /\ Rooted' /\ ExecIsRunning' /\ RowsMove
<1>1. UNCHANGED <<rows, parent, status, worker, retries>>
  BY DEF jobVars
<1>2. TypeOK'
  BY <1>1 DEF IndInv, TypeOK, Jobs, MaxJobs
<1> QED
  BY <1>1, <1>2 DEF IndInv, Rooted, ExecIsRunning, RowsMove, Jobs, MaxJobs

(* A slot is taken if one is free, otherwise the call is turned away.      *)
LEMMA AcquireStep ==
  ASSUME IndInv, deployment' = deployment, NEW c \in Requests, Acquire(c)
  PROVE  IndInv'
<1>t. TypeOK /\ SlotsHeld /\ IsFiniteSet(sem)
  BY DEF IndInv, CallsSound
<1>1. /\ UNCHANGED <<root, tree, completions, signal>> /\ UNCHANGED jobVars
      /\ pc[c] = "queued" /\ c \notin sem
      /\ pc' \in [Requests -> {"start", "queued", "busy", "register", "read", "confirm", "wait", "done",
                               "timeout", "gone"}]
      /\ \A d \in Requests \ {c} : pc'[d] = pc[d]
      /\ \/ pc'[c] = "register" /\ sem' = sem \cup {c} /\ Cardinality(sem) < MaxSync
         \/ pc'[c] = "busy" /\ sem' = sem
  BY <1>t DEF Acquire, TypeOK, SlotsHeld
<1>2. TypeOK' /\ Rooted' /\ ExecIsRunning' /\ RowsMove
  BY <1>1, <1>t, RowsAlone DEF TypeOK
<1>3. IsFiniteSet(sem') /\ Cardinality(sem') <= MaxSync'
  <2>1. Cardinality(sem) \in Nat /\ MaxSync \in Nat /\ MaxSync' = MaxSync
    BY <1>t, FS_CardinalityType, DeploymentFacts DEF TypeOK, MaxSync
  <2>2. IsFiniteSet(sem \cup {c}) /\ Cardinality(sem \cup {c}) = Cardinality(sem) + 1
    BY <1>1, <1>t, FS_AddElement
  <2> QED
    BY <1>1, <1>t, <2>1, <2>2 DEF SlotsHeld
<1>4. CompleteAnswer'
  BY <1>1, <1>2, AnswerKept
<1>5. SlotsHeld'
  BY <1>1, <1>3, <1>t DEF SlotsHeld
<1> QED
  BY <1>2, <1>3, <1>4, <1>5 DEF IndInv, CallsSound

(* The channel is made before the tree is read.                            *)
LEMMA RegisterStep ==
  ASSUME IndInv, deployment' = deployment, NEW c \in Requests, Register(c)
  PROVE  IndInv'
<1>t. TypeOK /\ SlotsHeld /\ IsFiniteSet(sem)
  BY DEF IndInv, CallsSound
<1>1. /\ UNCHANGED <<root, tree, sem, signal>> /\ UNCHANGED jobVars
      /\ pc[c] = "register" /\ completions' = completions \cup {c}
      /\ pc' \in [Requests -> {"start", "queued", "busy", "register", "read", "confirm", "wait", "done",
                               "timeout", "gone"}]
      /\ pc'[c] = "read" /\ \A d \in Requests \ {c} : pc'[d] = pc[d]
  BY <1>t DEF Register, TypeOK
<1>2. TypeOK' /\ Rooted' /\ ExecIsRunning' /\ RowsMove
  BY <1>1, <1>t, RowsAlone DEF TypeOK
<1>4. CompleteAnswer'
  BY <1>1, <1>2, AnswerKept
<1>5. SlotsHeld'
  <2>1. completions' = {d \in Requests : pc'[d] \in {"read", "confirm", "wait"}}
    BY <1>1, <1>t DEF SlotsHeld
  <2>2. sem' = completions' \cup {d \in Requests : pc'[d] = "register"}
    BY <1>1, <1>t DEF SlotsHeld
  <2> QED
    BY <1>1, <1>t, <2>1, <2>2 DEF SlotsHeld, MaxSync
<1> QED
  BY <1>1, <1>2, <1>4, <1>5, <1>t DEF IndInv, CallsSound

(* The handler reads the tree, wakes up, or reads it again and goes on     *)
(* waiting: it keeps its channel and its slot.                             *)
LEMMA WaitingSteps ==
  ASSUME IndInv, deployment' = deployment, NEW c \in Requests, pc[c] \in {"read", "confirm", "wait"},
         UNCHANGED <<root, sem, completions>>, UNCHANGED jobVars, signal' \subseteq signal,
         tree' = tree \/ \E t : tree' = [tree EXCEPT ![c] = t],
         \E w \in {"read", "confirm", "wait"} : pc' = [pc EXCEPT ![c] = w]
  PROVE  IndInv'
<1>t. TypeOK /\ SlotsHeld /\ IsFiniteSet(sem)
  BY DEF IndInv, CallsSound
<1>1. /\ pc' \in [Requests -> {"start", "queued", "busy", "register", "read", "confirm", "wait", "done",
                               "timeout", "gone"}]
      /\ pc'[c] \in {"read", "confirm", "wait"} /\ \A d \in Requests \ {c} : pc'[d] = pc[d]
  BY <1>t DEF TypeOK
<1>s. tree' = [d \in Requests |-> tree'[d]] /\ \A d \in Requests \ {c} : tree'[d] = tree[d]
  BY <1>t DEF TypeOK
<1>2. TypeOK' /\ Rooted' /\ ExecIsRunning' /\ RowsMove
  BY <1>1, <1>s, RowsAlone
<1>4. CompleteAnswer'
  BY <1>1, <1>2, <1>s, AnswerKept
<1>5. SlotsHeld'
  <2>1. completions' = {d \in Requests : pc'[d] \in {"read", "confirm", "wait"}}
    BY <1>1, <1>t DEF SlotsHeld
  <2>2. sem' = completions' \cup {d \in Requests : pc'[d] = "register"}
    BY <1>1, <1>t DEF SlotsHeld
  <2> QED
    BY <1>t, <2>1, <2>2 DEF SlotsHeld, MaxSync
<1> QED
  BY <1>2, <1>4, <1>5, <1>t DEF IndInv, CallsSound

(* The handler answers, and gives back its channel and its slot; an answer *)
(* with a tree is the tree as it is now, all of it ended.                  *)
LEMMA AnswerSteps ==
  ASSUME IndInv, deployment' = deployment, NEW c \in Requests, pc[c] \in {"read", "confirm", "wait"},
         NEW how \in {"done", "timeout", "gone"}, Answer(c, how),
         UNCHANGED root, UNCHANGED jobVars,
         \/ how # "done" /\ tree' = tree
         \/ tree' = [tree EXCEPT ![c] = GetJobTree(root[c])] /\ jobTreeComplete(GetJobTree(root[c]))
  PROVE  IndInv'
<1>t. TypeOK /\ SlotsHeld /\ IsFiniteSet(sem)
  BY DEF IndInv, CallsSound
<1>1. /\ pc' \in [Requests -> {"start", "queued", "busy", "register", "read", "confirm", "wait", "done",
                               "timeout", "gone"}]
      /\ pc'[c] = how /\ \A d \in Requests \ {c} : pc'[d] = pc[d]
      /\ completions' = completions \ {c} /\ signal' = signal \ {c} /\ sem' = sem \ {c}
  BY <1>t DEF TypeOK, Answer
<1>s. /\ tree' = [d \in Requests |-> tree'[d]] /\ \A d \in Requests \ {c} : tree'[d] = tree[d]
      /\ how = "done" => tree'[c] = GetJobTree(root[c]) /\ jobTreeComplete(tree'[c])
  BY <1>t DEF TypeOK
<1>2. TypeOK' /\ Rooted' /\ ExecIsRunning' /\ RowsMove
  BY <1>1, <1>s, RowsAlone
<1>3. IsFiniteSet(sem') /\ Cardinality(sem') <= MaxSync'
  <2>1. Cardinality(sem) \in Nat /\ MaxSync \in Nat /\ MaxSync' = MaxSync
    BY <1>t, FS_CardinalityType, DeploymentFacts DEF TypeOK, MaxSync
  <2>2. IsFiniteSet(sem \ {c}) /\ Cardinality(sem \ {c}) \in Nat /\ Cardinality(sem \ {c}) <= Cardinality(sem)
    BY <1>t, FS_Subset, FS_CardinalityType
  <2> QED
    BY <1>1, <1>t, <2>1, <2>2 DEF SlotsHeld
<1>4. CompleteAnswer'
  BY <1>1, <1>2, <1>s, AnswerKept
<1>5. SlotsHeld'
  <2>1. completions' = {d \in Requests : pc'[d] \in {"read", "confirm", "wait"}}
    BY <1>1, <1>t DEF SlotsHeld
  <2>2. sem' = completions' \cup {d \in Requests : pc'[d] = "register"}
    BY <1>1, <1>t DEF SlotsHeld
  <2> QED
    BY <1>1, <1>3, <1>t, <2>1, <2>2 DEF SlotsHeld
<1> QED
  BY <1>2, <1>3, <1>4, <1>5 DEF IndInv, CallsSound

(* The handler of a call, after the job was enqueued.                      *)
LEMMA HandlerSteps ==
  ASSUME IndInv, deployment' = deployment, NEW c \in Requests,
         Acquire(c) \/ Register(c) \/ ReadTree(c) \/ Confirm(c) \/ Wake(c) \/ Timeout(c) \/ Disconnect(c)
  PROVE  IndInv'
<1>1. CASE Acquire(c)
  BY <1>1, AcquireStep
<1>2. CASE Register(c)
  BY <1>2, RegisterStep
<1>3. CASE ReadTree(c)
  BY <1>3, WaitingSteps DEF ReadTree
<1>4. CASE Confirm(c)
  <2> DEFINE t == GetJobTree(root[c])
  <2>1. /\ pc[c] = "confirm" /\ tree' = [tree EXCEPT ![c] = t] /\ UNCHANGED jobVars /\ root' = root
        /\ \/ jobTreeComplete(t) /\ Answer(c, "done")
           \/ pc' = [pc EXCEPT ![c] = "wait"] /\ UNCHANGED <<sem, completions, signal>>
    BY <1>4 DEF Confirm
  <2>2. CASE jobTreeComplete(t) /\ Answer(c, "done")
    BY <2>1, <2>2, AnswerSteps
  <2>3. CASE pc' = [pc EXCEPT ![c] = "wait"] /\ UNCHANGED <<sem, completions, signal>>
    BY <2>1, <2>3, WaitingSteps
  <2> QED
    BY <2>1, <2>2, <2>3
<1>5. CASE Wake(c)
  BY <1>5, WaitingSteps DEF Wake
<1>6. CASE Timeout(c)
  BY <1>6, AnswerSteps DEF Timeout
<1>7. CASE Disconnect(c)
  BY <1>7, AnswerSteps DEF Disconnect
<1> QED
  BY <1>1, <1>2, <1>3, <1>4, <1>5, <1>6, <1>7

-----------------------------------------------------------------------------
(* A new root: the call waits for it, and no other call does.              *)
LEMMA TriggerStep ==
  ASSUME IndInv, deployment' = deployment, NEW c \in Requests, Trigger(c)
  PROVE  IndInv'
<1>t. TypeOK /\ SlotsHeld /\ IsFiniteSet(sem) /\ MaxJobs \in Nat /\ Rooted
  BY DeploymentFacts DEF IndInv, CallsSound, TypeOK
<1>1. /\ UNCHANGED <<status, worker, tree, sem, completions, signal>>
      /\ pc[c] = "start" /\ rows < MaxJobs /\ rows' = rows + 1
      /\ parent' \in [Jobs -> Int] /\ parent'[rows + 1] = NoJob
      /\ \A j \in 1 .. rows : parent'[j] = parent[j]
      /\ root' \in [Requests -> Int] /\ root'[c] = rows + 1
      /\ pc' \in [Requests -> {"start", "queued", "busy", "register", "read", "confirm", "wait", "done",
                               "timeout", "gone"}]
      /\ pc'[c] = "queued" /\ \A d \in Requests \ {c} : pc'[d] = pc[d] /\ root'[d] = root[d]
  BY <1>t DEF Trigger, Insert, TypeOK, NoJob, Jobs
<1>2. TypeOK'
  BY <1>1, <1>t DEF TypeOK, Jobs, MaxJobs
<1>3. Rooted' /\ ExecIsRunning' /\ RowsMove
  <2>1. rows \in Nat
    BY <1>t DEF TypeOK
  <2>2. Rooted'
    BY <1>1, <1>t, <2>1 DEF Rooted
  <2>3. ExecIsRunning'
    BY <1>1, <2>1 DEF IndInv, ExecIsRunning, Jobs, MaxJobs
  <2> QED
    BY <1>1, <2>2, <2>3 DEF RowsMove
<1>4. CompleteAnswer'
  BY <1>1, <1>3, AnswerKept
<1>5. SlotsHeld'
  <2>1. completions' = {d \in Requests : pc'[d] \in {"read", "confirm", "wait"}}
    BY <1>1, <1>t DEF SlotsHeld
  <2>2. sem' = completions' \cup {d \in Requests : pc'[d] = "register"}
    BY <1>1, <1>t DEF SlotsHeld
  <2> QED
    BY <1>1, <1>t, <2>1, <2>2 DEF SlotsHeld, MaxSync
<1> QED
  BY <1>1, <1>2, <1>3, <1>4, <1>5, <1>t DEF IndInv, CallsSound

(* A step of the workers: they leave the requests alone, except that a     *)
(* completion tells waiters.                                               *)
LEMMA WorkersKeep ==
  ASSUME IndInv, deployment' = deployment, UNCHANGED reqVars,
         signal' \subseteq signal \cup completions,
         TypeOK', Rooted', ExecIsRunning', RowsMove
  PROVE  IndInv'
<1>1. UNCHANGED <<pc, root, tree, sem, completions>>
  BY DEF reqVars
<1>2. CompleteAnswer'
  BY <1>1, AnswerKept
<1>3. SlotsHeld'
  BY <1>1 DEF IndInv, CallsSound, SlotsHeld, MaxSync
<1> QED
  BY <1>1, <1>2, <1>3 DEF IndInv, CallsSound

(* A successor is enqueued while its parent is running.                    *)
LEMMA EnqueueChildStep ==
  ASSUME IndInv, deployment' = deployment, NEW i \in Jobs, EnqueueChild(i)
  PROVE  IndInv'
<1>t. TypeOK /\ MaxJobs \in Nat
  BY DeploymentFacts DEF IndInv, TypeOK
<1>1. /\ UNCHANGED <<status, worker, signal>> /\ UNCHANGED reqVars
      /\ i \in 1 .. rows /\ status[i] = "running"
      /\ rows < MaxJobs /\ rows' = rows + 1
      /\ parent' \in [Jobs -> Int] /\ parent'[rows + 1] = i
      /\ \A j \in 1 .. rows : parent'[j] = parent[j]
  BY <1>t DEF EnqueueChild, Insert, TypeOK, Jobs, IndInv, ExecIsRunning
<1>r. UNCHANGED <<pc, root, tree>>
  BY <1>1 DEF reqVars
<1>2. TypeOK'
  BY <1>1, <1>r, <1>t DEF TypeOK, Jobs, MaxJobs
<1>3. Rooted' /\ ExecIsRunning' /\ RowsMove
  BY <1>1, <1>r, <1>t DEF IndInv, Rooted, ExecIsRunning, RowsMove, TypeOK, Jobs, MaxJobs
<1> QED
  BY <1>1, <1>2, <1>3, WorkersKeep

(* Rows are claimed, retried, completed, or given back by a reload: only   *)
(* rows that have not ended change their status.                           *)
LEMMA StatusSteps ==
  ASSUME IndInv, deployment' = deployment,
         (\E j \in Jobs : Dequeue(j) \/ Complete(j) \/ notifyCompletion(j) \/ Retry(j)) \/ Reload
  PROVE  IndInv'
<1>t. TypeOK /\ ExecIsRunning /\ MaxJobs \in Nat /\ SlotsHeld
  BY DeploymentFacts DEF IndInv, TypeOK, CallsSound
<1>1. /\ UNCHANGED <<rows, parent>> /\ UNCHANGED reqVars /\ signal' \subseteq signal \cup completions
      /\ status' \in [Jobs -> {"queued", "running", "succeeded", "failed"}]
      /\ worker' \in [Jobs -> {"off", "exec", "completed"}]
      /\ \A j \in Jobs : worker'[j] = "exec" => j <= rows /\ status'[j] = "running"
      /\ \A j \in Jobs : status[j] \notin {"queued", "running"} => status'[j] = status[j]
  <2>1. CASE \E j \in Jobs : Dequeue(j)
    BY <1>t, <2>1 DEF Dequeue, TypeOK, ExecIsRunning
  <2>2. CASE \E j \in Jobs : Complete(j)
    BY <1>t, <2>2 DEF Complete, TypeOK, ExecIsRunning
  <2>3. CASE \E j \in Jobs : notifyCompletion(j)
    BY <1>t, <2>3 DEF notifyCompletion, TypeOK, ExecIsRunning
  <2>4. CASE \E j \in Jobs : Retry(j)
    BY <1>t, <2>4 DEF Retry, TypeOK, ExecIsRunning
  <2>5. CASE Reload
    BY <1>t, <2>5 DEF Reload, TypeOK, ExecIsRunning
  <2> QED
    BY <2>1, <2>2, <2>3, <2>4, <2>5
<1>r. UNCHANGED <<pc, root, tree>>
  BY <1>1 DEF reqVars
<1>2. TypeOK'
  BY <1>1, <1>r, <1>t DEF TypeOK, Jobs, MaxJobs
<1>3. Rooted' /\ ExecIsRunning' /\ RowsMove
  BY <1>1, <1>r, <1>t DEF IndInv, Rooted, ExecIsRunning, RowsMove, TypeOK, Jobs, MaxJobs
<1> QED
  BY <1>1, <1>2, <1>3, WorkersKeep

(* Every step keeps the invariant.                                         *)
LEMMA NextInv == IndInv /\ [Next]_<<vars, deployment>> => IndInv'
<1> SUFFICES ASSUME IndInv, [Next]_<<vars, deployment>> PROVE IndInv'
  OBVIOUS
<1>1. ASSUME Next PROVE IndInv'
  <2>0. deployment' = deployment
    BY <1>1 DEF Next
  <2>1. CASE \E c \in Requests : Handler(c) \/ Timeout(c) \/ Disconnect(c)
    BY <2>0, <2>1, HandlerSteps, TriggerStep DEF Handler
  <2>2. CASE \E j \in Jobs : EnqueueChild(j)
    BY <2>0, <2>2, EnqueueChildStep
  <2>3. CASE (\E j \in Jobs : Work(j) \/ Retry(j)) \/ Reload
    BY <2>0, <2>3, StatusSteps DEF Work
  <2> QED
    BY <1>1, <2>1, <2>2, <2>3 DEF Next
<1>2. CASE UNCHANGED <<vars, deployment>>
  <2>1. UNCHANGED <<jobVars, reqVars, signal, deployment>> /\ UNCHANGED <<pc, root, tree>>
    BY <1>2 DEF vars, reqVars
  <2>2. TypeOK' /\ Rooted' /\ ExecIsRunning' /\ RowsMove
    BY <2>1, RowsAlone DEF IndInv, TypeOK
  <2> QED
    BY <2>1, <2>2, WorkersKeep
<1> QED
  BY <1>1, <1>2

-----------------------------------------------------------------------------
(* What a synchronous call is told is the whole tree, ended and for good,  *)
(* whatever the workers and a reload do meanwhile (settledJobTree reads    *)
(* twice and successors are enqueued before their parent completes); and a *)
(* call holds a channel and a slot exactly while it waits.                 *)
THEOREM CallsAreSound == Spec => []CallsSound
<1>1. IndInv => CallsSound
  BY DEF IndInv
<1> QED
  BY InitInv, NextInv, <1>1, PTL DEF Spec

-----------------------------------------------------------------------------
(***************************************************************************)
(* The event hub.                                                          *)
(***************************************************************************)

Id == Nat \ {0}

HubTypeOK ==
    /\ nextID \in Nat /\ pending \in [Publishers -> Nat] /\ log \in Seq(Id)
    /\ ring \in [0 .. Capacity - 1 -> Nat] /\ start \in 0 .. Capacity - 1 /\ size \in 0 .. Capacity
    /\ conn \in [Clients -> {"off", "replayed", "open"}]
    /\ chan \in [Clients -> Seq(Id)] /\ got \in [Clients -> Seq(Id)] /\ live \in [Clients -> Seq(Id)]
    /\ last \in [Clients -> Nat] /\ since \in [Clients -> Nat] /\ dropped \in [Clients -> BOOLEAN]

(* Until the ring is full it is filled from its first slot.                *)
RingInv == Hub!RingIsRecent /\ (size < Capacity => start = 0)

StreamInv == Hub!StreamComplete /\ \A c \in Clients : since[c] <= Len(log)

(* Last-Event-ID is the id of the latest event a client got; its channel   *)
(* exists while it is subscribed and holds what fits; and both have events *)
(* that were stored.                                                       *)
Stored(s, l) == \A i \in DOMAIN s : \E k \in DOMAIN l : s[i] = l[k]
ClientInv ==
    \A c \in Clients :
        /\ last[c] = IF got[c] = <<>> THEN 0 ELSE got[c][Len(got[c])]
        /\ conn[c] # "open" => chan[c] = <<>>
        /\ Stored(got[c], log) /\ Stored(chan[c], log) /\ Len(chan[c]) <= Buffer

(* What is still to come is younger than what was received.                *)
OrderInv ==
    Hub!Ascending(log) =>
        \A c \in Clients :
            /\ Hub!Ascending(got[c]) /\ Hub!Ascending(chan[c])
            /\ \A i \in DOMAIN chan[c] : chan[c][i] > last[c]

HubIndInv == HubTypeOK /\ RingInv /\ StreamInv /\ ClientInv /\ OrderInv

(* The hub counts as FiniteSets does.                                      *)
LEMMA SameCardinality == \A S : Hub!Cardinality(S) = Cardinality(S)
  BY DEF Hub!Cardinality, Cardinality

-----------------------------------------------------------------------------
(* In a set of indices every rank is taken, so Nth enumerates it upwards.  *)
LEMMA NthFacts ==
  ASSUME NEW n \in Nat, NEW S \in SUBSET (1 .. n)
  PROVE  /\ Cardinality(S) \in Nat
         /\ \A k \in 1 .. Cardinality(S) : Hub!Nth(S, k) \in S
         /\ \A j, k \in 1 .. Cardinality(S) : j < k => Hub!Nth(S, j) < Hub!Nth(S, k)
<1> DEFINE Upto(i) == {j \in S : j <= i}
           rank == [i \in S |-> Cardinality(Upto(i))]
<1>1. /\ IsFiniteSet(S) /\ Cardinality(S) \in Nat
      /\ \A i \in S : i \in Nat
  <2>1. IsFiniteSet(1 .. n)
    BY FS_Interval
  <2>2. IsFiniteSet(S)
    BY <2>1, FS_Subset
  <2>3. \A i \in S : i \in Nat
    OBVIOUS
  <2> QED
    BY <2>2, <2>3, FS_CardinalityType
<1>2. \A i \in S : IsFiniteSet(Upto(i)) /\ Cardinality(Upto(i)) \in Nat
  BY <1>1, FS_Subset, FS_CardinalityType
<1>3. \A i \in S : Cardinality(Upto(i)) \in 1 .. Cardinality(S)
  <2> TAKE i \in S
  <2>1. Cardinality(Upto(i)) <= Cardinality(S)
    BY <1>1, FS_Subset
  <2>2. {i} \in SUBSET Upto(i) /\ Cardinality({i}) = 1
    BY <1>1, FS_Singleton
  <2>3. 1 <= Cardinality(Upto(i))
    BY <1>2, <2>2, FS_Subset
  <2> QED
    BY <1>1, <1>2, <2>1, <2>3
<1>4. \A i, j \in S : i < j => Cardinality(Upto(i)) < Cardinality(Upto(j))
  <2> SUFFICES ASSUME NEW i \in S, NEW j \in S, i < j
               PROVE  Cardinality(Upto(i)) < Cardinality(Upto(j))
    OBVIOUS
  <2>1. /\ Upto(i) \in SUBSET Upto(j)
        /\ j \in Upto(j) /\ j \notin Upto(i)
    <3>1. \A x \in S : x <= i => x <= j
      BY <1>1
    <3>2. j <= j /\ ~(j <= i)
      BY <1>1
    <3> QED
      BY <3>1, <3>2
  <2>2. Cardinality(Upto(i)) <= Cardinality(Upto(j)) /\ Cardinality(Upto(i)) # Cardinality(Upto(j))
    BY <1>2, <2>1, FS_Subset
  <2> QED
    BY <1>2, <2>2
<1>5. rank \in Injection(S, 1 .. Cardinality(S))
  <2>1. rank \in [S -> 1 .. Cardinality(S)]
    BY <1>3
  <2>2. \A i, j \in S : rank[i] = rank[j] => i = j
    BY <1>1, <1>2, <1>4
  <2> QED
    BY <2>1, <2>2 DEF Injection, IsInjective
<1>6. rank \in Surjection(S, 1 .. Cardinality(S))
  <2>1. IsFiniteSet(1 .. Cardinality(S)) /\ Cardinality(1 .. Cardinality(S)) = Cardinality(S)
    BY <1>1, FS_Interval
  <2> QED
    BY <1>5, <2>1, FS_Injection
<1>7. \A k \in 1 .. Cardinality(S) : \E i \in S : Cardinality(Upto(i)) = k
  BY <1>6 DEF Surjection
<1>8. \A k \in 1 .. Cardinality(S) : Hub!Nth(S, k) \in S /\ Cardinality(Upto(Hub!Nth(S, k))) = k
  BY <1>7, SameCardinality DEF Hub!Nth
<1>9. ASSUME NEW j \in 1 .. Cardinality(S), NEW k \in 1 .. Cardinality(S), j < k
      PROVE  Hub!Nth(S, j) < Hub!Nth(S, k)
  <2>1. Hub!Nth(S, j) \in S /\ Hub!Nth(S, k) \in S
    BY <1>8
  <2>2. CASE Hub!Nth(S, k) < Hub!Nth(S, j)
    <3>1. Cardinality(Upto(Hub!Nth(S, k))) < Cardinality(Upto(Hub!Nth(S, j)))
      BY <1>4, <2>1, <2>2
    <3> QED
      BY <1>8, <1>9, <3>1
  <2>3. CASE Hub!Nth(S, k) = Hub!Nth(S, j)
    <3>1. j = k
      BY <1>8, <2>3
    <3> QED
      BY <1>1, <1>9, <3>1
  <2>4. \A x, y \in Nat : x < y \/ y < x \/ y = x
    OBVIOUS
  <2>5. Hub!Nth(S, j) \in Nat /\ Hub!Nth(S, k) \in Nat
    BY <1>1, <2>1
  <2> QED
    BY <2>2, <2>3, <2>4, <2>5
<1> QED
  BY <1>1, <1>8, <1>9

(* The index of a slot that wraps around at most once.                     *)
LEMMA Wraps ==
  ASSUME NEW C \in Nat \ {0}, NEW a \in 0 .. 2 * C - 1
  PROVE  a % C = IF a < C THEN a ELSE a - C
OBVIOUS

-----------------------------------------------------------------------------
(* Initially nothing is published and nobody is connected.                 *)
LEMMA HubInitInv == ASSUME Hub!HubAssumption PROVE Hub!Init => HubIndInv
<1> SUFFICES ASSUME Hub!Init PROVE HubIndInv
  OBVIOUS
<1>1. Capacity \in Nat \ {0} /\ Buffer \in Nat \ {0}
  BY DEF Hub!HubAssumption
<1>2. HubTypeOK
  BY <1>1 DEF Hub!Init, HubTypeOK, Id
<1>3. RingInv /\ StreamInv /\ ClientInv /\ OrderInv
  BY <1>1 DEF Hub!Init, RingInv, Hub!RingIsRecent, StreamInv, Hub!StreamComplete, Hub!Open, ClientInv, Stored,
              OrderInv, Hub!Ascending
<1> QED
  BY <1>2, <1>3 DEF HubIndInv

(* pushLocked keeps the ring the end of the log, whether the ring is still *)
(* being filled or its oldest event is overwritten.                        *)
LEMMA PushKeeps ==
  ASSUME Hub!HubAssumption, HubTypeOK, RingInv, NEW id \in Id, Hub!pushLocked(id), log' = Append(log, id)
  PROVE  /\ RingInv'
         /\ ring' \in [0 .. Capacity - 1 -> Nat] /\ start' \in 0 .. Capacity - 1 /\ size' \in 0 .. Capacity
<1> DEFINE C == Capacity
           L == Len(log)
           Slot(a) == a % C
<1>1. /\ C \in Nat \ {0} /\ L \in Nat /\ id \in Nat
      /\ ring \in [0 .. C - 1 -> Nat] /\ start \in 0 .. C - 1 /\ size \in 0 .. C
  BY DEF Hub!HubAssumption, HubTypeOK, Id
<1>2. /\ Len(log') = L + 1 /\ log'[L + 1] = id
      /\ \A i \in 1 .. L : log'[i] = log[i]
  BY DEF HubTypeOK
<1>3. /\ size = (IF L < C THEN L ELSE C) /\ (size < C => start = 0)
      /\ \A i \in 1 .. size : ring[Slot(start + i - 1)] = log[L - size + i]
  BY DEF RingInv, Hub!RingIsRecent, Hub!Buffered
<1>4. \A a \in 0 .. 2 * C - 1 : Slot(a) = IF a < C THEN a ELSE a - C
  BY <1>1, Wraps
<1>5. \A i \in 1 .. size' : Hub!Buffered'[i] = ring'[Slot(start' + i - 1)]
  BY DEF Hub!Buffered
<1>6. /\ ring' = [ring EXCEPT ![IF size < C THEN Slot(start + size) ELSE start] = id]
      /\ size' = IF size < C THEN size + 1 ELSE size
      /\ start' = IF size < C THEN start ELSE Slot(start + 1)
  BY DEF Hub!pushLocked
<1> HIDE DEF Slot
<1>7. CASE size < C
  <2>1. start = 0 /\ size = L /\ L \in 0 .. C - 1
    BY <1>1, <1>3, <1>7
  <2>2. \A i \in 0 .. C - 1 : Slot(i) = i
    BY <1>1, <1>4
  <2>3. size' = L + 1 /\ start' = 0 /\ ring' = [ring EXCEPT ![L] = id]
    <3>1. start + size = L
      BY <1>1, <2>1
    <3> QED
      BY <1>6, <1>7, <2>1, <2>2, <3>1
  <2>4. \A i \in 1 .. L : ring[i - 1] = log[i]
    <3> TAKE i \in 1 .. L
    <3>1. start + i - 1 = i - 1 /\ L - size + i = i /\ i - 1 \in 0 .. C - 1
      BY <1>1, <2>1
    <3> QED
      BY <1>3, <2>1, <2>2, <3>1
  <2>5. \A i \in 1 .. L + 1 : ring'[i - 1] = log'[i]
    <3> TAKE i \in 1 .. L + 1
    <3>1. CASE i = L + 1
      <4>1. i - 1 = L
        BY <1>1, <3>1
      <4> QED
        BY <1>1, <1>2, <2>1, <2>3, <3>1, <4>1
    <3>2. CASE i \in 1 .. L
      <4>1. i - 1 # L /\ i - 1 \in 0 .. C - 1
        BY <1>1, <2>1, <3>2
      <4>2. ring'[i - 1] = ring[i - 1]
        BY <1>1, <2>3, <4>1
      <4> QED
        BY <1>2, <2>4, <3>2, <4>2
    <3> QED
      BY <1>1, <3>1, <3>2
  <2>6. \A i \in 1 .. size' : Hub!Buffered'[i] = log'[Len(log') - size' + i]
    <3> TAKE i \in 1 .. size'
    <3>1. /\ start' + i - 1 = i - 1 /\ i - 1 \in 0 .. C - 1
          /\ Len(log') - size' + i = i /\ i \in 1 .. L + 1
      BY <1>1, <1>2, <2>1, <2>3
    <3> QED
      BY <1>5, <2>2, <2>5, <3>1
  <2>7. Hub!RingIsRecent'
    <3>1. size' = (IF Len(log') < C THEN Len(log') ELSE C)
      BY <1>1, <1>2, <2>1, <2>3
    <3> QED
      BY <2>6, <3>1 DEF Hub!RingIsRecent
  <2> QED
    BY <1>1, <2>1, <2>3, <2>7 DEF RingInv
<1>8. CASE ~(size < C)
  <2>1. size = C /\ L >= C
    BY <1>1, <1>3, <1>8
  <2>2. size' = C /\ start' = Slot(start + 1) /\ ring' = [ring EXCEPT ![start] = id]
    BY <1>6, <1>8, <2>1
  <2>3. start' = (IF start + 1 < C THEN start + 1 ELSE 0) /\ start' \in 0 .. C - 1
    <3>1. start + 1 \in 0 .. 2 * C - 1
      BY <1>1
    <3> QED
      BY <1>1, <1>4, <2>2, <3>1
  <2>4. ASSUME NEW i \in 1 .. C PROVE ring'[Slot(start' + i - 1)] = log'[L + 1 - C + i]
    <3>1. PICK a \in 0 .. 2 * C - 1 : a = start' + i - 1
      BY <1>1, <2>3
    <3>2. Slot(a) = IF a < C THEN a ELSE a - C
      BY <1>4
    <3>3. CASE i = C
      <4>1. Slot(a) = start
        BY <1>1, <2>3, <3>1, <3>2, <3>3
      <4>2. L + 1 - C + i = L + 1
        BY <1>1, <3>3
      <4> QED
        BY <1>1, <1>2, <2>2, <3>1, <4>1, <4>2
    <3>4. CASE i \in 1 .. C - 1
      <4>1. PICK b \in 0 .. 2 * C - 1 : b = start + (i + 1) - 1 /\ i + 1 \in 1 .. size
        BY <1>1, <2>1, <3>4
      <4>2. Slot(b) = IF b < C THEN b ELSE b - C
        BY <1>4
      <4>3. Slot(a) = Slot(b) /\ Slot(b) # start /\ Slot(b) \in 0 .. C - 1
        BY <1>1, <2>3, <3>1, <3>2, <3>4, <4>1, <4>2
      <4>4. ring[Slot(b)] = log[L - size + (i + 1)]
        BY <1>3, <4>1
      <4>5. L - size + (i + 1) = L + 1 - C + i /\ L + 1 - C + i \in 1 .. L
        BY <1>1, <2>1, <3>4
      <4>6. ring'[Slot(b)] = ring[Slot(b)]
        BY <1>1, <2>2, <4>3
      <4> QED
        BY <1>2, <3>1, <4>3, <4>4, <4>5, <4>6
    <3>5. i = C \/ i \in 1 .. C - 1
      BY <1>1
    <3> QED
      BY <3>3, <3>4, <3>5
  <2>5. \A i \in 1 .. size' : Hub!Buffered'[i] = log'[Len(log') - size' + i]
    <3> TAKE i \in 1 .. size'
    <3>1. Len(log') - size' + i = L + 1 - C + i
      BY <1>1, <1>2, <2>2
    <3> QED
      BY <1>5, <2>2, <2>4, <3>1
  <2>6. Hub!RingIsRecent'
    <3>1. size' = (IF Len(log') < C THEN Len(log') ELSE C)
      BY <1>1, <1>2, <2>1, <2>2
    <3> QED
      BY <2>5, <3>1 DEF Hub!RingIsRecent
  <2>7. ring' \in [0 .. C - 1 -> Nat]
    BY <1>1, <2>2
  <2> QED
    BY <1>1, <2>2, <2>3, <2>6, <2>7 DEF RingInv
<1> QED
  BY <1>7, <1>8

(* One more event at the end of a sequence.                                *)
LEMMA AppendFacts ==
  ASSUME NEW s \in Seq(Id), NEW id \in Id
  PROVE  /\ Append(s, id) \in Seq(Id) /\ Len(Append(s, id)) = Len(s) + 1
         /\ DOMAIN Append(s, id) = 1 .. Len(s) + 1 /\ DOMAIN s = 1 .. Len(s) /\ Len(s) \in Nat
         /\ \A i \in 1 .. Len(s) : Append(s, id)[i] = s[i]
         /\ Append(s, id)[Len(s) + 1] = id
OBVIOUS

(* Concatenations, taken apart at the end and at the front.                *)
LEMMA ConcatFacts ==
  ASSUME NEW s \in Seq(Id), NEW t \in Seq(Id), NEW u \in Seq(Id)
  PROVE  (s \o t) \o u = s \o (t \o u)
OBVIOUS

(* The last element of a part of a sequence.                               *)
LEMMA SubSeqLast ==
  ASSUME NEW s \in Seq(Id), NEW m \in 1 .. Len(s), NEW n \in m .. Len(s)
  PROVE  SubSeq(s, m, n) = SubSeq(s, m, n - 1) \o <<s[n]>>
OBVIOUS

(* A sequence of ascending ids stays so when all that is added is younger. *)
LEMMA AscendingConcat ==
  ASSUME NEW s \in Seq(Id), NEW t \in Seq(Id), Hub!Ascending(s), Hub!Ascending(t),
         \A i \in DOMAIN s, j \in DOMAIN t : s[i] < t[j]
  PROVE  Hub!Ascending(s \o t)
<1>1. /\ s \o t \in Seq(Id) /\ Len(s \o t) = Len(s) + Len(t) /\ Len(s) \in Nat /\ Len(t) \in Nat
      /\ DOMAIN s = 1 .. Len(s) /\ DOMAIN t = 1 .. Len(t) /\ DOMAIN (s \o t) = 1 .. Len(s) + Len(t)
      /\ \A i \in 1 .. Len(s) + Len(t) : (s \o t)[i] = IF i <= Len(s) THEN s[i] ELSE t[i - Len(s)]
  OBVIOUS
<1> SUFFICES ASSUME NEW i \in 1 .. Len(s) + Len(t), NEW j \in 1 .. Len(s) + Len(t), i < j
             PROVE  (s \o t)[i] < (s \o t)[j]
  BY <1>1 DEF Hub!Ascending
<1>2. CASE j <= Len(s)
  <2>1. i \in DOMAIN s /\ j \in DOMAIN s /\ i <= Len(s)
    BY <1>1, <1>2
  <2> QED
    BY <1>1, <1>2, <2>1 DEF Hub!Ascending
<1>3. CASE i > Len(s)
  <2>1. PICK k \in DOMAIN t, l \in DOMAIN t : k = i - Len(s) /\ l = j - Len(s) /\ k < l
    BY <1>1, <1>3
  <2>2. ~(i <= Len(s)) /\ ~(j <= Len(s))
    BY <1>1, <1>3
  <2>3. (s \o t)[i] = t[k] /\ (s \o t)[j] = t[l]
    BY <1>1, <2>1, <2>2
  <2> QED
    BY <2>1, <2>3 DEF Hub!Ascending
<1>4. CASE i <= Len(s) /\ j > Len(s)
  <2>1. PICK l \in DOMAIN t : l = j - Len(s)
    BY <1>1, <1>4
  <2>2. i \in DOMAIN s /\ ~(j <= Len(s))
    BY <1>1, <1>4
  <2>3. (s \o t)[i] = s[i] /\ (s \o t)[j] = t[l]
    BY <1>1, <1>4, <2>1, <2>2
  <2> QED
    BY <2>1, <2>2, <2>3
<1> QED
  BY <1>1, <1>2, <1>3, <1>4

(* In a sequence of ascending ids the last one is the greatest.            *)
LEMMA LastIsGreatest ==
  ASSUME NEW s \in Seq(Id), Hub!Ascending(s), NEW i \in DOMAIN s
  PROVE  s[i] <= s[Len(s)] /\ Len(s) \in DOMAIN s
<1>1. Len(s) \in DOMAIN s /\ (i = Len(s) \/ i < Len(s))
  OBVIOUS
<1>2. s[i] \in Nat /\ s[Len(s)] \in Nat
  BY <1>1 DEF Id
<1> QED
  BY <1>1, <1>2 DEF Hub!Ascending

(* What SnapshotSince gives: events of the ring, in the order of the log,  *)
(* and only ids after the given one.                                       *)
LEMMA SnapshotFacts ==
  ASSUME Hub!HubAssumption, HubTypeOK, RingInv, NEW id \in Nat
  PROVE  LET s == Hub!SnapshotSince(id)
         IN  /\ s \in Seq(Id) /\ Stored(s, log)
             /\ id # 0 => \A k \in DOMAIN s : s[k] > id
             /\ Hub!Ascending(log) => Hub!Ascending(s)
<1> DEFINE kept == {i \in 1 .. size : id = 0 \/ Hub!Buffered[i] > id}
           n == Cardinality(kept)
           At(i) == Len(log) - size + i
           s == Hub!SnapshotSince(id)
<1>1. size \in Nat /\ Len(log) \in Nat /\ size <= Len(log) /\ log \in Seq(Id)
  BY DEF Hub!HubAssumption, HubTypeOK, RingInv, Hub!RingIsRecent
<1>2. /\ n \in Nat /\ \A k \in 1 .. n : Hub!Nth(kept, k) \in kept
      /\ \A j, k \in 1 .. n : j < k => Hub!Nth(kept, j) < Hub!Nth(kept, k)
  BY <1>1, NthFacts
<1>3. s = [k \in 1 .. n |-> Hub!Buffered[Hub!Nth(kept, k)]]
  BY SameCardinality DEF Hub!SnapshotSince
<1>4. \A i \in 1 .. size : At(i) \in DOMAIN log /\ Hub!Buffered[i] = log[At(i)] /\ log[At(i)] \in Id
  BY <1>1 DEF RingInv, Hub!RingIsRecent
<1> HIDE DEF n, s, At
<1>5. DOMAIN s = 1 .. n /\ s \in Seq(Id)
  <2>1. \A k \in 1 .. n : Hub!Buffered[Hub!Nth(kept, k)] \in Id
    BY <1>2, <1>4
  <2>2. s \in [1 .. n -> Id]
    BY <1>3, <2>1
  <2> QED
    BY <1>2, <2>2
<1>6. Stored(s, log)
  BY <1>2, <1>3, <1>4, <1>5 DEF Stored
<1>7. id # 0 => \A k \in DOMAIN s : s[k] > id
  BY <1>2, <1>3, <1>5
<1>8. ASSUME Hub!Ascending(log), NEW j \in DOMAIN s, NEW k \in DOMAIN s, j < k
      PROVE  s[j] < s[k]
  <2>1. /\ Hub!Nth(kept, j) \in 1 .. size /\ Hub!Nth(kept, k) \in 1 .. size
        /\ Hub!Nth(kept, j) < Hub!Nth(kept, k)
    BY <1>2, <1>5, <1>8
  <2>2. At(Hub!Nth(kept, j)) < At(Hub!Nth(kept, k))
    BY <1>1, <2>1 DEF At
  <2>3. s[j] = log[At(Hub!Nth(kept, j))] /\ s[k] = log[At(Hub!Nth(kept, k))]
    BY <1>3, <1>4, <1>5, <2>1
  <2> QED
    BY <1>4, <1>8, <2>1, <2>2, <2>3 DEF Hub!Ascending
<1> QED
  BY <1>5, <1>6, <1>7, <1>8 DEF s, Hub!Ascending

-----------------------------------------------------------------------------
(* Storing an event: the log grows by an id, and so does every channel     *)
(* that has room for it.                                                   *)
LEMMA StoreSubSeq ==
  ASSUME NEW l \in Seq(Id), NEW a \in Seq(Id), NEW b \in Seq(Id), NEW id \in Id, NEW n \in Nat,
         n <= Len(l), a \o b = SubSeq(l, n + 1, Len(l))
  PROVE  a \o Append(b, id) = SubSeq(Append(l, id), n + 1, Len(Append(l, id)))
<1>1. a \o Append(b, id) = (a \o b) \o <<id>>
  <2>0. <<id>> \in Seq(Id)
    OBVIOUS
  <2>1. PICK x \in Seq(Id) : x = <<id>>
    BY <2>0
  <2>2. Append(b, id) = b \o x
    BY <2>1
  <2>3. (a \o b) \o x = a \o (b \o x)
    BY ConcatFacts
  <2> QED
    BY <2>1, <2>2, <2>3
<1> DEFINE m == Append(l, id)
<1>2. /\ m \in Seq(Id) /\ Len(m) = Len(l) + 1 /\ Len(l) \in Nat /\ m[Len(l) + 1] = id
      /\ m = l \o <<id>> /\ <<id>> \in Seq(Id)
  BY AppendFacts, AppendIsConcat
<1> HIDE DEF m
<1>3. SubSeq(m, n + 1, Len(l) + 1) = SubSeq(m, n + 1, Len(l)) \o <<id>>
  <2>1. PICK i \in 1 .. Len(m) : i = n + 1 /\ i <= Len(m)
    BY <1>2
  <2>2. PICK k \in i .. Len(m) : k = Len(l) + 1 /\ k - 1 = Len(l)
    BY <1>2, <2>1
  <2>3. SubSeq(m, i, k) = SubSeq(m, i, k - 1) \o <<m[k]>>
    BY <1>2, SubSeqLast
  <2> QED
    BY <1>2, <2>1, <2>2, <2>3
<1>4. SubSeq(m, n + 1, Len(l)) = SubSeq(l, n + 1, Len(l))
  <2>1. CASE n = Len(l)
    <3>1. Len(l) < n + 1 /\ n + 1 \in Int /\ Len(l) \in Int
      BY <1>2, <2>1
    <3> QED
      BY <3>1, SubSeqEmpty
  <2>2. CASE n < Len(l)
    <3>1. n + 1 \in 1 .. Len(l) /\ Len(l) \in 1 .. Len(l)
      BY <1>2, <2>2
    <3> QED
      BY <1>2, <3>1, SubSeqOfConcat1
  <2> QED
    BY <1>2, <2>1, <2>2
<1> QED
  BY <1>1, <1>2, <1>3, <1>4 DEF m

(* Publish stores its event under the lock and offers it to the            *)
(* subscribers.                                                            *)
LEMMA StoreStep ==
  ASSUME Hub!HubAssumption, HubIndInv, NEW p \in Publishers, Hub!Store(p)
  PROVE  HubIndInv'
<1> DEFINE id == pending[p]
<1>1. HubTypeOK /\ RingInv /\ StreamInv /\ ClientInv /\ OrderInv /\ Buffer \in Nat
  BY DEF HubIndInv, Hub!HubAssumption
<1>2. /\ id \in Id /\ Hub!pushLocked(id) /\ Hub!Send(id) /\ log' = Append(log, id)
      /\ pending' = [pending EXCEPT ![p] = 0]
      /\ UNCHANGED <<nextID, conn, last, got, since, live>>
  BY <1>1 DEF Hub!Store, HubTypeOK, Id
<1> HIDE DEF id
<1>3. /\ RingInv' /\ ring' \in [0 .. Capacity - 1 -> Nat] /\ start' \in 0 .. Capacity - 1
      /\ size' \in 0 .. Capacity
  BY <1>1, <1>2, PushKeeps
<1>4. /\ log \in Seq(Id) /\ log' \in Seq(Id) /\ Len(log') = Len(log) + 1 /\ Len(log) \in Nat
      /\ DOMAIN log = 1 .. Len(log) /\ DOMAIN log' = 1 .. Len(log) + 1
      /\ log'[Len(log) + 1] = id /\ \A i \in 1 .. Len(log) : log'[i] = log[i]
  BY <1>1, <1>2, AppendFacts DEF HubTypeOK
<1>5. \A c \in Clients :
         /\ chan'[c] = (IF c \in Hub!Open /\ Len(chan[c]) < Buffer THEN Append(chan[c], id) ELSE chan[c])
         /\ dropped'[c] = (dropped[c] \/ (c \in Hub!Open /\ Len(chan[c]) = Buffer))
         /\ chan[c] \in Seq(Id) /\ got[c] \in Seq(Id) /\ live[c] \in Seq(Id)
  BY <1>1, <1>2 DEF Hub!Send, HubTypeOK
<1>6. HubTypeOK'
  <2>1. chan' \in [Clients -> Seq(Id)]
    BY <1>2, <1>5, AppendFacts DEF Hub!Send
  <2>2. dropped' \in [Clients -> BOOLEAN]
    BY <1>2 DEF Hub!Send
  <2>3. pending' \in [Publishers -> Nat]
    BY <1>1, <1>2 DEF HubTypeOK
  <2> QED
    BY <1>1, <1>2, <1>3, <1>4, <2>1, <2>2, <2>3 DEF HubTypeOK
<1>7. \A s : Stored(s, log) => Stored(s, log')
  BY <1>4 DEF Stored
<1>8. StreamInv'
  <2>1. \A c \in Clients : since'[c] \in Nat /\ since[c] <= Len(log) /\ since'[c] <= Len(log')
    BY <1>1, <1>2, <1>4 DEF StreamInv, HubTypeOK
  <2>2. ASSUME NEW c \in Clients, conn'[c] = "open", ~dropped'[c]
        PROVE  live'[c] \o chan'[c] = SubSeq(log', since'[c] + 1, Len(log'))
    <3>1. c \in Hub!Open
      BY <1>2, <2>2 DEF Hub!Open
    <3>2. ~dropped[c] /\ Len(chan[c]) < Buffer
      <4>1. Len(chan[c]) \in Nat /\ Len(chan[c]) <= Buffer
        BY <1>1, <1>5 DEF ClientInv
      <4>2. ~dropped[c] /\ Len(chan[c]) # Buffer
        BY <1>5, <2>2, <3>1
      <4> QED
        BY <1>1, <4>1, <4>2
    <3>3. chan'[c] = Append(chan[c], id) /\ live'[c] = live[c] /\ since'[c] = since[c]
      BY <1>2, <1>5, <3>1, <3>2
    <3>4. live[c] \o chan[c] = SubSeq(log, since[c] + 1, Len(log))
      BY <1>1, <3>1, <3>2 DEF StreamInv, Hub!StreamComplete
    <3> QED
      <4>1. live[c] \o Append(chan[c], id) = SubSeq(log', since[c] + 1, Len(log'))
        <5>1. since[c] \in Nat /\ since[c] <= Len(log)
          BY <1>2, <2>1
        <5>2. PICK n \in Nat, a \in Seq(Id), b \in Seq(Id) :
                 n = since[c] /\ a = live[c] /\ b = chan[c]
          BY <1>5, <5>1
        <5>3. a \o Append(b, id) = SubSeq(Append(log, id), n + 1, Len(Append(log, id)))
          <6>1. id \in Id /\ log \in Seq(Id) /\ n <= Len(log)
            BY <1>2, <1>4, <5>1, <5>2
          <6>2. a \o b = SubSeq(log, n + 1, Len(log))
            BY <3>4, <5>2
          <6> QED
            BY <6>1, <6>2, StoreSubSeq
        <5> QED
          BY <1>2, <5>2, <5>3
      <4> QED
        BY <3>3, <4>1
  <2> QED
    BY <2>1, <2>2 DEF StreamInv, Hub!StreamComplete, Hub!Open
<1>9. ClientInv'
  <2> SUFFICES ASSUME NEW c \in Clients
               PROVE  /\ last'[c] = IF got'[c] = <<>> THEN 0 ELSE got'[c][Len(got'[c])]
                      /\ conn'[c] # "open" => chan'[c] = <<>>
                      /\ Stored(got'[c], log') /\ Stored(chan'[c], log') /\ Len(chan'[c]) <= Buffer
    BY DEF ClientInv
  <2>1. /\ last'[c] = IF got'[c] = <<>> THEN 0 ELSE got'[c][Len(got'[c])]
        /\ Stored(got'[c], log')
    BY <1>1, <1>2, <1>7 DEF ClientInv
  <2>2. CASE c \in Hub!Open /\ Len(chan[c]) < Buffer
    <3>1. chan'[c] = Append(chan[c], id)
      BY <1>5, <2>2
    <3>2. /\ DOMAIN chan'[c] = 1 .. Len(chan[c]) + 1 /\ DOMAIN chan[c] = 1 .. Len(chan[c])
          /\ Len(chan'[c]) = Len(chan[c]) + 1 /\ Len(chan[c]) \in Nat
          /\ chan'[c][Len(chan[c]) + 1] = id
          /\ \A i \in 1 .. Len(chan[c]) : chan'[c][i] = chan[c][i]
      BY <1>2, <1>5, <3>1, AppendFacts
    <3>3. Stored(chan[c], log')
      BY <1>1, <1>7 DEF ClientInv
    <3>4. Stored(chan'[c], log')
      <4> SUFFICES ASSUME NEW i \in 1 .. Len(chan[c]) + 1
                   PROVE  \E k \in DOMAIN log' : chan'[c][i] = log'[k]
        BY <3>2 DEF Stored
      <4>1. CASE i = Len(chan[c]) + 1
        BY <1>4, <3>2, <4>1
      <4>2. CASE i \in 1 .. Len(chan[c])
        BY <3>2, <3>3, <4>2 DEF Stored
      <4> QED
        BY <3>2, <4>1, <4>2
    <3>5. conn'[c] = "open"
      BY <1>2, <2>2 DEF Hub!Open
    <3> QED
      BY <1>1, <2>1, <2>2, <3>2, <3>4, <3>5
  <2>3. CASE ~(c \in Hub!Open /\ Len(chan[c]) < Buffer)
    <3>1. chan'[c] = chan[c]
      BY <1>5, <2>3
    <3> QED
      BY <1>1, <1>2, <1>7, <2>1, <3>1 DEF ClientInv
  <2> QED
    BY <2>2, <2>3
<1>10. OrderInv'
  <2> SUFFICES ASSUME Hub!Ascending(log'), NEW c \in Clients
               PROVE  /\ Hub!Ascending(got'[c]) /\ Hub!Ascending(chan'[c])
                      /\ \A i \in DOMAIN chan'[c] : chan'[c][i] > last'[c]
    BY DEF OrderInv, Hub!Ascending
  <2>1. Hub!Ascending(log) /\ \A k \in DOMAIN log : log[k] < id
    <3>1. \A i, j \in 1 .. Len(log) : i < j => log[i] < log[j]
      BY <1>4 DEF Hub!Ascending
    <3>2. \A k \in 1 .. Len(log) : log[k] < id
      BY <1>4 DEF Hub!Ascending
    <3> QED
      BY <1>4, <3>1, <3>2 DEF Hub!Ascending
  <2>2. /\ Hub!Ascending(got[c]) /\ Hub!Ascending(chan[c])
        /\ \A i \in DOMAIN chan[c] : chan[c][i] > last[c]
        /\ got'[c] = got[c] /\ last'[c] = last[c]
    BY <1>1, <1>2, <2>1 DEF OrderInv
  <2>3. /\ \A i \in DOMAIN chan[c] : chan[c][i] < id
        /\ \A i \in DOMAIN got[c] : got[c][i] < id
    BY <1>1, <2>1 DEF ClientInv, Stored
  <2>4. last[c] < id
    <3>1. CASE got[c] = <<>>
      BY <1>1, <1>2, <3>1 DEF ClientInv, Id
    <3>2. CASE got[c] # <<>>
      <4>1. Len(got[c]) \in DOMAIN got[c]
        BY <1>5, <3>2
      <4> QED
        BY <1>1, <2>3, <3>2, <4>1 DEF ClientInv
    <3> QED
      BY <3>1, <3>2
  <2>5. CASE c \in Hub!Open /\ Len(chan[c]) < Buffer
    <3>1. chan'[c] = Append(chan[c], id)
      BY <1>5, <2>5
    <3>2. /\ DOMAIN chan'[c] = 1 .. Len(chan[c]) + 1 /\ DOMAIN chan[c] = 1 .. Len(chan[c])
          /\ Len(chan[c]) \in Nat /\ chan'[c][Len(chan[c]) + 1] = id
          /\ \A i \in 1 .. Len(chan[c]) : chan'[c][i] = chan[c][i]
      BY <1>2, <1>5, <3>1, AppendFacts
    <3>3. ASSUME NEW i \in DOMAIN chan'[c] PROVE chan'[c][i] > last[c]
      <4>1. i = Len(chan[c]) + 1 \/ i \in 1 .. Len(chan[c])
        BY <3>2
      <4> QED
        BY <2>2, <2>4, <3>2, <4>1
    <3>4. ASSUME NEW i \in DOMAIN chan'[c], NEW j \in DOMAIN chan'[c], i < j
          PROVE  chan'[c][i] < chan'[c][j]
      <4>1. i \in 1 .. Len(chan[c]) /\ (j = Len(chan[c]) + 1 \/ j \in 1 .. Len(chan[c]))
        BY <3>2, <3>4
      <4> QED
        BY <2>2, <2>3, <3>2, <3>4, <4>1 DEF Hub!Ascending
    <3> QED
      BY <2>2, <3>3, <3>4 DEF Hub!Ascending
  <2>6. CASE ~(c \in Hub!Open /\ Len(chan[c]) < Buffer)
    BY <1>5, <2>2, <2>6
  <2> QED
    BY <2>5, <2>6
<1> QED
  BY <1>3, <1>6, <1>8, <1>9, <1>10 DEF HubIndInv

(* What a client gets when it connects, subscribes, reads and goes.        *)
LEMMA ReceivedFacts ==
  ASSUME HubTypeOK, ClientInv, NEW c \in Clients, NEW es \in Seq(Id), Hub!Received(c, es), Stored(es, log)
  PROVE  /\ got' \in [Clients -> Seq(Id)] /\ last' \in [Clients -> Nat]
         /\ \A d \in Clients : d # c => got'[d] = got[d] /\ last'[d] = last[d]
         /\ got'[c] = got[c] \o es
         /\ last'[c] = IF got'[c] = <<>> THEN 0 ELSE got'[c][Len(got'[c])]
         /\ Stored(got'[c], log)
<1>1. /\ got[c] \in Seq(Id) /\ got[c] \o es \in Seq(Id) /\ last[c] \in Nat
      /\ Len(got[c]) \in Nat /\ Len(es) \in Nat /\ Len(got[c] \o es) = Len(got[c]) + Len(es)
      /\ DOMAIN got[c] = 1 .. Len(got[c]) /\ DOMAIN es = 1 .. Len(es)
      /\ DOMAIN (got[c] \o es) = 1 .. Len(got[c]) + Len(es)
      /\ \A i \in 1 .. Len(got[c]) + Len(es) :
            (got[c] \o es)[i] = IF i <= Len(got[c]) THEN got[c][i] ELSE es[i - Len(got[c])]
  BY DEF HubTypeOK
<1>2. /\ got' = [got EXCEPT ![c] = got[c] \o es]
      /\ last' = [last EXCEPT ![c] = IF es = <<>> THEN last[c] ELSE es[Len(es)]]
  BY DEF Hub!Received
<1>3. /\ got' \in [Clients -> Seq(Id)] /\ got'[c] = got[c] \o es
      /\ \A d \in Clients : d # c => got'[d] = got[d] /\ last'[d] = last[d]
      /\ last'[c] = IF es = <<>> THEN last[c] ELSE es[Len(es)]
  BY <1>1, <1>2 DEF HubTypeOK
<1>4. es # <<>> => Len(es) \in DOMAIN es /\ es[Len(es)] \in Id
  OBVIOUS
<1>5. last' \in [Clients -> Nat]
  BY <1>1, <1>2, <1>4 DEF HubTypeOK, Id
<1>6. last'[c] = IF got'[c] = <<>> THEN 0 ELSE got'[c][Len(got'[c])]
  <2>1. CASE es = <<>>
    <3>1. got'[c] = got[c] /\ last'[c] = last[c]
      BY <1>1, <1>3, <2>1, ConcatEmptySeq
    <3> QED
      BY <3>1 DEF ClientInv
  <2>2. CASE es # <<>>
    <3>1. Len(es) > 0
      BY <2>2
    <3>2. got'[c] # <<>> /\ Len(got'[c]) = Len(got[c]) + Len(es)
      BY <1>1, <1>3, <3>1
    <3>3. got'[c][Len(got[c]) + Len(es)] = es[Len(es)]
      <4>1. /\ Len(got[c]) + Len(es) \in 1 .. Len(got[c]) + Len(es)
            /\ ~(Len(got[c]) + Len(es) <= Len(got[c]))
            /\ Len(got[c]) + Len(es) - Len(got[c]) = Len(es)
        BY <1>1, <3>1
      <4> QED
        BY <1>1, <1>3, <4>1
    <3> QED
      BY <1>3, <2>2, <3>2, <3>3
  <2> QED
    BY <2>1, <2>2
<1>7. Stored(got'[c], log)
  <2> SUFFICES ASSUME NEW i \in 1 .. Len(got[c]) + Len(es)
               PROVE  \E k \in DOMAIN log : (got[c] \o es)[i] = log[k]
    BY <1>1, <1>3 DEF Stored
  <2>1. CASE i <= Len(got[c])
    <3>1. i \in DOMAIN got[c] /\ (got[c] \o es)[i] = got[c][i]
      BY <1>1, <2>1
    <3> QED
      BY <3>1 DEF ClientInv, Stored
  <2>2. CASE ~(i <= Len(got[c]))
    <3>1. PICK j \in DOMAIN es : j = i - Len(got[c])
      BY <1>1, <2>2
    <3> QED
      BY <1>1, <2>2, <3>1 DEF Stored
  <2> QED
    BY <2>1, <2>2
<1> QED
  BY <1>3, <1>5, <1>6, <1>7

(* Ids after the last one a client got keep what it got ascending.         *)
LEMMA ReceivedInOrder ==
  ASSUME HubTypeOK, ClientInv, OrderInv, Hub!Ascending(log), NEW c \in Clients, NEW es \in Seq(Id),
         Hub!Ascending(es), last[c] # 0 => \A i \in DOMAIN es : es[i] > last[c]
  PROVE  Hub!Ascending(got[c] \o es)
<1>1. got[c] \in Seq(Id) /\ Hub!Ascending(got[c])
  BY DEF HubTypeOK, OrderInv
<1>2. ASSUME NEW i \in DOMAIN got[c], NEW j \in DOMAIN es PROVE got[c][i] < es[j]
  <2>1. got[c][i] <= got[c][Len(got[c])] /\ Len(got[c]) \in DOMAIN got[c]
    BY <1>1, LastIsGreatest
  <2>2. last[c] = got[c][Len(got[c])]
    BY <2>1 DEF ClientInv
  <2>3. got[c][Len(got[c])] \in Id /\ got[c][i] \in Id /\ es[j] \in Id
    BY <1>1, <2>1
  <2>4. es[j] > last[c]
    BY <2>2, <2>3 DEF Id
  <2> QED
    BY <2>1, <2>2, <2>3, <2>4 DEF Id
<1> QED
  BY <1>1, <1>2, AscendingConcat

(* The hub is left alone.                                                  *)
LEMMA SameHub ==
  ASSUME RingInv, UNCHANGED <<ring, start, size, log>>
  PROVE  RingInv'
BY DEF RingInv, Hub!RingIsRecent, Hub!Buffered

(* Publish takes an ID before it takes the lock.                           *)
LEMMA TakeIDStep ==
  ASSUME HubIndInv, NEW p \in Publishers, Hub!TakeID(p)
  PROVE  HubIndInv'
<1>1. UNCHANGED <<ring, start, size, conn, chan, last, got, log, since, live, dropped>>
  BY DEF Hub!TakeID
<1>2. HubTypeOK' /\ RingInv'
  BY <1>1, SameHub DEF HubIndInv, HubTypeOK, Hub!TakeID
<1>3. StreamInv' /\ ClientInv' /\ OrderInv'
  BY <1>1 DEF HubIndInv, StreamInv, Hub!StreamComplete, Hub!Open, ClientInv, Stored, OrderInv, Hub!Ascending
<1> QED
  BY <1>2, <1>3 DEF HubIndInv

(* A client connects: the ring events after the last it saw are replayed.  *)
LEMMA ConnectStep ==
  ASSUME Hub!HubAssumption, HubIndInv, NEW c \in Clients, Hub!Connect(c)
  PROVE  HubIndInv'
<1>1. HubTypeOK /\ RingInv /\ StreamInv /\ ClientInv /\ OrderInv /\ Buffer \in Nat
  BY DEF HubIndInv, Hub!HubAssumption
<1>2. /\ conn[c] = "off" /\ conn' = [conn EXCEPT ![c] = "replayed"]
      /\ UNCHANGED <<nextID, ring, start, size, pending, log, chan, since, live, dropped>>
  BY DEF Hub!Connect, Hub!hubVars
<1>3. PICK es \in Seq(Id) :
         /\ Hub!Received(c, es) /\ Stored(es, log) /\ (Hub!Ascending(log) => Hub!Ascending(es))
         /\ last[c] # 0 => \A k \in DOMAIN es : es[k] > last[c]
  <2>1. last[c] \in Nat
    BY <1>1 DEF HubTypeOK
  <2> QED
    BY <1>1, <2>1, SnapshotFacts DEF Hub!Connect
<1>4. /\ got' \in [Clients -> Seq(Id)] /\ last' \in [Clients -> Nat]
      /\ \A d \in Clients : d # c => got'[d] = got[d] /\ last'[d] = last[d]
      /\ got'[c] = got[c] \o es
      /\ last'[c] = IF got'[c] = <<>> THEN 0 ELSE got'[c][Len(got'[c])]
      /\ Stored(got'[c], log)
  BY <1>1, <1>3, ReceivedFacts
<1>5. chan[c] = <<>> /\ conn'[c] = "replayed" /\ \A d \in Clients : d # c => conn'[d] = conn[d]
  BY <1>1, <1>2 DEF ClientInv, HubTypeOK
<1>6. HubTypeOK' /\ RingInv'
  BY <1>1, <1>2, <1>4, SameHub DEF HubTypeOK
<1>7. StreamInv'
  BY <1>1, <1>2, <1>5 DEF StreamInv, Hub!StreamComplete, Hub!Open
<1>8. ClientInv'
  BY <1>1, <1>2, <1>4, <1>5 DEF ClientInv
<1>9. OrderInv'
  <2> SUFFICES ASSUME Hub!Ascending(log)', NEW d \in Clients
               PROVE  /\ Hub!Ascending(got'[d]) /\ Hub!Ascending(chan'[d])
                      /\ \A i \in DOMAIN chan'[d] : chan'[d][i] > last'[d]
    BY DEF OrderInv, Hub!Ascending
  <2>1. Hub!Ascending(log)
    BY <1>2 DEF Hub!Ascending
  <2>2. CASE d = c
    <3>1. Hub!Ascending(got'[c])
      BY <1>1, <1>3, <1>4, <2>1, ReceivedInOrder
    <3>2. DOMAIN chan'[c] = {}
      BY <1>2, <1>5
    <3> QED
      BY <2>2, <3>1, <3>2 DEF Hub!Ascending
  <2>3. CASE d # c
    BY <1>1, <1>2, <1>4, <2>1, <2>3 DEF OrderInv
  <2> QED
    BY <2>2, <2>3
<1> QED
  BY <1>6, <1>7, <1>8, <1>9 DEF HubIndInv

(* It subscribes: what is stored from now on is offered to its channel.    *)
LEMMA SubscribeStep ==
  ASSUME Hub!HubAssumption, HubIndInv, NEW c \in Clients, Hub!Subscribe(c)
  PROVE  HubIndInv'
<1>1. HubTypeOK /\ RingInv /\ StreamInv /\ ClientInv /\ OrderInv /\ Buffer \in Nat
  BY DEF HubIndInv, Hub!HubAssumption
<1>2. /\ UNCHANGED <<nextID, ring, start, size, pending, log, last, got>>
      /\ conn' = [conn EXCEPT ![c] = "open"] /\ chan' = [chan EXCEPT ![c] = <<>>]
      /\ since' = [since EXCEPT ![c] = Len(log)] /\ live' = [live EXCEPT ![c] = <<>>]
      /\ dropped' = [dropped EXCEPT ![c] = FALSE]
  BY DEF Hub!Subscribe, Hub!hubVars
<1>3. log \in Seq(Id) /\ Len(log) \in Nat /\ <<>> \in Seq(Id)
  BY <1>1 DEF HubTypeOK
<1>4. /\ chan'[c] = <<>> /\ live'[c] = <<>> /\ since'[c] = Len(log)
      /\ \A d \in Clients : d # c => /\ conn'[d] = conn[d] /\ chan'[d] = chan[d]
                                     /\ since'[d] = since[d] /\ live'[d] = live[d]
                                     /\ dropped'[d] = dropped[d]
  BY <1>1, <1>2 DEF HubTypeOK
<1>5. HubTypeOK'
  <2>1. /\ conn' \in [Clients -> {"off", "replayed", "open"}] /\ chan' \in [Clients -> Seq(Id)]
        /\ live' \in [Clients -> Seq(Id)]
    BY <1>1, <1>2, <1>3 DEF HubTypeOK
  <2>2. since' \in [Clients -> Nat]
    BY <1>1, <1>2, <1>3 DEF HubTypeOK
  <2>3. dropped' \in [Clients -> BOOLEAN]
    BY <1>1, <1>2 DEF HubTypeOK
  <2> QED
    BY <1>1, <1>2, <2>1, <2>2, <2>3 DEF HubTypeOK
<1>6. RingInv'
  BY <1>1, <1>2, SameHub
<1>7. StreamInv'
  <2>1. <<>> \o <<>> = SubSeq(log, Len(log) + 1, Len(log))
    <3>1. SubSeq(log, Len(log) + 1, Len(log)) = <<>>
      BY <1>3
    <3>2. <<>> \o <<>> = <<>>
      OBVIOUS
    <3> QED
      BY <3>1, <3>2
  <2>2. ASSUME NEW d \in Clients, conn'[d] = "open", ~dropped'[d]
        PROVE  live'[d] \o chan'[d] = SubSeq(log', since'[d] + 1, Len(log'))
    <3>1. CASE d = c
      BY <1>2, <1>4, <2>1, <3>1
    <3>2. CASE d # c
      <4>1. d \in Hub!Open /\ ~dropped[d]
        BY <1>4, <2>2, <3>2 DEF Hub!Open
      <4>2. live[d] \o chan[d] = SubSeq(log, since[d] + 1, Len(log))
        BY <1>1, <4>1 DEF StreamInv, Hub!StreamComplete
      <4>3. live'[d] = live[d] /\ chan'[d] = chan[d] /\ since'[d] = since[d] /\ log' = log
        BY <1>2, <1>4, <3>2
      <4> QED
        BY <4>2, <4>3
    <3> QED
      BY <3>1, <3>2
  <2>3. \A d \in Clients : since'[d] <= Len(log')
    BY <1>1, <1>2, <1>3, <1>4 DEF StreamInv
  <2> QED
    BY <2>2, <2>3 DEF StreamInv, Hub!StreamComplete, Hub!Open
<1>8. ClientInv'
  <2>1. Stored(<<>>, log) /\ Len(<<>>) <= Buffer
    BY <1>1 DEF Stored
  <2> QED
    BY <1>1, <1>2, <1>4, <2>1 DEF ClientInv
<1>9. OrderInv'
  BY <1>1, <1>2, <1>4 DEF OrderInv, Hub!Ascending
<1> QED
  BY <1>5, <1>6, <1>7, <1>8, <1>9 DEF HubIndInv

(* It leaves.                                                              *)
LEMMA DisconnectStep ==
  ASSUME Hub!HubAssumption, HubIndInv, NEW c \in Clients, Hub!Disconnect(c)
  PROVE  HubIndInv'
<1>1. HubTypeOK /\ RingInv /\ StreamInv /\ ClientInv /\ OrderInv /\ Buffer \in Nat
  BY DEF HubIndInv, Hub!HubAssumption
<1>2. /\ UNCHANGED <<nextID, ring, start, size, pending, log, last, got, since, live, dropped>>
      /\ conn' = [conn EXCEPT ![c] = "off"] /\ chan' = [chan EXCEPT ![c] = <<>>]
  BY DEF Hub!Disconnect, Hub!hubVars
<1>3. /\ chan'[c] = <<>> /\ conn'[c] = "off" /\ <<>> \in Seq(Id)
      /\ \A d \in Clients : d # c => conn'[d] = conn[d] /\ chan'[d] = chan[d]
  BY <1>1, <1>2 DEF HubTypeOK
<1>4. HubTypeOK' /\ RingInv'
  BY <1>1, <1>2, <1>3, SameHub DEF HubTypeOK
<1>5. StreamInv'
  BY <1>1, <1>2, <1>3 DEF StreamInv, Hub!StreamComplete, Hub!Open
<1>6. ClientInv'
  <2>1. Stored(<<>>, log) /\ Len(<<>>) <= Buffer
    BY <1>1 DEF Stored
  <2> QED
    BY <1>1, <1>2, <1>3, <2>1 DEF ClientInv
<1>7. OrderInv'
  BY <1>1, <1>2, <1>3 DEF OrderInv, Hub!Ascending
<1> QED
  BY <1>4, <1>5, <1>6, <1>7 DEF HubIndInv

(* Head and Tail of a sequence of IDs.                                     *)
LEMMA TailFacts ==
  ASSUME NEW s \in Seq(Id), s # <<>>
  PROVE  /\ Head(s) \in Id /\ Tail(s) \in Seq(Id) /\ s = <<Head(s)>> \o Tail(s)
         /\ Head(s) = s[1] /\ 1 \in DOMAIN s /\ DOMAIN s = 1 .. Len(s) /\ Len(s) \in Nat
         /\ DOMAIN Tail(s) = 1 .. Len(s) - 1 /\ Len(Tail(s)) = Len(s) - 1
         /\ \A i \in 1 .. Len(s) - 1 : Tail(s)[i] = s[i + 1]
OBVIOUS

(* The next event of its channel is written to it.                         *)
LEMMA DeliverStep ==
  ASSUME Hub!HubAssumption, HubIndInv, NEW c \in Clients, Hub!Deliver(c)
  PROVE  HubIndInv'
<1> DEFINE h == Head(chan[c])
           t == Tail(chan[c])
<1>1. HubTypeOK /\ RingInv /\ StreamInv /\ ClientInv /\ OrderInv /\ Buffer \in Nat
  BY DEF HubIndInv, Hub!HubAssumption
<1>2. /\ conn[c] = "open" /\ chan[c] # <<>> /\ chan[c] \in Seq(Id) /\ live[c] \in Seq(Id)
      /\ Hub!Received(c, <<h>>) /\ chan' = [chan EXCEPT ![c] = t]
      /\ live' = [live EXCEPT ![c] = Append(live[c], h)]
      /\ UNCHANGED <<nextID, ring, start, size, pending, log, conn, since, dropped>>
  BY <1>1 DEF Hub!Deliver, Hub!hubVars, HubTypeOK
<1>3. /\ h \in Id /\ t \in Seq(Id) /\ chan[c] = <<h>> \o t /\ h = chan[c][1]
      /\ 1 \in DOMAIN chan[c] /\ DOMAIN chan[c] = 1 .. Len(chan[c]) /\ Len(chan[c]) \in Nat
      /\ DOMAIN t = 1 .. Len(chan[c]) - 1 /\ Len(t) = Len(chan[c]) - 1
      /\ \A i \in 1 .. Len(chan[c]) - 1 : t[i] = chan[c][i + 1]
  BY <1>2, TailFacts
<1> HIDE DEF h, t
<1>4. /\ <<h>> \in Seq(Id) /\ DOMAIN <<h>> = {1} /\ <<h>>[1] = h /\ Len(<<h>>) = 1
  BY <1>3
<1>5. PICK es \in Seq(Id) : es = <<h>>
  BY <1>4
<1>6. Stored(es, log)
  BY <1>1, <1>3, <1>4, <1>5 DEF ClientInv, Stored
<1>7. /\ got' \in [Clients -> Seq(Id)] /\ last' \in [Clients -> Nat]
      /\ \A d \in Clients : d # c => got'[d] = got[d] /\ last'[d] = last[d]
      /\ got'[c] = got[c] \o es
      /\ last'[c] = IF got'[c] = <<>> THEN 0 ELSE got'[c][Len(got'[c])]
      /\ Stored(got'[c], log)
  BY <1>1, <1>2, <1>5, <1>6, ReceivedFacts
<1>8. last'[c] = h
  BY <1>1, <1>2, <1>4 DEF Hub!Received, HubTypeOK
<1>9. /\ chan'[c] = t /\ live'[c] = Append(live[c], h)
      /\ \A d \in Clients : d # c => chan'[d] = chan[d] /\ live'[d] = live[d]
  BY <1>1, <1>2 DEF HubTypeOK
<1>10. HubTypeOK' /\ RingInv'
  <2>1. chan' \in [Clients -> Seq(Id)]
    BY <1>1, <1>2, <1>3 DEF HubTypeOK
  <2>2. live' \in [Clients -> Seq(Id)]
    BY <1>1, <1>2, <1>3, AppendFacts DEF HubTypeOK
  <2> QED
    BY <1>1, <1>2, <1>7, <2>1, <2>2, SameHub DEF HubTypeOK
<1>11. StreamInv'
  <2>1. live'[c] \o chan'[c] = live[c] \o chan[c]
    <3>1. PICK a \in Seq(Id) : a = live[c]
      BY <1>2
    <3>2. Append(a, h) = a \o es
      BY <1>3, <1>5
    <3>3. (a \o es) \o t = a \o (es \o t)
      BY <1>3, ConcatFacts
    <3> QED
      BY <1>3, <1>5, <1>9, <3>1, <3>2, <3>3
  <2>2. ASSUME NEW d \in Clients, conn'[d] = "open", ~dropped'[d]
        PROVE  live'[d] \o chan'[d] = SubSeq(log', since'[d] + 1, Len(log'))
    <3>1. live[d] \o chan[d] = SubSeq(log, since[d] + 1, Len(log))
      BY <1>1, <1>2, <2>2 DEF StreamInv, Hub!StreamComplete, Hub!Open
    <3>2. live'[d] \o chan'[d] = live[d] \o chan[d]
      BY <1>9, <2>1
    <3> QED
      BY <1>2, <3>1, <3>2
  <2>3. \A d \in Clients : since'[d] <= Len(log')
    BY <1>1, <1>2 DEF StreamInv
  <2> QED
    BY <2>2, <2>3 DEF StreamInv, Hub!StreamComplete, Hub!Open
<1>12. ClientInv'
  <2>1. Stored(t, log) /\ Len(t) <= Buffer
    <3>1. \A i \in 1 .. Len(chan[c]) - 1 : i + 1 \in DOMAIN chan[c]
      BY <1>3
    <3>2. Stored(chan[c], log) /\ Len(chan[c]) <= Buffer
      BY <1>1 DEF ClientInv
    <3>3. Stored(t, log)
      BY <1>3, <3>1, <3>2 DEF Stored
    <3> QED
      BY <1>1, <1>3, <3>2, <3>3
  <2> SUFFICES ASSUME NEW d \in Clients
               PROVE  /\ last'[d] = IF got'[d] = <<>> THEN 0 ELSE got'[d][Len(got'[d])]
                      /\ conn'[d] # "open" => chan'[d] = <<>>
                      /\ Stored(got'[d], log') /\ Stored(chan'[d], log') /\ Len(chan'[d]) <= Buffer
    BY DEF ClientInv
  <2>2. CASE d = c
    BY <1>2, <1>7, <1>9, <2>1, <2>2
  <2>3. CASE d # c
    BY <1>1, <1>2, <1>7, <1>9, <2>3 DEF ClientInv
  <2> QED
    BY <2>2, <2>3
<1>13. OrderInv'
  <2> SUFFICES ASSUME Hub!Ascending(log)', NEW d \in Clients
               PROVE  /\ Hub!Ascending(got'[d]) /\ Hub!Ascending(chan'[d])
                      /\ \A i \in DOMAIN chan'[d] : chan'[d][i] > last'[d]
    BY DEF OrderInv, Hub!Ascending
  <2>1. Hub!Ascending(log)
    BY <1>2 DEF Hub!Ascending
  <2>2. CASE d = c
    <3>1. Hub!Ascending(chan[c]) /\ chan[c][1] > last[c]
      BY <1>1, <1>3, <2>1 DEF OrderInv
    <3>2. Hub!Ascending(es) /\ \A i \in DOMAIN es : es[i] > last[c]
      BY <1>3, <1>4, <1>5, <3>1 DEF Hub!Ascending
    <3>3. Hub!Ascending(got'[c])
      BY <1>1, <1>7, <2>1, <3>2, ReceivedInOrder
    <3>4. ASSUME NEW i \in DOMAIN t PROVE t[i] > h
      <4>1. i + 1 \in DOMAIN chan[c] /\ 1 < i + 1
        BY <1>3
      <4>2. chan[c][1] < chan[c][i + 1]
        BY <1>3, <3>1, <4>1 DEF Hub!Ascending
      <4>3. t[i] = chan[c][i + 1] /\ chan[c][i + 1] \in Id
        BY <1>2, <1>3, <4>1
      <4> QED
        BY <1>3, <4>2, <4>3 DEF Id
    <3>5. ASSUME NEW i \in DOMAIN t, NEW j \in DOMAIN t, i < j PROVE t[i] < t[j]
      <4>1. i + 1 \in DOMAIN chan[c] /\ j + 1 \in DOMAIN chan[c] /\ i + 1 < j + 1
        BY <1>3, <3>5
      <4>2. chan[c][i + 1] < chan[c][j + 1]
        BY <3>1, <4>1 DEF Hub!Ascending
      <4> QED
        BY <1>3, <4>2
    <3> QED
      BY <1>8, <1>9, <2>2, <3>3, <3>4, <3>5 DEF Hub!Ascending
  <2>3. CASE d # c
    BY <1>1, <1>7, <1>9, <2>1, <2>3 DEF OrderInv
  <2> QED
    BY <2>2, <2>3
<1> QED
  BY <1>10, <1>11, <1>12, <1>13 DEF HubIndInv

-----------------------------------------------------------------------------
(* The inductive invariant of the hub and its streams.                     *)
THEOREM HubInvariance == ASSUME Hub!HubAssumption PROVE Hub!Spec => []HubIndInv
<1>1. ASSUME HubIndInv, UNCHANGED Hub!vars PROVE HubIndInv'
  <2>1. UNCHANGED <<nextID, ring, start, size, pending, conn, chan, last, got, log, since, live, dropped>>
    BY <1>1 DEF Hub!vars
  <2>2. HubTypeOK' /\ RingInv'
    BY <1>1, <2>1, SameHub DEF HubIndInv, HubTypeOK
  <2>3. StreamInv' /\ ClientInv' /\ OrderInv'
    BY <1>1, <2>1 DEF HubIndInv, StreamInv, Hub!StreamComplete, Hub!Open, ClientInv, Stored, OrderInv, Hub!Ascending
  <2> QED
    BY <2>2, <2>3 DEF HubIndInv
<1>2. HubIndInv /\ [Hub!Next]_Hub!vars => HubIndInv'
  BY <1>1, TakeIDStep, StoreStep, ConnectStep, SubscribeStep, DeliverStep, DisconnectStep DEF Hub!Next
<1> QED
  BY <1>2, HubInitInv, PTL DEF Hub!Spec

(* The ring buffer is the end of everything stored (pushLocked wraps       *)
(* around correctly), a subscriber whose channel never was full misses     *)
(* nothing stored since it subscribed, and over all its connections a      *)
(* client gets no event twice as long as the publishers store in the order *)
(* of their ids.                                                           *)
THEOREM StreamsAreFaithful == ASSUME Hub!HubAssumption PROVE Hub!Spec => []StreamFaithful
<1>1. ASSUME HubIndInv, Hub!Ascending(log), NEW c \in Clients,
             NEW i \in DOMAIN got[c], NEW j \in DOMAIN got[c], i # j
      PROVE  got[c][i] # got[c][j]
  <2>1. got[c] \in Seq(Id) /\ Hub!Ascending(got[c])
    BY <1>1 DEF HubIndInv, HubTypeOK, OrderInv
  <2>2. i \in Nat /\ j \in Nat /\ got[c][i] \in Nat /\ got[c][j] \in Nat
    BY <2>1 DEF Id
  <2> QED
    BY <1>1, <2>1, <2>2 DEF Hub!Ascending
<1>2. HubIndInv => StreamFaithful
  BY <1>1 DEF HubIndInv, RingInv, StreamInv, Hub!AtMostOnce, Hub!StreamFaithful, StreamFaithful
<1> QED
  BY <1>2, HubInvariance, PTL

-----------------------------------------------------------------------------
(* Both properties hold of calls and streams side by side, as the run      *)
(* checks them: a step of the whole is a step of one part or leaves it     *)
(* alone.                                                                  *)
THEOREM WaitingIsSound == WaitingSpec => [](CallsSound /\ StreamFaithful)
<1> DEFINE all == <<calls, stream, part>>
<1>1. WaitingInit => Init /\ Hub!Init
  BY DEF WaitingInit
<1>2. [WaitingNext]_all => [Hub!Next]_Hub!vars
  BY DEF WaitingNext, stream, Hub!vars
<1>3. [WaitingNext]_all => [Next]_<<vars, deployment>>
  BY DEF WaitingNext, calls
<1>4. WaitingSpec => Spec /\ Hub!Spec
  BY <1>1, <1>2, <1>3, PTL DEF WaitingSpec, Spec, Hub!Spec
<1> QED
  BY <1>4, HubAssumption, CallsAreSound, StreamsAreFaithful, PTL
=============================================================================
