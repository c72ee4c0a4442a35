---------------------------- MODULE ReloadProofs ----------------------------
(***************************************************************************)
(* Reloads hand over addresses, jobs and the service, for every number of  *)
(* reloads, jobs and attempts, and whatever is wrong with configurations.  *)
(***************************************************************************)
EXTENDS Reload, FiniteSetTheorems, TLAPS

ServeState == {"off", "starting", "listening", "closing", "closed"}
RowStatus == {"queued", "running", "succeeded", "failed", "dead"}

MgrKind == {"good", "early", "late", "timeout"}

Types ==
    /\ deployment \in Deployments
    /\ main \in {"wait", "reload", "stopping", "failing", "draining"}
    /\ mgr \in [pc : {"idle", "listeners", "checks", "recover", "webhook"},
                origin : {"signal", "api"}, old : Runtimes \cup {None},
                kind : MgrKind, restoring : BOOLEAN]
    /\ current \in Runtimes \cup {None} /\ made \in Runtimes
    /\ stopped \subseteq cancelled /\ cancelled \subseteq stopping
    /\ stopping \subseteq Runtimes /\ dispatching \subseteq Runtimes
    /\ serve \in [Runtimes -> [Listeners -> ServeState]]
    /\ exec \in [Runtimes -> SUBSET Jobs]
    /\ row \in [Jobs -> [status : RowStatus, attempt : Nat]]
    /\ todo \subseteq Jobs \X Nat
    /\ errs \subseteq {"bind", "shutdown"} /\ process \in {"up", "exited"}

Building == mgr.pc \in {"checks", "recover", "webhook"}

Serving(r, l) == serve[r][l] \in {"starting", "listening"}

(* Runtimes are built one after the other; one being built was not seen    *)
(* before, and there is room for it.                                       *)
Numbering ==
    /\ stopping \cup dispatching \subseteq 1 .. made
    /\ current <= made
    /\ mgr.pc = "listeners" => made + 1 < MaxRuntimes
    /\ Building => /\ made \notin stopping /\ current < made
                   /\ ~mgr.restoring => made < MaxRuntimes
    /\ mgr.pc \in {"checks", "recover"} => made \notin dispatching
    /\ mgr.pc = "webhook" => made \in dispatching

(* A reload gave up waiting for the old listeners.  Nothing is built after *)
(* that, so it stays so.                                                   *)
Lost == mgr.kind = "timeout"

(* The manager replaces the runtime in force, or has none left.            *)
Replacing ==
    /\ mgr.pc # "idle" => current = mgr.old /\ current # None
    /\ main = "draining" => mgr.pc = "idle" /\ current = None
    /\ current = None => main = "draining" \/ Lost \/ (mgr.restoring /\ mgr.kind # "good")
    /\ mgr.pc = "idle" => current \notin stopping
    /\ Lost => mgr.pc = "idle" /\ current = None

(* A runtime that is being stopped has been told and has stopped serving,  *)
(* but for the one whose end the manager awaits, or has given up on.       *)
Gone(r) == r \in cancelled /\ \A l \in Listeners : ~Serving(r, l)

StoppedOnes ==
    /\ \A r \in stopping :
          Gone(r) \/ Lost \/ (r = mgr.old /\ (mgr.pc = "listeners" \/ main = "draining"))
    /\ Lost => \A q, r \in stopping : Gone(q) \/ Gone(r) \/ q = r
    /\ mgr.pc # "idle" => mgr.old \in stopping

(* Only a runtime that was put into force serves webhooks, so its webhook  *)
(* listener always gets its address, and ends only with its context.       *)
WebhookHeld ==
    /\ \A r \in Runtimes : Serving(r, "webhook") =>
          r = current \/ (main = "draining" /\ r = mgr.old) \/ (Lost /\ r \in stopping)
    /\ current # None => Serving(current, "webhook") \/ current \in cancelled
    /\ \A r \in Runtimes, l \in Listeners : serve[r][l] # "off" => r \in dispatching

IndInv ==
    /\ Types /\ Numbering /\ Replacing /\ StoppedOnes /\ WebhookHeld
    /\ PortHandoff /\ NoStuckRow

USE DEF Lost, MgrKind
-----------------------------------------------------------------------------
(* A behaviour stays with its deployment.                                  *)
LEMMA DeploymentFacts ==
  ASSUME deployment \in Deployments
  PROVE  /\ MaxRuntimes \in Nat /\ 1 \in Runtimes /\ None \notin Runtimes
         /\ Kinds \cup RestoreKinds \subseteq {"good", "early", "late"}
BY ReloadAssumption DEF MaxRuntimes, Runtimes, None, Kinds, RestoreKinds

(* Steps that leave the runtimes and what the manager does alone.          *)
Quiet ==
    /\ UNCHANGED <<deployment, mgr, current, made, stopping, cancelled, dispatching, serve>>
    /\ main' = "draining" <=> main = "draining"

(* A step that changes nothing the invariant speaks of keeps it.           *)
LEMMA QuietKeeps ==
  ASSUME Numbering, Replacing, StoppedOnes, WebhookHeld, Quiet
  PROVE  Numbering' /\ Replacing' /\ StoppedOnes' /\ WebhookHeld'
BY DEF Quiet, Numbering, Replacing, StoppedOnes, WebhookHeld, Building, Gone, Serving, MaxRuntimes,
   Runtimes

(* The first runtime is in force and serves both listeners.                *)
LEMMA InitInv == Init => IndInv
<1> SUFFICES ASSUME Init PROVE IndInv
  OBVIOUS
<1>d. /\ MaxRuntimes \in Nat /\ 1 \in Runtimes /\ None \notin Runtimes
  BY DeploymentFacts DEF Init
<1>1. Types
  BY <1>d DEF Init, Types, ServeState, RowStatus, Listeners
<1>2. Numbering /\ Replacing
  BY DEF Init, Numbering, Replacing, Building, None
<1>3. StoppedOnes
  BY DEF Init, StoppedOnes
<1>4. WebhookHeld
  BY <1>d DEF Init, WebhookHeld, Serving, Listeners
<1>5. PortHandoff /\ NoStuckRow
  BY DEF Init, PortHandoff, NoStuckRow
<1> QED
  BY <1>1, <1>2, <1>3, <1>4, <1>5 DEF IndInv

(* Signals, requests, errors and the ends of Stop and of the process.      *)
LEMMA QuietSteps ==
  ASSUME IndInv, deployment' = deployment,
         \/ Terminate \/ ComponentFailed \/ Exit
         \/ \E r \in Runtimes : OpenRequest(r) \/ CloseRequest(r) \/ StopReturns(r)
  PROVE  IndInv'
<1> USE DEF rtVars
<1>1. /\ UNCHANGED <<mgr, current, made, stopping, cancelled, dispatching, serve, exec, row, todo, errs>>
      /\ main' = "draining" <=> main = "draining"
  BY DEF Terminate, ComponentFailed, Exit, OpenRequest, CloseRequest, StopReturns
<1>2. Types'
  <2>1. stopped' \subseteq cancelled'
    BY <1>1 DEF Terminate, ComponentFailed, Exit, OpenRequest, CloseRequest, StopReturns, IndInv,
       Types
  <2>2. main' \in {"wait", "reload", "stopping", "failing", "draining"}
        /\ process' \in {"up", "exited"}
    BY DEF Terminate, ComponentFailed, Exit, OpenRequest, CloseRequest, StopReturns, IndInv, Types
  <2> QED
    BY <1>1, <2>1, <2>2 DEF IndInv, Types, Runtimes, MaxRuntimes
<1>3. Numbering' /\ Replacing' /\ StoppedOnes' /\ WebhookHeld'
  BY <1>1, QuietKeeps DEF Quiet, IndInv
<1>4. PortHandoff' /\ NoStuckRow'
  BY <1>1 DEF IndInv, PortHandoff, Owned, NoStuckRow, Runtimes, MaxRuntimes
<1> QED
  BY <1>2, <1>3, <1>4 DEF IndInv

(* Workers: a row that is taken is executed, and one that is finished by a *)
(* worker that can still write is not running any more.                    *)
LEMMA WorkerSteps ==
  ASSUME IndInv, deployment' = deployment, NEW r \in Runtimes, NEW j \in Jobs,
         Dequeue(r, j) \/ Finish(r, j)
  PROVE  IndInv'
<1>1. UNCHANGED <<main, mgr, current, made, stopping, cancelled, stopped, dispatching, serve, clients,
                  todo, errs, process>>
  BY DEF Dequeue, Finish
<1>t. Types /\ NoStuckRow
  BY DEF IndInv
<1>2. /\ \A i \in Jobs : i # j => row'[i] = row[i]
      /\ \A q \in Runtimes : q # r => exec'[q] = exec[q]
      /\ \A i \in Jobs : i # j => (i \in exec'[r] <=> i \in exec[r])
  BY <1>t DEF Dequeue, Finish, Types
<1>3. \/ row'[j].status = "running" /\ j \in exec'[r] /\ r \notin cancelled
      \/ row'[j].status # "running"
      \/ row' = row /\ r \in cancelled
  BY <1>t DEF Dequeue, Finish, Live, Types
<1>4. Types'
  <2>1. row' \in [Jobs -> [status : RowStatus, attempt : Nat]]
    BY <1>t DEF Dequeue, Finish, Types, RowStatus
  <2>2. exec' \in [Runtimes -> SUBSET Jobs]
    BY <1>t DEF Dequeue, Finish, Types
  <2> QED
    BY <1>1, <1>t, <2>1, <2>2 DEF Types, Runtimes, MaxRuntimes
<1>5. Numbering' /\ Replacing' /\ StoppedOnes' /\ WebhookHeld'
  BY <1>1, QuietKeeps DEF Quiet, IndInv
<1>6. PortHandoff'
  BY <1>1 DEF IndInv, PortHandoff, Owned
<1>7. NoStuckRow'
  <2> SUFFICES ASSUME NEW i \in Jobs, row'[i].status = "running"
               PROVE  \/ \E q \in Runtimes : i \in exec'[q] /\ q \notin cancelled
                      \/ mgr.pc \in {"listeners", "checks"} \/ \E t \in todo : t[1] = i
                      \/ current = None
    BY <1>1 DEF NoStuckRow, Runtimes, MaxRuntimes
  <2>1. CASE i # j
    BY <1>2, <1>t, <2>1 DEF NoStuckRow
  <2>2. CASE i = j
    BY <1>2, <1>3, <1>t, <2>2 DEF NoStuckRow
  <2> QED
    BY <2>1, <2>2
<1> QED
  BY <1>4, <1>5, <1>6, <1>7 DEF IndInv

(* Recovery reads every running row, and gives back every row it has read. *)
LEMMA RecoverSteps ==
  ASSUME IndInv, deployment' = deployment, FindRunning \/ \E t \in todo : RecoverRow(t)
  PROVE  IndInv'
<1> USE DEF rtVars
<1>t. Types /\ NoStuckRow
  BY DEF IndInv
<1>1. CASE FindRunning
  <2>1. /\ UNCHANGED <<main, current, made, stopping, cancelled, stopped, dispatching, serve, clients,
                       exec, row, errs, process>>
        /\ mgr.pc = "checks" /\ mgr' = [mgr EXCEPT !.pc = "recover"]
        /\ todo' = {<<j, row[j].attempt>> : j \in {i \in Jobs : row[i].status = "running"}}
    BY <1>1 DEF FindRunning
  <2>2. /\ mgr'.pc = "recover" /\ mgr'.old = mgr.old /\ mgr'.restoring = mgr.restoring
        /\ mgr'.kind = mgr.kind
    BY <2>1, <1>t DEF Types
  <2>3. Types'
    <3>1. todo' \subseteq Jobs \X Nat
      BY <2>1, <1>t DEF Types
    <3>2. mgr' \in [pc : {"idle", "listeners", "checks", "recover", "webhook"},
                    origin : {"signal", "api"}, old : Runtimes \cup {None},
                    kind : MgrKind, restoring : BOOLEAN]
      BY <2>1, <1>t DEF Types
    <3> QED
      BY <2>1, <3>1, <3>2, <1>t DEF Types, Runtimes, MaxRuntimes
  <2>4. Numbering' /\ Replacing'
    BY <2>1, <2>2 DEF IndInv, Numbering, Replacing, Building, MaxRuntimes
  <2>5. StoppedOnes' /\ WebhookHeld'
    BY <2>1, <2>2 DEF IndInv, StoppedOnes, WebhookHeld, Gone, Serving, Runtimes, MaxRuntimes
  <2>6. PortHandoff'
    BY <2>1, <2>2 DEF IndInv, PortHandoff, Owned
  <2>7. NoStuckRow'
    <3>1. \A j \in Jobs : row[j].status = "running" => <<j, row[j].attempt>> \in todo'
      BY <2>1
    <3>2. \A j \in Jobs : row'[j].status = "running" => \E t \in todo' : t[1] = j
      BY <2>1, <3>1
    <3> QED
      BY <3>2 DEF NoStuckRow
  <2> QED
    BY <2>3, <2>4, <2>5, <2>6, <2>7 DEF IndInv
<1>2. ASSUME NEW t \in todo, RecoverRow(t) PROVE IndInv'
  <2>1. /\ UNCHANGED <<main, mgr, current, made, stopping, cancelled, stopped, dispatching, serve,
                       clients, exec, errs, process>>
        /\ todo' = todo \ {t}
        /\ row' = [row EXCEPT ![t[1]] =
                     [status |-> IF t[2] + 1 <= MaxAttempts THEN "queued" ELSE "dead",
                      attempt |-> t[2] + 1]]
    BY <1>2 DEF RecoverRow
  <2>2. t[1] \in Jobs /\ t[2] \in Nat
    BY <1>t DEF Types
  <2>3. Types'
    <3>1. row' \in [Jobs -> [status : RowStatus, attempt : Nat]]
      BY <2>1, <2>2, <1>t DEF Types, RowStatus
    <3>2. todo' \subseteq Jobs \X Nat
      BY <2>1, <1>t DEF Types
    <3> QED
      BY <2>1, <3>1, <3>2, <1>t DEF Types, Runtimes, MaxRuntimes
  <2>4. Numbering' /\ Replacing' /\ StoppedOnes' /\ WebhookHeld'
    BY <2>1, QuietKeeps DEF Quiet, IndInv
  <2>5. PortHandoff'
    BY <2>1 DEF IndInv, PortHandoff, Owned
  <2>6. \A j \in Jobs : row'[j].status = "running" => j # t[1] /\ row[j].status = "running"
    BY <2>1, <2>2, <1>t DEF Types
  <2>7. NoStuckRow'
    BY <2>1, <2>6, <1>t DEF NoStuckRow, Runtimes, MaxRuntimes
  <2> QED
    BY <2>3, <2>4, <2>5, <2>7 DEF IndInv
<1> QED
  BY <1>1, <1>2

(* A listener of a runtime changes its state.                              *)
LEMMA ServeType ==
  ASSUME NEW R, NEW L, NEW S, NEW f \in [R -> [L -> S]], NEW r \in R, NEW l \in L, NEW s \in S
  PROVE  /\ [f EXCEPT ![r][l] = s] \in [R -> [L -> S]]
         /\ [f EXCEPT ![r][l] = s][r][l] = s
         /\ \A q \in R, k \in L : q # r \/ k # l => [f EXCEPT ![r][l] = s][q][k] = f[q][k]
<1>1. f[r] \in [L -> S]
  OBVIOUS
<1>2. [f[r] EXCEPT ![l] = s] \in [L -> S]
  BY <1>1
<1>3. [f EXCEPT ![r][l] = s] = [f EXCEPT ![r] = [f[r] EXCEPT ![l] = s]]
  OBVIOUS
<1> QED
  BY <1>2, <1>3

(* A cancelled runtime is the one whose end the manager awaits: the rows   *)
(* it executes are left to a recovery that comes, or to the next process.  *)
LEMMA CancelStep ==
  ASSUME IndInv, deployment' = deployment, NEW r \in Runtimes, Cancel(r)
  PROVE  IndInv'
<1>t. Types /\ NoStuckRow /\ StoppedOnes /\ Replacing
  BY DEF IndInv
<1>1. /\ UNCHANGED <<main, mgr, current, made, stopping, stopped, dispatching, serve, clients, exec,
                     row, todo, errs, process>>
      /\ r \in stopping \ cancelled /\ cancelled' = cancelled \cup {r}
  BY DEF Cancel
<1>2. mgr.pc = "listeners" \/ current = None
  BY <1>1, <1>t DEF StoppedOnes, Gone, Replacing
<1>3. Types'
  BY <1>1, <1>t DEF Types, Runtimes, MaxRuntimes
<1>4. Numbering' /\ Replacing'
  BY <1>1 DEF IndInv, Numbering, Replacing, Building, MaxRuntimes
<1>5. StoppedOnes' /\ WebhookHeld'
  BY <1>1 DEF IndInv, StoppedOnes, WebhookHeld, Gone, Serving, Runtimes, MaxRuntimes
<1>6. PortHandoff'
  BY <1>1 DEF IndInv, PortHandoff, Owned
<1>7. NoStuckRow'
  BY <1>1, <1>2 DEF NoStuckRow
<1> QED
  BY <1>3, <1>4, <1>5, <1>6, <1>7 DEF IndInv

(* Among the runtimes that are owned, one at a time serves a listener.     *)
LEMMA OneServes ==
  ASSUME IndInv, NEW q \in Runtimes, NEW r \in Runtimes, NEW l \in Listeners,
         Serving(q, l), Serving(r, l), Owned(q), Owned(r)
  PROVE  q = r
<1>0. CASE Lost
  <2>1. q \in stopping /\ r \in stopping
    BY <1>0, DeploymentFacts DEF IndInv, Types, Replacing, Owned
  <2> QED
    BY <1>0, <2>1 DEF IndInv, StoppedOnes, Gone
<1>1. ASSUME ~Lost, NEW s \in stopping, Serving(s, l)
      PROVE  s = mgr.old /\ (mgr.pc = "listeners" \/ main = "draining")
  BY <1>1 DEF IndInv, StoppedOnes, Gone
<1>2. CASE ~Lost /\ main = "draining"
  <2>1. mgr.pc = "idle" /\ current = None
    BY <1>2 DEF IndInv, Replacing
  <2>2. q \in stopping /\ r \in stopping
    BY <2>1 DEF Owned, None, Runtimes
  <2> QED
    BY <1>1, <1>2, <2>2
<1>3. CASE ~Lost /\ mgr.pc = "listeners"
  <2>1. current = mgr.old
    BY <1>3 DEF IndInv, Replacing
  <2> QED
    BY <1>1, <1>3, <2>1 DEF Owned
<1>4. CASE ~Lost /\ main # "draining" /\ mgr.pc # "listeners"
  <2>1. q \notin stopping /\ r \notin stopping
    BY <1>1, <1>4
  <2>2. CASE mgr.pc = "webhook"
    <3>1. current \in stopping
      BY <2>2 DEF IndInv, StoppedOnes, Replacing
    <3> QED
      BY <2>1, <2>2, <3>1 DEF Owned
  <2>3. CASE mgr.pc # "webhook"
    BY <2>1, <2>3 DEF Owned
  <2> QED
    BY <2>2, <2>3
<1> QED
  BY <1>0, <1>2, <1>3, <1>4

(* A listener that finds its address taken shares it with a runtime that   *)
(* was left behind, and never is the webhook listener in force.            *)
LEMMA ListenerSteps ==
  ASSUME IndInv, deployment' = deployment, NEW r \in Runtimes, NEW l \in Listeners,
         Listen(r, l) \/ CloseListener(r, l) \/ ShutdownReturns(r, l)
  PROVE  IndInv'
<1>t. Types /\ NoStuckRow /\ StoppedOnes /\ Replacing /\ WebhookHeld
  BY DEF IndInv
<1>1. UNCHANGED <<main, mgr, current, made, stopping, cancelled, stopped, dispatching, clients, exec,
                  row, todo, process>>
  BY DEF Listen, CloseListener, ShutdownReturns
<1>2. PICK s \in {"listening", "closing", "closed"} :
         /\ serve' = [serve EXCEPT ![r][l] = s]
         /\ s = "listening" => serve[r][l] = "starting"
         /\ s # "listening" => \/ r \in cancelled
                               \/ serve[r][l] = "closing"
                               \/ serve[r][l] = "starting" /\ Bound(l) # {}
         /\ serve[r][l] # "off"
  BY DEF Listen, CloseListener, ShutdownReturns
<1>3. /\ serve'[r][l] = s
      /\ \A q \in Runtimes, k \in Listeners : q # r \/ k # l => serve'[q][k] = serve[q][k]
  BY <1>2, <1>t DEF Types
<1>4. \A q \in Runtimes, k \in Listeners : Serving(q, k)' => Serving(q, k)
  BY <1>2, <1>3 DEF Serving
<1>5. Types'
  <2>1. serve' \in [Runtimes -> [Listeners -> ServeState]]
    BY <1>2, <1>t, ServeType DEF Types, ServeState
  <2>2. errs' \subseteq {"bind", "shutdown"}
    BY <1>t DEF Listen, CloseListener, ShutdownReturns, Types
  <2> QED
    BY <1>1, <2>1, <2>2, <1>t DEF Types, Runtimes, MaxRuntimes
<1>6. Numbering' /\ Replacing'
  BY <1>1 DEF IndInv, Numbering, Replacing, Building, MaxRuntimes
<1>7. StoppedOnes'
  <2>1. \A q \in stopping : Gone(q) => Gone(q)'
    BY <1>1, <1>4, <1>t DEF Gone, Types
  <2> QED
    BY <1>1, <2>1, <1>t DEF StoppedOnes
<1>8. WebhookHeld'
  <2>1. \A q \in Runtimes : Serving(q, "webhook")' =>
           q = current \/ (main = "draining" /\ q = mgr.old) \/ (Lost /\ q \in stopping)
    BY <1>4, <1>t DEF WebhookHeld, Listeners
  <2>2. ASSUME current # None PROVE Serving(current, "webhook")' \/ current \in cancelled
    <3>1. CASE r # current \/ l # "webhook" \/ s = "listening" \/ r \in cancelled
      BY <2>2, <3>1, <1>1, <1>3, <1>t DEF WebhookHeld, Serving, Types, Listeners
    <3>2. CASE /\ r = current /\ l = "webhook" /\ r \notin cancelled
               /\ serve[r][l] = "closing"
      BY <2>2, <3>2, <1>t DEF WebhookHeld, Serving
    <3>3. CASE r = current /\ l = "webhook" /\ serve[r][l] = "starting" /\ Bound(l) # {}
      <4>1. PICK q \in Runtimes : serve[q]["webhook"] = "listening"
        BY <3>3 DEF Bound
      <4>2. q = current
        BY <2>2, <4>1, <1>t DEF WebhookHeld, Serving, Replacing
      <4> QED
        BY <3>3, <4>1, <4>2
    <3> QED
      BY <1>2, <3>1, <3>2, <3>3
  <2>3. \A q \in Runtimes, k \in Listeners : serve'[q][k] # "off" => q \in dispatching
    BY <1>2, <1>3, <1>t DEF WebhookHeld
  <2> QED
    BY <1>1, <2>1, <2>2, <2>3 DEF WebhookHeld, Runtimes, MaxRuntimes
<1>9. PortHandoff'
  <2>1. CASE "bind" \in errs
    BY <1>1, <2>1 DEF IndInv, PortHandoff, Owned
  <2>2. CASE "bind" \notin errs /\ "bind" \in errs'
    <3>1. serve[r][l] = "starting" /\ Bound(l) # {}
      BY <2>2 DEF Listen, CloseListener, ShutdownReturns
    <3>2. PICK q \in Runtimes : serve[q][l] = "listening"
      BY <3>1 DEF Bound
    <3>3. q # r /\ Serving(q, l) /\ Serving(r, l) /\ q \in dispatching /\ r \in dispatching
      BY <3>1, <3>2, <1>t DEF Serving, WebhookHeld
    <3>4. ~Owned(q) \/ ~Owned(r)
      BY <3>3, OneServes
    <3> QED
      BY <1>1, <3>3, <3>4 DEF PortHandoff, Owned
  <2>3. CASE "bind" \notin errs'
    BY <2>3 DEF PortHandoff
  <2> QED
    BY <2>1, <2>2, <2>3
<1>10. NoStuckRow'
  BY <1>1, <1>t DEF NoStuckRow, Runtimes, MaxRuntimes
<1> QED
  BY <1>5, <1>6, <1>7, <1>8, <1>9, <1>10 DEF IndInv

(* A reload begins: the runtime in force is the one to be stopped.         *)
LEMMA ReloadStep ==
  ASSUME IndInv, deployment' = deployment, NEW o \in {"signal", "api"}, NEW k \in Kinds, Reload(o, k)
  PROVE  IndInv'
<1>t. Types /\ NoStuckRow /\ StoppedOnes /\ Replacing /\ WebhookHeld /\ Numbering
  BY DEF IndInv
<1>d. MaxRuntimes \in Nat /\ Kinds \subseteq {"good", "early", "late"}
  BY <1>t, DeploymentFacts DEF Types
<1>1. /\ UNCHANGED <<current, made, cancelled, stopped, dispatching, serve, clients, exec, row, todo,
                     errs, process>>
      /\ mgr.pc = "idle" /\ current # None /\ made < MaxRuntimes - 1
      /\ main' \in {main, "reload"} /\ stopping' = stopping \cup {current}
      /\ mgr' = [pc |-> "listeners", origin |-> o, old |-> current, kind |-> k, restoring |-> FALSE]
  BY DEF Reload
<1>2. current \in Runtimes /\ main # "draining" /\ main' # "draining" /\ ~Lost /\ mgr'.kind # "timeout"
  BY <1>1, <1>t, <1>d DEF Types, Replacing
<1>3. Types'
  BY <1>1, <1>2, <1>t, <1>d DEF Types, Runtimes, MaxRuntimes
<1>4. Numbering'
  BY <1>1, <1>2, <1>t, <1>d DEF Numbering, Building, Runtimes, MaxRuntimes, Types, None
<1>5. Replacing'
  BY <1>1, <1>2 DEF Replacing
<1>6. StoppedOnes'
  <2>1. \A r \in stopping : Gone(r)
    BY <1>1, <1>2, <1>t DEF StoppedOnes
  <2> QED
    BY <1>1, <2>1 DEF StoppedOnes, Gone, Serving
<1>7. WebhookHeld'
  BY <1>1, <1>2, <1>t DEF WebhookHeld, Serving, Runtimes, MaxRuntimes
<1>8. PortHandoff'
  BY <1>1 DEF IndInv, PortHandoff, Owned
<1>9. NoStuckRow'
  BY <1>1 DEF NoStuckRow
<1> QED
  BY <1>3, <1>4, <1>5, <1>6, <1>7, <1>8, <1>9 DEF IndInv

(* The manager goes on when the old listeners have stopped, which is only  *)
(* after the cancellation.                                                 *)
LEMMA ListenersStoppedStep ==
  ASSUME IndInv, deployment' = deployment, ListenersStopped
  PROVE  IndInv'
<1> USE DEF rtVars
<1>t. Types /\ NoStuckRow /\ StoppedOnes /\ Replacing /\ WebhookHeld /\ Numbering
  BY DEF IndInv
<1>d. MaxRuntimes \in Nat
  BY <1>t, DeploymentFacts DEF Types
<1>1. /\ UNCHANGED <<main, current, stopping, cancelled, stopped, dispatching, serve, clients, exec,
                     row, todo, errs, process>>
      /\ mgr.pc = "listeners" /\ ServeStopped(mgr.old)
      /\ mgr' = [mgr EXCEPT !.pc = "checks"] /\ made' = made + 1
  BY DEF ListenersStopped
<1>2. /\ mgr'.pc = "checks" /\ mgr'.old = mgr.old /\ mgr'.restoring = mgr.restoring
      /\ mgr'.kind = mgr.kind
  BY <1>1, <1>t DEF Types
<1>3. made + 1 \in Runtimes /\ made + 1 < MaxRuntimes /\ made \in Nat
  BY <1>1, <1>t, <1>d DEF Numbering, Types, Runtimes
<1>4. current = mgr.old /\ current \in Runtimes /\ main # "draining" /\ current <= made
  BY <1>1, <1>t DEF Replacing, Types, Numbering
<1>5. Types'
  <2>1. mgr' \in [pc : {"idle", "listeners", "checks", "recover", "webhook"},
                  origin : {"signal", "api"}, old : Runtimes \cup {None},
                  kind : MgrKind, restoring : BOOLEAN]
    BY <1>1, <1>t DEF Types
  <2> QED
    BY <1>1, <1>3, <2>1, <1>t DEF Types, Runtimes, MaxRuntimes
<1>6. Numbering'
  <2>1. \A r \in stopping \cup dispatching : r \in 1 .. made
    BY <1>t DEF Numbering
  <2>2. stopping \cup dispatching \subseteq 1 .. (made + 1)
        /\ made + 1 \notin stopping \cup dispatching
    BY <1>3, <2>1
  <2>3. current \in Int /\ current < made + 1
    BY <1>3, <1>4 DEF Runtimes
  <2> QED
    BY <1>1, <1>2, <1>3, <2>2, <2>3 DEF Numbering, Building, MaxRuntimes
<1>7. Replacing'
  BY <1>1, <1>2, <1>t DEF Replacing
<1>8. Gone(mgr.old)
  <2>1. \A l \in Listeners : ~Serving(mgr.old, l)
    BY <1>1 DEF ServeStopped, Serving
  <2>2. mgr.old \in cancelled
    BY <1>4, <2>1, <1>t DEF WebhookHeld, Listeners, Runtimes, None
  <2> QED
    BY <2>1, <2>2 DEF Gone
<1>9. StoppedOnes'
  BY <1>1, <1>2, <1>4, <1>8, <1>t DEF StoppedOnes, Gone, Serving
<1>10. WebhookHeld'
  BY <1>1, <1>2, <1>t DEF WebhookHeld, Serving, Runtimes, MaxRuntimes
<1>11. PortHandoff'
  <2>1. \A r \in dispatching : ~Owned(r) => ~Owned(r)'
    BY <1>1, <1>2 DEF Owned
  <2> QED
    BY <1>1, <2>1 DEF IndInv, PortHandoff
<1>12. NoStuckRow'
  BY <1>2 DEF NoStuckRow
<1> QED
  BY <1>5, <1>6, <1>7, <1>9, <1>10, <1>11, <1>12 DEF IndInv

(* The manager gives up: the old runtime is the only one that may go on.   *)
LEMMA ListenersTimeoutStep ==
  ASSUME IndInv, deployment' = deployment, ListenersTimeout
  PROVE  IndInv'
<1> USE DEF rtVars
<1>t. Types /\ NoStuckRow /\ StoppedOnes /\ Replacing /\ WebhookHeld /\ Numbering
  BY DEF IndInv
<1>1. /\ UNCHANGED <<made, stopping, cancelled, stopped, dispatching, serve, clients, exec, row, todo,
                     errs, process>>
      /\ mgr.pc = "listeners" /\ current' = None /\ main' \in {"wait", main}
      /\ mgr' = [mgr EXCEPT !.pc = "idle", !.kind = "timeout"]
  BY DEF ListenersTimeout
<1>2. mgr'.pc = "idle" /\ mgr'.kind = "timeout" /\ mgr'.old = mgr.old
  BY <1>1, <1>t DEF Types
<1>3. current = mgr.old /\ current # None /\ main # "draining" /\ main' # "draining" /\ ~Lost
  BY <1>1, <1>t DEF Replacing
<1>4. Types'
  <2>1. mgr' \in [pc : {"idle", "listeners", "checks", "recover", "webhook"},
                  origin : {"signal", "api"}, old : Runtimes \cup {None},
                  kind : MgrKind, restoring : BOOLEAN]
    BY <1>1, <1>t DEF Types, MgrKind
  <2> QED
    BY <1>1, <2>1, <1>t DEF Types, Runtimes, MaxRuntimes
<1>5. Numbering'
  BY <1>1, <1>2, <1>t DEF Numbering, Building, Types, Runtimes, MaxRuntimes, None
<1>6. Replacing'
  <2>1. None \notin stopping
    BY <1>t, DeploymentFacts DEF Types
  <2> QED
    BY <1>1, <1>2, <1>3, <2>1 DEF Replacing, Lost
<1>7. StoppedOnes'
  <2>1. \A r \in stopping : Gone(r) \/ r = mgr.old
    BY <1>3, <1>t DEF StoppedOnes
  <2> QED
    BY <1>1, <1>2, <2>1 DEF StoppedOnes, Gone, Serving, Lost
<1>8. WebhookHeld'
  <2>1. \A r \in Runtimes : Serving(r, "webhook") => r \in stopping
    BY <1>1, <1>3, <1>t DEF WebhookHeld, StoppedOnes
  <2> QED
    BY <1>1, <1>2, <2>1, <1>t DEF WebhookHeld, Serving, Lost, Runtimes, MaxRuntimes
<1>9. PortHandoff'
  <2>1. \A r \in dispatching : ~Owned(r) => ~Owned(r)'
    BY <1>1, <1>2, <1>t, DeploymentFacts DEF Owned, Types
  <2> QED
    BY <1>1, <2>1 DEF IndInv, PortHandoff
<1>10. NoStuckRow'
  BY <1>1 DEF NoStuckRow
<1> QED
  BY <1>4, <1>5, <1>6, <1>7, <1>8, <1>9, <1>10 DEF IndInv

(* A build fails: another one begins, or the manager has no runtime.       *)
LEMMA BuildFailsStep ==
  ASSUME IndInv, deployment' = deployment, ChecksFail \/ WebhookFails
  PROVE  IndInv'
<1> USE DEF rtVars
<1>t. Types /\ NoStuckRow /\ StoppedOnes /\ Replacing /\ WebhookHeld /\ Numbering
  BY DEF IndInv
<1>d. MaxRuntimes \in Nat /\ RestoreKinds \subseteq {"good", "early", "late"}
  BY <1>t, DeploymentFacts DEF Types
<1>1. /\ UNCHANGED <<stopping, cancelled, stopped, dispatching, serve, clients, exec, row, todo,
                     errs, process>>
      /\ Building /\ mgr.pc \in {"checks", "webhook"} /\ mgr.kind # "good" /\ BuildFails
  BY DEF ChecksFail, WebhookFails, Building
<1>2. /\ current = mgr.old /\ current \in Runtimes /\ main # "draining" /\ mgr.old \in stopping
      /\ \A r \in stopping : Gone(r)
  BY <1>1, <1>t DEF Replacing, Types, StoppedOnes, Building
<1>3. ASSUME ~mgr.restoring PROVE IndInv'
  <2>1. /\ UNCHANGED <<current, main>> /\ made' = made + 1
        /\ \E k \in RestoreKinds :
              mgr' = [mgr EXCEPT !.pc = "checks", !.restoring = TRUE, !.kind = k]
    BY <1>1, <1>3 DEF BuildFails
  <2>2. mgr'.pc = "checks" /\ mgr'.old = mgr.old /\ mgr'.restoring /\ mgr'.kind # "timeout" /\ ~Lost
    BY <1>1, <2>1, <1>t, <1>d DEF Types, Replacing
  <2>3. made \in Nat /\ made + 1 \in Runtimes /\ current <= made
    BY <1>1, <1>3, <1>t, <1>d DEF Numbering, Types, Runtimes
  <2>4. Types'
    <3>1. mgr' \in [pc : {"idle", "listeners", "checks", "recover", "webhook"},
                    origin : {"signal", "api"}, old : Runtimes \cup {None},
                    kind : MgrKind, restoring : BOOLEAN]
      BY <2>1, <1>t, <1>d DEF Types
    <3> QED
      BY <1>1, <2>1, <2>3, <3>1, <1>t DEF Types, Runtimes, MaxRuntimes
  <2>5. Numbering'
    <3>1. \A r \in stopping \cup dispatching : r \in 1 .. made
      BY <1>t DEF Numbering
    <3>2. stopping \cup dispatching \subseteq 1 .. (made + 1)
          /\ made + 1 \notin stopping \cup dispatching
      BY <2>3, <3>1
    <3>3. current \in Int /\ current < made + 1
      BY <2>3, <1>2 DEF Runtimes
    <3> QED
      BY <1>1, <2>1, <2>2, <2>3, <3>2, <3>3 DEF Numbering, Building, MaxRuntimes
  <2>6. Replacing' /\ StoppedOnes' /\ WebhookHeld'
    BY <1>1, <1>2, <2>1, <2>2, <1>t DEF Replacing, StoppedOnes, WebhookHeld, Gone, Serving,
       Runtimes, MaxRuntimes, None
  <2>7. PortHandoff'
    BY <1>1, <2>1, <2>2 DEF IndInv, PortHandoff, Owned
  <2>8. NoStuckRow'
    BY <2>2 DEF NoStuckRow
  <2> QED
    BY <2>4, <2>5, <2>6, <2>7, <2>8 DEF IndInv
<1>4. ASSUME mgr.restoring PROVE IndInv'
  <2>1. /\ current' = None /\ made' = made /\ mgr' = [mgr EXCEPT !.pc = "idle"]
        /\ main' \in {"wait", main}
    BY <1>1, <1>4 DEF BuildFails, Return
  <2>2. /\ mgr'.pc = "idle" /\ mgr'.old = mgr.old /\ mgr'.restoring = mgr.restoring
        /\ mgr'.kind = mgr.kind
    BY <2>1, <1>t DEF Types
  <2>3. Types'
    <3>1. mgr' \in [pc : {"idle", "listeners", "checks", "recover", "webhook"},
                    origin : {"signal", "api"}, old : Runtimes \cup {None},
                    kind : MgrKind, restoring : BOOLEAN]
      BY <2>1, <1>t DEF Types
    <3> QED
      BY <1>1, <2>1, <3>1, <1>t DEF Types, Runtimes, MaxRuntimes
  <2>4. Numbering'
    BY <1>1, <2>1, <2>2, <1>t DEF Numbering, Building, Types, Runtimes, MaxRuntimes, None
  <2>5. Replacing'
    BY <1>1, <1>2, <1>4, <2>1, <2>2, <1>t DEF Replacing, Types, Runtimes, None
  <2>6. StoppedOnes'
    BY <1>1, <1>2, <2>1, <2>2 DEF StoppedOnes, Gone, Serving
  <2>7. WebhookHeld'
    <3>1. \A r \in Runtimes : ~Serving(r, "webhook")
      BY <1>2, <1>t DEF WebhookHeld, Gone, Listeners
    <3> QED
      BY <1>1, <2>1, <3>1, <1>t DEF WebhookHeld, Serving, Runtimes, MaxRuntimes
  <2>8. PortHandoff'
    BY <1>1, <2>1, <2>2 DEF IndInv, PortHandoff, Owned, Types, Runtimes, None
  <2>9. NoStuckRow'
    BY <2>1 DEF NoStuckRow
  <2> QED
    BY <2>3, <2>4, <2>5, <2>6, <2>7, <2>8, <2>9 DEF IndInv
<1> QED
  BY <1>3, <1>4

(* Scheduler, dispatcher and API of the new runtime start.                 *)
LEMMA StartComponentsStep ==
  ASSUME IndInv, deployment' = deployment, StartComponents
  PROVE  IndInv'
<1>t. Types /\ NoStuckRow /\ StoppedOnes /\ Replacing /\ WebhookHeld /\ Numbering
  BY DEF IndInv
<1>1. /\ UNCHANGED <<main, current, made, stopping, cancelled, stopped, clients, exec, row, todo,
                     errs, process>>
      /\ mgr.pc = "recover" /\ todo = {} /\ dispatching' = dispatching \cup {made}
      /\ serve' = [serve EXCEPT ![made]["api"] = "starting"]
      /\ mgr' = [mgr EXCEPT !.pc = "webhook"]
  BY DEF StartComponents
<1>2. /\ mgr'.pc = "webhook" /\ mgr'.old = mgr.old /\ mgr'.restoring = mgr.restoring
      /\ mgr'.kind = mgr.kind
  BY <1>1, <1>t DEF Types
<1>3. /\ serve' \in [Runtimes -> [Listeners -> ServeState]] /\ serve'[made]["api"] = "starting"
      /\ \A q \in Runtimes, k \in Listeners : q # made \/ k # "api" => serve'[q][k] = serve[q][k]
  BY <1>1, <1>t, ServeType DEF Types, ServeState, Listeners
<1>4. /\ made \notin stopping /\ made \notin dispatching /\ made \in 1 .. made /\ current # made
      /\ main # "draining" /\ ~Lost
  BY <1>1, <1>t DEF Numbering, Building, Types, Runtimes, Replacing
<1>5. Types'
  <2>1. mgr' \in [pc : {"idle", "listeners", "checks", "recover", "webhook"},
                  origin : {"signal", "api"}, old : Runtimes \cup {None},
                  kind : MgrKind, restoring : BOOLEAN]
    BY <1>1, <1>t DEF Types
  <2> QED
    BY <1>1, <1>3, <2>1, <1>t DEF Types, Runtimes, MaxRuntimes
<1>6. Numbering'
  BY <1>1, <1>2, <1>4, <1>t DEF Numbering, Building, MaxRuntimes
<1>7. Replacing'
  BY <1>1, <1>2, <1>t DEF Replacing
<1>8. StoppedOnes'
  <2>1. \A r \in stopping : Gone(r) => Gone(r)'
    BY <1>1, <1>3, <1>4, <1>t DEF Gone, Serving, Types
  <2> QED
    BY <1>1, <1>2, <1>4, <2>1, <1>t DEF StoppedOnes
<1>9. WebhookHeld'
  <2>1. \A r \in Runtimes : Serving(r, "webhook")' <=> Serving(r, "webhook")
    BY <1>3 DEF Serving, Listeners
  <2>2. \A r \in Runtimes : Serving(r, "webhook")' => r = current
    BY <1>4, <2>1, <1>t DEF WebhookHeld
  <2>3. current \in Runtimes => (Serving(current, "webhook")' <=> Serving(current, "webhook"))
    BY <1>1, <2>1 DEF Serving
  <2>4. current # None => Serving(current, "webhook")' \/ current \in cancelled
    BY <2>3, <1>t DEF WebhookHeld, Types
  <2>5. \A r \in Runtimes, l \in Listeners : serve'[r][l] # "off" => r \in dispatching'
    BY <1>1, <1>3, <1>t DEF WebhookHeld
  <2> QED
    BY <1>1, <2>2, <2>4, <2>5 DEF WebhookHeld, Runtimes, MaxRuntimes
<1>10. PortHandoff'
  BY <1>1, <1>2, <1>4 DEF IndInv, PortHandoff, Owned
<1>11. NoStuckRow'
  BY <1>1, <1>t DEF NoStuckRow, Runtimes, MaxRuntimes
<1> QED
  BY <1>5, <1>6, <1>7, <1>8, <1>9, <1>10, <1>11 DEF IndInv

(* The new runtime is in force, and the only one to serve webhooks.        *)
LEMMA StartWebhookStep ==
  ASSUME IndInv, deployment' = deployment, StartWebhook
  PROVE  IndInv'
<1>t. Types /\ NoStuckRow /\ StoppedOnes /\ Replacing /\ WebhookHeld /\ Numbering
  BY DEF IndInv
<1>1. /\ UNCHANGED <<made, stopping, cancelled, stopped, dispatching, clients, exec, row, todo, errs,
                     process>>
      /\ mgr.pc = "webhook" /\ current' = made /\ main' \in {"wait", main}
      /\ serve' = [serve EXCEPT ![made]["webhook"] = "starting"]
      /\ mgr' = [mgr EXCEPT !.pc = "idle"]
  BY DEF StartWebhook, Return
<1>2. /\ mgr'.pc = "idle" /\ mgr'.old = mgr.old /\ mgr'.restoring = mgr.restoring
      /\ mgr'.kind = mgr.kind
  BY <1>1, <1>t DEF Types
<1>3. /\ serve' \in [Runtimes -> [Listeners -> ServeState]] /\ serve'[made]["webhook"] = "starting"
      /\ \A q \in Runtimes, k \in Listeners : q # made \/ k # "webhook" => serve'[q][k] = serve[q][k]
  BY <1>1, <1>t, ServeType DEF Types, ServeState, Listeners
<1>4. /\ made \notin stopping /\ made \in Nat /\ made # None /\ main # "draining"
      /\ current = mgr.old /\ mgr.old \in stopping /\ \A r \in stopping : Gone(r)
      /\ current # None /\ ~Lost
  BY <1>1, <1>t DEF Numbering, Building, Types, Runtimes, Replacing, StoppedOnes, None
<1>5. Types'
  <2>1. mgr' \in [pc : {"idle", "listeners", "checks", "recover", "webhook"},
                  origin : {"signal", "api"}, old : Runtimes \cup {None},
                  kind : MgrKind, restoring : BOOLEAN]
    BY <1>1, <1>t DEF Types
  <2> QED
    BY <1>1, <1>3, <2>1, <1>t DEF Types, Runtimes, MaxRuntimes
<1>6. Numbering'
  BY <1>1, <1>2, <1>4, <1>t DEF Numbering, Building, MaxRuntimes
<1>7. Replacing'
  BY <1>1, <1>2, <1>4 DEF Replacing
<1>8. StoppedOnes'
  <2>1. \A r \in stopping : Gone(r)'
    BY <1>1, <1>3, <1>4, <1>t DEF Gone, Serving, Types
  <2> QED
    BY <1>1, <1>2, <2>1 DEF StoppedOnes
<1>9. WebhookHeld'
  <2>1. \A r \in Runtimes : ~Serving(r, "webhook")
    BY <1>4, <1>t DEF WebhookHeld, Gone, Listeners
  <2>2. \A r \in Runtimes : Serving(r, "webhook")' => r = made
    BY <1>3, <2>1 DEF Serving, Listeners
  <2>3. Serving(made, "webhook")'
    BY <1>1, <1>3 DEF Serving
  <2>4. made \in dispatching
    BY <1>1, <1>t DEF Numbering
  <2>5. \A r \in Runtimes, l \in Listeners : serve'[r][l] # "off" => r \in dispatching
    BY <1>3, <2>4, <1>t DEF WebhookHeld
  <2> QED
    BY <1>1, <2>2, <2>3, <2>5 DEF WebhookHeld, Runtimes, MaxRuntimes
<1>10. PortHandoff'
  BY <1>1, <1>2, <1>4 DEF IndInv, PortHandoff, Owned
<1>11. NoStuckRow'
  BY <1>1, <1>4, <1>t DEF NoStuckRow, Runtimes, MaxRuntimes
<1> QED
  BY <1>5, <1>6, <1>7, <1>8, <1>9, <1>10, <1>11 DEF IndInv

(* The process stops: there is no runtime in force any more.               *)
LEMMA ManagerStopStep ==
  ASSUME IndInv, deployment' = deployment, ManagerStop
  PROVE  IndInv'
<1>t. Types /\ NoStuckRow /\ StoppedOnes /\ Replacing /\ WebhookHeld /\ Numbering
  BY DEF IndInv
<1>d. None \notin Runtimes
  BY <1>t, DeploymentFacts DEF Types
<1>1. /\ UNCHANGED <<made, cancelled, stopped, dispatching, serve, clients, exec, row, todo, errs,
                     process>>
      /\ mgr.pc = "idle" /\ main # "draining" /\ main' = "draining" /\ current' = None
      /\ stopping' = stopping \cup ({current} \ {None})
      /\ mgr' = [mgr EXCEPT !.old = current]
  BY DEF ManagerStop
<1>2. mgr'.pc = "idle" /\ mgr'.old = current /\ mgr'.kind = mgr.kind
  BY <1>1, <1>t DEF Types
<1>3. Types'
  <2>1. mgr' \in [pc : {"idle", "listeners", "checks", "recover", "webhook"},
                  origin : {"signal", "api"}, old : Runtimes \cup {None},
                  kind : MgrKind, restoring : BOOLEAN]
    BY <1>1, <1>t DEF Types
  <2> QED
    BY <1>1, <2>1, <1>t DEF Types, Runtimes, MaxRuntimes
<1>4. Numbering'
  BY <1>1, <1>2, <1>t DEF Numbering, Building, Types, Runtimes, MaxRuntimes, None
<1>5. Replacing'
  BY <1>1, <1>2, <1>t, <1>d DEF Replacing, Types
<1>6. StoppedOnes'
  <2>1. CASE ~Lost
    <3>1. \A r \in stopping : Gone(r)
      BY <1>1, <2>1, <1>t DEF StoppedOnes
    <3> QED
      BY <1>1, <1>2, <2>1, <3>1 DEF StoppedOnes, Gone, Serving
  <2>2. CASE Lost
    <3>1. stopping' = stopping
      BY <1>1, <2>2, <1>t DEF Replacing
    <3> QED
      BY <1>1, <1>2, <2>2, <3>1, <1>t DEF StoppedOnes, Gone, Serving
  <2> QED
    BY <2>1, <2>2
<1>7. WebhookHeld'
  BY <1>1, <1>2, <1>t DEF WebhookHeld, Serving, Runtimes, MaxRuntimes
<1>8. PortHandoff'
  BY <1>1, <1>2, <1>d, <1>t DEF IndInv, PortHandoff, Owned, Types
<1>9. NoStuckRow'
  BY <1>1 DEF NoStuckRow
<1> QED
  BY <1>3, <1>4, <1>5, <1>6, <1>7, <1>8, <1>9 DEF IndInv

(* Every step keeps the invariant.                                         *)
LEMMA NextInv == IndInv /\ [Next]_<<vars, deployment>> => IndInv'
<1> SUFFICES ASSUME IndInv, [Next]_<<vars, deployment>> PROVE IndInv'
  OBVIOUS
<1>1. CASE UNCHANGED <<vars, deployment>>
  BY <1>1 DEF vars, rtVars, IndInv, Types, Numbering, Replacing, StoppedOnes, WebhookHeld, PortHandoff,
     NoStuckRow, Building, Gone, Serving, Owned, Runtimes, MaxRuntimes
<1>2. CASE Next
  <2>1. deployment' = deployment
    BY <1>2 DEF Next
  <2>2. CASE Manager
    BY <2>1, <2>2, ListenersStoppedStep, BuildFailsStep, RecoverSteps, StartComponentsStep,
       StartWebhookStep DEF Manager
  <2>3. CASE Environment
    BY <2>1, <2>3, ReloadStep, QuietSteps, ListenersTimeoutStep DEF Environment
  <2>4. CASE ComponentFailed \/ Exit
    BY <2>1, <2>4, QuietSteps
  <2>5. CASE ManagerStop
    BY <2>1, <2>5, ManagerStopStep
  <2>6. ASSUME NEW r \in Runtimes, Runtime(r) PROVE IndInv'
    BY <2>1, <2>6, CancelStep, QuietSteps, ListenerSteps DEF Runtime
  <2>7. ASSUME NEW r \in Runtimes, NEW j \in Jobs, Dequeue(r, j) \/ Finish(r, j) PROVE IndInv'
    BY <2>1, <2>7, WorkerSteps
  <2> QED
    BY <1>2, <2>2, <2>3, <2>4, <2>5, <2>6, <2>7 DEF Next
<1> QED
  BY <1>1, <1>2

(* The inductive invariant of the reloads.                                 *)
THEOREM Invariance == Spec => []IndInv
BY InitInv, NextInv, PTL DEF Spec

(* Runtimes that take jobs: the one in force, the one being built or the   *)
(* one being stopped, never two of them.                                   *)
LEMMA OneTakesJobs == IndInv => OneDispatcher
<1> SUFFICES ASSUME IndInv PROVE OneDispatcher
  OBVIOUS
<1> DEFINE S == {r \in Runtimes : Live(r) /\ Owned(r)}
<1>1. ~Lost => \A r \in stopping : Live(r) => r = mgr.old /\ (mgr.pc = "listeners" \/ main = "draining")
  BY DEF IndInv, StoppedOnes, Gone, Live
<1>2. \E x : S \subseteq {x}
  <2>0. CASE Lost
    <3>1. S \subseteq stopping
      BY <2>0, DeploymentFacts DEF IndInv, Types, Replacing, Owned
    <3>2. \A q, r \in S : q = r
      BY <2>0, <3>1 DEF IndInv, StoppedOnes, Gone, Live
    <3>3. CASE S = {}
      BY <3>3
    <3>4. CASE S # {}
      <4>1. PICK x : x \in S
        BY <3>4
      <4>2. S \subseteq {x}
        BY <3>2, <4>1
      <4> QED
        BY <4>2
    <3> QED
      BY <3>3, <3>4
  <2>1. CASE ~Lost /\ main = "draining"
    <3>1. mgr.pc = "idle" /\ current = None /\ None \notin Runtimes
      BY <2>1, DeploymentFacts DEF IndInv, Replacing, Types
    <3>2. S \subseteq {mgr.old}
      BY <1>1, <2>1, <3>1 DEF Owned
    <3> QED
      BY <3>2
  <2>2. CASE ~Lost /\ mgr.pc = "listeners"
    <3>1. current = mgr.old
      BY <2>2 DEF IndInv, Replacing
    <3>2. S \subseteq {mgr.old}
      BY <1>1, <2>2, <3>1 DEF Owned
    <3> QED
      BY <3>2
  <2>3. CASE ~Lost /\ main # "draining" /\ mgr.pc # "listeners"
    <3>1. \A r \in S : r \notin stopping
      BY <1>1, <2>3
    <3>2. CASE mgr.pc = "webhook"
      <4>1. current \in stopping
        BY <3>2 DEF IndInv, StoppedOnes, Replacing
      <4>2. S \subseteq {made}
        BY <3>1, <4>1 DEF Owned
      <4> QED
        BY <4>2
    <3>3. CASE mgr.pc # "webhook"
      <4>1. S \subseteq {current}
        BY <3>1, <3>3 DEF Owned
      <4> QED
        BY <4>1
    <3> QED
      BY <3>2, <3>3
  <2> QED
    BY <2>0, <2>1, <2>2, <2>3
<1>3. PICK x : S \subseteq {x}
  BY <1>2
<1>4. IsFiniteSet({x}) /\ Cardinality({x}) = 1
  BY FS_Singleton
<1>5. IsFiniteSet(S) /\ Cardinality(S) <= 1
  <2> HIDE DEF S
  <2> QED
    BY <1>3, <1>4, FS_Subset
<1> QED
  BY <1>5 DEF OneDispatcher

(* However many reloads follow each other, with whatever configurations:   *)
(* the new listeners find their addresses free unless a runtime was left   *)
(* behind, at most one runtime takes jobs, and outside a reload there is   *)
(* one in force unless neither configuration could be built or the old     *)
(* listeners did not stop in time.                                         *)
THEOREM HandsOver == Spec => []Handover
<1>1. IndInv => TypeOK
  BY DEF IndInv, Types, TypeOK, RowStatus
<1>2. IndInv => PortHandoff /\ KeepsServing
  BY DEF IndInv, KeepsServing, Replacing, Lost
<1> QED
  BY <1>1, <1>2, OneTakesJobs, Invariance, PTL DEF Handover

(* No running row is left to nobody, whenever contexts are cancelled,      *)
(* workers lose their results and recoveries read the table.               *)
THEOREM NoRowStuck == Spec => []NoStuckRow
<1>1. IndInv => NoStuckRow
  BY DEF IndInv
<1> QED
  BY <1>1, Invariance, PTL
=============================================================================
