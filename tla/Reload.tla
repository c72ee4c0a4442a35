------------------------------- MODULE Reload -------------------------------
(***************************************************************************)
(* The process life cycle of cmd/ductile/runtime.go: the main loop, the     *)
(* reload manager and the runtimes it builds.  A runtime owns a scheduler,  *)
(* a dispatcher and two listeners; a reload stops the old runtime in the    *)
(* background and builds the next one over the same database as soon as the *)
(* old listeners have stopped serving.  What a dispatcher does with one job *)
(* is module Dispatch; here a job is dequeued, executed and finished.       *)
(***************************************************************************)
EXTENDS Integers, FiniteSets

CONSTANTS Jobs, MaxAttempts,
          Deployments,
          RuntimeLimit     \* the largest of their bounds on runtimes

VARIABLE deployment        \* chosen initially

MaxRuntimes == deployment.runtimes       \* runtimes built in a behaviour
Kinds == deployment.kinds                \* what may be wrong with a configuration
RestoreKinds == deployment.restoreKinds  \* ... when the old one is restored
Watched == deployment.live               \* whether fairness is asked of it

ASSUME ReloadAssumption ==
    /\ MaxAttempts \in Nat /\ RuntimeLimit \in Nat
    \* early: buildRuntime fails before the scheduler starts; late: after.  A
    \* reload that config.Load, the integrity check or validateReloadableFields
    \* rejects changes nothing and is no step.
    /\ \A d \in Deployments :
         /\ d.runtimes \in 1 .. RuntimeLimit /\ d.restoreKinds # {}
         /\ d.kinds \cup d.restoreKinds \subseteq {"good", "early", "late"}

Runtimes == 1 .. MaxRuntimes
Listeners == {"api", "webhook"}
None == 0

VARIABLES
    main,         \* main loop: wait, reload (in a SIGHUP reload), stopping, draining
    mgr,          \* the reload in progress; the manager's mutex is held unless pc is idle
    current,      \* rm.runtime
    made,         \* runtimes built so far, complete or not
    stopping,     \* runtimes Stop was called on
    cancelled,    \* runtimes whose context is cancelled
    stopped,      \* runtimes whose Stop returned
    dispatching,  \* runtimes whose scheduler and dispatcher were started
    serve,        \* state of each listener
    clients,      \* runtimes with an API request that does not end by itself
    exec,         \* jobs each runtime executes
    row,          \* job_queue
    todo,         \* running rows recovery has read and not handled
    errs,         \* errors in errCh
    process

rtVars == <<stopping, cancelled, stopped, dispatching, serve, clients, exec>>
vars == <<main, mgr, current, made, rtVars, row, todo, errs, process>>

Init ==
    /\ deployment \in Deployments
    /\ main = "wait" /\ current = 1 /\ made = 1
    /\ mgr = [pc |-> "idle", origin |-> "signal", old |-> None, kind |-> "good", restoring |-> FALSE]
    /\ stopping = {} /\ cancelled = {} /\ stopped = {} /\ dispatching = {1}
    /\ serve = [r \in Runtimes |-> [l \in Listeners |-> IF r = 1 THEN "listening" ELSE "off"]]
    /\ clients = {} /\ exec = [r \in Runtimes |-> {}]
    /\ row = [j \in Jobs |-> [status |-> "queued", attempt |-> 1]]
    /\ todo = {} /\ errs = {} /\ process = "up"

Live(r) == r \in dispatching \ cancelled
Bound(l) == {r \in Runtimes : serve[r][l] = "listening"}

-----------------------------------------------------------------------------
(* Reload: checks that leave everything alone, then the old runtime is      *)
(* stopped in the background.                                               *)

Reload(origin, kind) ==
    /\ process = "up" /\ mgr.pc = "idle" /\ current # None
    /\ made < MaxRuntimes - 1   \* room for a restored runtime
    /\ IF origin = "signal" THEN main = "wait" ELSE serve[current]["api"] = "listening"
    /\ main' = IF origin = "signal" THEN "reload" ELSE main
    /\ stopping' = stopping \cup {current}
    /\ mgr' = [pc |-> "listeners", origin |-> origin, old |-> current, kind |-> kind, restoring |-> FALSE]
    /\ UNCHANGED <<current, made, cancelled, stopped, dispatching, serve, clients, exec, row, todo, errs, process>>

AfterStop(old) == old \in stopped   \* mutant: wait for the whole runtime

NoWait(old) == TRUE                 \* mutant: bind at once

ServeStopped(old) == \A l \in Listeners : serve[old][l] \in {"off", "closing", "closed"}

\* WaitListenersStopped returned; buildRuntime begins.
ListenersStopped ==
    /\ process = "up" /\ mgr.pc = "listeners" /\ ServeStopped(mgr.old)
    /\ mgr' = [mgr EXCEPT !.pc = "checks"]
    /\ made' = made + 1
    /\ UNCHANGED <<main, current, rtVars, row, todo, errs, process>>

\* Reload returns with rt as the manager's runtime.
Return(rt) ==
    /\ current' = rt
    /\ mgr' = [mgr EXCEPT !.pc = "idle"]
    /\ main' = IF mgr.origin = "signal" THEN "wait" ELSE main

\* The ten seconds of WaitListenersStopped are over, whether or not the
\* listeners have stopped by then: Reload returns the error, without a runtime.
ListenersTimeout ==
    /\ process = "up" /\ mgr.pc = "listeners"
    /\ current' = None
    /\ mgr' = [mgr EXCEPT !.pc = "idle", !.kind = "timeout"]
    /\ main' = IF mgr.origin = "signal" THEN "wait" ELSE main
    /\ UNCHANGED <<made, rtVars, row, todo, errs, process>>

\* buildRuntime failed: restore the previous configuration, once.
BuildFails ==
    \/ /\ ~mgr.restoring
       /\ \E k \in RestoreKinds : mgr' = [mgr EXCEPT !.pc = "checks", !.restoring = TRUE, !.kind = k]
       /\ made' = made + 1
       /\ UNCHANGED <<current, main>>
    \/ /\ mgr.restoring
       /\ Return(None)
       /\ UNCHANGED made

ChecksFail ==
    /\ process = "up" /\ mgr.pc = "checks" /\ mgr.kind = "early"
    /\ BuildFails
    /\ UNCHANGED <<rtVars, row, todo, errs, process>>

\* Scheduler.Start: recovery reads the running rows.
FindRunning ==
    /\ process = "up" /\ mgr.pc = "checks" /\ mgr.kind # "early"
    /\ mgr' = [mgr EXCEPT !.pc = "recover"]
    /\ todo' = {<<j, row[j].attempt>> : j \in {i \in Jobs : row[i].status = "running"}}
    /\ UNCHANGED <<main, current, made, rtVars, row, errs, process>>

\* mutant: rows that have attempts left are not given back
RecoverDeadOnly(t) ==
    /\ process = "up" /\ mgr.pc = "recover" /\ t \in todo
    /\ row' = IF t[2] + 1 <= MaxAttempts THEN row ELSE [row EXCEPT ![t[1]].status = "dead"]
    /\ todo' = todo \ {t}
    /\ UNCHANGED <<main, mgr, current, made, rtVars, errs, process>>

\* Every row read is taken for an orphan.
RecoverRow(t) ==
    /\ process = "up" /\ mgr.pc = "recover" /\ t \in todo
    /\ row' = [row EXCEPT ![t[1]] =
                 [status |-> IF t[2] + 1 <= MaxAttempts THEN "queued" ELSE "dead", attempt |-> t[2] + 1]]
    /\ todo' = todo \ {t}
    /\ UNCHANGED <<main, mgr, current, made, rtVars, errs, process>>

StartComponents ==
    /\ process = "up" /\ mgr.pc = "recover" /\ todo = {}
    /\ dispatching' = dispatching \cup {made}
    /\ serve' = [serve EXCEPT ![made]["api"] = "starting"]
    /\ mgr' = [mgr EXCEPT !.pc = "webhook"]
    /\ UNCHANGED <<main, current, made, stopping, cancelled, stopped, clients, exec, row, todo, errs, process>>

StartWebhook ==
    /\ process = "up" /\ mgr.pc = "webhook" /\ mgr.kind # "late"
    /\ serve' = [serve EXCEPT ![made]["webhook"] = "starting"]
    /\ Return(made)
    /\ UNCHANGED <<made, stopping, cancelled, stopped, dispatching, clients, exec, row, todo, errs, process>>

\* The webhook settings are refused: the runtime just started is left running.
WebhookFails ==
    /\ process = "up" /\ mgr.pc = "webhook" /\ mgr.kind = "late"
    /\ BuildFails
    /\ UNCHANGED <<rtVars, row, todo, errs, process>>

-----------------------------------------------------------------------------
(* A runtime.                                                               *)

\* The goroutine of a listener binds its address.
Listen(r, l) ==
    /\ process = "up" /\ serve[r][l] = "starting" /\ r \notin cancelled
    /\ \/ /\ Bound(l) = {}
          /\ serve' = [serve EXCEPT ![r][l] = "listening"] /\ UNCHANGED errs
       \/ /\ Bound(l) # {}
          /\ serve' = [serve EXCEPT ![r][l] = "closed"] /\ errs' = errs \cup {"bind"}
    /\ UNCHANGED <<main, mgr, current, made, stopping, cancelled, stopped, dispatching, clients, exec, row, todo, process>>

\* Stop cancels the context.
Cancel(r) ==
    /\ process = "up" /\ r \in stopping \ cancelled
    /\ cancelled' = cancelled \cup {r}
    /\ UNCHANGED <<main, mgr, current, made, stopping, stopped, dispatching, serve, clients, exec, row, todo, errs, process>>

CloseListener(r, l) ==
    /\ process = "up" /\ r \in cancelled /\ serve[r][l] \in {"starting", "listening"}
    /\ serve' = [serve EXCEPT ![r][l] = "closing"]
    /\ UNCHANGED <<main, mgr, current, made, stopping, cancelled, stopped, dispatching, clients, exec, row, todo, errs, process>>

\* The request that asked for the reload is served by the old runtime.
Requests(r, l) ==
    l = "api" /\ (r \in clients \/ (mgr.pc # "idle" /\ mgr.origin = "api" /\ mgr.old = r))

\* Shutdown returns when no request is left, or with an error after ten
\* seconds; a reload is assumed to take less.
ShutdownReturns(r, l) ==
    /\ process = "up" /\ serve[r][l] = "closing"
    /\ \/ ~Requests(r, l) /\ UNCHANGED errs
       \/ r \in clients /\ errs' = errs \cup {"shutdown"}
    /\ serve' = [serve EXCEPT ![r][l] = "closed"]
    /\ UNCHANGED <<main, mgr, current, made, stopping, cancelled, stopped, dispatching, clients, exec, row, todo, process>>

StopReturns(r) ==
    /\ process = "up" /\ r \in cancelled \ stopped
    /\ exec[r] = {} /\ \A l \in Listeners : serve[r][l] \in {"off", "closed"}
    /\ stopped' = stopped \cup {r}
    /\ UNCHANGED <<main, mgr, current, made, stopping, cancelled, dispatching, serve, clients, exec, row, todo, errs, process>>

OpenRequest(r) ==
    /\ process = "up" /\ serve[r]["api"] = "listening" /\ r \notin clients
    /\ clients' = clients \cup {r}
    /\ UNCHANGED <<main, mgr, current, made, stopping, cancelled, stopped, dispatching, serve, exec, row, todo, errs, process>>

CloseRequest(r) ==
    /\ process = "up" /\ r \in clients
    /\ clients' = clients \ {r}
    /\ UNCHANGED <<main, mgr, current, made, stopping, cancelled, stopped, dispatching, serve, exec, row, todo, errs, process>>

Dequeue(r, j) ==
    /\ process = "up" /\ Live(r) /\ row[j].status = "queued"
    /\ row' = [row EXCEPT ![j].status = "running"]
    /\ exec' = [exec EXCEPT ![r] = @ \cup {j}]
    /\ UNCHANGED <<main, mgr, current, made, stopping, cancelled, stopped, dispatching, serve, clients, todo, errs, process>>

\* The plugin process ends.  Every write of a worker takes the runtime's
\* context: after the cancellation the result is lost.
Finish(r, j) ==
    /\ process = "up" /\ j \in exec[r]
    /\ exec' = [exec EXCEPT ![r] = @ \ {j}]
    /\ \/ r \in cancelled /\ UNCHANGED row
       \/ /\ r \notin cancelled
          /\ \E s \in {"succeeded", "failed"} : row' = [row EXCEPT ![j].status = s]
    /\ UNCHANGED <<main, mgr, current, made, stopping, cancelled, stopped, dispatching, serve, clients, todo, errs, process>>

-----------------------------------------------------------------------------
(* The main loop.                                                           *)

\* SIGINT or SIGTERM, or a component failed.
Terminate ==
    /\ process = "up" /\ main = "wait"
    /\ main' = "stopping"
    /\ UNCHANGED <<mgr, current, made, rtVars, row, todo, errs, process>>

ComponentFailed ==
    /\ process = "up" /\ main = "wait" /\ errs # {}
    /\ main' = "failing"
    /\ UNCHANGED <<mgr, current, made, rtVars, row, todo, errs, process>>

\* reloadManager.Stop needs the mutex; it waits for the runtime it took.
ManagerStop ==
    /\ process = "up" /\ main \in {"stopping", "failing"} /\ mgr.pc = "idle"
    /\ stopping' = stopping \cup ({current} \ {None})
    /\ mgr' = [mgr EXCEPT !.old = current]
    /\ current' = None
    /\ main' = "draining"
    /\ UNCHANGED <<made, cancelled, stopped, dispatching, serve, clients, exec, row, todo, errs, process>>

Exit ==
    /\ process = "up" /\ main = "draining" /\ (mgr.old = None \/ mgr.old \in stopped)
    /\ process' = "exited"
    /\ UNCHANGED <<main, mgr, current, made, rtVars, row, todo, errs>>

-----------------------------------------------------------------------------

Manager ==
    \/ ListenersStopped \/ ChecksFail \/ FindRunning
    \/ \E t \in todo : RecoverRow(t)
    \/ StartComponents \/ StartWebhook \/ WebhookFails

Runtime(r) ==
    \/ Cancel(r) \/ StopReturns(r)
    \/ \E l \in Listeners : Listen(r, l) \/ CloseListener(r, l) \/ ShutdownReturns(r, l)

Environment ==
    \/ \E o \in {"signal", "api"}, k \in Kinds : Reload(o, k)
    \/ \E r \in Runtimes : OpenRequest(r) \/ CloseRequest(r)
    \/ Terminate \/ ListenersTimeout

Next ==
    /\ \/ Manager \/ Environment \/ ComponentFailed \/ ManagerStop \/ Exit
       \/ \E r \in Runtimes : Runtime(r) \/ \E j \in Jobs : Dequeue(r, j) \/ Finish(r, j)
    /\ UNCHANGED deployment

\* Goroutines are scheduled, plugins end (the executor's timeout sees to it)
\* and Shutdown's timer expires; reloads, requests and signals may never come.
\* The timer of WaitListenersStopped is not relied on: a reload ends without it.
Fairness ==
    /\ WF_vars(Watched /\ Manager) /\ WF_vars(Watched /\ ComponentFailed)
    /\ WF_vars(Watched /\ ManagerStop) /\ WF_vars(Watched /\ Exit)
    /\ \A r \in 1 .. RuntimeLimit :
         /\ WF_vars(Watched /\ r \in Runtimes /\ Runtime(r))
         /\ \A j \in Jobs : /\ WF_vars(Watched /\ r \in Runtimes /\ Finish(r, j))
                            /\ WF_vars(Watched /\ r \in Runtimes /\ Dequeue(r, j))

Spec == Init /\ [][Next]_<<vars, deployment>>
FairSpec == Spec /\ Fairness

-----------------------------------------------------------------------------
TypeOK ==
    /\ main \in {"wait", "reload", "stopping", "failing", "draining"}
    /\ mgr.pc \in {"idle", "listeners", "checks", "recover", "webhook"}
    /\ current \in Runtimes \cup {None} /\ made \in Runtimes
    /\ stopped \subseteq cancelled /\ cancelled \subseteq stopping
    /\ \A r \in Runtimes : exec[r] \subseteq Jobs
    /\ \A j \in Jobs : row[j].status \in {"queued", "running", "succeeded", "failed", "dead"}
    /\ errs \subseteq {"bind", "shutdown"} /\ process \in {"up", "exited"}

\* The runtime in force, the one being built, and those being stopped; a
\* runtime whose webhook settings were refused is none of them.
Owned(r) == r \in stopping \/ r = current \/ (r = made /\ mgr.pc = "webhook")

\* The new runtime's listeners never find their address taken: the hand-over
\* waits for the serve loops of the old runtime (docs/reload_rca.md, "Port
\* handoff needs a real signal").  Only a runtime left behind may hold it.
PortHandoff == "bind" \in errs => \E r \in dispatching : ~Owned(r)

\* Two runtimes never take jobs at the same time, however fast reloads follow
\* each other; worker and plugin limits are counted per dispatcher, so two
\* would exceed them.
OneDispatcher == Cardinality({r \in Runtimes : Live(r) /\ Owned(r)}) <= 1

\* A row is only running while a runtime that can still write its result
\* executes it, or while a recovery that will find it is to come; nothing
\* else would ever pick it up.
NoStuckRow ==
    \A j \in Jobs : row[j].status = "running" =>
      \/ \E r \in Runtimes : j \in exec[r] /\ r \notin cancelled
      \/ mgr.pc \in {"listeners", "checks"} \/ \E t \in todo : t[1] = j
      \/ current = None

\* Outside a reload the manager has a runtime that is not being stopped: a
\* refused configuration leaves the old one in force.  Two failed reloads
\* leave nothing in force, and they are the only ones: the old configuration
\* cannot be built again either, or the old listeners did not stop in time
\* (Reload sets rm.runtime to nil and does not try to restore anything).
KeepsServing ==
    mgr.pc = "idle" /\ main = "wait" /\ process = "up" =>
      /\ current \notin stopping
      /\ current # None \/ mgr.kind = "timeout" \/ (mgr.restoring /\ mgr.kind # "good")

\* What a reload hands over, addresses, jobs and the service, has one owner.
Handover == TypeOK /\ PortHandoff /\ OneDispatcher /\ KeepsServing

\* A reload ends and releases the mutex, also when it is requested over the
\* API that is being shut down (docs/reload_rca.md, root cause 1), and it does
\* not take a timeout to end it.
ReloadEnds == (Watched /\ mgr.pc # "idle") ~> mgr.pc = "idle"

\* After a signal the process exits, whatever clients and plugins do.
TerminationEnds == (Watched /\ main = "stopping") ~> process = "exited"

\* A job that is picked up ends or is given back, whatever becomes of the
\* reload, as long as there is a runtime.
RunningEnds ==
    \A j \in Jobs : (Watched /\ row[j].status = "running")
        ~> (row[j].status # "running" \/ process = "exited" \/ current = None)

\* Reloads, terminations and running jobs all end.
AllEnds == ReloadEnds /\ TerminationEnds /\ RunningEnds

\* docs/ARCHITECTURE.md: "In-flight jobs continue with existing config
\* snapshot", so a reload does not run a job again that is still executing.
InFlightContinues == \A j \in Jobs : Cardinality({r \in Runtimes : j \in exec[r]}) <= 1
=============================================================================
