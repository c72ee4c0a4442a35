------------------------------ MODULE Executor ------------------------------
(***************************************************************************)
(* One plugin execution (internal/dispatch/subprocess_executor.go): the     *)
(* process, a descendant it may leave behind, the bounded capture of        *)
(* stdout, the goroutine in cmd.Wait, the deadline, SIGTERM, the grace      *)
(* period and SIGKILL to the process group.  Time is the order of steps.    *)
(***************************************************************************)
EXTENDS Integers

CONSTANTS Reply,        \* length of a whole response
          Limit,        \* capture limit of stdout
          MaxWritten,   \* bound on what is written
          Kinds         \* of descendants: "group" stays in the process group, "away" leaves it

ExecutorAssumption ==
    /\ Reply \in Nat \ {0} /\ Limit \in Nat /\ Reply <= Limit /\ MaxWritten \in Nat
    /\ Kinds \subseteq {"group", "away"}

VARIABLES phase,      \* of execute: "start", "select", "term", "grace", "kill" or "done"
          result,     \* what it returned
          main,       \* the plugin process: "none", "runs" or "exited"
          kid,        \* its descendant: "none", "group", "away" or "gone"
          holds,      \* the descendant holds stdout open
          written, buf, truncated,
          stdin,      \* the request: "writing", "written" or "broken"
          waited,     \* cmd.Wait has returned
          timer,      \* the deadline has passed
          early       \* cmd.Wait had returned when the deadline passed
vars == <<phase, result, main, kid, holds, written, buf, truncated, stdin, waited, timer, early>>
procVars == <<main, kid, holds, written, buf, truncated>>
execVars == <<phase, result, timer, early>>

Init ==
    /\ phase = "start" /\ result = "none" /\ main = "none" /\ kid = "none" /\ holds = FALSE
    /\ written = 0 /\ buf = 0 /\ truncated = FALSE /\ stdin = "writing"
    /\ waited = FALSE /\ timer = FALSE /\ early = FALSE

Finish(r) == phase' = "done" /\ result' = r

-----------------------------------------------------------------------------
(* The processes.                                                           *)

KidRuns == kid \in {"group", "away"}

Capture(n) ==
    /\ buf' = IF n <= Limit - buf THEN buf + n ELSE Limit
    /\ truncated' = (truncated \/ n > Limit - buf)

WriteOut(n) ==
    /\ main = "runs" \/ (KidRuns /\ holds)
    /\ written + n <= MaxWritten
    /\ written' = written + n /\ Capture(n)
    /\ UNCHANGED <<execVars, main, kid, holds, stdin, waited>>

Fork(kind, h) ==
    /\ main = "runs" /\ kid = "none"
    /\ kid' = kind /\ holds' = h
    /\ UNCHANGED <<execVars, main, written, buf, truncated, stdin, waited>>

\* By itself or by SIGTERM, which a process may ignore.
MainExits ==
    /\ main = "runs" /\ main' = "exited"
    /\ UNCHANGED <<execVars, kid, holds, written, buf, truncated, stdin, waited>>
KidExits ==
    /\ KidRuns /\ kid' = "gone" /\ holds' = FALSE
    /\ UNCHANGED <<execVars, main, written, buf, truncated, stdin, waited>>

\* The request reaches the plugin, or the plugin is gone before it is read.
StdinEnds ==
    /\ stdin = "writing" /\ phase # "start"
    /\ stdin' \in (IF main = "runs" THEN {"written"} ELSE {"written", "broken"})
    /\ UNCHANGED <<execVars, procVars, waited>>

\* cmd.Wait copies stdout until every holder has closed it.
WaitReturns ==
    /\ main = "exited" /\ ~(KidRuns /\ holds) /\ ~waited
    /\ waited' = TRUE
    /\ UNCHANGED <<execVars, procVars, stdin>>

-----------------------------------------------------------------------------
(* execute.                                                                 *)

StartProcess ==
    /\ phase = "start" /\ phase' = "select" /\ main' = "runs"
    /\ UNCHANGED <<result, timer, early, kid, holds, written, buf, truncated, stdin, waited>>
StartFails ==
    /\ phase = "start" /\ Finish("nostart")
    /\ UNCHANGED <<timer, early, procVars, stdin, waited>>

\* decodeCompletion: after the writer; an exit code is no matter here.
Decoded == IF truncated THEN "overflow" ELSE IF buf = Reply THEN "response" ELSE "malformed"
decodeCompletion ==
    /\ stdin # "writing"
    /\ Finish(Decoded)
    /\ UNCHANGED <<timer, early, procVars, stdin, waited>>

Deadline ==
    /\ phase = "select" /\ ~timer
    /\ timer' = TRUE /\ early' = waited
    /\ UNCHANGED <<phase, result, procVars, stdin, waited>>

SelectWait == phase = "select" /\ waited /\ decodeCompletion

\* mutant: the deadline is not looked at twice
TimerOnly ==
    /\ phase = "select" /\ timer /\ phase' = "term"
    /\ UNCHANGED <<result, timer, early, procVars, stdin, waited>>

\* A result that is ready is preferred.
SelectTimer ==
    /\ phase = "select" /\ timer
    /\ \/ waited /\ decodeCompletion
       \/ /\ ~waited /\ phase' = "term"
          /\ UNCHANGED <<result, timer, early, procVars, stdin, waited>>

\* SIGTERM to the group.
Terminate ==
    /\ phase = "term" /\ phase' = "grace"
    /\ UNCHANGED <<result, timer, early, procVars, stdin, waited>>

GraceWait ==
    /\ phase = "grace" /\ waited /\ Finish("timeout")
    /\ UNCHANGED <<timer, early, procVars, stdin, waited>>

\* mutant: only the plugin itself is killed
KillMain ==
    /\ phase = "grace" /\ phase' = "kill"
    /\ main' = "exited" /\ UNCHANGED <<kid, holds>>
    /\ UNCHANGED <<result, timer, early, written, buf, truncated, stdin, waited>>

\* SIGKILL to the group.
GraceEnds ==
    /\ phase = "grace" /\ phase' = "kill"
    /\ main' = "exited"
    /\ kid' = (IF kid = "group" THEN "gone" ELSE kid)
    /\ holds' = (holds /\ kid # "group")
    /\ UNCHANGED <<result, timer, early, written, buf, truncated, stdin, waited>>

Reap ==
    /\ phase = "kill" /\ waited /\ Finish("timeout")
    /\ UNCHANGED <<timer, early, procVars, stdin, waited>>

Execute == StartProcess \/ StartFails \/ SelectWait \/ SelectTimer \/ Terminate \/ GraceWait \/ GraceEnds \/ Reap
Next ==
    \/ Execute \/ Deadline \/ WaitReturns \/ StdinEnds
    \/ \E n \in 1 .. Limit : WriteOut(n)
    \/ \E kind \in Kinds, h \in BOOLEAN : Fork(kind, h)
    \/ MainExits \/ KidExits
Spec == Init /\ [][Next]_vars

-----------------------------------------------------------------------------

\* A process that had exited, with its output read, when the deadline passed
\* is never reported as timed out, whichever ready channel select takes.
ReadyResultKept == early => result # "timeout"

\* A response is never decoded from a cut output.
WholeResponse == result = "response" => written = buf

\* What a plugin answered in time, and whole, is the result of its job.
ResultKept == ReadyResultKept /\ WholeResponse

\* Every execution ends, whatever its processes do, but for one whose
\* descendant has left the process group and keeps stdout open for ever: no
\* signal of the dispatcher reaches it, and cmd.Wait reads on.
Ends == <>(phase = "done") \/ <>[](kid = "away" /\ holds)
=============================================================================
