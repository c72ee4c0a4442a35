------------------------------ MODULE Waiting -------------------------------
(***************************************************************************)
(* Who waits for whom: synchronous calls (SyncWait) and event streams      *)
(* (EventHub), which share no state.  The initial state chooses a part,    *)
(* "calls" or "stream", and only that part moves.                          *)
(***************************************************************************)
EXTENDS SyncWait, Sequences

CONSTANTS Publishers, Clients, Capacity, Buffer, MaxEvents      \* of EventHub

VARIABLES part, nextID, ring, start, size, pending, conn, chan, last, got, log, since, live,
          dropped

calls == <<vars, deployment>>
stream == <<nextID, ring, start, size, pending, conn, chan, last, got, log, since, live,
            dropped>>

Hub == INSTANCE EventHub

ASSUME HubAssumption == Hub!HubAssumption

WaitingInit == Init /\ Hub!Init /\ part \in {"calls", "stream"}

WaitingNext ==
    /\ \/ part = "calls" /\ Next /\ UNCHANGED stream
       \/ part = "stream" /\ Hub!Next /\ UNCHANGED calls
    /\ UNCHANGED part

(* Publishers run to the end; nothing is assumed of clients.               *)
WaitingFairness ==
    /\ \A c \in Requests : /\ WF_vars(part = "calls" /\ Handler(c))
                           /\ WF_vars(part = "calls" /\ moved /\ Timeout(c))
    /\ \A j \in 1 .. JobLimit : WF_vars(part = "calls" /\ j \in Jobs /\ Work(j))
    /\ \A x \in Publishers : WF_stream(part = "stream" /\ Hub!Store(x))

WaitingSpec == WaitingInit /\ [][WaitingNext]_<<calls, stream, part>> /\ WaitingFairness

-----------------------------------------------------------------------------
(* The ring buffer is the end of everything that was stored (start and     *)
(* size wrap around correctly in pushLocked); a subscriber whose channel   *)
(* never was full misses nothing stored since it subscribed and gets it in *)
(* that order; a client that reconnects with Last-Event-ID gets no event   *)
(* twice, as long as events were stored in the order of their ids.         *)
StreamFaithful == Hub!StreamFaithful

(* Slow subscribers do not hold up Publish.                                *)
Published == \A x \in Publishers : pending[x] # 0 ~> pending[x] = 0

(* No wake-up of a call is lost, whichever job of its tree ends last;      *)
(* every call is answered, also when a reload takes its jobs to another    *)
(* dispatcher; and slow subscribers do not hold up Publish.                *)
NobodyStuck == WakesUp /\ Answered /\ Published
=============================================================================
