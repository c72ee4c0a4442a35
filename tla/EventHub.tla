------------------------------ MODULE EventHub ------------------------------
(***************************************************************************)
(* The in-memory event hub (internal/events) and the event stream of the    *)
(* API: publishers take an id, then the lock; clients get what is buffered, *)
(* then subscribe.  An event is its id.                                     *)
(***************************************************************************)
EXTENDS Integers, Sequences, FiniteSets

CONSTANTS Publishers, Clients,
          Capacity,     \* of the ring buffer
          Buffer,       \* of a subscriber's channel (128)
          MaxEvents     \* bound on ids

HubAssumption == Capacity \in Nat \ {0} /\ Buffer \in Nat \ {0} /\ MaxEvents \in Nat

VARIABLES nextID, ring, start, size,
          pending,      \* publisher -> id taken and not yet stored, or 0
          conn,         \* client -> "off", "replayed" or "open"
          chan,         \* client -> its channel
          last,         \* client -> Last-Event-ID
          got,          \* client -> all it received
          log,          \* ids in the order they were stored
          since,        \* client -> length of log when it subscribed
          live,         \* client -> received since then
          dropped       \* client -> an event found its channel full

hubVars == <<nextID, ring, start, size, pending, log>>
vars == <<nextID, ring, start, size, pending, conn, chan, last, got, log, since, live, dropped>>

Init ==
    /\ nextID = 0 /\ ring = [i \in 0 .. Capacity - 1 |-> 0] /\ start = 0 /\ size = 0
    /\ pending = [p \in Publishers |-> 0]
    /\ conn = [c \in Clients |-> "off"] /\ chan = [c \in Clients |-> <<>>]
    /\ last = [c \in Clients |-> 0] /\ got = [c \in Clients |-> <<>>]
    /\ log = <<>> /\ since = [c \in Clients |-> 0] /\ live = [c \in Clients |-> <<>>]
    /\ dropped = [c \in Clients |-> FALSE]

-----------------------------------------------------------------------------

TakeID(p) ==
    /\ pending[p] = 0 /\ nextID < MaxEvents
    /\ nextID' = nextID + 1 /\ pending' = [pending EXCEPT ![p] = nextID + 1]
    /\ UNCHANGED <<ring, start, size, conn, chan, last, got, log, since, live, dropped>>

pushLocked(id) ==
    /\ ring' = [ring EXCEPT ![IF size < Capacity THEN (start + size) % Capacity ELSE start] = id]
    /\ size' = IF size < Capacity THEN size + 1 ELSE size
    /\ start' = IF size < Capacity THEN start ELSE (start + 1) % Capacity

Open == {c \in Clients : conn[c] = "open"}

\* mutant: a full channel loses its oldest event
SendReplaces(id) ==
    /\ chan' = [c \in Clients |->
                  IF c \notin Open THEN chan[c]
                  ELSE IF Len(chan[c]) < Buffer THEN Append(chan[c], id) ELSE Append(Tail(chan[c]), id)]
    /\ UNCHANGED dropped

\* A client whose channel is full misses the event.
Send(id) ==
    /\ chan' = [c \in Clients |-> IF c \in Open /\ Len(chan[c]) < Buffer THEN Append(chan[c], id) ELSE chan[c]]
    /\ dropped' = [c \in Clients |-> dropped[c] \/ (c \in Open /\ Len(chan[c]) = Buffer)]

\* Under the lock: the ring buffer and every subscriber.
Store(p) ==
    /\ pending[p] # 0
    /\ pushLocked(pending[p]) /\ Send(pending[p])
    /\ log' = Append(log, pending[p]) /\ pending' = [pending EXCEPT ![p] = 0]
    /\ UNCHANGED <<nextID, conn, last, got, since, live>>

Buffered == [i \in 1 .. size |-> ring[(start + i - 1) % Capacity]]

\* The events with a greater id, oldest first: the k-th is the one that has
\* k - 1 of them before it.
Nth(S, k) == CHOOSE i \in S : Cardinality({j \in S : j <= i}) = k
SnapshotSince(id) ==
    LET kept == {i \in 1 .. size : id = 0 \/ Buffered[i] > id}
    IN  [k \in 1 .. Cardinality(kept) |-> Buffered[Nth(kept, k)]]

Received(c, es) ==
    /\ got' = [got EXCEPT ![c] = @ \o es]
    /\ last' = [last EXCEPT ![c] = IF es = <<>> THEN @ ELSE es[Len(es)]]

Connect(c) ==
    /\ conn[c] = "off"
    /\ Received(c, SnapshotSince(last[c]))
    /\ conn' = [conn EXCEPT ![c] = "replayed"]
    /\ UNCHANGED <<hubVars, chan, since, live, dropped>>

Subscribe(c) ==
    /\ conn[c] = "replayed"
    /\ conn' = [conn EXCEPT ![c] = "open"] /\ chan' = [chan EXCEPT ![c] = <<>>]
    /\ since' = [since EXCEPT ![c] = Len(log)] /\ live' = [live EXCEPT ![c] = <<>>]
    /\ dropped' = [dropped EXCEPT ![c] = FALSE]
    /\ UNCHANGED <<hubVars, last, got>>

Deliver(c) ==
    /\ conn[c] = "open" /\ chan[c] # <<>>
    /\ Received(c, <<Head(chan[c])>>)
    /\ chan' = [chan EXCEPT ![c] = Tail(@)]
    /\ live' = [live EXCEPT ![c] = Append(@, Head(chan[c]))]
    /\ UNCHANGED <<hubVars, conn, since, dropped>>

\* The request ends; what the channel holds is discarded.
Disconnect(c) ==
    /\ conn[c] # "off"
    /\ conn' = [conn EXCEPT ![c] = "off"] /\ chan' = [chan EXCEPT ![c] = <<>>]
    /\ UNCHANGED <<hubVars, last, got, since, live, dropped>>

Next ==
    \/ \E p \in Publishers : TakeID(p) \/ Store(p)
    \/ \E c \in Clients : Connect(c) \/ Subscribe(c) \/ Deliver(c) \/ Disconnect(c)
Spec == Init /\ [][Next]_vars

-----------------------------------------------------------------------------

\* The ring buffer, read from start, is the end of everything that was
\* stored, in the order it was stored: start and size wrap around correctly.
RingIsRecent ==
    /\ size = (IF Len(log) < Capacity THEN Len(log) ELSE Capacity)
    /\ \A i \in 1 .. size : Buffered[i] = log[Len(log) - size + i]

\* As long as no event found its channel full, a subscribed client has
\* received or will receive everything stored since it subscribed, in order.
StreamComplete ==
    \A c \in Open : ~dropped[c] => live[c] \o chan[c] = SubSeq(log, since[c] + 1, Len(log))

\* Over all its connections a client receives no event twice, as long as the
\* publishers got the lock in the order of their ids.
Ascending(ids) == \A i, j \in DOMAIN ids : i < j => ids[i] < ids[j]
AtMostOnce ==
    Ascending(log) =>
        \A c \in Clients : \A i, j \in DOMAIN got[c] : i # j => got[c][i] # got[c][j]

\* What a stream shows of what was published.
StreamFaithful == RingIsRecent /\ StreamComplete /\ AtMostOnce

\* Slow clients do not hold up publishers.
Published == \A p \in Publishers : pending[p] # 0 ~> pending[p] = 0
=============================================================================
