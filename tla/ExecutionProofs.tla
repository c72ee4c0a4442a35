--------------------------- MODULE ExecutionProofs --------------------------
(***************************************************************************)
(* Proofs about what surrounds one execution, for every value of the       *)
(* constants: the relay of events to another instance (RelayDelivery), the *)
(* subprocess (Executor) and when a row is claimed (RetryTime).            *)
(***************************************************************************)
EXTENDS Execution, SequenceTheorems, FiniteSetTheorems, WellFoundedInduction, TLAPS

(* The least number of a set.                                              *)
LEMMA LeastOf ==
  ASSUME NEW T \in SUBSET Nat, T # {}
  PROVE  \E x \in T : \A y \in T : x <= y
<1>1. PICK x \in T : \A y \in T : ~(<<y, x>> \in OpToRel(<, Nat))
  BY WFMin, NatLessThanWellFounded
<1>2. \A y \in Nat : y < x => <<y, x>> \in OpToRel(<, Nat)
  BY DEF OpToRel
<1>3. ASSUME NEW y \in T PROVE x <= y
  <2>1. y \in Nat /\ x \in Nat /\ ~(y < x)
    BY <1>1, <1>2
  <2> QED
    BY <2>1
<1> QED
  BY <1>3

IsSeq(q) == \E S : q \in Seq(S)

(* What Append makes of a sequence.                                        *)
LEMMA Appending ==
  ASSUME NEW q, IsSeq(q), NEW e
  PROVE  /\ IsSeq(Append(q, e)) /\ Len(q) \in Nat /\ DOMAIN q = 1 .. Len(q)
         /\ DOMAIN Append(q, e) = 1 .. Len(q) + 1 /\ Len(Append(q, e)) = Len(q) + 1
         /\ \A i \in DOMAIN q : Append(q, e)[i] = q[i]
         /\ Append(q, e)[Len(q) + 1] = e
<1>1. PICK S : q \in Seq(S)
  BY DEF IsSeq
<1>2. q \in Seq(S \cup {e})
  BY <1>1
<1> QED
  BY <1>2, AppendProperties, LenProperties DEF IsSeq

(* What Enqueue makes of a queue: the row for the target is there, and a   *)
(* new one repeats nothing that lately succeeded.                          *)
NewRow(m, t) ==
    [relay |-> m.relay, key |-> Relay!dedupeKey(m), target |-> t, status |-> "queued", at |-> clock,
     done |-> 0, ts |-> m.ts, body |-> m.body, bag |-> Relay!admitBaggage(m)]
Lately(q, key, t) ==
    \E i \in DOMAIN q : /\ q[i].key = key /\ q[i].target = t
                        /\ q[i].status = "succeeded" /\ q[i].done >= clock - Relay!TTL
Adds(q, m, p) ==
    /\ IsSeq(p) /\ Len(p) >= Len(q)
    /\ \A i \in DOMAIN q : p[i] = q[i]
    /\ \A j \in DOMAIN p \ DOMAIN q :
         /\ \E t : p[j] = NewRow(m, t)
         /\ p[j].key # Relay!NoKey => ~Lately(q, p[j].key, p[j].target)

(* Enqueue adds at most one row of the request, and then the target has    *)
(* one.                                                                    *)
LEMMA EnqueueFacts ==
  ASSUME NEW q, NEW p, NEW m, NEW t, IsSeq(q), Adds(q, m, p)
  PROVE  /\ Adds(q, m, Relay!Enqueue(p, m, t))
         /\ \A j \in DOMAIN p : j \in DOMAIN Relay!Enqueue(p, m, t) /\ Relay!Enqueue(p, m, t)[j] = p[j]
         /\ \E j \in DOMAIN Relay!Enqueue(p, m, t) :
              Relay!Enqueue(p, m, t)[j].target = t /\ Relay!Enqueue(p, m, t)[j].key = Relay!dedupeKey(m)
<1> DEFINE e == Relay!Enqueue(p, m, t)  r == NewRow(m, t)  key == Relay!dedupeKey(m)
<1>1. e = IF key # Relay!NoKey /\ Lately(p, key, t) THEN p ELSE Append(p, r)
  BY DEF Relay!Enqueue, Lately, NewRow
<1>2. r.key = key /\ r.target = t
  BY DEF NewRow
<1> HIDE DEF e, r, key
<1>3. CASE key # Relay!NoKey /\ Lately(p, key, t)
  <2>1. e = p
    BY <1>1, <1>3
  <2>2. \E j \in DOMAIN p : p[j].target = t /\ p[j].key = key
    BY <1>3 DEF Lately
  <2> QED
    BY <2>1, <2>2 DEF e, key
<1>4. CASE ~(key # Relay!NoKey /\ Lately(p, key, t))
  <2>1. e = Append(p, r)
    BY <1>1, <1>4
  <2>2. /\ IsSeq(e) /\ Len(p) \in Nat /\ DOMAIN p = 1 .. Len(p) /\ DOMAIN e = 1 .. Len(p) + 1
        /\ Len(e) = Len(p) + 1 /\ \A i \in DOMAIN p : e[i] = p[i]
        /\ e[Len(p) + 1] = r
    BY <2>1, Appending DEF Adds
  <2>3. Len(q) \in Nat /\ DOMAIN q = 1 .. Len(q) /\ Len(p) >= Len(q)
    BY Appending DEF Adds
  <2>4. ASSUME NEW j \in DOMAIN e \ DOMAIN q
        PROVE  /\ \E x : e[j] = NewRow(m, x)
               /\ e[j].key # Relay!NoKey => ~Lately(q, e[j].key, e[j].target)
    <3>1. CASE j \in DOMAIN p
      BY <2>2, <2>4, <3>1 DEF Adds
    <3>2. CASE j = Len(p) + 1
      <4>1. e[j] = r
        BY <2>2, <3>2
      <4>2. key # Relay!NoKey => ~Lately(q, key, t)
        BY <1>4, <2>2, <2>3 DEF Lately, Adds
      <4> QED
        BY <1>2, <4>1, <4>2 DEF r
    <3> QED
      BY <2>2, <2>4, <3>1, <3>2
  <2>5. Adds(q, m, e)
    BY <2>2, <2>3, <2>4 DEF Adds
  <2>6. \E j \in DOMAIN e : e[j].target = t /\ e[j].key = key
    <3>1. Len(p) + 1 \in DOMAIN e
      BY <2>2
    <3> QED
      BY <1>2, <2>2, <3>1
  <2>7. \A j \in DOMAIN p : j \in DOMAIN e /\ e[j] = p[j]
    BY <2>2
  <2> QED
    BY <2>5, <2>6, <2>7 DEF e, key
<1> QED
  BY <1>3, <1>4

(* The queues enqueueRootDispatches goes through, one per route.           *)
Through(f, m, n) == f = [i \in 0 .. n |-> IF i = 0 THEN rows ELSE Relay!Enqueue(f[i - 1], m, Relay!Targets[i])]

(* The function over the routes that enqueueRootDispatches computes        *)
(* exists.                                                                 *)
LEMMA ThroughExists ==
  ASSUME NEW m, NEW n \in Nat
  PROVE  \E f : Through(f, m, n)
<1> DEFINE T == {k \in Nat : ~\E f : Through(f, m, k)}
<1> SUFFICES ASSUME T # {} PROVE FALSE
  OBVIOUS
<1>1. PICK k \in T : \A y \in T : k <= y
  BY LeastOf
<1>2. CASE k = 0
  <2> DEFINE g == [i \in 0 .. 0 |-> rows]
  <2>1. g = [i \in 0 .. 0 |-> IF i = 0 THEN rows ELSE Relay!Enqueue(g[i - 1], m, Relay!Targets[i])]
    OBVIOUS
  <2>2. Through(g, m, 0)
    BY <2>1 DEF Through
  <2> QED
    BY <1>1, <1>2, <2>2
<1>3. CASE k # 0
  <2>1. k \in Nat /\ k - 1 \in Nat /\ k - 1 \notin T
    BY <1>1, <1>3
  <2>2. PICK f : Through(f, m, k - 1)
    BY <2>1
  <2> DEFINE g == [i \in 0 .. k |-> IF i = k THEN Relay!Enqueue(f[k - 1], m, Relay!Targets[k]) ELSE f[i]]
             h == [i \in 0 .. k |-> IF i = 0 THEN rows ELSE Relay!Enqueue(g[i - 1], m, Relay!Targets[i])]
  <2>3. ASSUME NEW i \in 0 .. k PROVE g[i] = h[i]
    <3>1. CASE i = k
      <4>1. g[k - 1] = f[k - 1]
        BY <2>1
      <4> QED
        BY <1>3, <2>1, <3>1, <4>1
    <3>2. CASE i # k
      <4>1. i \in 0 .. k - 1 /\ g[i] = f[i]
        BY <2>1, <3>2
      <4>2. f[i] = IF i = 0 THEN rows ELSE Relay!Enqueue(f[i - 1], m, Relay!Targets[i])
        BY <2>2, <4>1 DEF Through
      <4>3. i # 0 => g[i - 1] = f[i - 1]
        BY <2>1, <4>1
      <4> QED
        BY <4>1, <4>2, <4>3
    <3> QED
      BY <3>1, <3>2
  <2>4. g = h
    BY <2>3
  <2>5. Through(g, m, k)
    BY <2>4 DEF Through
  <2> QED
    BY <1>1, <2>5
<1> QED
  BY <1>2, <1>3

(* What they have in common.                                               *)
Serves(m, p, n) == \A t \in 1 .. n : \E j \in DOMAIN p : p[j].target = Relay!Targets[t] /\ p[j].key = Relay!dedupeKey(m)

(* Each of the queues adds rows of the request, one at least per route so  *)
(* far.                                                                    *)
LEMMA ThroughFacts ==
  ASSUME NEW m, NEW n \in Nat, NEW f, Through(f, m, n), IsSeq(rows)
  PROVE  \A i \in 0 .. n : Adds(rows, m, f[i]) /\ Serves(m, f[i], i)
<1> DEFINE T == {k \in 0 .. n : ~(Adds(rows, m, f[k]) /\ Serves(m, f[k], k))}
<1> SUFFICES ASSUME T # {} PROVE FALSE
  OBVIOUS
<1>1. PICK k \in T : \A y \in T : k <= y
  <2>1. T \in SUBSET Nat
    OBVIOUS
  <2> HIDE DEF T
  <2> QED
    BY <2>1, LeastOf
<1>2. \A i \in 0 .. n : f[i] = IF i = 0 THEN rows ELSE Relay!Enqueue(f[i - 1], m, Relay!Targets[i])
  BY DEF Through
<1>3. CASE k = 0
  <2>1. f[0] = rows /\ Len(rows) \in Nat
    BY <1>2, Appending
  <2>2. Adds(rows, m, f[0])
    BY <2>1 DEF Adds
  <2>3. Serves(m, f[0], 0)
    BY DEF Serves
  <2> QED
    BY <1>1, <1>3, <2>2, <2>3
<1>4. CASE k # 0
  <2>1. k \in 1 .. n /\ k - 1 \in 0 .. n /\ k - 1 \notin T
    BY <1>1, <1>4
  <2>2. Adds(rows, m, f[k - 1]) /\ Serves(m, f[k - 1], k - 1)
    BY <2>1
  <2>3. f[k] = Relay!Enqueue(f[k - 1], m, Relay!Targets[k])
    BY <1>2, <2>1
  <2> DEFINE p == f[k - 1]  e == f[k]
  <2>4. /\ Adds(rows, m, e) /\ \A j \in DOMAIN p : j \in DOMAIN e /\ e[j] = p[j]
        /\ \E j \in DOMAIN e : e[j].target = Relay!Targets[k] /\ e[j].key = Relay!dedupeKey(m)
    BY <2>2, <2>3, EnqueueFacts
  <2>5. Serves(m, e, k)
    <3> SUFFICES ASSUME NEW t \in 1 .. k
                 PROVE  \E j \in DOMAIN e : e[j].target = Relay!Targets[t] /\ e[j].key = Relay!dedupeKey(m)
      BY DEF Serves
    <3>1. CASE t = k
      BY <2>4, <3>1
    <3>2. CASE t # k
      <4>1. t \in 1 .. k - 1
        BY <2>1, <3>2
      <4> QED
        BY <2>2, <2>4, <4>1 DEF Serves
    <3> QED
      BY <3>1, <3>2
  <2> QED
    BY <1>1, <2>4, <2>5
<1> QED
  BY <1>3, <1>4

(* enqueueRootDispatches adds rows of the request, and one for every route *)
(* if no route fails.                                                      *)
LEMMA RoutesFacts ==
  ASSUME NEW m, Len(Relay!Targets) \in Nat, NEW k \in 0 .. Len(Relay!Targets), IsSeq(rows)
  PROVE  /\ Adds(rows, m, Relay!EnqueueRoutes(m, k).rows)
         /\ Relay!EnqueueRoutes(m, k).ok => Serves(m, Relay!EnqueueRoutes(m, k).rows, Len(Relay!Targets))
<1> DEFINE n == Len(Relay!Targets)
           upto == CHOOSE f : f = [i \in 0 .. Len(Relay!Targets) |->
                                     IF i = 0 THEN rows ELSE Relay!Enqueue(f[i - 1], m, Relay!Targets[i])]
           last == IF k = 0 THEN n ELSE k - 1
<1>1. \E f : f = [i \in 0 .. n |-> IF i = 0 THEN rows ELSE Relay!Enqueue(f[i - 1], m, Relay!Targets[i])]
  BY ThroughExists DEF Through
<1>2. upto = [i \in 0 .. n |-> IF i = 0 THEN rows ELSE Relay!Enqueue(upto[i - 1], m, Relay!Targets[i])]
  BY <1>1
<1>3. Through(upto, m, n)
  BY <1>2 DEF Through
<1> DEFINE all == k = 0
<1>4. Relay!EnqueueRoutes(m, k) = [rows |-> upto[last], ok |-> all]
  BY DEF Relay!EnqueueRoutes
<1> HIDE DEF upto
<1>5. last \in 0 .. n /\ (k = 0 => last = n)
  OBVIOUS
<1> HIDE DEF last
<1>6. Adds(rows, m, upto[last]) /\ Serves(m, upto[last], last)
  BY <1>3, <1>5, ThroughFacts
<1> HIDE DEF all
<1>7. Relay!EnqueueRoutes(m, k).rows = upto[last] /\ Relay!EnqueueRoutes(m, k).ok = all
  BY <1>4
<1>8. Relay!EnqueueRoutes(m, k).ok => k = 0
  BY <1>7 DEF all
<1> QED
  BY <1>5, <1>6, <1>7, <1>8

(* A request as the sender signs it.                                       *)
Genuine(m) ==
    /\ m = [relay |-> m.relay, n |-> m.n, ts |-> m.ts, path |-> scfg.path, peer |-> scfg.name,
            key |-> scfg.key, body |-> m.body, sig |-> Relay!sign(scfg.path, m.ts, m.body, scfg.secret)]
    /\ scfg.secret # 0

(* What is under way was sent, but for the envelope and the timestamp,     *)
(* which may have been altered on the way.                                 *)
SentOK == \A m \in sent : Genuine(m)
NetOK ==
    \A m \in net : \E s \in sent :
        /\ m = [relay |-> s.relay, n |-> s.n, ts |-> m.ts, path |-> s.path, peer |-> s.peer,
                key |-> s.key, body |-> m.body, sig |-> s.sig]

(* A row carries the key of the request it came from.                      *)
KeyOf(relay, body) ==
    IF DedupeKey[relay] = "" /\ EventID[relay] # ""
    THEN <<"relay", scfg.path, body.origin, EventID[relay]>> ELSE <<"own", DedupeKey[relay]>>
RowOK(r) ==
    /\ r = [relay |-> r.relay, key |-> r.key, target |-> r.target, status |-> r.status, at |-> r.at,
            done |-> r.done, ts |-> r.ts, body |-> r.body, bag |-> r.bag]
    /\ r.key = KeyOf(r.relay, r.body)
    /\ r.at \in Nat /\ r.done \in Nat /\ r.at <= clock
    /\ Relay!Abs(r.at - r.ts) <= Skew
    /\ \E m \in sent : m.relay = r.relay /\ m.body = r.body /\ m.ts = r.ts
RowsOK == IsSeq(rows) /\ \A i \in DOMAIN rows : RowOK(rows[i])

(* A later row of the same work was not inserted soon after a success.     *)
NotRepeated ==
    \A i, j \in DOMAIN rows :
        i < j /\ rows[i].key = rows[j].key /\ rows[i].target = rows[j].target /\ rows[i].key # Relay!NoKey
        => ~(rows[i].status = "succeeded" /\ rows[i].done < rows[j].at /\ rows[j].at - rows[i].done <= Relay!TTL)

(* An answer that says yes was given when every route had its row.         *)
Enqueued(r) ==
    \A t \in 1 .. Len(Relay!Targets) : \E i \in DOMAIN rows :
        rows[i].target = Relay!Targets[t] /\ \E m \in sent : m.relay = r /\ rows[i].key = Relay!dedupeKey(m)
AnswersOK ==
    /\ \A a \in answers : a.ok => Enqueued(a.relay)
    /\ \A r \in Relays : sjob[r] = "succeeded" => Enqueued(r)

(* A refusal had a reason in the request or the configurations.            *)
RefusedOK == \A x \in refused : ~(Genuine(x.m) /\ Relay!Agree(x.m) /\ Relay!Abs(x.at - x.m.ts) <= Skew)

Setting ==
    /\ link \in Links /\ clock \in Nat /\ Relay!ValidReceiver(rcfg)
    /\ sjob = [r \in Relays |-> sjob[r]]

RelayInv == Setting /\ SentOK /\ NetOK /\ RowsOK /\ NotRepeated /\ AnswersOK /\ RefusedOK

-----------------------------------------------------------------------------
(* The parameters of a link that was chosen.                               *)
LEMMA LinkFacts ==
  ASSUME Relay!RelayAssumption, Setting
  PROVE  /\ Relay!TTL \in Nat /\ Skew \in Nat
         /\ Len(Relay!Targets) \in Nat /\ DOMAIN Relay!Targets = 1 .. Len(Relay!Targets)
BY DEF Relay!RelayAssumption, Setting, Relay!TTL, Relay!Targets

(* What the signature protects is as it was sent.                          *)
LEMMA AcceptedIsSent ==
  ASSUME SentOK, NetOK, NEW m \in net, Relay!Accepts(m)
  PROVE  \E s \in sent : /\ s.relay = m.relay /\ s.body = m.body /\ s.ts = m.ts
                         /\ s.path = m.path /\ m.path = scfg.path
<1>1. PICK s \in sent :
        /\ m = [relay |-> s.relay, n |-> s.n, ts |-> m.ts, path |-> s.path, peer |-> s.peer,
                key |-> s.key, body |-> m.body, sig |-> s.sig]
  BY DEF NetOK
<1>2. m.sig = s.sig /\ m.relay = s.relay /\ m.path = s.path
  BY <1>1
<1>3. m.sig = <<m.path, m.ts, m.body, rcfg.peers[m.path].secret>>
  BY DEF Relay!Accepts, Relay!sign
<1>4. s.sig = <<scfg.path, s.ts, s.body, scfg.secret>> /\ s.path = scfg.path
  BY DEF SentOK, Genuine, Relay!sign
<1>5. m.ts = s.ts /\ m.body = s.body
  <2>1. m.sig[2] = m.ts /\ m.sig[3] = m.body
    BY <1>3
  <2>2. s.sig[2] = s.ts /\ s.sig[3] = s.body
    BY <1>4
  <2> QED
    BY <1>2, <2>1, <2>2
<1> QED
  BY <1>2, <1>4, <1>5

(* A request between configurations that agree is accepted.                *)
LEMMA GenuineAccepted ==
  ASSUME Setting, NEW m, Genuine(m), Relay!Agree(m), Relay!Abs(clock - m.ts) <= Skew
  PROVE  Relay!Accepts(m)
<1>1. /\ m.path = scfg.path /\ m.peer = scfg.name /\ m.key = scfg.key
      /\ m.sig = Relay!sign(scfg.path, m.ts, m.body, scfg.secret) /\ scfg.secret # 0
  BY DEF Genuine
<1>2. rcfg.requireKey => rcfg.peers[m.path].key # ""
  BY <1>1 DEF Setting, Relay!ValidReceiver, Relay!Agree
<1> QED
  BY <1>1, <1>2 DEF Relay!Accepts, Relay!Agree

(* The key of a request with the path it was sent to.                      *)
LEMMA KeyIs ==
  ASSUME NEW m, m.path = scfg.path
  PROVE  Relay!dedupeKey(m) = KeyOf(m.relay, m.body)
BY DEF Relay!dedupeKey, KeyOf

(* Initially nothing is under way.                                         *)
LEMMA RelayInit ==
  ASSUME Relay!Init
  PROVE  RelayInv
<1>1. Setting
  BY DEF Relay!Init, Setting
<1>2. SentOK /\ NetOK /\ RefusedOK
  BY DEF Relay!Init, SentOK, NetOK, RefusedOK
<1>3. rows = <<>> /\ IsSeq(<<>>) /\ DOMAIN rows = {}
  BY EmptySeq DEF Relay!Init, IsSeq
<1>4. RowsOK /\ NotRepeated
  BY <1>3 DEF RowsOK, NotRepeated
<1>5. AnswersOK
  BY DEF Relay!Init, AnswersOK
<1> QED
  BY <1>1, <1>2, <1>4, <1>5 DEF RelayInv

(* What stays: the configurations, what was sent, and the past.            *)
Onward ==
    /\ UNCHANGED <<scfg, rcfg, offset, link>> /\ sent \subseteq sent'
    /\ clock' \in Nat /\ clock' >= clock

(* What a row says does not depend on what comes later.                    *)
LEMMA RowStays ==
  ASSUME Setting, Onward, NEW r, RowOK(r)
  PROVE  RowOK(r)'
<1>1. KeyOf(r.relay, r.body)' = KeyOf(r.relay, r.body)
  BY DEF KeyOf, Onward
<1>2. clock \in Nat
  BY DEF Setting
<1> QED
  BY <1>1, <1>2 DEF RowOK, Onward

(* A step that leaves the queue alone.                                     *)
LEMMA SameRows ==
  ASSUME RelayInv, Onward, rows' = rows
  PROVE  RowsOK' /\ NotRepeated' /\ \A r : Enqueued(r) => Enqueued(r)'
<1>1. RowsOK'
  BY RowStays DEF RelayInv, RowsOK
<1>2. NotRepeated'
  BY DEF RelayInv, NotRepeated, Relay!TTL, Onward
<1>3. ASSUME NEW r, Enqueued(r) PROVE Enqueued(r)'
  <2>1. Relay!Targets' = Relay!Targets
    BY DEF Relay!Targets, Onward
  <2>2. \A m : Relay!dedupeKey(m)' = Relay!dedupeKey(m)
    BY DEF Relay!dedupeKey
  <2> QED
    BY <1>3, <2>1, <2>2 DEF Enqueued, Onward
<1> QED
  BY <1>1, <1>2, <1>3

(* A step that refuses nothing.                                            *)
LEMMA SameRefused ==
  ASSUME RelayInv, Onward, refused' = refused
  PROVE  RefusedOK'
<1>1. \A m : (Genuine(m)' <=> Genuine(m)) /\ (Relay!Agree(m)' <=> Relay!Agree(m))
  BY DEF Genuine, Relay!Agree, Onward
<1> QED
  BY <1>1 DEF RelayInv, RefusedOK

(* A step that sends nothing.                                              *)
LEMMA SameSent ==
  ASSUME RelayInv, Onward, sent' = sent
  PROVE  SentOK' /\ (net' = net => NetOK')
<1>1. \A m : Genuine(m)' <=> Genuine(m)
  BY DEF Genuine, Onward
<1> QED
  BY <1>1 DEF RelayInv, SentOK, NetOK

(* A request is made, or fails at once.                                    *)
LEMMA SendKeeps ==
  ASSUME RelayInv, link' = link, NEW r \in Relays, NEW body \in Relay!Bodies, Relay!Send(r, body)
  PROVE  RelayInv'
<1> DEFINE ts == clock + offset
           m == [relay |-> r, n |-> attempts[r] + 1, ts |-> ts, path |-> scfg.path, peer |-> scfg.name,
                 key |-> scfg.key, body |-> body, sig |-> Relay!sign(scfg.path, ts, body, scfg.secret)]
<1>1. /\ UNCHANGED <<scfg, rcfg, offset, clock, answers, rows, refused>> /\ sjob[r] = "queued"
      /\ \/ /\ scfg.secret # 0 /\ net' = net \cup {m} /\ sent' = sent \cup {m}
            /\ sjob' = [sjob EXCEPT ![r] = "sending"]
         \/ UNCHANGED <<net, sent>> /\ sjob' = [sjob EXCEPT ![r] = "failed"]
  BY DEF Relay!Send, Relay!cfgVars
<1>2. Setting /\ Onward
  BY <1>1 DEF RelayInv, Setting, Onward
<1>3. Setting'
  BY <1>1 DEF RelayInv, Setting
<1>4. SentOK' /\ NetOK'
  <2>1. CASE UNCHANGED <<net, sent>>
    BY <1>2, <2>1, SameSent
  <2>2. CASE scfg.secret # 0 /\ net' = net \cup {m} /\ sent' = sent \cup {m}
    <3>1. /\ m = [relay |-> m.relay, n |-> m.n, ts |-> m.ts, path |-> scfg.path, peer |-> scfg.name,
                  key |-> scfg.key, body |-> m.body, sig |-> Relay!sign(scfg.path, m.ts, m.body, scfg.secret)]
          /\ m = [relay |-> m.relay, n |-> m.n, ts |-> m.ts, path |-> m.path, peer |-> m.peer,
                  key |-> m.key, body |-> m.body, sig |-> m.sig]
      OBVIOUS
    <3> HIDE DEF m
    <3>2. Genuine(m)
      BY <2>2, <3>1 DEF Genuine
    <3>3. \A x : Genuine(x)' <=> Genuine(x)
      BY <1>1 DEF Genuine
    <3>4. SentOK'
      BY <2>2, <3>2, <3>3 DEF RelayInv, SentOK
    <3>5. NetOK'
      BY <2>2, <3>1 DEF RelayInv, NetOK
    <3> QED
      BY <3>4, <3>5
  <2> QED
    BY <1>1, <2>1, <2>2
<1>5. RowsOK' /\ NotRepeated' /\ (\A x : Enqueued(x) => Enqueued(x)') /\ RefusedOK'
  BY <1>1, <1>2, SameRows, SameRefused
<1>6. AnswersOK'
  BY <1>1, <1>5 DEF RelayInv, AnswersOK, Setting
<1> QED
  BY <1>3, <1>4, <1>5, <1>6 DEF RelayInv

(* An answer comes, or does not.                                           *)
LEMMA AnswerKeeps ==
  ASSUME RelayInv, link' = link,
         \/ \E r \in Relays : Relay!RequestTimeout(r) \/ Relay!SendAgain(r)
         \/ \E a \in answers : Relay!GetAnswer(a)
  PROVE  RelayInv'
<1>1. /\ UNCHANGED <<scfg, rcfg, offset, clock, net, rows, sent, refused>>
      /\ answers' \subseteq answers /\ sjob' = [r \in Relays |-> sjob'[r]]
      /\ \A r \in Relays : \/ sjob'[r] = sjob[r] \/ sjob'[r] # "succeeded"
                           \/ \E a \in answers : a.ok /\ a.relay = r
  <2>1. CASE \E r \in Relays : Relay!RequestTimeout(r) \/ Relay!SendAgain(r)
    BY <2>1 DEF Relay!RequestTimeout, Relay!SendAgain, Relay!cfgVars, RelayInv, Setting
  <2>2. CASE \E a \in answers : Relay!GetAnswer(a)
    BY <2>2 DEF Relay!GetAnswer, Relay!cfgVars, RelayInv, Setting
  <2> QED
    BY <2>1, <2>2
<1>2. Onward /\ Setting'
  BY <1>1 DEF RelayInv, Setting, Onward
<1>3. SentOK' /\ NetOK' /\ RowsOK' /\ NotRepeated' /\ RefusedOK' /\ \A r : Enqueued(r) => Enqueued(r)'
  BY <1>1, <1>2, SameSent, SameRows, SameRefused
<1>4. AnswersOK'
  BY <1>1, <1>3 DEF RelayInv, AnswersOK
<1> QED
  BY <1>2, <1>3, <1>4 DEF RelayInv

(* A request is altered on the way; time passes.                           *)
LEMMA WorldKeeps ==
  ASSUME RelayInv, link' = link, Relay!Corrupt \/ Relay!Tick
  PROVE  RelayInv'
<1>1. /\ UNCHANGED <<scfg, rcfg, offset, sjob, answers, rows, sent, refused>>
      /\ clock' \in Nat /\ clock' >= clock
  <2>1. CASE Relay!Corrupt
    <3>1. UNCHANGED <<scfg, rcfg, offset, clock, sjob, answers, rows, sent, refused>>
      BY <2>1 DEF Relay!Corrupt, Relay!cfgVars
    <3> QED
      BY <3>1 DEF RelayInv, Setting
  <2>2. CASE Relay!Tick
    BY <2>2 DEF Relay!Tick, Relay!cfgVars, RelayInv, Setting
  <2> QED
    BY <2>1, <2>2
<1>2. Onward /\ Setting'
  BY <1>1 DEF RelayInv, Setting, Onward
<1>3. SentOK' /\ RowsOK' /\ NotRepeated' /\ RefusedOK' /\ (\A r : Enqueued(r) => Enqueued(r)')
      /\ (net' = net => NetOK')
  BY <1>1, <1>2, SameSent, SameRows, SameRefused
<1>4. AnswersOK'
  BY <1>1, <1>3 DEF RelayInv, AnswersOK
<1>5. NetOK'
  <2>1. CASE Relay!Tick
    BY <1>3, <2>1 DEF Relay!Tick
  <2>2. ASSUME NEW m \in net \cap sent, NEW b, NEW ts,
               net' = (net \ {m}) \cup {[m EXCEPT !.body = b, !.ts = ts]}
        PROVE  NetOK'
    <3>0. PICK x : x = [m EXCEPT !.body = b, !.ts = ts]
      OBVIOUS
    <3>1. PICK r, n, t, p, q, k, c, g :
            m = [relay |-> r, n |-> n, ts |-> t, path |-> p, peer |-> q, key |-> k, body |-> c, sig |-> g]
      BY DEF RelayInv, SentOK, Genuine
    <3>2. x = [relay |-> r, n |-> n, ts |-> ts, path |-> p, peer |-> q, key |-> k, body |-> b, sig |-> g]
      BY <3>0, <3>1
    <3>3. x = [relay |-> m.relay, n |-> m.n, ts |-> x.ts, path |-> m.path, peer |-> m.peer,
               key |-> m.key, body |-> x.body, sig |-> m.sig]
      BY <3>1, <3>2
    <3>4. net' = (net \ {m}) \cup {x}
      BY <2>2, <3>0
    <3> QED
      BY <1>1, <3>3, <3>4 DEF RelayInv, NetOK
  <2> QED
    BY <2>1, <2>2 DEF Relay!Corrupt
<1> QED
  BY <1>2, <1>3, <1>4, <1>5 DEF RelayInv

(* A row of the receiver ends.                                             *)
LEMMA RunKeeps ==
  ASSUME RelayInv, link' = link, NEW i \in DOMAIN rows, Relay!RunRow(i)
  PROVE  RelayInv'
<1>1. PICK s \in {"succeeded", "failed"} : rows' = [rows EXCEPT ![i].status = s, ![i].done = clock]
  BY DEF Relay!RunRow
<1>2. UNCHANGED <<scfg, rcfg, offset, clock, sjob, net, answers, sent, refused>> /\ rows[i].status = "queued"
  BY DEF Relay!RunRow, Relay!cfgVars
<1>3. Onward /\ Setting' /\ Setting
  BY <1>2 DEF RelayInv, Setting, Onward
<1>4. SentOK' /\ NetOK' /\ RefusedOK'
  BY <1>2, <1>3, SameSent, SameRefused
<1>0. PICK old, new : old = rows[i] /\ new = [old EXCEPT !.status = s, !.done = clock]
  OBVIOUS
<1>a. rows' = [rows EXCEPT ![i] = new]
  BY <1>0, <1>1
<1>5. PICK S : rows \in Seq(S)
  BY DEF RelayInv, RowsOK, IsSeq
<1>6. rows' \in Seq(S \cup {new}) /\ DOMAIN rows' = DOMAIN rows
  BY <1>a, <1>5
<1>7. rows'[i] = new /\ \A j \in DOMAIN rows : j # i => rows'[j] = rows[j]
  BY <1>a, <1>5
<1>8. RowOK(old)
  BY <1>0 DEF RelayInv, RowsOK
<1>9. new = [relay |-> old.relay, key |-> old.key, target |-> old.target, status |-> s, at |-> old.at,
             done |-> clock, ts |-> old.ts, body |-> old.body, bag |-> old.bag]
  BY <1>0, <1>8 DEF RowOK
<1>10. /\ new.relay = old.relay /\ new.key = old.key /\ new.target = old.target /\ new.at = old.at
       /\ new.done = clock /\ new.ts = old.ts /\ new.body = old.body
       /\ new = [relay |-> new.relay, key |-> new.key, target |-> new.target, status |-> new.status,
                 at |-> new.at, done |-> new.done, ts |-> new.ts, body |-> new.body, bag |-> new.bag]
  BY <1>9
<1>11. RowOK(new)
  BY <1>3, <1>8, <1>10 DEF RowOK, Setting
<1>12. PICK r : r = new
  OBVIOUS
<1>13. RowOK(r)'
  BY <1>3, <1>11, <1>12, RowStays
<1>14. \A j \in DOMAIN rows' : RowOK(rows[j])'
  <2> SUFFICES ASSUME NEW j \in DOMAIN rows' PROVE RowOK(rows[j])'
    OBVIOUS
  <2>1. CASE j = i
    BY <1>7, <1>12, <1>13, <2>1
  <2>2. CASE j # i
    <3>1. PICK x : x = rows[j]
      OBVIOUS
    <3>2. RowOK(x)'
      BY <1>3, <1>6, <2>2, <3>1, RowStays DEF RelayInv, RowsOK
    <3>3. rows'[j] = x
      BY <1>6, <1>7, <2>2, <3>1
    <3> QED
      BY <3>2, <3>3
  <2> QED
    BY <2>1, <2>2
<1>15. RowsOK'
  BY <1>6, <1>14 DEF RowsOK, IsSeq
<1>16. \A j \in DOMAIN rows' : j \in DOMAIN rows /\ rows'[j].key = rows[j].key
                               /\ rows'[j].target = rows[j].target /\ rows'[j].at = rows[j].at
  BY <1>0, <1>6, <1>7, <1>10
<1>17. NotRepeated'
  <2> SUFFICES ASSUME NEW j \in DOMAIN rows', NEW k \in DOMAIN rows', j < k,
                      rows'[j].key = rows'[k].key, rows'[j].target = rows'[k].target, rows'[j].key # Relay!NoKey,
                      rows'[j].status = "succeeded", rows'[j].done < rows'[k].at,
                      rows'[k].at - rows'[j].done <= Relay!TTL'
               PROVE  FALSE
    BY DEF NotRepeated
  <2>0. Relay!TTL' = Relay!TTL /\ DOMAIN rows \subseteq Nat
    <3>1. DOMAIN rows \subseteq Nat
      BY <1>5
    <3> QED
      BY <3>1 DEF Relay!TTL
  <2>1. CASE j = i
    <3>1. rows[k].at <= clock /\ rows[k].at \in Nat /\ clock \in Nat
      BY <1>3, <1>16 DEF RelayInv, RowsOK, RowOK, Setting
    <3>2. clock < rows[k].at
      BY <1>7, <1>10, <1>16, <2>1
    <3> QED
      BY <3>1, <3>2
  <2>2. CASE j # i
    <3>1. rows'[j] = rows[j]
      BY <1>6, <1>7, <2>2
    <3> QED
      BY <1>16, <2>0, <3>1 DEF RelayInv, NotRepeated
  <2> QED
    BY <2>1, <2>2
<1>18. ASSUME NEW x, Enqueued(x) PROVE Enqueued(x)'
  <2>1. Relay!Targets' = Relay!Targets /\ \A m : Relay!dedupeKey(m)' = Relay!dedupeKey(m)
    BY DEF Relay!Targets, Relay!dedupeKey
  <2> QED
    BY <1>2, <1>6, <1>16, <1>18, <2>1 DEF Enqueued
<1>19. AnswersOK'
  BY <1>2, <1>18 DEF RelayInv, AnswersOK
<1> QED
  BY <1>3, <1>4, <1>15, <1>17, <1>19 DEF RelayInv

(* The receiver enqueues what it accepted.                                 *)
LEMMA AcceptKeeps ==
  ASSUME Relay!RelayAssumption, RelayInv, link' = link, NEW m \in net, NEW k \in 0 .. Len(Relay!Targets),
         Relay!Accepts(m), UNCHANGED <<scfg, rcfg, offset, clock, sjob, net, sent, refused>>,
         rows' = Relay!EnqueueRoutes(m, k).rows,
         answers' = answers \cup {[relay |-> m.relay, n |-> m.n, ok |-> Relay!EnqueueRoutes(m, k).ok]}
  PROVE  RelayInv'
<1>0. /\ Setting /\ IsSeq(rows) /\ Relay!TTL \in Nat /\ Len(Relay!Targets) \in Nat /\ clock \in Nat
      /\ Relay!TTL' = Relay!TTL /\ Relay!Targets' = Relay!Targets
  BY LinkFacts DEF RelayInv, RowsOK, Setting, Relay!TTL, Relay!Targets
<1>1. Onward /\ Setting'
  BY <1>0 DEF Setting, Onward
<1>2. SentOK' /\ NetOK' /\ RefusedOK'
  BY <1>1, SameSent, SameRefused
<1>3. PICK p, ok : p = Relay!EnqueueRoutes(m, k).rows /\ ok = Relay!EnqueueRoutes(m, k).ok
  OBVIOUS
<1>4. Adds(rows, m, p) /\ (ok => Serves(m, p, Len(Relay!Targets)))
  BY <1>0, <1>3, RoutesFacts
<1>5. PICK s \in sent : /\ s.relay = m.relay /\ s.body = m.body /\ s.ts = m.ts
                        /\ s.path = m.path /\ m.path = scfg.path
  BY AcceptedIsSent DEF RelayInv
<1>6. /\ IsSeq(p) /\ DOMAIN rows = 1 .. Len(rows) /\ DOMAIN p = 1 .. Len(p) /\ Len(p) \in Nat
      /\ Len(rows) \in Nat /\ Len(rows) <= Len(p)
      /\ \A i \in DOMAIN rows : i \in DOMAIN p /\ p[i] = rows[i]
      /\ \A j \in DOMAIN p \ DOMAIN rows :
           /\ \E t : p[j] = NewRow(m, t)
           /\ p[j].key # Relay!NoKey => ~Lately(rows, p[j].key, p[j].target)
  BY <1>0, <1>4, Appending DEF Adds
<1>7. ASSUME NEW t PROVE RowOK(NewRow(m, t)) /\ NewRow(m, t).status = "queued" /\ NewRow(m, t).at = clock
  <2>1. Relay!dedupeKey(m) = KeyOf(m.relay, m.body)
    BY <1>5, KeyIs
  <2>2. Relay!Abs(clock - m.ts) <= Skew
    BY DEF Relay!Accepts
  <2>3. PICK r : r = NewRow(m, t)
    OBVIOUS
  <2>4. /\ r = [relay |-> r.relay, key |-> r.key, target |-> r.target, status |-> r.status, at |-> r.at,
                done |-> r.done, ts |-> r.ts, body |-> r.body, bag |-> r.bag]
        /\ r.key = Relay!dedupeKey(m) /\ r.relay = m.relay /\ r.body = m.body /\ r.ts = m.ts /\ r.at = clock
        /\ r.done = 0 /\ r.status = "queued"
    BY <2>3 DEF NewRow
  <2>5. RowOK(r)
    BY <1>0, <1>5, <2>1, <2>2, <2>4 DEF RowOK
  <2> QED
    BY <2>3, <2>4, <2>5
<1>8. \A j \in DOMAIN p : RowOK(p[j])
  BY <1>6, <1>7 DEF RelayInv, RowsOK
<1>9. RowsOK'
  <2>1. \A j \in DOMAIN p : RowOK(p[j])'
    <3> SUFFICES ASSUME NEW j \in DOMAIN p PROVE RowOK(p[j])'
      OBVIOUS
    <3>1. RowOK(p[j])
      BY <1>8
    <3> QED
      BY <1>0, <1>1, <3>1, RowStays
  <2> QED
    BY <1>3, <1>6, <2>1 DEF RowsOK
<1>10. NotRepeated'
  <2> SUFFICES ASSUME NEW i \in DOMAIN p, NEW j \in DOMAIN p, i < j,
                      p[i].key = p[j].key, p[i].target = p[j].target, p[i].key # Relay!NoKey,
                      p[i].status = "succeeded", p[i].done < p[j].at, p[j].at - p[i].done <= Relay!TTL
               PROVE  FALSE
    BY <1>0, <1>3 DEF NotRepeated
  <2>1. i \in DOMAIN rows /\ p[i] = rows[i]
    BY <1>6, <1>7
  <2>2. CASE j \in DOMAIN rows
    BY <1>6, <2>1, <2>2 DEF RelayInv, NotRepeated
  <2>3. CASE j \notin DOMAIN rows
    <3>1. p[j].at = clock /\ ~Lately(rows, p[j].key, p[j].target)
      BY <1>6, <1>7, <2>3
    <3>2. ~(rows[i].done >= clock - Relay!TTL)
      BY <2>1, <3>1 DEF Lately
    <3>3. rows[i].done \in Nat
      BY <2>1 DEF RelayInv, RowsOK, RowOK
    <3> QED
      BY <1>0, <2>1, <3>1, <3>2, <3>3
  <2> QED
    BY <2>2, <2>3
<1>11. \A x : Relay!dedupeKey(x)' = Relay!dedupeKey(x)
  BY DEF Relay!dedupeKey
<1>12. ASSUME NEW x, Enqueued(x) PROVE Enqueued(x)'
  BY <1>0, <1>3, <1>6, <1>11, <1>12 DEF Enqueued
<1>13. ok => Enqueued(m.relay)'
  <2> SUFFICES ASSUME ok PROVE Enqueued(m.relay)'
    OBVIOUS
  <2>1. Relay!dedupeKey(m) = Relay!dedupeKey(s)
    BY <1>5 DEF Relay!dedupeKey
  <2>2. \A t \in 1 .. Len(Relay!Targets) : \E j \in DOMAIN p : p[j].target = Relay!Targets[t] /\ p[j].key = Relay!dedupeKey(s)
    BY <1>4, <2>1 DEF Serves
  <2> QED
    BY <1>0, <1>3, <1>5, <1>11, <2>2 DEF Enqueued
<1>14. AnswersOK'
  <2>1. ASSUME NEW a \in answers', a.ok PROVE Enqueued(a.relay)'
    <3>1. CASE a \in answers
      BY <1>12, <2>1, <3>1 DEF RelayInv, AnswersOK
    <3>2. CASE a = [relay |-> m.relay, n |-> m.n, ok |-> ok]
      <4>1. a.relay = m.relay /\ a.ok = ok
        BY <3>2
      <4> QED
        BY <1>13, <2>1, <4>1
    <3> QED
      BY <1>3, <3>1, <3>2
  <2> QED
    BY <1>12, <2>1 DEF RelayInv, AnswersOK
<1> QED
  BY <1>1, <1>2, <1>9, <1>10, <1>14 DEF RelayInv

(* The receiver refuses a request.                                         *)
LEMMA RefuseKeeps ==
  ASSUME RelayInv, link' = link, NEW m \in net, ~Relay!Accepts(m),
         UNCHANGED <<scfg, rcfg, offset, clock, sjob, net, sent, rows>>,
         answers' = answers \cup {[relay |-> m.relay, n |-> m.n, ok |-> FALSE]},
         refused' = {[m |-> m, at |-> clock]}
  PROVE  RelayInv'
<1>1. Onward /\ Setting' /\ Setting
  BY DEF RelayInv, Setting, Onward
<1>2. SentOK' /\ NetOK' /\ RowsOK' /\ NotRepeated' /\ \A r : Enqueued(r) => Enqueued(r)'
  BY <1>1, SameSent, SameRows
<1>3. RefusedOK'
  <2>1. PICK x : x = [m |-> m, at |-> clock]
    OBVIOUS
  <2>2. x.m = m /\ x.at = clock /\ refused' = {x}
    BY <2>1
  <2>3. ~(Genuine(m) /\ Relay!Agree(m) /\ Relay!Abs(clock - m.ts) <= Skew)
    BY <1>1, GenuineAccepted
  <2>4. (Genuine(m)' <=> Genuine(m)) /\ (Relay!Agree(m)' <=> Relay!Agree(m))
    BY DEF Genuine, Relay!Agree
  <2> QED
    BY <2>2, <2>3, <2>4 DEF RefusedOK
<1>4. AnswersOK'
  <2> DEFINE no == FALSE
  <2>1. answers' = answers \cup {[relay |-> m.relay, n |-> m.n, ok |-> no]}
    OBVIOUS
  <2> HIDE DEF no
  <2>2. \A a \in answers' : a \in answers \/ a.ok = no
    BY <2>1
  <2>3. \A a \in answers' : a \in answers \/ ~a.ok
    BY <2>2 DEF no
  <2> QED
    BY <1>2, <2>3 DEF RelayInv, AnswersOK
<1> QED
  BY <1>1, <1>2, <1>3, <1>4 DEF RelayInv

(* HandleHTTP.                                                             *)
LEMMA HandleKeeps ==
  ASSUME Relay!RelayAssumption, RelayInv, link' = link, NEW m \in net, NEW k \in 0 .. Len(Relay!Targets), Relay!Handle(m, k)
  PROVE  RelayInv'
<1>1. UNCHANGED <<scfg, rcfg, offset, clock, sjob, net, sent>>
  BY DEF Relay!Handle, Relay!cfgVars
<1>2. CASE Relay!Accepts(m)
  <2>1. /\ rows' = Relay!EnqueueRoutes(m, k).rows /\ UNCHANGED refused
        /\ answers' = answers \cup {[relay |-> m.relay, n |-> m.n, ok |-> Relay!EnqueueRoutes(m, k).ok]}
    BY <1>2 DEF Relay!Handle
  <2> QED
    BY <1>1, <1>2, <2>1, AcceptKeeps
<1>3. CASE ~Relay!Accepts(m)
  <2>1. /\ answers' = answers \cup {[relay |-> m.relay, n |-> m.n, ok |-> FALSE]}
        /\ refused' = {[m |-> m, at |-> clock]} /\ UNCHANGED rows
    BY <1>3 DEF Relay!Handle
  <2> QED
    BY <1>1, <1>3, <2>1, RefuseKeeps
<1> QED
  BY <1>2, <1>3

(* A step in which nothing happens.                                        *)
LEMMA RelayStutter ==
  ASSUME RelayInv, UNCHANGED <<Relay!vars, link>>
  PROVE  RelayInv'
<1>1. UNCHANGED <<scfg, rcfg, offset, clock, sjob, net, answers, rows, sent, refused, link>>
  BY DEF Relay!vars
<1>2. Onward /\ Setting'
  BY <1>1 DEF RelayInv, Setting, Onward
<1>3. /\ SentOK' /\ NetOK' /\ RowsOK' /\ NotRepeated' /\ RefusedOK'
      /\ \A r : Enqueued(r) => Enqueued(r)'
  BY <1>1, <1>2, SameSent, SameRows, SameRefused
<1>4. AnswersOK'
  BY <1>1, <1>3 DEF RelayInv, AnswersOK
<1> QED
  BY <1>2, <1>3, <1>4 DEF RelayInv

(* The inductive invariant of a relay.                                     *)
THEOREM RelayInvariance == ASSUME Relay!RelayAssumption PROVE Relay!Spec => []RelayInv
<1>1. RelayInv /\ [Relay!Next]_<<Relay!vars, link>> => RelayInv'
  <2>1. ASSUME RelayInv, Relay!Next PROVE RelayInv'
    BY <2>1, SendKeeps, AnswerKeeps, HandleKeeps, RunKeeps, WorldKeeps DEF Relay!Next
  <2> QED
    BY <2>1, RelayStutter
<1> QED
  BY <1>1, RelayInit, PTL DEF Relay!Spec

(* A key of the deduplication that names a job is not the empty key.       *)
LEMMA KeysAreKeys ==
  /\ \A d : d # "" => <<"own", d>> # Relay!NoKey
  /\ \A p, o, e : <<"relay", p, o, e>> # Relay!NoKey
<1>1. ASSUME NEW d, d # "" PROVE <<"own", d>> # <<"own", "">>
  <2>1. <<"own", d>>[2] = d /\ <<"own", "">>[2] = ""
    OBVIOUS
  <2> QED
    BY <1>1, <2>1
<1>2. ASSUME NEW p, NEW o, NEW e PROVE <<"relay", p, o, e>> # <<"own", "">>
  <2>1. <<"relay", p, o, e>>[1] = "relay" /\ <<"own", "">>[1] = "own"
    OBVIOUS
  <2> QED
    BY <2>1
<1> QED
  BY <1>1, <1>2, Zenon DEF Relay!NoKey

(* RelaySound: every job of the receiver comes from a request as its peer  *)
(* sent it (accept verifies path, timestamp and body); a request between   *)
(* instances whose configurations agree is not refused; a relay that       *)
(* succeeded has work enqueued for every route; and a request that comes   *)
(* again does not repeat work that has lately succeeded -- for any number  *)
(* of relays and routes, any configurations and any losses, repetitions,   *)
(* delays and alterations on the way.                                      *)
THEOREM RelayIsSound == ASSUME Relay!RelayAssumption PROVE Relay!Spec => []RelaySound
<1>1. RelayInv => RelaySound
  <2> SUFFICES ASSUME RelayInv PROVE RelaySound
    OBVIOUS
  <2>1. Relay!OnlyAsSent
    BY DEF RelayInv, RowsOK, RowOK, Relay!OnlyAsSent
  <2>2. Relay!NoFalseRefusal
    BY DEF RelayInv, RefusedOK, SentOK, Relay!NoFalseRefusal
  <2>3. Relay!SuccessIsEnqueued
    <3>1. DOMAIN Relay!Targets = 1 .. Len(Relay!Targets)
      BY LinkFacts DEF RelayInv
    <3> QED
      BY <3>1 DEF RelayInv, AnswersOK, Enqueued, Relay!SuccessIsEnqueued
  <2>4. Relay!NoRepeatedWork
    <3> SUFFICES ASSUME NEW i \in DOMAIN rows, NEW j \in DOMAIN rows, i < j,
                        rows[i].relay = rows[j].relay, rows[i].target = rows[j].target,
                        DedupeKey[rows[i].relay] # "" \/ EventID[rows[i].relay] # "",
                        rows[i].body.origin = rows[j].body.origin
                 PROVE  ~(/\ rows[i].status = "succeeded" /\ rows[i].done < rows[j].at
                          /\ rows[j].at - rows[i].done <= Relay!TTL)
      BY DEF Relay!NoRepeatedWork
    <3>1. rows[i].key = KeyOf(rows[i].relay, rows[i].body) /\ rows[j].key = KeyOf(rows[j].relay, rows[j].body)
      BY DEF RelayInv, RowsOK, RowOK
    <3>2. rows[i].key = rows[j].key
      BY <3>1 DEF KeyOf
    <3>3. rows[i].key # Relay!NoKey
      <4>1. CASE DedupeKey[rows[i].relay] # ""
        <5>1. PICK d : d # "" /\ rows[i].key = <<"own", d>>
          BY <3>1, <4>1 DEF KeyOf
        <5> QED
          BY <5>1, KeysAreKeys, Zenon
      <4>2. CASE DedupeKey[rows[i].relay] = ""
        <5>1. PICK o, e : rows[i].key = <<"relay", scfg.path, o, e>>
          BY <3>1, <4>2 DEF KeyOf
        <5> QED
          BY <5>1, KeysAreKeys, Zenon
      <4> QED
        BY <4>1, <4>2
    <3> QED
      BY <3>2, <3>3 DEF RelayInv, NotRepeated
  <2> QED
    BY <2>1, <2>2, <2>3, <2>4 DEF RelaySound, Relay!RelaySound
<1> QED
  BY <1>1, RelayInvariance, PTL

-----------------------------------------------------------------------------
(***************************************************************************)
(* The subprocess: every response, every capture limit, every amount of    *)
(* output and every kind of descendant.                                    *)
(***************************************************************************)

ProcessTypeOK ==
    /\ phase \in {"start", "select", "term", "grace", "kill", "done"}
    /\ result \in {"none", "nostart", "response", "overflow", "malformed", "timeout"}
    /\ main \in {"none", "runs", "exited"} /\ kid \in {"none", "group", "away", "gone"}
    /\ written \in Nat /\ buf \in 0 .. Limit
    /\ holds \in BOOLEAN /\ truncated \in BOOLEAN
    /\ waited \in BOOLEAN /\ timer \in BOOLEAN /\ early \in BOOLEAN

(* execute has a result once it is done, and no process before it starts.  *)
Progress ==
    /\ phase # "done" => result = "none"
    /\ phase = "start" => main = "none"

(* What was not cut has been captured byte by byte.                        *)
Captured == ~truncated => written = buf

(* Once cmd.Wait has returned nobody is left who could write.              *)
Quiet == waited => main = "exited" /\ ~(Process!KidRuns /\ holds)

(* A response was decoded after cmd.Wait, from an output that was not cut. *)
DecodedLate == result = "response" => waited /\ ~truncated

(* Only while execute selects, the deadline finds a result that is ready,  *)
(* and the process is not signalled after that.                            *)
ReadyEarly ==
    early => timer /\ waited /\ (phase = "select" \/ (phase = "done" /\ result # "timeout"))

ProcessInv == ProcessTypeOK /\ Progress /\ Captured /\ Quiet /\ DecodedLate /\ ReadyEarly

-----------------------------------------------------------------------------
(* Initially execute has not started.                                      *)
LEMMA ProcessInit == ASSUME Process!ExecutorAssumption PROVE Process!Init => ProcessInv
<1> SUFFICES ASSUME Process!Init PROVE ProcessInv
  OBVIOUS
<1>1. Limit \in Nat
  BY DEF Process!ExecutorAssumption
<1>2. ProcessTypeOK
  <2>1. written \in Nat /\ buf \in 0 .. Limit
    BY <1>1 DEF Process!Init
  <2>2. /\ holds \in BOOLEAN /\ truncated \in BOOLEAN
        /\ waited \in BOOLEAN /\ timer \in BOOLEAN /\ early \in BOOLEAN
    BY DEF Process!Init
  <2>3. phase = "start" /\ result = "none" /\ main = "none" /\ kid = "none"
    BY DEF Process!Init
  <2> QED
    BY <2>1, <2>2, <2>3 DEF ProcessTypeOK
<1>3. Progress /\ Captured /\ Quiet /\ DecodedLate /\ ReadyEarly
  BY DEF Process!Init, Progress, Captured, Quiet, DecodedLate, ReadyEarly
<1> QED
  BY <1>2, <1>3 DEF ProcessInv

(* What is captured of a write, or cut.                                    *)
LEMMA WriteStep ==
  ASSUME Process!ExecutorAssumption, ProcessInv, NEW n \in 1 .. Limit, Process!WriteOut(n)
  PROVE  ProcessInv'
<1>1. ~waited
  BY DEF Process!WriteOut, ProcessInv, Quiet
<1>2. /\ UNCHANGED <<phase, result, timer, early, main, kid, holds, waited>>
      /\ written' = written + n /\ Process!Capture(n)
  BY DEF Process!WriteOut, Process!execVars
<1>3. /\ ProcessTypeOK /\ Progress /\ Captured /\ DecodedLate /\ ReadyEarly /\ Limit \in Nat
  BY DEF ProcessInv, Process!ExecutorAssumption
<1>4. written' \in Nat /\ buf' \in 0 .. Limit
  BY <1>2, <1>3 DEF Process!Capture, ProcessTypeOK
<1>5. truncated' \in BOOLEAN /\ Captured'
  <2>1. CASE n <= Limit - buf
    <3>1. ~(n > Limit - buf)
      BY <1>3, <2>1 DEF ProcessTypeOK
    <3>2. buf' = buf + n /\ (truncated' <=> truncated) /\ truncated' \in BOOLEAN
      BY <1>2, <2>1, <3>1 DEF Process!Capture
    <3> QED
      BY <1>2, <1>3, <3>2 DEF Captured
  <2>2. CASE ~(n <= Limit - buf)
    <3>1. n > Limit - buf
      BY <1>3, <2>2 DEF ProcessTypeOK
    <3>2. truncated' = TRUE
      BY <1>2, <3>1 DEF Process!Capture
    <3> QED
      BY <3>2 DEF Captured
  <2> QED
    BY <2>1, <2>2
<1>6. ProcessTypeOK'
  BY <1>2, <1>3, <1>4, <1>5 DEF ProcessTypeOK
<1>7. Progress' /\ Quiet' /\ DecodedLate' /\ ReadyEarly'
  BY <1>1, <1>2, <1>3 DEF Progress, Quiet, DecodedLate, ReadyEarly
<1> QED
  BY <1>5, <1>6, <1>7 DEF ProcessInv

(* The processes and the goroutines around them: nobody starts to write    *)
(* again once cmd.Wait has returned.                                       *)
LEMMA ProcessSteps ==
  ASSUME ProcessInv, Kinds \subseteq {"group", "away"},
         \/ \E kind \in Kinds, h \in BOOLEAN : Process!Fork(kind, h)
         \/ Process!MainExits \/ Process!KidExits \/ Process!StdinEnds \/ Process!WaitReturns \/ Process!Deadline
  PROVE  ProcessInv'
<1> USE DEF ProcessInv, ProcessTypeOK, Progress, Captured, Quiet, DecodedLate, ReadyEarly, Process!KidRuns
<1>1. CASE \E kind \in Kinds, h \in BOOLEAN : Process!Fork(kind, h)
  BY <1>1 DEF Process!Fork, Process!execVars
<1>2. CASE Process!MainExits
  BY <1>2 DEF Process!MainExits, Process!execVars
<1>3. CASE Process!KidExits
  BY <1>3 DEF Process!KidExits, Process!execVars
<1>4. CASE Process!StdinEnds
  BY <1>4 DEF Process!StdinEnds, Process!execVars, Process!procVars
<1>5. CASE Process!WaitReturns
  BY <1>5 DEF Process!WaitReturns, Process!execVars, Process!procVars
<1>6. CASE Process!Deadline
  BY <1>6 DEF Process!Deadline, Process!procVars
<1> QED
  BY <1>1, <1>2, <1>3, <1>4, <1>5, <1>6

(* A result is decoded when cmd.Wait has returned.                         *)
LEMMA DecodeStep ==
  ASSUME ProcessInv, phase = "select", waited, Process!decodeCompletion
  PROVE  ProcessInv'
<1>1. /\ phase' = "done" /\ result' = Process!Decoded
      /\ UNCHANGED <<timer, early, main, kid, holds, written, buf, truncated, waited>>
  BY DEF Process!decodeCompletion, Process!Finish, Process!procVars
<1>2. Process!Decoded \in {"response", "overflow", "malformed"} /\ (Process!Decoded = "response" => ~truncated)
  BY DEF Process!Decoded
<1> QED
  BY <1>1, <1>2 DEF ProcessInv, ProcessTypeOK, Progress, Captured, Quiet, DecodedLate, ReadyEarly, Process!KidRuns

(* execute: signals are sent only after a deadline that found nothing.     *)
LEMMA ExecuteSteps ==
  ASSUME ProcessInv, Process!Execute
  PROVE  ProcessInv'
<1> USE DEF ProcessInv, ProcessTypeOK, Progress, Captured, Quiet, DecodedLate, ReadyEarly, Process!KidRuns, Process!procVars
<1>1. CASE Process!StartProcess
  BY <1>1 DEF Process!StartProcess
<1>2. CASE Process!StartFails
  BY <1>2 DEF Process!StartFails, Process!Finish
<1>3. CASE Process!SelectWait
  BY <1>3, DecodeStep DEF Process!SelectWait
<1>4. CASE Process!SelectTimer
  <2>1. CASE waited /\ Process!decodeCompletion
    BY <1>4, <2>1, DecodeStep DEF Process!SelectTimer
  <2>2. CASE /\ ~waited /\ phase' = "term"
             /\ UNCHANGED <<result, timer, early, Process!procVars, stdin, waited>>
    BY <1>4, <2>2 DEF Process!SelectTimer
  <2> QED
    BY <1>4, <2>1, <2>2 DEF Process!SelectTimer
<1>5. CASE Process!Terminate
  BY <1>5 DEF Process!Terminate
<1>6. CASE Process!GraceWait
  BY <1>6 DEF Process!GraceWait, Process!Finish
<1>7. CASE Process!GraceEnds
  BY <1>7 DEF Process!GraceEnds
<1>8. CASE Process!Reap
  BY <1>8 DEF Process!Reap, Process!Finish
<1> QED
  BY <1>1, <1>2, <1>3, <1>4, <1>5, <1>6, <1>7, <1>8 DEF Process!Execute

(* The inductive invariant of an execution.                                *)
THEOREM ProcessInvariance == ASSUME Process!ExecutorAssumption PROVE Process!Spec => []ProcessInv
<1>1. ASSUME ProcessInv, UNCHANGED Process!vars PROVE ProcessInv'
  BY <1>1 DEF Process!vars, ProcessInv, ProcessTypeOK, Progress, Captured, Quiet, DecodedLate, ReadyEarly,
              Process!KidRuns
<1>2. ProcessInv /\ [Process!Next]_Process!vars => ProcessInv'
  BY <1>1, WriteStep, ProcessSteps, ExecuteSteps DEF Process!Next, Process!ExecutorAssumption
<1> QED
  BY <1>2, ProcessInit, PTL DEF Process!Spec

(* A plugin that had exited, with its output read, when the deadline       *)
(* passed is not reported as timed out (select prefers a ready result),    *)
(* and no response is decoded from a cut output, although descendants may  *)
(* go on writing after the plugin has exited.                              *)
THEOREM ResultIsKept == ASSUME Process!ExecutorAssumption PROVE Process!Spec => []ResultKept
<1>1. ProcessInv => ResultKept
  BY DEF ProcessInv, Progress, Captured, DecodedLate, ReadyEarly,
         ResultKept, Process!ResultKept, Process!ReadyResultKept, Process!WholeResponse
<1> QED
  BY <1>1, ProcessInvariance, PTL

-----------------------------------------------------------------------------
(***************************************************************************)
(* When a row is claimed: every set of rows, base of the digits and        *)
(* backoff.                                                                *)
(***************************************************************************)

(* Powers of two are natural numbers: 2 ^ n counts the subsets of 1 .. n.  *)
LEMMA PowerOfTwo ==
  ASSUME NEW n \in Nat
  PROVE  2 ^ n \in Nat
<1>1. IsFiniteSet(1 .. n) /\ Cardinality(1 .. n) = n
  <2>1. Cardinality(1 .. n) = IF 1 > n THEN 0 ELSE n - 1 + 1
    BY FS_Interval
  <2> QED
    BY <2>1, FS_Interval
<1>2. IsFiniteSet(SUBSET (1 .. n)) /\ Cardinality(SUBSET (1 .. n)) = 2 ^ n
  BY <1>1, FS_SUBSET
<1> QED
  BY <1>2, FS_CardinalityType

(* Instants and the seconds they fall in.                                  *)
LEMMA Seconds ==
  ASSUME NEW t \in Nat, NEW u \in Nat, NEW s \in Nat \ {0}
  PROVE  /\ t \div s \in Nat
         /\ t \div s <= u \div s => t < u + s
         /\ t + s <= u => t \div s < u \div s
<1>1. t \div s \in Nat
  OBVIOUS
<1>2. t \div s <= u \div s => t < u + s
  OBVIOUS
<1>3. t + s <= u => t \div s < u \div s
  OBVIOUS
<1> QED
  BY <1>1, <1>2, <1>3

(* A second has a positive number of fractions.                            *)
LEMMA SecondIs == ASSUME Times!RetryTimeAssumption PROVE Times!Second \in Nat \ {0}
<1>1. ASSUME NEW n \in Nat \ {0, 1} PROVE n * n \in Nat \ {0}
  BY <1>1, SMT
<1> QED
  BY <1>1 DEF Times!RetryTimeAssumption, Times!Second

(* A text starts with the second, so the order of the texts agrees with    *)
(* the order of the seconds (RFC3339Nano, compared byte by byte).          *)
LEMMA TextStarts ==
  ASSUME NEW t
  PROVE  Len(Times!Text(t)) \in Nat \ {0} /\ Times!Text(t)[1] = t \div Times!Second
<1> DEFINE f == t % Times!Second  hi == f \div Ten + 1  lo == (f % Ten) + 1  Z == Ten + 1
           tail == CASE f = 0 -> <<Z>> [] lo = 1 -> <<0, hi, Z>> [] OTHER -> <<0, hi, lo, Z>>
           d == t \div Times!Second
<1>1. Times!Text(t) = <<d>> \o tail
  BY DEF Times!Text
<1>2. tail = <<Z>> \/ tail = <<0, hi, Z>> \/ tail = <<0, hi, lo, Z>>
  OBVIOUS
<1> HIDE DEF f, hi, lo, Z, tail, d
<1>3. PICK S : tail \in Seq(S) /\ d \in S
  <2>1. PICK S : Z \in S /\ 0 \in S /\ hi \in S /\ lo \in S /\ d \in S
    <3>1. \A x \in {Z, 0, hi, lo, d} : x \in {Z, 0, hi, lo, d}
      OBVIOUS
    <3> QED
      BY <3>1
  <2>2. <<Z>> \in Seq(S) /\ <<0, hi, Z>> \in Seq(S) /\ <<0, hi, lo, Z>> \in Seq(S)
    BY <2>1
  <2> QED
    BY <1>2, <2>1, <2>2
<1>4. /\ Len(<<d>> \o tail) = 1 + Len(tail) /\ Len(tail) \in Nat
      /\ (<<d>> \o tail)[1] = d
  BY <1>3
<1> QED
  BY <1>1, <1>4 DEF d

(* The order of the texts and the order of the seconds.                    *)
LEMMA TextOrder ==
  ASSUME Times!RetryTimeAssumption, NEW t \in Nat, NEW u \in Nat
  PROVE  /\ Times!NotAfter(Times!Text(t), Times!Text(u)) => t \div Times!Second <= u \div Times!Second
         /\ t \div Times!Second < u \div Times!Second => Times!Before(Times!Text(t), Times!Text(u))
<1> DEFINE a == Times!Text(t)  b == Times!Text(u)
<1>1. /\ Len(a) \in Nat \ {0} /\ a[1] = t \div Times!Second /\ t \div Times!Second \in Nat
      /\ Len(b) \in Nat \ {0} /\ b[1] = u \div Times!Second /\ u \div Times!Second \in Nat
  BY TextStarts, SecondIs, Seconds
<1> HIDE DEF a, b
<1>2. Times!NotAfter(a, b) => a[1] <= b[1]
  <2>1. ASSUME Times!Before(a, b) PROVE a[1] <= b[1]
    <3>1. PICK i \in 1 .. Len(a) : a[i] < b[i] /\ \A k \in 1 .. (i - 1) : a[k] = b[k]
      BY <2>1 DEF Times!Before
    <3>2. CASE i = 1
      BY <1>1, <3>1, <3>2
    <3>3. CASE i # 1
      <4>1. 1 \in 1 .. (i - 1)
        BY <1>1, <3>1, <3>3
      <4>2. a[1] = b[1]
        BY <3>1, <4>1
      <4> QED
        BY <1>1, <4>2
    <3> QED
      BY <3>2, <3>3
  <2>2. ASSUME a = b PROVE a[1] <= b[1]
    BY <1>1, <2>2
  <2> QED
    BY <2>1, <2>2 DEF Times!NotAfter
<1>3. a[1] < b[1] => Times!Before(a, b)
  <2>1. 1 \in 1 .. Len(a) /\ 1 <= Len(b) /\ 1 .. (1 - 1) = {}
    BY <1>1
  <2> QED
    BY <2>1 DEF Times!Before
<1> QED
  BY <1>1, <1>2, <1>3 DEF a, b

-----------------------------------------------------------------------------
(* A row that waits for a retry waits for the delay of its attempt after   *)
(* the failure; one that does not is due at once.                          *)
Waits(j) ==
    \E f \in Nat, n \in Nat, d \in Nat, jitter \in 0 .. BackoffBase \div 4 :
        /\ failedAt[j] = f /\ rowAttempt[j] = n + 2 /\ due[j] = d
        /\ d = f + BackoffBase * 2 ^ n + jitter
RowTimes(j) ==
    /\ rowStatus[j] \in {"none", "queued", "running", "done"}
    /\ created[j] \in Nat /\ rowAttempt[j] \in Nat \ {0}
    /\ (failedAt[j] = -1 /\ due[j] = -1) \/ Waits(j)
TimesInv ==
    /\ now \in Nat
    /\ rowStatus = [j \in Rows |-> rowStatus[j]] /\ created = [j \in Rows |-> created[j]]
    /\ rowAttempt = [j \in Rows |-> rowAttempt[j]] /\ due = [j \in Rows |-> due[j]]
    /\ failedAt = [j \in Rows |-> failedAt[j]]
    /\ \A j \in Rows : RowTimes(j)

(* No row has been inserted.                                               *)
LEMMA TimesInit == Times!Init => TimesInv
<1> SUFFICES ASSUME Times!Init PROVE TimesInv
  OBVIOUS
<1>1. \A j \in Rows : RowTimes(j)
  BY DEF Times!Init, Times!None, RowTimes
<1> QED
  BY <1>1 DEF Times!Init, Times!None, TimesInv

(* The steps that leave the times of a row alone.                          *)
LEMMA SameTimes ==
  ASSUME NEW j, RowTimes(j), due'[j] = due[j], failedAt'[j] = failedAt[j], rowAttempt'[j] = rowAttempt[j],
         created'[j] \in Nat, rowStatus'[j] \in {"none", "queued", "running", "done"}
  PROVE  RowTimes(j)'
BY DEF RowTimes, Waits

(* A failed row waits for its delay.                                       *)
LEMMA RetryKeeps ==
  ASSUME Times!RetryTimeAssumption, TimesInv, NEW j \in Rows, Times!failOrRetry(j)
  PROVE  TimesInv'
<1>1. PICK jitter \in 0 .. BackoffBase \div 4 :
        due' = [due EXCEPT ![j] = now + Times!calculateBackoffDelay(rowAttempt[j], jitter)]
  BY DEF Times!failOrRetry
<1>2. /\ rowStatus' = [rowStatus EXCEPT ![j] = "queued"] /\ rowAttempt' = [rowAttempt EXCEPT ![j] = @ + 1]
      /\ failedAt' = [failedAt EXCEPT ![j] = now] /\ UNCHANGED <<now, created>>
  BY DEF Times!failOrRetry
<1>3. /\ rowAttempt[j] \in Nat \ {0} /\ created[j] \in Nat /\ now \in Nat
      /\ BackoffBase \in Nat \ {0}
  BY DEF TimesInv, RowTimes, Times!RetryTimeAssumption
<1>4. PICK n \in Nat : rowAttempt[j] = n + 1 /\ rowAttempt[j] - 1 = n
  BY <1>3
<1>5. PICK p \in Nat : p = 2 ^ n
  BY PowerOfTwo
<1>6. PICK d : d = now + (BackoffBase * p + jitter)
  OBVIOUS
<1>7. d \in Nat
  <2>1. BackoffBase * p \in Nat
    BY <1>3
  <2> DEFINE b == BackoffBase * p
  <2>2. b \in Nat /\ d = now + (b + jitter)
    BY <1>6, <2>1
  <2>3. jitter \in Nat
    BY <1>3
  <2> HIDE DEF b
  <2> QED
    BY <1>3, <2>2, <2>3
<1>8. due' = [due EXCEPT ![j] = d]
  BY <1>1, <1>4, <1>5, <1>6 DEF Times!calculateBackoffDelay
<1>9. RowTimes(j)'
  <2>1. due'[j] = d /\ failedAt'[j] = now /\ rowAttempt'[j] = n + 2 /\ rowStatus'[j] = "queued"
        /\ created'[j] \in Nat
    BY <1>2, <1>3, <1>4, <1>8 DEF TimesInv
  <2>2. d = now + BackoffBase * 2 ^ n + jitter
    <3> DEFINE b == BackoffBase * p
    <3>1. b \in Nat /\ d = now + (b + jitter) /\ jitter \in Nat
      BY <1>3, <1>6
    <3>2. d = now + b + jitter
      <4> HIDE DEF b
      <4> QED
        BY <1>3, <3>1
    <3> QED
      BY <1>5, <3>2
  <2>3. Waits(j)'
    BY <1>3, <1>7, <2>1, <2>2 DEF Waits
  <2> QED
    BY <2>1, <2>3 DEF RowTimes
<1>10. ASSUME NEW k \in Rows, k # j PROVE RowTimes(k)'
  <2>1. /\ due'[k] = due[k] /\ failedAt'[k] = failedAt[k] /\ rowAttempt'[k] = rowAttempt[k]
        /\ created'[k] = created[k] /\ rowStatus'[k] = rowStatus[k]
    BY <1>2, <1>8, <1>10 DEF TimesInv
  <2>2. RowTimes(k)
    BY DEF TimesInv
  <2> QED
    BY <2>1, <2>2, SameTimes DEF RowTimes
<1> QED
  BY <1>2, <1>3, <1>8, <1>9, <1>10 DEF TimesInv

(* Recovery takes the delay away.                                          *)
LEMMA RecoveryKeeps ==
  ASSUME TimesInv, Times!RecoverOrphans
  PROVE  TimesInv'
<1> DEFINE orphans == {j \in Rows : rowStatus[j] = "running"}
<1>1. /\ rowStatus' = [j \in Rows |-> IF j \notin orphans THEN rowStatus[j]
                                     ELSE IF rowAttempt[j] < MaxTries THEN "queued" ELSE "done"]
      /\ rowAttempt' = [j \in Rows |-> IF j \in orphans THEN rowAttempt[j] + 1 ELSE rowAttempt[j]]
      /\ due' = [j \in Rows |-> IF j \in orphans THEN -1 ELSE due[j]]
      /\ failedAt' = [j \in Rows |-> IF j \in orphans THEN -1 ELSE failedAt[j]]
      /\ UNCHANGED <<now, created>>
  BY DEF Times!RecoverOrphans, Times!None
<1> HIDE DEF orphans
<1>2. ASSUME NEW j \in Rows PROVE RowTimes(j)'
  <2>1. RowTimes(j)
    BY DEF TimesInv
  <2>2. CASE j \in orphans
    BY <1>1, <2>1, <2>2 DEF RowTimes
  <2>3. CASE j \notin orphans
    BY <1>1, <2>1, <2>3, SameTimes DEF RowTimes
  <2> QED
    BY <2>2, <2>3
<1> QED
  BY <1>1, <1>2 DEF TimesInv

(* The other steps change the clock, or the status of one row.             *)
LEMMA OtherTimes ==
  ASSUME TimesInv,
         \/ Times!Tick \/ UNCHANGED Times!vars
         \/ \E j \in Rows : Times!Enqueue(j) \/ Times!DequeueEligible(j) \/ Times!Complete(j)
  PROVE  TimesInv'
<1>1. /\ UNCHANGED <<rowAttempt, due, failedAt>> /\ now' \in Nat
      /\ rowStatus' = [j \in Rows |-> rowStatus'[j]] /\ created' = [j \in Rows |-> created'[j]]
      /\ \A j \in Rows : /\ rowStatus'[j] \in {"none", "queued", "running", "done"}
                         /\ created'[j] \in Nat
  <2> USE DEF TimesInv, RowTimes
  <2>1. CASE Times!Tick
    BY <2>1 DEF Times!Tick
  <2>2. CASE UNCHANGED Times!vars
    BY <2>2 DEF Times!vars
  <2>3. CASE \E j \in Rows : Times!Enqueue(j)
    BY <2>3 DEF Times!Enqueue
  <2>4. CASE \E j \in Rows : Times!DequeueEligible(j)
    BY <2>4 DEF Times!DequeueEligible
  <2>5. CASE \E j \in Rows : Times!Complete(j)
    BY <2>5 DEF Times!Complete
  <2> QED
    BY <2>1, <2>2, <2>3, <2>4, <2>5
<1>2. \A j \in Rows : RowTimes(j)'
  BY <1>1, SameTimes DEF TimesInv
<1> QED
  BY <1>1, <1>2 DEF TimesInv

(* The times of the rows.                                                  *)
THEOREM TimesInvariance == ASSUME Times!RetryTimeAssumption PROVE Times!Spec => []TimesInv
<1>1. TimesInv /\ [Times!Next]_Times!vars => TimesInv'
  BY RetryKeeps, RecoveryKeeps, OtherTimes DEF Times!Next
<1> QED
  BY <1>1, TimesInit, PTL DEF Times!Spec

(* What is due.                                                            *)
LEMMA DueFacts ==
  ASSUME Times!RetryTimeAssumption, TimesInv, NEW j \in Rows, failedAt[j] # -1
  PROVE  \E f, d, b \in Nat, jitter \in 0 .. BackoffBase \div 4 :
           /\ failedAt[j] = f /\ due[j] = d /\ b = BackoffBase * 2 ^ (rowAttempt[j] - 2)
           /\ d = f + b + jitter
<1>1. PICK f \in Nat, n \in Nat, d \in Nat, jitter \in 0 .. BackoffBase \div 4 :
        /\ failedAt[j] = f /\ rowAttempt[j] = n + 2 /\ due[j] = d
        /\ d = f + BackoffBase * 2 ^ n + jitter
  BY DEF TimesInv, RowTimes, Waits
<1>2. rowAttempt[j] - 2 = n
  BY <1>1
<1>3. 2 ^ n \in Nat /\ BackoffBase \in Nat
  BY PowerOfTwo DEF Times!RetryTimeAssumption
<1>4. PICK b \in Nat : b = BackoffBase * 2 ^ n
  BY <1>3
<1> QED
  BY <1>1, <1>2, <1>4

(* EligibleAtLast of RetryTime.                                            *)
LEMMA AtLast ==
  ASSUME Times!RetryTimeAssumption, TimesInv
  PROVE  Times!EligibleAtLast
<1> DEFINE s == Times!Second
<1> SUFFICES ASSUME NEW j \in Rows, rowStatus[j] = "queued",
                    failedAt[j] = -1 \/
                      now >= failedAt[j] + BackoffBase * 2 ^ (rowAttempt[j] - 2) + BackoffBase \div 4 + s
             PROVE  Times!Eligible(j)
  BY DEF Times!EligibleAtLast, Times!None
<1>1. CASE failedAt[j] = -1
  <2>1. due[j] = -1
    BY <1>1 DEF TimesInv, RowTimes, Waits
  <2> QED
    BY <2>1 DEF Times!Eligible, Times!None
<1>2. CASE failedAt[j] # -1
  <2>1. PICK f, d, b \in Nat, jitter \in 0 .. BackoffBase \div 4 :
           /\ failedAt[j] = f /\ due[j] = d /\ b = BackoffBase * 2 ^ (rowAttempt[j] - 2)
           /\ d = f + b + jitter
    BY <1>2, DueFacts
  <2>2. s \in Nat \ {0} /\ now \in Nat
    BY SecondIs DEF TimesInv
  <2> HIDE DEF s
  <2>3. now >= f + b + BackoffBase \div 4 + s
    BY <1>2, <2>1
  <2>4. BackoffBase \div 4 \in Nat
    BY DEF Times!RetryTimeAssumption
  <2>5. d + s <= now
    BY <2>1, <2>2, <2>3, <2>4
  <2>6. d \div s < now \div s
    BY <2>1, <2>2, <2>5, Seconds
  <2>7. Times!Before(Times!Text(d), Times!Text(now))
    BY <2>1, <2>2, <2>6, TextOrder DEF s
  <2> QED
    BY <2>1, <2>7 DEF Times!Eligible, Times!NotAfter
<1> QED
  BY <1>1, <1>2

(* Only DequeueEligible starts a row.                                      *)
LEMMA Claims ==
  ASSUME TimesInv, [Times!Next]_Times!vars, NEW j \in Rows, rowStatus[j] = "queued", rowStatus'[j] = "running"
  PROVE  Times!DequeueEligible(j)
<1>1. ~UNCHANGED Times!vars /\ ~Times!Tick
  BY DEF Times!vars, Times!Tick
<1>2. ~Times!RecoverOrphans
  <2> SUFFICES ASSUME Times!RecoverOrphans PROVE FALSE
    OBVIOUS
  <2> DEFINE orphans == {k \in Rows : rowStatus[k] = "running"}
  <2>1. rowStatus' = [k \in Rows |-> IF k \notin orphans THEN rowStatus[k]
                                    ELSE IF rowAttempt[k] < MaxTries THEN "queued" ELSE "done"]
    BY DEF Times!RecoverOrphans
  <2> QED
    BY <2>1
<1>3. PICK k \in Rows : Times!Enqueue(k) \/ Times!DequeueEligible(k) \/ Times!Complete(k) \/ Times!failOrRetry(k)
  BY <1>1, <1>2 DEF Times!Next
<1>4. k = j
  BY <1>3 DEF Times!Enqueue, Times!DequeueEligible, Times!Complete, Times!failOrRetry, TimesInv
<1>5. ~Times!Enqueue(j) /\ ~Times!Complete(j) /\ ~Times!failOrRetry(j)
  BY DEF Times!Enqueue, Times!Complete, Times!failOrRetry
<1> QED
  BY <1>3, <1>4, <1>5

(* A row is claimed in its time and in its turn.                           *)
LEMMA ClaimSteps ==
  ASSUME Times!RetryTimeAssumption, TimesInv, [Times!Next]_Times!vars
  PROVE  Times!ClaimsInTime /\ Times!ClaimsOldestSecond
<1> DEFINE s == Times!Second
<1>0. s \in Nat \ {0} /\ now \in Nat
  BY SecondIs DEF TimesInv
<1>1. ASSUME NEW j \in Rows, rowStatus[j] = "queued", rowStatus'[j] = "running", failedAt[j] # -1
      PROVE  now + s > failedAt[j] + BackoffBase * 2 ^ (rowAttempt[j] - 2)
  <2>1. PICK f, d, b \in Nat, jitter \in 0 .. BackoffBase \div 4 :
           /\ failedAt[j] = f /\ due[j] = d /\ b = BackoffBase * 2 ^ (rowAttempt[j] - 2)
           /\ d = f + b + jitter
    BY <1>1, DueFacts
  <2>2. Times!NotAfter(Times!Text(d), Times!Text(now))
    <3>1. Times!DequeueEligible(j)
      BY <1>1, Claims
    <3>2. d # -1
      BY <2>1
    <3> QED
      BY <2>1, <3>1, <3>2 DEF Times!DequeueEligible, Times!Eligible, Times!None
  <2>3. d \div s <= now \div s
    BY <1>0, <2>1, <2>2, TextOrder
  <2> HIDE DEF s
  <2>4. d < now + s
    BY <1>0, <2>1, <2>3, Seconds
  <2>5. jitter \in Nat
    BY DEF Times!RetryTimeAssumption
  <2>6. now + s > f + b
    BY <1>0, <2>1, <2>4, <2>5
  <2> QED
    BY <2>1, <2>6
<1>2. ASSUME NEW j \in Rows, NEW k \in Rows, rowStatus[j] = "queued", rowStatus'[j] = "running", Times!Eligible(k)
      PROVE  created[j] \div s <= created[k] \div s
  <2>1. PICK c, e \in Nat : c = created[j] /\ e = created[k]
    BY DEF TimesInv, RowTimes
  <2>2. c \div s \in Nat /\ e \div s \in Nat
    <3> HIDE DEF s
    <3> QED
      BY <1>0, <2>1, Seconds
  <2>3. CASE k = j
    BY <2>1, <2>2, <2>3
  <2>4. CASE k # j
    <3>1. Times!ClaimedBefore(j, k)
      BY <1>2, <2>4, Claims DEF Times!DequeueEligible
    <3>2. CASE Times!Before(Times!Text(c), Times!Text(e))
      BY <2>1, <3>2, TextOrder DEF Times!NotAfter
    <3>3. CASE c = e
      BY <2>1, <2>2, <3>3
    <3> QED
      BY <2>1, <3>1, <3>2, <3>3 DEF Times!ClaimedBefore
  <2> QED
    BY <2>3, <2>4
<1>3. Times!ClaimsInTime
  BY <1>1 DEF Times!ClaimsInTime, Times!None
<1>4. Times!ClaimsOldestSecond
  BY <1>2 DEF Times!ClaimsOldestSecond
<1> QED
  BY <1>3, <1>4

(* ClaimedInTime of RetryTime: although SQLite compares the timestamps as  *)
(* texts whose order is not that of the instants, a retry starts no more   *)
(* than a second before its delay has passed, is eligible a second after   *)
(* it at the latest, and DequeueEligible takes a row of the earliest       *)
(* second -- for any rows, any base of the digits and any backoff.         *)
THEOREM ClaimsAreInTime == ASSUME Times!RetryTimeAssumption PROVE Times!Spec => ClaimedInTime
<1>1. TimesInv => Times!EligibleAtLast
  BY AtLast
<1>2. TimesInv /\ [Times!Next]_Times!vars => Times!ClaimsInTime /\ Times!ClaimsOldestSecond
  BY ClaimSteps
<1> QED
  BY <1>1, <1>2, TimesInvariance, PTL DEF Times!Spec, ClaimedInTime, Times!ClaimedInTime

-----------------------------------------------------------------------------
(* The three properties hold of the parts side by side, as the run checks  *)
(* them: a step of the whole is a step of one part or leaves it alone.     *)
THEOREM ExecutionIsSound == ExecutionSpec => [](ResultKept /\ RelaySound) /\ ClaimedInTime
<1> DEFINE all == <<part, remembered, times, process, relayed>>
<1>1. ExecutionInit => Relay!Init /\ Process!Init /\ Times!Init
  BY DEF ExecutionInit
<1>2. [ExecutionNext]_all => [Relay!Next]_<<Relay!vars, link>>
  BY DEF ExecutionNext, relayed, Relay!vars
<1>3. [ExecutionNext]_all => [Process!Next]_Process!vars
  BY DEF ExecutionNext, process, Process!vars
<1>4. [ExecutionNext]_all => [Times!Next]_Times!vars
  BY DEF ExecutionNext, times, Times!vars
<1>5. ExecutionSpec => Relay!Spec /\ Process!Spec /\ Times!Spec
  BY <1>1, <1>2, <1>3, <1>4, PTL DEF ExecutionSpec, Relay!Spec, Process!Spec, Times!Spec
<1> QED
  BY <1>5, ExecutionAssumption, RelayIsSound, ResultIsKept, ClaimsAreInTime, PTL
=============================================================================
