--------------------------- MODULE RelayDelivery ----------------------------
(***************************************************************************)
(* Remote event relay between two instances (internal/relay): the job or    *)
(* command that sends, a network that loses, delays, repeats and corrupts,  *)
(* and the receiver that checks a request and enqueues one job per route.   *)
(***************************************************************************)
EXTENDS Integers, Sequences, FiniteSets

CONSTANTS Relays,       \* relay jobs of the sender
          DedupeKey,    \* relay -> dedupe key, or ""
          EventID,      \* relay -> origin event id, or ""
          Links,        \* what connects the two instances, see below
          Skew          \* allowed_clock_skew

RelayAssumption ==
    /\ Skew \in Nat \ {0}
    /\ \A l \in Links : /\ l.ttl \in Nat /\ {l.time, l.attempts, l.rows} \subseteq Nat
                         /\ l.corrupts \in BOOLEAN
                         /\ Len(l.targets) \in Nat /\ DOMAIN l.targets = 1 .. Len(l.targets)

VARIABLE link       \* chosen initially

Bodies == link.bodies           \* envelopes: type, size, origin, bag
Targets == link.targets         \* sequence of plugins the receiver routes to
TTL == link.ttl                 \* dedupe_ttl of the receiver
Corrupts == link.corrupts       \* whether requests are altered on the way
MaxTime == link.time
MaxSends == link.attempts
MaxRows == link.rows

VARIABLES scfg, rcfg, offset,
          clock,        \* of the receiver
          sjob,         \* relay -> "queued", "sending", "succeeded" or "failed"
          attempts,     \* relay -> requests made
          net,          \* requests under way; one that was delivered may come again
          answers,      \* answers under way
          rows,         \* job_queue of the receiver
          sent,         \* requests as they were sent
          refused       \* the request that was refused last, and when
vars == <<scfg, rcfg, offset, clock, sjob, attempts, net, answers, rows, sent, refused>>
cfgVars == <<scfg, rcfg, offset>>

-----------------------------------------------------------------------------
(* Configuration: names, secrets (0 is empty), keys, event types.           *)

\* validateRelayConfig
ValidReceiver(c) == c.requireKey => \A p \in DOMAIN c.peers : c.peers[p].key # ""

Init ==
    /\ link \in Links      \* with the sender's clock minus the receiver's as offset
    /\ scfg \in link.senders /\ rcfg \in {c \in link.receivers : ValidReceiver(c)}
    /\ offset \in link.offsets /\ clock = 0
    /\ sjob = [r \in Relays |-> "queued"] /\ attempts = [r \in Relays |-> 0]
    /\ net = {} /\ answers = {} /\ rows = <<>> /\ sent = {} /\ refused = {}

-----------------------------------------------------------------------------
(* The sender.                                                              *)

sign(path, ts, body, secret) == <<path, ts, body, secret>>

\* A relay the configuration does not allow, or without a secret, fails at once.
Send(r, body) ==
    /\ sjob[r] = "queued" /\ attempts[r] < MaxSends
    /\ attempts' = [attempts EXCEPT ![r] = @ + 1]
    /\ LET ts == clock + offset
           m == [relay |-> r, n |-> attempts[r] + 1, ts |-> ts, path |-> scfg.path, peer |-> scfg.name,
                 key |-> scfg.key, body |-> body, sig |-> sign(scfg.path, ts, body, scfg.secret)]
           allowed == (scfg.allow = {} \/ body.type \in scfg.allow) /\ scfg.secret # 0
       IN IF allowed
          THEN net' = net \cup {m} /\ sent' = sent \cup {m} /\ sjob' = [sjob EXCEPT ![r] = "sending"]
          ELSE sjob' = [sjob EXCEPT ![r] = "failed"] /\ UNCHANGED <<net, sent>>
    /\ UNCHANGED <<cfgVars, clock, answers, rows, refused>>

\* core.relay is not retried: anything but 202 ends the job.
GetAnswer(a) ==
    /\ a \in answers /\ answers' = answers \ {a}
    /\ sjob' = IF sjob[a.relay] = "sending" /\ a.n = attempts[a.relay]
               THEN [sjob EXCEPT ![a.relay] = IF a.ok THEN "succeeded" ELSE "failed"] ELSE sjob
    /\ UNCHANGED <<cfgVars, clock, attempts, net, rows, sent, refused>>

RequestTimeout(r) ==
    /\ sjob[r] = "sending" /\ sjob' = [sjob EXCEPT ![r] = "failed"]
    /\ UNCHANGED <<cfgVars, clock, attempts, net, answers, rows, sent, refused>>

\* A crash while sending: recovery queues the job again.  A failed relay is
\* repeated by the operator, with the same keys.
SendAgain(r) ==
    /\ sjob[r] \in {"sending", "failed"} /\ attempts[r] < MaxSends
    /\ sjob' = [sjob EXCEPT ![r] = "queued"]
    /\ UNCHANGED <<cfgVars, clock, attempts, net, answers, rows, sent, refused>>

-----------------------------------------------------------------------------
(* The receiver.                                                            *)

Abs(x) == IF x < 0 THEN -x ELSE x

\* accept: the checks, in order.
Accepts(m) ==
    /\ m.path \in DOMAIN rcfg.peers /\ m.peer = m.path /\ Abs(clock - m.ts) <= Skew
    /\ rcfg.requireKey => m.key # ""
    /\ rcfg.peers[m.path].key \in {"", m.key}
    /\ m.body.size <= rcfg.maxBody
    /\ rcfg.peers[m.path].secret # 0
    /\ m.sig = sign(m.path, m.ts, m.body, rcfg.peers[m.path].secret)
    /\ m.body.origin \in {"", m.path}
    /\ rcfg.peers[m.path].accept = {} \/ m.body.type \in rcfg.peers[m.path].accept

\* mutant: no key is derived from the origin
KeyGiven(m) == <<"own", DedupeKey[m.relay]>>

NoKey == <<"own", "">>
dedupeKey(m) ==
    IF DedupeKey[m.relay] = "" /\ EventID[m.relay] # ""
    THEN <<"relay", m.path, m.body.origin, EventID[m.relay]>> ELSE <<"own", DedupeKey[m.relay]>>

admitBaggage(m) == m.body.bag \cap rcfg.peers[m.path].bags

\* Enqueue without a window of its own: only a recent success is a duplicate.
Enqueue(q, m, t) ==
    LET key == dedupeKey(m)
        row == [relay |-> m.relay, key |-> key, target |-> t, status |-> "queued", at |-> clock, done |-> 0,
                ts |-> m.ts, body |-> m.body,
                bag |-> admitBaggage(m)]
    IN IF key # NoKey /\ \E i \in DOMAIN q :
            q[i].key = key /\ q[i].target = t /\ q[i].status = "succeeded" /\ q[i].done >= clock - TTL
       THEN q ELSE Append(q, row)

\* enqueueRootDispatches: the k-th route fails (its claims or its context),
\* after the ones before it have been enqueued; no failure is k = 0.
EnqueueRoutes(m, k) ==
    LET upto[i \in 0 .. Len(Targets)] == IF i = 0 THEN rows ELSE Enqueue(upto[i - 1], m, Targets[i])
    IN [rows |-> upto[IF k = 0 THEN Len(Targets) ELSE k - 1], ok |-> k = 0]

\* HandleHTTP; the request stays under way and may be delivered again.
Handle(m, k) ==
    /\ m \in net
    /\ LET e == EnqueueRoutes(m, k)
           Answer(ok) == [relay |-> m.relay, n |-> m.n, ok |-> ok]
       IN IF Accepts(m)
          THEN /\ Len(e.rows) <= MaxRows /\ rows' = e.rows /\ answers' = answers \cup {Answer(e.ok)}
               /\ UNCHANGED refused
          ELSE /\ k = 0 /\ answers' = answers \cup {Answer(FALSE)}
               /\ refused' = {[m |-> m, at |-> clock]} /\ UNCHANGED rows
    /\ UNCHANGED <<cfgVars, clock, sjob, attempts, net, sent>>

RunRow(i) ==
    /\ rows[i].status = "queued"
    /\ \E s \in {"succeeded", "failed"} :
         rows' = [rows EXCEPT ![i].status = s, ![i].done = clock]
    /\ UNCHANGED <<cfgVars, clock, sjob, attempts, net, answers, sent, refused>>

-----------------------------------------------------------------------------
(* The network and the clock.  What is lost is never taken from net or      *)
(* answers.                                                                 *)

Corrupt ==
    /\ Corrupts
    /\ \E m \in net \cap sent : \E b \in Bodies, ts \in {m.ts, clock} :
         <<b, ts>> # <<m.body, m.ts>> /\ net' = (net \ {m}) \cup {[m EXCEPT !.body = b, !.ts = ts]}
    /\ UNCHANGED <<cfgVars, clock, sjob, attempts, answers, rows, sent, refused>>
Tick ==
    /\ clock < MaxTime /\ clock' = clock + 1
    /\ UNCHANGED <<cfgVars, sjob, attempts, net, answers, rows, sent, refused>>

Next ==
    /\ \/ \E r \in Relays : RequestTimeout(r) \/ SendAgain(r) \/ \E b \in Bodies : Send(r, b)
       \/ \E a \in answers : GetAnswer(a)
       \/ \E m \in net, k \in 0 .. Len(Targets) : Handle(m, k)
       \/ \E i \in DOMAIN rows : RunRow(i)
       \/ Corrupt \/ Tick
    /\ UNCHANGED link
Spec == Init /\ [][Next]_<<vars, link>>

-----------------------------------------------------------------------------

\* Every job of the receiver comes from a request that its peer sent, in
\* every part as it was sent, and is no older than the window allows.
OnlyAsSent ==
    \A i \in DOMAIN rows :
      /\ \E m \in sent : m.relay = rows[i].relay /\ m.body = rows[i].body /\ m.ts = rows[i].ts
      /\ Abs(rows[i].at - rows[i].ts) <= Skew

\* Two instances whose configurations agree understand each other: a request
\* that arrives as it was sent, in time, is not refused.
Agree(m) ==
    /\ scfg.path = scfg.name /\ scfg.name \in DOMAIN rcfg.peers
    /\ LET p == rcfg.peers[scfg.name]
       IN /\ p.secret = scfg.secret /\ (p.key = "" \/ p.key = scfg.key)
          /\ p.accept = {} \/ m.body.type \in p.accept
    /\ m.body.origin \in {"", scfg.name} /\ m.body.size <= rcfg.maxBody
NoFalseRefusal ==
    \A x \in refused : ~(x.m \in sent /\ Agree(x.m) /\ Abs(x.at - x.m.ts) <= Skew)

\* A sender that succeeded has work enqueued for every route of the receiver,
\* now or by an earlier request with the same key.
SuccessIsEnqueued ==
    \A r \in Relays : sjob[r] = "succeeded" =>
      \A t \in DOMAIN Targets : \E i \in DOMAIN rows :
        rows[i].target = Targets[t] /\ \E m \in sent : m.relay = r /\ rows[i].key = dedupeKey(m)

\* A request with an identity that comes again, by the network, a crash of the
\* sender or its operator, does not repeat work that has succeeded lately.
NoRepeatedWork ==
    \A i, j \in DOMAIN rows :
      (i < j /\ rows[i].relay = rows[j].relay /\ rows[i].target = rows[j].target
         /\ (DedupeKey[rows[i].relay] # "" \/ EventID[rows[i].relay] # "")
         /\ rows[i].body.origin = rows[j].body.origin)
      => ~(rows[i].status = "succeeded" /\ rows[i].done < rows[j].at /\ rows[j].at - rows[i].done <= TTL)

\* Relayed work is done as sent and once (HandleHTTP, accept and
\* enqueueRootDispatches against a network that delays, repeats and corrupts).
RelaySound == OnlyAsSent /\ NoFalseRefusal /\ SuccessIsEnqueued /\ NoRepeatedWork
=============================================================================
