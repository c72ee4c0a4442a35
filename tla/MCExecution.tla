---------------------------- MODULE MCExecution -----------------------------
(***************************************************************************)
(* Small instances of the four parts of Execution, checked in one run.     *)
(***************************************************************************)
EXTENDS Execution

(* Three jobs of one plugin over two keys: commands with facts, in         *)
(* parallel and one at a time; commands without; and both kinds mixed.     *)
KeysTwo == [j \in Jobs |-> IF j = 1 THEN {"a"} ELSE {"b"}]
KeysShared == [j \in Jobs |-> CASE j = 1 -> {"a"} [] j = 2 -> {"a", "b"} [] OTHER -> {}]
RulesTwoFacts == [j \in Jobs |-> IF j = 1 THEN <<"mirror_object", "mirror_object">> ELSE <<"mirror_object">>]
RulesNone == [j \in Jobs |-> <<>>]
RulesMixed == [j \in Jobs |-> IF j = 1 THEN <<"mirror_object">> ELSE IF j = 2 THEN <<"">> ELSE <<>>]

MCPlugins == {
    [keys |-> KeysTwo, rules |-> RulesTwoFacts, parallelism |-> 2],
    [keys |-> KeysTwo, rules |-> RulesTwoFacts, parallelism |-> 1],
    [keys |-> KeysShared, rules |-> RulesNone, parallelism |-> 3],
    [keys |-> KeysTwo, rules |-> RulesMixed, parallelism |-> 1]}

-----------------------------------------------------------------------------
(* Configurations of two instances, and envelopes.                         *)
Sender(name, path, secret, key, allow) ==
    [name |-> name, path |-> path, secret |-> secret, key |-> key, allow |-> allow]
Peer(secret, key, accept) == [secret |-> secret, key |-> key, accept |-> accept, bags |-> {"x"}]
Receiver(peer, requireKey, max) ==
    [peers |-> [p \in {"home"} |-> peer], requireKey |-> requireKey, maxBody |-> max]
Body(type, size, origin) == [type |-> type, size |-> size, origin |-> origin, bag |-> {"x", "y"}]

AnySender == {Sender(n, p, s, k, a) : n \in {"home", "lab"}, p \in {"home", "lab"}, s \in {0, 1},
                                      k \in {"", "k1", "k2"}, a \in {{}, {"e"}}}
AnyReceiver ==
    {Receiver(Peer(s, k, a), q, 1) : s \in {0, 1, 2}, k \in {"", "k1"}, a \in {{}, {"f"}}, q \in BOOLEAN}
AnyBody == {Body(t, s, o) : t \in {"e", "f"}, s \in {1, 2}, o \in {"home", "lab"}}
Matching == {Sender("home", "home", 1, "k1", {})}
MatchingReceiver == {Receiver(Peer(1, "k1", {"e"}), TRUE, 1)}

(* One request between any two configurations; requests that are altered   *)
(* on the way; and a request that is repeated, for two routes.             *)
MCLinks == {
    [senders |-> AnySender, receivers |-> AnyReceiver, bodies |-> AnyBody, targets |-> <<"t">>,
     offsets |-> {0, 2}, ttl |-> 3, corrupts |-> FALSE, time |-> 1, attempts |-> 1, rows |-> 1],
    [senders |-> Matching, receivers |-> MatchingReceiver,
     bodies |-> {Body("e", 1, "home"), Body("f", 1, "home")}, targets |-> <<"t">>,
     offsets |-> {0, 1}, ttl |-> 3, corrupts |-> TRUE, time |-> 2, attempts |-> 1, rows |-> 1],
    [senders |-> Matching, receivers |-> MatchingReceiver,
     bodies |-> {Body("e", 1, "home")}, targets |-> <<"t", "u">>,
     offsets |-> {0}, ttl |-> 1, corrupts |-> FALSE, time |-> 2, attempts |-> 2, rows |-> 3]}

NoKeys == [r \in Relays |-> ""]
EventIDs == [r \in Relays |-> "id"]

-----------------------------------------------------------------------------
(* The parts that do not move start in one state.                          *)
MCInit ==
    /\ ExecutionInit
    /\ part # "memory" => Parallelism = 3
    /\ part # "relay" => link.attempts = 2
MCSpec == MCInit /\ [][ExecutionNext]_<<part, remembered, times, process, relayed>> /\ Fairness
=============================================================================
