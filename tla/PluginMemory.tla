---------------------------- MODULE PluginMemory ----------------------------
(***************************************************************************)
(* What a plugin remembers: the rows of plugin_facts and the row of         *)
(* plugin_state of one plugin (internal/state/store.go), and the part of    *)
(* executeJob that reads the state before the plugin runs and writes what   *)
(* it answers, one transaction per declared fact.  A state is a function    *)
(* from keys to the execution that wrote them.  A command with fact rules   *)
(* answers with a full snapshot, the state it was given and its own keys;   *)
(* one without rules answers with its own keys.                             *)
(***************************************************************************)
EXTENDS Naturals, Sequences, SequencesExt, FiniteSets

CONSTANTS Jobs,
          Plugins,      \* what the plugin may be: keys, rules and parallelism
          MaxAttempts, MaxCrashes

ASSUME PluginMemoryAssumption ==
    /\ IsFiniteSet(Jobs)
    /\ \A p \in Plugins : /\ p.parallelism \in Nat \ {0}
                           /\ \A j \in Jobs : /\ IsFiniteSet(p.keys[j])
                                              /\ p.rules[j] \in Seq({"", "mirror_object"})
    /\ MaxAttempts \in Nat \ {0} /\ MaxCrashes \in Nat

VARIABLE plugin      \* its manifest, chosen initially

Keys == plugin.keys                 \* the keys the command of each job writes
Rules == plugin.rules               \* the compatibility views of its fact_outputs
Parallelism == plugin.parallelism

VARIABLES view,      \* plugin_state
          facts,     \* plugin_facts in the order of seq
          wrote,     \* for each key the last execution whose answer with it was applied
          status, attempt,
          pc,        \* of the job's worker
          given,     \* the state in the request
          updates,   \* state_updates of the response
          recorded,  \* how many of the rules were recorded
          crashes
vars == <<view, facts, wrote, status, attempt, pc, given, updates, recorded, crashes>>
jobVars == <<status, attempt>>
memory == <<view, facts, wrote>>

Empty == [k \in {} |-> <<>>]
Merge(s, u) == [k \in DOMAIN s \cup DOMAIN u |-> IF k \in DOMAIN u THEN u[k] ELSE s[k]]

Init ==
    /\ plugin \in Plugins
    /\ view = Empty /\ facts = <<>> /\ wrote = Empty
    /\ status = [j \in Jobs |-> "queued"] /\ attempt = [j \in Jobs |-> 1]
    /\ pc = [j \in Jobs |-> "idle"]
    /\ given = [j \in Jobs |-> Empty] /\ updates = [j \in Jobs |-> Empty]
    /\ recorded = [j \in Jobs |-> 0]
    /\ crashes = 0

Active == {j \in Jobs : status[j] = "running"}

\* The dispatcher gives a queued job to a worker while the plugin is below its parallelism.
Claim(j) ==
    /\ status[j] = "queued" /\ Cardinality(Active) < Parallelism
    /\ status' = [status EXCEPT ![j] = "running"]
    /\ pc' = [pc EXCEPT ![j] = "get"]
    /\ UNCHANGED <<memory, attempt, given, updates, recorded, crashes>>

Get(j) ==
    /\ pc[j] = "get"
    /\ given' = [given EXCEPT ![j] = view]
    /\ pc' = [pc EXCEPT ![j] = "exec"]
    /\ UNCHANGED <<memory, jobVars, updates, recorded, crashes>>

\* completeJob; a worker that is done forgets its request.
Finish(j, s) ==
    /\ status' = [status EXCEPT ![j] = s]
    /\ pc' = [pc EXCEPT ![j] = "idle"]
    /\ given' = [given EXCEPT ![j] = Empty]
    /\ updates' = [updates EXCEPT ![j] = Empty]

Snapshot(j) ==
    LET own == [k \in Keys[j] |-> <<j, attempt[j]>>]
    IN  IF Rules[j] = <<>> THEN own ELSE Merge(given[j], own)

\* A successful response; without state_updates nothing is to be written.
Respond(j) ==
    /\ pc[j] = "exec"
    /\ updates' = [updates EXCEPT ![j] = Snapshot(j)]
    /\ recorded' = [recorded EXCEPT ![j] = 0]
    /\ pc' = [pc EXCEPT ![j] = IF Keys[j] = {} THEN "complete"
                               ELSE IF Rules[j] = <<>> THEN "merge" ELSE "record"]
    /\ UNCHANGED <<memory, jobVars, given, crashes>>

\* A response with status error: the job is retried while it has attempts.
RespondError(j) ==
    /\ pc[j] = "exec"
    /\ IF attempt[j] < MaxAttempts
       THEN Finish(j, "queued") /\ attempt' = [attempt EXCEPT ![j] = @ + 1]
       ELSE Finish(j, "failed") /\ UNCHANGED attempt
    /\ UNCHANGED <<memory, recorded, crashes>>

\* reduceCompatibilityState and upsertState: without a view the state stays.
Reduced(rule, snapshot) == IF rule = "mirror_object" THEN snapshot ELSE view

\* One rule of pluginFactsFromStateUpdates: the row and the view in one transaction.
RecordFact(j) ==
    /\ pc[j] = "record"
    /\ facts' = Append(facts, [job |-> j, attempt |-> attempt[j], rule |-> recorded[j] + 1, json |-> updates[j]])
    /\ view' = Reduced(Rules[j][recorded[j] + 1], updates[j])
    /\ wrote' = Merge(wrote, [k \in Keys[j] |-> <<j, attempt[j]>>])
    /\ recorded' = [recorded EXCEPT ![j] = @ + 1]
    /\ pc' = [pc EXCEPT ![j] = IF recorded[j] + 1 < Len(Rules[j]) THEN "record" ELSE "complete"]
    /\ UNCHANGED <<jobVars, given, updates, crashes>>

\* mutant: the state read for the request is merged
ShallowMerge_Stale(j) ==
    /\ pc[j] = "merge"
    /\ view' = Merge(given[j], updates[j])
    /\ wrote' = Merge(wrote, updates[j])
    /\ pc' = [pc EXCEPT ![j] = "complete"]
    /\ UNCHANGED <<facts, jobVars, given, updates, recorded, crashes>>

\* Read, merge and upsert in one transaction.
ShallowMerge(j) ==
    /\ pc[j] = "merge"
    /\ view' = Merge(view, updates[j])
    /\ wrote' = Merge(wrote, updates[j])
    /\ pc' = [pc EXCEPT ![j] = "complete"]
    /\ UNCHANGED <<facts, jobVars, given, updates, recorded, crashes>>

\* The state cannot be read or written, is too large, or the events cannot be routed: no retry.
Broken(j) ==
    /\ pc[j] \in {"get", "record", "merge", "complete"}
    /\ Finish(j, "failed")
    /\ UNCHANGED <<memory, attempt, recorded, crashes>>

Complete(j) ==
    /\ pc[j] = "complete"
    /\ Finish(j, "succeeded")
    /\ UNCHANGED <<memory, attempt, recorded, crashes>>

\* The process is killed and its successor recovers the orphans.
Crash ==
    /\ crashes < MaxCrashes
    /\ crashes' = crashes + 1
    /\ status' = [j \in Jobs |-> IF j \notin Active THEN status[j]
                                 ELSE IF attempt[j] < MaxAttempts THEN "queued" ELSE "dead"]
    /\ attempt' = [j \in Jobs |-> IF j \in Active THEN attempt[j] + 1 ELSE attempt[j]]
    /\ pc' = [j \in Jobs |-> "idle"]
    /\ given' = [j \in Jobs |-> Empty] /\ updates' = [j \in Jobs |-> Empty]
    /\ UNCHANGED <<memory, recorded>>

Next ==
    /\ \/ \E j \in Jobs : \/ Claim(j) \/ Get(j) \/ Respond(j) \/ RespondError(j)
                          \/ RecordFact(j) \/ ShallowMerge(j) \/ Broken(j) \/ Complete(j)
       \/ Crash
    /\ UNCHANGED plugin

Spec == Init /\ [][Next]_<<vars, plugin>>
-----------------------------------------------------------------------------
(* Every fact declares its view, and every command declares facts.         *)
Mirrored == \A j \in Jobs : \A r \in 1..Len(Rules[j]) : Rules[j][r] = "mirror_object"
FactsOnly == \A j \in Jobs : Rules[j] /= <<>>
NoFacts == \A j \in Jobs : Rules[j] = <<>>

(* "a compatibility/cache view of the latest fact" (docs/PLUGIN_FACTS.md:6)*)
(* plugin_state is what the newest row of plugin_facts says, whatever      *)
(* crashes, retries and parallel executions came between, for a plugin     *)
(* whose commands all declare facts with the view mirror_object.           *)
ViewIsLatestFact == (Mirrored /\ FactsOnly /\ facts /= <<>>) => view = Last(facts).json

(* A job that succeeded left a row for every rule of its command, written  *)
(* by the attempt that succeeded.                                          *)
SucceededIsRecorded ==
    \A j \in Jobs : (status[j] = "succeeded" /\ Keys[j] /= {}) =>
        \A r \in 1..Len(Rules[j]) :
            \E i \in 1..Len(facts) : facts[i].job = j /\ facts[i].attempt = attempt[j] /\ facts[i].rule = r

(* Every key of the state holds what the last execution that wrote it      *)
(* answered.  ShallowMerge promises it to executions in parallel; full     *)
(* snapshots keep it only while the plugin runs one job at a time, as the  *)
(* next one must be given the state the previous one left.                 *)
KeysSurvive == (Mirrored /\ (NoFacts \/ Parallelism = 1)) => view = wrote

(* What a plugin is given next is what its executions recorded.            *)
MemorySound == ViewIsLatestFact /\ SucceededIsRecorded /\ KeysSurvive
=============================================================================
