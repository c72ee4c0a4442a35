------------------------- MODULE PluginMemoryProofs -------------------------
(***************************************************************************)
(* Proofs about module PluginMemory, for every plugin, every set of jobs    *)
(* and every number of attempts and crashes.                                *)
(***************************************************************************)
EXTENDS PluginMemory, FiniteSetTheorems, SequenceTheorems, TLAPS

(* The keys any command writes, and the states made of them.               *)
AllKeys == UNION {p.keys[j] : p \in Plugins, j \in Jobs}
State == UNION {[K -> Jobs \X Nat] : K \in SUBSET AllKeys}
FactRow == [job : Jobs, attempt : Nat, rule : Nat, json : State]

TypeOK ==
    /\ plugin \in Plugins
    /\ view \in State /\ wrote \in State /\ facts \in Seq(FactRow)
    /\ status \in [Jobs -> {"queued", "running", "succeeded", "failed", "dead"}]
    /\ attempt \in [Jobs -> Nat] /\ recorded \in [Jobs -> Nat]
    /\ pc \in [Jobs -> {"idle", "get", "exec", "record", "merge", "complete"}]
    /\ given \in [Jobs -> State] /\ updates \in [Jobs -> State]
    /\ crashes \in Nat

(* The keys the present execution of a job writes.                         *)
Own(j) == [k \in Keys[j] |-> <<j, attempt[j]>>]

(* A row of plugin_facts for the present attempt of a job.                 *)
HasRow(j, r) ==
    \E i \in 1..Len(facts) : facts[i].job = j /\ facts[i].attempt = attempt[j] /\ facts[i].rule = r

(* A worker has a running row, and where it is says what it has done.      *)
WorkerState ==
    \A j \in Jobs :
      /\ pc[j] # "idle" <=> status[j] = "running"
      /\ pc[j] = "merge" => Rules[j] = <<>> /\ recorded[j] = 0
      /\ pc[j] = "record" => recorded[j] < Len(Rules[j])
      /\ pc[j] = "complete" => Keys[j] = {} \/ recorded[j] >= Len(Rules[j])

(* The rules that count as recorded have their rows.                       *)
RowsWritten ==
    \A j \in Jobs : pc[j] \in {"record", "complete"} => \A r \in 1 .. recorded[j] : HasRow(j, r)

(* One job at a time: nothing is applied between the state a command is    *)
(* given and the snapshots it answers with.                                *)
Serial == Parallelism = 1
OneAtATime == Serial => \A i, j \in Active : i = j
GivenIsLatest ==
    (Mirrored /\ Serial) =>
      \A j \in Jobs : /\ pc[j] = "exec" => given[j] = wrote
                      /\ pc[j] = "record" => updates[j] = Merge(wrote, Own(j))

IndInv == TypeOK /\ WorkerState /\ RowsWritten /\ OneAtATime /\ GivenIsLatest /\ MemorySound

-----------------------------------------------------------------------------
(* Merging two states gives a state.                                       *)
LEMMA MergeType ==
  ASSUME NEW s \in State, NEW u \in State
  PROVE  Merge(s, u) \in State
<1>1. PICK K \in SUBSET AllKeys : s \in [K -> Jobs \X Nat]
  BY DEF State
<1>2. PICK L \in SUBSET AllKeys : u \in [L -> Jobs \X Nat]
  BY DEF State
<1>3. Merge(s, u) \in [K \cup L -> Jobs \X Nat]
  BY <1>1, <1>2 DEF Merge
<1> QED
  BY <1>3 DEF State

(* Merging keys a second time changes nothing.                             *)
LEMMA MergeTwice ==
  ASSUME NEW s, NEW u
  PROVE  Merge(Merge(s, u), u) = Merge(s, u)
<1>1. DOMAIN Merge(s, u) = DOMAIN s \cup DOMAIN u
  BY DEF Merge
<1>2. DOMAIN Merge(Merge(s, u), u) = DOMAIN s \cup DOMAIN u
  BY <1>1 DEF Merge
<1>3. \A k \in DOMAIN s \cup DOMAIN u : Merge(Merge(s, u), u)[k] = Merge(s, u)[k]
  BY <1>1 DEF Merge
<1> QED
  BY <1>1, <1>2, <1>3 DEF Merge

(* A plugin without a row has the empty state.                             *)
LEMMA EmptyType == Empty \in State
<1>1. Empty \in [{} -> Jobs \X Nat]
  BY DEF Empty
<1> QED
  BY <1>1 DEF State

(* The rules of a command: there are none, or a first one.                 *)
LEMMA RulesType ==
  ASSUME TypeOK, NEW j \in Jobs
  PROVE  /\ Rules[j] \in Seq({"", "mirror_object"}) /\ Len(Rules[j]) \in Nat
         /\ Rules[j] # <<>> => Len(Rules[j]) > 0
<1>1. Rules[j] \in Seq({"", "mirror_object"})
  BY PluginMemoryAssumption DEF TypeOK, Rules
<1>2. Rules[j] # <<>> => Len(Rules[j]) \in Nat \ {0}
  BY <1>1, EmptySeq
<1>3. Len(Rules[j]) \in Nat
  BY <1>1, LenProperties
<1>4. ASSUME Rules[j] # <<>> PROVE Len(Rules[j]) > 0
  BY <1>2, <1>3, <1>4
<1> QED
  BY <1>1, <1>3, <1>4

(* The manifest stays, and so does what is derived from it.                *)
LEMMA SamePlugin ==
  ASSUME plugin' = plugin
  PROVE  /\ Keys' = Keys /\ Rules' = Rules /\ Parallelism' = Parallelism
         /\ (Mirrored' <=> Mirrored) /\ (FactsOnly' <=> FactsOnly) /\ (NoFacts' <=> NoFacts)
         /\ (Serial' <=> Serial)
BY DEF Keys, Rules, Parallelism, Mirrored, FactsOnly, NoFacts, Serial

(* Rows stay while no row is added and the attempt is the same.            *)
LEMMA SameRows ==
  ASSUME facts' = facts, NEW j \in Jobs, attempt'[j] = attempt[j], NEW r
  PROVE  HasRow(j, r)' <=> HasRow(j, r)
BY DEF HasRow

(* Rows of the attempt that succeeded, said with HasRow.                   *)
LEMMA RecordedRows ==
  SucceededIsRecorded <=> \A j \in Jobs : (status[j] = "succeeded" /\ Keys[j] # {}) =>
                                            \A r \in 1 .. Len(Rules[j]) : HasRow(j, r)
BY DEF SucceededIsRecorded, HasRow

(* A step that leaves the memory alone keeps what it says, if only workers *)
(* that have recorded everything succeed.                                  *)
LEMMA MemoryKept ==
  ASSUME MemorySound, UNCHANGED <<view, facts, wrote, plugin>>,
         \A j \in Jobs : (status'[j] = "succeeded" /\ Keys[j] # {}) =>
            /\ attempt'[j] = attempt[j]
            /\ status[j] = "succeeded" \/ \A r \in 1 .. Len(Rules[j]) : HasRow(j, r)
  PROVE  MemorySound'
<1>1. ViewIsLatestFact' /\ KeysSurvive'
  BY SamePlugin DEF MemorySound, ViewIsLatestFact, KeysSurvive
<1>2. \A j \in Jobs : (status'[j] = "succeeded" /\ Keys'[j] # {}) =>
                          \A r \in 1 .. Len(Rules'[j]) : HasRow(j, r)'
  BY SamePlugin, SameRows, RecordedRows DEF MemorySound
<1>3. SucceededIsRecorded'
  BY <1>2 DEF SucceededIsRecorded, HasRow
<1> QED
  BY <1>1, <1>3 DEF MemorySound

(* What a command writes is a state.                                       *)
LEMMA OwnType ==
  ASSUME TypeOK, NEW j \in Jobs
  PROVE  Own(j) \in State
<1>1. Keys[j] \in SUBSET AllKeys
  BY DEF TypeOK, Keys, AllKeys
<1>2. attempt[j] \in Nat
  BY DEF TypeOK
<1>3. Own(j) \in [Keys[j] -> Jobs \X Nat]
  BY <1>2 DEF Own
<1> QED
  BY <1>1, <1>3 DEF State

-----------------------------------------------------------------------------
(* Nothing is remembered and no job runs.                                  *)
LEMMA InitInv == Init => IndInv
<1> SUFFICES ASSUME Init PROVE IndInv
  OBVIOUS
<1>1. TypeOK
  BY EmptyType DEF Init, TypeOK
<1>2. WorkerState /\ RowsWritten /\ OneAtATime /\ GivenIsLatest
  BY DEF Init, WorkerState, RowsWritten, OneAtATime, GivenIsLatest, Active
<1>3. MemorySound
  BY DEF Init, MemorySound, ViewIsLatestFact, SucceededIsRecorded, KeysSurvive
<1> QED
  BY <1>1, <1>2, <1>3 DEF IndInv

(* The dispatcher claims a job: with parallelism one, no other is active.  *)
LEMMA ClaimStep ==
  ASSUME IndInv, plugin' = plugin, NEW j \in Jobs, Claim(j)
  PROVE  IndInv'
<1>t. TypeOK
  BY DEF IndInv
<1>1. /\ UNCHANGED <<view, facts, wrote, attempt, given, updates, recorded, crashes, plugin>>
      /\ status[j] = "queued" /\ Cardinality(Active) < Parallelism
      /\ status' \in [Jobs -> {"queued", "running", "succeeded", "failed", "dead"}]
      /\ pc' \in [Jobs -> {"idle", "get", "exec", "record", "merge", "complete"}]
      /\ \A k \in Jobs : /\ status'[k] = IF k = j THEN "running" ELSE status[k]
                         /\ pc'[k] = IF k = j THEN "get" ELSE pc[k]
  BY <1>t DEF Claim, memory, TypeOK
<1>2. TypeOK'
  BY <1>1, <1>t DEF TypeOK
<1>3. WorkerState'
  BY <1>1, <1>2 DEF IndInv, WorkerState, TypeOK, Rules, Keys
<1>4. RowsWritten'
  BY <1>1, SameRows DEF IndInv, RowsWritten
<1>5. OneAtATime'
  <2>1. Serial => Active = {}
    <3>1. IsFiniteSet(Active)
      BY PluginMemoryAssumption, FS_Subset DEF Active
    <3> QED
      BY <1>1, <3>1, FS_CardinalityType, FS_EmptySet DEF Serial
  <2> QED
    BY <1>1, <2>1 DEF OneAtATime, Serial, Active, Parallelism
<1>6. GivenIsLatest'
  BY <1>1, SamePlugin DEF IndInv, GivenIsLatest, Own
<1>7. MemorySound'
  BY <1>1, MemoryKept DEF IndInv
<1> QED
  BY <1>2, <1>3, <1>4, <1>5, <1>6, <1>7 DEF IndInv

(* A worker reads the state for its request.                               *)
LEMMA GetStep ==
  ASSUME IndInv, plugin' = plugin, NEW j \in Jobs, Get(j)
  PROVE  IndInv'
<1>t. TypeOK
  BY DEF IndInv
<1>1. /\ UNCHANGED <<view, facts, wrote, status, attempt, updates, recorded, crashes, plugin>>
      /\ pc[j] = "get"
      /\ given' \in [Jobs -> State]
      /\ pc' \in [Jobs -> {"idle", "get", "exec", "record", "merge", "complete"}]
      /\ \A k \in Jobs : /\ given'[k] = IF k = j THEN view ELSE given[k]
                         /\ pc'[k] = IF k = j THEN "exec" ELSE pc[k]
  BY <1>t DEF Get, memory, jobVars, TypeOK
<1>2. TypeOK'
  BY <1>1, <1>t DEF TypeOK
<1>3. WorkerState'
  BY <1>1, SamePlugin DEF IndInv, WorkerState
<1>4. RowsWritten'
  BY <1>1, SameRows DEF IndInv, RowsWritten
<1>5. OneAtATime'
  BY <1>1, SamePlugin DEF IndInv, OneAtATime, Active
<1>6. GivenIsLatest'
  BY <1>1, SamePlugin DEF IndInv, GivenIsLatest, Own, MemorySound, KeysSurvive, Serial
<1>7. MemorySound'
  BY <1>1, MemoryKept DEF IndInv
<1> QED
  BY <1>2, <1>3, <1>4, <1>5, <1>6, <1>7 DEF IndInv

(* The response is there, with what is to be recorded or merged.           *)
LEMMA RespondStep ==
  ASSUME IndInv, plugin' = plugin, NEW j \in Jobs, Respond(j)
  PROVE  IndInv'
<1>t. TypeOK
  BY DEF IndInv
<1>0. Snapshot(j) \in State /\ Snapshot(j) = (IF Rules[j] = <<>> THEN Own(j) ELSE Merge(given[j], Own(j)))
  BY <1>t, OwnType, MergeType DEF Snapshot, Own, TypeOK
<1> DEFINE where == IF Keys[j] = {} THEN "complete" ELSE IF Rules[j] = <<>> THEN "merge" ELSE "record"
<1>1. /\ UNCHANGED <<view, facts, wrote, status, attempt, given, crashes, plugin>>
      /\ pc[j] = "exec"
      /\ updates' \in [Jobs -> State] /\ recorded' \in [Jobs -> Nat]
      /\ pc' \in [Jobs -> {"idle", "get", "exec", "record", "merge", "complete"}]
      /\ \A k \in Jobs : /\ updates'[k] = IF k = j THEN Snapshot(j) ELSE updates[k]
                         /\ recorded'[k] = IF k = j THEN 0 ELSE recorded[k]
                         /\ pc'[k] = IF k = j THEN where ELSE pc[k]
  BY <1>t, <1>0 DEF Respond, memory, jobVars, TypeOK
<1>2. TypeOK'
  BY <1>1, <1>t DEF TypeOK
<1>3. WorkerState'
  <2>1. Rules[j] # <<>> => 0 < Len(Rules[j])
    BY <1>t, RulesType
  <2>2. pc'[j] # "idle" /\ (pc'[j] = "merge" => Rules[j] = <<>>) /\ (pc'[j] = "record" => Rules[j] # <<>>)
    BY <1>1
  <2>3. pc'[j] = "complete" => Keys[j] = {}
    BY <1>1
  <2> QED
    BY <1>1, <2>1, <2>2, <2>3, SamePlugin DEF IndInv, WorkerState
<1>4. RowsWritten'
  BY <1>1, SameRows DEF IndInv, RowsWritten
<1>5. OneAtATime'
  BY <1>1, SamePlugin DEF IndInv, OneAtATime, Active
<1>6. GivenIsLatest'
  <2>1. pc'[j] = "record" => updates'[j] = Merge(given[j], Own(j))
    BY <1>0, <1>1
  <2> QED
    BY <1>1, <2>1, SamePlugin DEF IndInv, GivenIsLatest, Own
<1>7. MemorySound'
  BY <1>1, MemoryKept DEF IndInv
<1> QED
  BY <1>2, <1>3, <1>4, <1>5, <1>6, <1>7 DEF IndInv

(* A worker is done, with or without success; only the worker that has     *)
(* recorded everything succeeds.                                           *)
LEMMA FinishSteps ==
  ASSUME IndInv, plugin' = plugin, NEW j \in Jobs, RespondError(j) \/ Broken(j) \/ Complete(j)
  PROVE  IndInv'
<1>t. TypeOK
  BY DEF IndInv
<1>1. /\ UNCHANGED <<view, facts, wrote, recorded, crashes, plugin>>
      /\ pc[j] # "idle"
      /\ status' \in [Jobs -> {"queued", "running", "succeeded", "failed", "dead"}]
      /\ attempt' \in [Jobs -> Nat]
      /\ given' \in [Jobs -> State] /\ updates' \in [Jobs -> State]
      /\ pc' \in [Jobs -> {"idle", "get", "exec", "record", "merge", "complete"}]
      /\ pc'[j] = "idle" /\ status'[j] \in {"queued", "succeeded", "failed"}
      /\ \A k \in Jobs \ {j} : /\ status'[k] = status[k] /\ pc'[k] = pc[k] /\ attempt'[k] = attempt[k]
                               /\ given'[k] = given[k] /\ updates'[k] = updates[k]
      /\ status'[j] = "succeeded" => pc[j] = "complete" /\ attempt'[j] = attempt[j]
  <2>1. /\ \E t \in {"queued", "succeeded", "failed"} : /\ Finish(j, t)
                                                        /\ t = "succeeded" => Complete(j)
        /\ UNCHANGED <<view, facts, wrote, recorded, crashes, plugin>> /\ pc[j] # "idle"
    BY DEF RespondError, Broken, Complete, memory
  <2>2. attempt' \in [Jobs -> Nat] /\ \A k \in Jobs \ {j} : attempt'[k] = attempt[k]
    BY <1>t DEF RespondError, Broken, Complete, TypeOK
  <2>3. Complete(j) => pc[j] = "complete" /\ attempt' = attempt
    BY DEF Complete
  <2> QED
    <3>1. PICK t \in {"queued", "succeeded", "failed"} : Finish(j, t) /\ (t = "succeeded" => Complete(j))
      BY <2>1
    <3>2. status' = [status EXCEPT ![j] = t] /\ pc' = [pc EXCEPT ![j] = "idle"]
      BY <3>1 DEF Finish
    <3>3. given' \in [Jobs -> State] /\ \A k \in Jobs \ {j} : given'[k] = given[k]
      BY <1>t, <3>1, EmptyType DEF Finish, TypeOK
    <3>4. updates' \in [Jobs -> State] /\ \A k \in Jobs \ {j} : updates'[k] = updates[k]
      BY <1>t, <3>1, EmptyType DEF Finish, TypeOK
    <3> QED
      BY <1>t, <2>1, <2>2, <2>3, <3>1, <3>2, <3>3, <3>4 DEF TypeOK
<1>2. TypeOK'
  BY <1>1, <1>t DEF TypeOK
<1>3. WorkerState'
  BY <1>1, SamePlugin DEF IndInv, WorkerState
<1>4. RowsWritten'
  BY <1>1, SameRows DEF IndInv, RowsWritten
<1>5. OneAtATime'
  BY <1>1, SamePlugin DEF IndInv, OneAtATime, Active
<1>6. GivenIsLatest'
  BY <1>1, SamePlugin DEF IndInv, GivenIsLatest, Own
<1>7. MemorySound'
  <2>1. (status'[j] = "succeeded" /\ Keys[j] # {}) => \A r \in 1 .. Len(Rules[j]) : HasRow(j, r)
    <3>1. Len(Rules[j]) \in Nat /\ recorded[j] \in Nat
      BY <1>t, RulesType DEF TypeOK
    <3>2. pc[j] = "complete" => \A r \in 1 .. recorded[j] : HasRow(j, r)
      BY DEF IndInv, RowsWritten
    <3> QED
      BY <1>1, <3>1, <3>2 DEF IndInv, WorkerState
  <2> QED
    BY <1>1, <2>1, MemoryKept DEF IndInv
<1> QED
  BY <1>2, <1>3, <1>4, <1>5, <1>6, <1>7 DEF IndInv

(* A row and the view in one transaction.                                  *)
LEMMA RecordFactStep ==
  ASSUME IndInv, plugin' = plugin, NEW j \in Jobs, RecordFact(j)
  PROVE  IndInv'
<1>t. TypeOK
  BY DEF IndInv
<1> DEFINE row == [job |-> j, attempt |-> attempt[j], rule |-> recorded[j] + 1, json |-> updates[j]]
           where == IF recorded[j] + 1 < Len(Rules[j]) THEN "record" ELSE "complete"
<1>r. /\ row \in FactRow /\ recorded[j] \in Nat /\ Len(Rules[j]) \in Nat /\ Own(j) \in State
      /\ recorded[j] < Len(Rules[j]) /\ attempt[j] \in Nat /\ updates[j] \in State
  <2>1. recorded[j] \in Nat /\ attempt[j] \in Nat /\ updates[j] \in State
    BY <1>t DEF TypeOK
  <2>2. row \in FactRow
    BY <2>1 DEF FactRow
  <2>3. recorded[j] < Len(Rules[j])
    BY DEF IndInv, WorkerState, RecordFact
  <2> QED
    BY <1>t, <2>1, <2>2, <2>3, RulesType, OwnType
<1>1. /\ UNCHANGED <<status, attempt, given, updates, crashes, plugin>>
      /\ pc[j] = "record"
      /\ facts' = Append(facts, row)
      /\ view' = Reduced(Rules[j][recorded[j] + 1], updates[j])
      /\ wrote' = Merge(wrote, Own(j))
      /\ recorded' \in [Jobs -> Nat]
      /\ pc' \in [Jobs -> {"idle", "get", "exec", "record", "merge", "complete"}]
      /\ \A k \in Jobs : /\ recorded'[k] = IF k = j THEN recorded[j] + 1 ELSE recorded[k]
                         /\ pc'[k] = IF k = j THEN where ELSE pc[k]
  BY <1>t DEF RecordFact, jobVars, TypeOK, Own
<1>f. /\ facts' \in Seq(FactRow) /\ Len(facts') = Len(facts) + 1 /\ Len(facts) \in Nat
      /\ facts'[Len(facts) + 1] = row
      /\ \A i \in 1 .. Len(facts) : facts'[i] = facts[i]
  BY <1>1, <1>r, <1>t DEF TypeOK
<1>m. \A k \in Jobs, r \in Nat : HasRow(k, r) => HasRow(k, r)'
  BY <1>1, <1>f DEF HasRow
<1>n. \A r : r = recorded[j] + 1 => HasRow(j, r)'
  <2>1. row.job = j /\ row.attempt = attempt'[j] /\ row.rule = recorded[j] + 1
    BY <1>1
  <2> QED
    BY <1>f, <2>1 DEF HasRow
<1>v. Mirrored => view' = updates[j]
  BY <1>1, <1>r DEF Mirrored, Reduced
<1>2. TypeOK'
  <2>1. view' \in State /\ wrote' \in State
    BY <1>1, <1>r, <1>t, MergeType DEF TypeOK, Reduced
  <2> QED
    BY <1>1, <1>f, <1>t, <2>1 DEF TypeOK
<1>3. WorkerState'
  <2>1. pc'[j] = "record" => recorded[j] + 1 < Len(Rules[j])
    BY <1>1
  <2>2. pc'[j] \in {"record", "complete"} /\ (pc'[j] = "complete" => recorded[j] + 1 >= Len(Rules[j]))
    BY <1>1, <1>r
  <2> QED
    BY <1>1, <2>1, <2>2, SamePlugin DEF IndInv, WorkerState
<1>4. RowsWritten'
  <2>1. \A r \in 1 .. recorded'[j] : HasRow(j, r)'
    <3>1. \A r \in 1 .. recorded[j] : HasRow(j, r)'
      BY <1>1, <1>r, <1>m DEF IndInv, RowsWritten
    <3>2. \A r \in 1 .. recorded'[j] : r \in 1 .. recorded[j] \/ r = recorded[j] + 1
      BY <1>1, <1>r
    <3> QED
      BY <1>n, <3>1, <3>2
  <2>2. \A k \in Jobs \ {j} : pc'[k] \in {"record", "complete"} => \A r \in 1 .. recorded'[k] : HasRow(k, r)'
    BY <1>1, <1>m, <1>t DEF IndInv, RowsWritten, TypeOK
  <2> QED
    BY <2>1, <2>2 DEF RowsWritten
<1>5. OneAtATime'
  BY <1>1, SamePlugin DEF IndInv, OneAtATime, Active
<1>o. (Mirrored /\ Serial) => \A k \in Jobs \ {j} : pc[k] = "idle"
  BY <1>1 DEF IndInv, OneAtATime, Active, WorkerState
<1>6. GivenIsLatest'
  <2>1. (Mirrored /\ Serial) => updates[j] = Merge(wrote', Own(j))
    BY <1>1, MergeTwice DEF IndInv, GivenIsLatest
  <2>2. Own(j)' = Own(j) /\ (Mirrored' <=> Mirrored) /\ (Serial' <=> Serial)
    BY <1>1, SamePlugin DEF Own
  <2>3. (Mirrored /\ Serial) => \A k \in Jobs \ {j} : pc'[k] = "idle"
    BY <1>1, <1>o
  <2>4. pc'[j] # "exec"
    BY <1>1
  <2> QED
    BY <1>1, <2>1, <2>2, <2>3, <2>4 DEF GivenIsLatest
<1>7. ViewIsLatestFact'
  BY <1>1, <1>f, <1>v, SamePlugin DEF ViewIsLatestFact, Last
<1>8. SucceededIsRecorded'
  <2>1. \A k \in Jobs : (status[k] = "succeeded" /\ Keys[k] # {}) => \A r \in 1 .. Len(Rules[k]) : HasRow(k, r)
    BY RecordedRows DEF IndInv, MemorySound
  <2>2. \A k \in Jobs : Len(Rules[k]) \in Nat
    BY <1>t, RulesType
  <2>3. \A k \in Jobs : (status[k] = "succeeded" /\ Keys[k] # {}) => \A r \in 1 .. Len(Rules[k]) : HasRow(k, r)'
    BY <1>m, <2>1, <2>2
  <2> QED
    <3>1. \A k \in Jobs : (status'[k] = "succeeded" /\ Keys'[k] # {}) =>
                              \A r \in 1 .. Len(Rules'[k]) : HasRow(k, r)'
      BY <1>1, <2>3, SamePlugin
    <3> QED
      BY <3>1 DEF SucceededIsRecorded, HasRow
<1>9. KeysSurvive'
  <2>1. ~NoFacts
    <3>1. Rules[j] = <<>> => Len(Rules[j]) = 0
      BY EmptySeq
    <3> QED
      BY <1>r, <3>1 DEF NoFacts
  <2>2. (Mirrored /\ Serial) => updates[j] = Merge(wrote, Own(j))
    BY <1>1 DEF IndInv, GivenIsLatest
  <2> QED
    BY <1>1, <1>v, <2>1, <2>2, SamePlugin DEF KeysSurvive, Serial
<1> QED
  BY <1>2, <1>3, <1>4, <1>5, <1>6, <1>7, <1>8, <1>9 DEF IndInv, MemorySound

(* Read, merge and write in one transaction.                               *)
LEMMA ShallowMergeStep ==
  ASSUME IndInv, plugin' = plugin, NEW j \in Jobs, ShallowMerge(j)
  PROVE  IndInv'
<1>t. TypeOK
  BY DEF IndInv
<1>1. /\ UNCHANGED <<facts, status, attempt, given, updates, recorded, crashes, plugin>>
      /\ pc[j] = "merge"
      /\ view' = Merge(view, updates[j]) /\ wrote' = Merge(wrote, updates[j])
      /\ pc' \in [Jobs -> {"idle", "get", "exec", "record", "merge", "complete"}]
      /\ \A k \in Jobs : pc'[k] = IF k = j THEN "complete" ELSE pc[k]
  BY <1>t DEF ShallowMerge, jobVars, TypeOK
<1>r. Rules[j] = <<>> /\ Len(Rules[j]) = 0 /\ recorded[j] = 0
  BY <1>1 DEF IndInv, WorkerState
<1>2. TypeOK'
  <2>1. view' \in State /\ wrote' \in State
    BY <1>1, <1>t, MergeType DEF TypeOK
  <2> QED
    BY <1>1, <1>t, <2>1 DEF TypeOK
<1>3. WorkerState'
  BY <1>1, <1>r, SamePlugin DEF IndInv, WorkerState
<1>4. RowsWritten'
  <2>1. \A k \in Jobs, r \in Nat : HasRow(k, r)' <=> HasRow(k, r)
    BY <1>1, SameRows
  <2> QED
    BY <1>1, <1>r, <2>1 DEF IndInv, RowsWritten
<1>5. OneAtATime'
  BY <1>1, SamePlugin DEF IndInv, OneAtATime, Active
<1>o. (Mirrored /\ Serial) => \A k \in Jobs \ {j} : pc[k] = "idle"
  BY <1>1 DEF IndInv, OneAtATime, Active, WorkerState
<1>6. GivenIsLatest'
  BY <1>1, <1>o DEF GivenIsLatest, Mirrored, Serial, Parallelism, Rules
<1>7. MemorySound'
  <2>1. ~FactsOnly
    BY <1>r DEF FactsOnly
  <2>2. ViewIsLatestFact' /\ KeysSurvive'
    BY <1>1, <2>1, SamePlugin DEF IndInv, MemorySound, ViewIsLatestFact, KeysSurvive
  <2>3. \A k \in Jobs : (status'[k] = "succeeded" /\ Keys'[k] # {}) =>
                            \A n \in 1 .. Len(Rules'[k]) : HasRow(k, n)'
    BY <1>1, SamePlugin, SameRows, RecordedRows DEF IndInv, MemorySound
  <2> QED
    BY <2>2, <2>3 DEF MemorySound, SucceededIsRecorded, HasRow
<1> QED
  BY <1>2, <1>3, <1>4, <1>5, <1>6, <1>7 DEF IndInv

(* Nothing of an execution survives a crash but what it has committed.     *)
LEMMA CrashStep ==
  ASSUME IndInv, plugin' = plugin, Crash
  PROVE  IndInv'
<1>t. TypeOK
  BY DEF IndInv
<1>1. /\ UNCHANGED <<view, facts, wrote, recorded, plugin>>
      /\ crashes' \in Nat
      /\ status' \in [Jobs -> {"queued", "running", "succeeded", "failed", "dead"}]
      /\ attempt' \in [Jobs -> Nat]
      /\ given' \in [Jobs -> State] /\ updates' \in [Jobs -> State]
      /\ pc' \in [Jobs -> {"idle", "get", "exec", "record", "merge", "complete"}]
      /\ \A k \in Jobs : /\ pc'[k] = "idle" /\ status'[k] # "running"
                         /\ status'[k] = "succeeded" => status[k] = "succeeded" /\ attempt'[k] = attempt[k]
  BY <1>t, EmptyType DEF Crash, memory, TypeOK, Active
<1>2. TypeOK'
  BY <1>1, <1>t DEF TypeOK
<1>3. WorkerState' /\ RowsWritten' /\ OneAtATime' /\ GivenIsLatest'
  BY <1>1 DEF WorkerState, RowsWritten, OneAtATime, GivenIsLatest, Active
<1>4. MemorySound'
  BY <1>1, MemoryKept DEF IndInv
<1> QED
  BY <1>2, <1>3, <1>4 DEF IndInv

(* Every step keeps the invariant.                                         *)
LEMMA NextInv == IndInv /\ [Next]_<<vars, plugin>> => IndInv'
<1> SUFFICES ASSUME IndInv, [Next]_<<vars, plugin>> PROVE IndInv'
  OBVIOUS
<1>1. ASSUME Next PROVE IndInv'
  <2>1. CASE Crash
    BY <1>1, <2>1, CrashStep DEF Next
  <2>2. CASE \E j \in Jobs : \/ Claim(j) \/ Get(j) \/ Respond(j) \/ RespondError(j)
                             \/ RecordFact(j) \/ ShallowMerge(j) \/ Broken(j) \/ Complete(j)
    BY <1>1, <2>2, ClaimStep, GetStep, RespondStep, FinishSteps, RecordFactStep, ShallowMergeStep DEF Next
  <2> QED
    BY <1>1, <2>1, <2>2 DEF Next
<1>2. CASE UNCHANGED <<vars, plugin>>
  <2>1. UNCHANGED <<view, facts, wrote, status, attempt, pc, given, updates, recorded, crashes, plugin>>
    BY <1>2 DEF vars
  <2>2. TypeOK' /\ WorkerState' /\ RowsWritten' /\ OneAtATime' /\ GivenIsLatest'
    <3>1. TypeOK' /\ WorkerState'
      BY <2>1, SamePlugin DEF IndInv, TypeOK, WorkerState
    <3>2. RowsWritten' /\ OneAtATime' /\ GivenIsLatest'
      BY <2>1, SamePlugin, SameRows DEF IndInv, RowsWritten, OneAtATime, GivenIsLatest, Active, Own
    <3> QED
      BY <3>1, <3>2
  <2>3. MemorySound'
    BY <2>1, MemoryKept DEF IndInv
  <2> QED
    BY <2>2, <2>3 DEF IndInv
<1> QED
  BY <1>1, <1>2

-----------------------------------------------------------------------------
(* What a plugin is given next is what its executions recorded: the view   *)
(* is the newest fact (RecordFact writes both in one transaction), a job   *)
(* that succeeded left the rows of all its rules, and no key is lost, in   *)
(* parallel by ShallowMerge and one at a time by full snapshots.           *)
THEOREM MemoryIsSound == Spec => []MemorySound
<1>1. IndInv => MemorySound
  BY DEF IndInv
<1> QED
  BY InitInv, NextInv, <1>1, PTL DEF Spec
=============================================================================
