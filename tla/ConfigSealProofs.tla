-------------------------- MODULE ConfigSealProofs --------------------------
(***************************************************************************)
(* Proofs about module ConfigSeal, for every deployment: any token names,  *)
(* scopes, plugins and included files, any number of commands that race    *)
(* each other and are killed half-way, and any edits by hand.              *)
(***************************************************************************)
EXTENDS ConfigSeal, FiniteSetTheorems, SequenceTheorems, TLAPS

(* Every hash was computed by some command.                                *)
Vouched(h, V) == \A f \in DOMAIN h : <<f, h[f]>> \in V

(* A list of files to write, and the manifests in it.                      *)
IsSeq(s) == s \in Seq({s[i] : i \in DOMAIN s})
Listed(s, V) == IsSeq(s) /\ \A i \in DOMAIN s : s[i][1] = "seal" => Vouched(s[i][2].hashes, V)

IsCommand(c) ==
    c = [pc |-> c.pc, op |-> c.op, file |-> c.file, buf |-> c.buf, todo |-> c.todo,
         hashes |-> c.hashes, prints |-> c.prints, alone |-> c.alone]

(* What a command holds that may get into a manifest.                      *)
CommandOK(c, V) ==
    /\ IsCommand(c) /\ Vouched(c.hashes, V)
    /\ c.pc \in {"open", "fill"} => c.todo # <<>> /\ Listed(c.todo, V)

(* A lock during which nothing else was written has the hashes of the      *)
(* files and the fingerprints of the plugins as they are now.              *)
Current(c) ==
    /\ c.hashes = [f \in DiscoverConfigFiles |-> disk[f]]
    /\ c.prints = [x \in Configured |-> plug[x]]
    /\ LoadsForLock /\ \A x \in Configured : plug[x] # "gone"
LockOK(c) ==
    c.op = "lock" =>
        /\ c.pc \in {"lock", "seal"}
        /\ "sub" \notin Included =>
               c.todo = <<"root">> /\ (c.pc = "seal" /\ c.alone => Current(c))

SealInv ==
    /\ deployment \in Deployments /\ crashes \in Nat
    /\ manifest = [d \in {"root", "sub"} |-> manifest[d]] /\ cli = [p \in Procs |-> cli[p]]
    /\ \A d \in {"root", "sub"} : Vouched(manifest[d].hashes, vouched)
    /\ Listed(archive, vouched)
    /\ \A p \in Procs : CommandOK(cli[p], vouched) /\ LockOK(cli[p])
-----------------------------------------------------------------------------
(* What was vouched for stays so.                                          *)
LEMMA VouchedMore ==
  ASSUME NEW V, NEW W, V \subseteq W
  PROVE  /\ \A h : Vouched(h, V) => Vouched(h, W)
         /\ \A s : Listed(s, V) => Listed(s, W)
         /\ \A c : CommandOK(c, V) => CommandOK(c, W)
<1>1. \A h : Vouched(h, V) => Vouched(h, W)
  BY DEF Vouched
<1>2. \A s : Listed(s, V) => Listed(s, W)
  BY <1>1 DEF Listed
<1> QED
  BY <1>1, <1>2 DEF CommandOK

(* The parameters stay.                                                    *)
LEMMA SameDeployment ==
  ASSUME deployment' = deployment
  PROVE  /\ Procs' = Procs /\ Included' = Included /\ Names' = Names /\ Plugins' = Plugins
         /\ RootFiles' = RootFiles
BY DEF Procs, Included, Names, Plugins, RootFiles

(* What a lock found depends on the files and the plugins only.            *)
LEMMA SameFiles ==
  ASSUME UNCHANGED <<deployment, disk, plug>>
  PROVE  /\ \A c : Current(c)' <=> Current(c)
         /\ \A c : LockOK(c)' <=> LockOK(c)
<1>1. /\ Included' = Included /\ RootFiles' = RootFiles /\ Plugins' = Plugins
  BY SameDeployment
<1>2. IsComplete' = IsComplete
  BY DEF IsComplete
<1>3. Configured' = Configured /\ Includes' = Includes
  BY <1>1, <1>2 DEF Configured, Includes
<1>4. \A f : Exists(f)' <=> Exists(f)
  BY DEF Exists
<1>5. DiscoverConfigFiles' = DiscoverConfigFiles
  BY <1>1, <1>4 DEF DiscoverConfigFiles
<1>6. LoadsForLock' <=> LoadsForLock
  BY <1>3, <1>4 DEF LoadsForLock
<1>7. \A c : Current(c)' <=> Current(c)
  BY <1>3, <1>5, <1>6 DEF Current
<1> QED
  BY <1>1, <1>7 DEF LockOK

(* The commands after a step.                                              *)
CommandsOK == cli' = [q \in Procs |-> cli'[q]]
              /\ \A q \in Procs : CommandOK(cli'[q], vouched') /\ LockOK(cli[q])'

(* One command moves, no file is written.                                  *)
LEMMA OneCommand ==
  ASSUME SealInv, UNCHANGED <<deployment, disk, plug>>, vouched \subseteq vouched',
         NEW p, NEW c, Become(p, c), CommandOK(c, vouched'), LockOK(c)
  PROVE  CommandsOK
<1>1. cli' = [cli EXCEPT ![p] = c] /\ cli = [q \in Procs |-> cli[q]]
  BY DEF Become, SealInv
<1>2. cli' = [q \in Procs |-> cli'[q]] /\ \A q \in Procs : cli'[q] = c \/ cli'[q] = cli[q]
  BY <1>1
<1>3. \A q \in Procs : CommandOK(cli[q], vouched') /\ LockOK(cli[q])
  BY VouchedMore DEF SealInv
<1>4. \A x : LockOK(x)' <=> LockOK(x)
  BY SameFiles
<1>5. ASSUME NEW q \in Procs PROVE CommandOK(cli'[q], vouched') /\ LockOK(cli[q])'
  <2>1. PICK x : x = cli'[q]
    OBVIOUS
  <2>2. CommandOK(x, vouched') /\ LockOK(x)
    BY <1>2, <1>3, <2>1
  <2>3. Included' = Included /\ (Current(x)' <=> Current(x))
    BY SameDeployment, SameFiles
  <2>4. LockOK(cli[q])'
    BY <2>1, <2>2, <2>3 DEF LockOK
  <2> QED
    BY <2>1, <2>2, <2>4
<1> QED
  BY <1>2, <1>5 DEF CommandsOK

(* A file is written or a plugin rebuilt: no lock is alone any more.       *)
LEMMA NoneAlone ==
  ASSUME SealInv, UNCHANGED <<deployment, vouched>>, NEW P, NEW c,
         P # {} => CommandOK(c, vouched) /\ c.op # "lock",
         cli' = [q \in Procs |-> IF q \in P THEN c ELSE [cli[q] EXCEPT !.alone = FALSE]]
  PROVE  CommandsOK
<1> DEFINE no == FALSE
           D(q) == [cli[q] EXCEPT !.alone = no]
<1>0. cli' = [q \in Procs |-> IF q \in P THEN c ELSE D(q)] /\ no = FALSE
  OBVIOUS
<1> HIDE DEF no
<1>1. cli' = [q \in Procs |-> cli'[q]] /\ \A q \in Procs : cli'[q] = IF q \in P THEN c ELSE D(q)
  BY <1>0
<1>2. ASSUME NEW q \in Procs
      PROVE  /\ D(q) = [pc |-> cli[q].pc, op |-> cli[q].op, file |-> cli[q].file, buf |-> cli[q].buf,
                        todo |-> cli[q].todo, hashes |-> cli[q].hashes,
                        prints |-> cli[q].prints, alone |-> no]
  BY DEF SealInv, CommandOK, IsCommand
<1> HIDE DEF D
<1>3. ASSUME NEW q \in Procs PROVE CommandOK(D(q), vouched)
  <2>1. IsCommand(D(q)) /\ D(q).pc = cli[q].pc /\ D(q).todo = cli[q].todo /\ D(q).hashes = cli[q].hashes
    BY <1>2 DEF IsCommand
  <2> QED
    BY <2>1 DEF SealInv, CommandOK
<1>4. ASSUME NEW q \in Procs, cli'[q].op = "lock"
      PROVE  /\ cli'[q].pc \in {"lock", "seal"} /\ ("sub" \notin Included => cli'[q].todo = <<"root">>)
             /\ cli'[q].alone = no
  <2>1. cli'[q] = D(q)
    BY <1>1, <1>4
  <2>2. /\ D(q).pc = cli[q].pc /\ D(q).todo = cli[q].todo /\ D(q).op = cli[q].op
        /\ D(q).alone = no
    BY <1>2
  <2>3. LockOK(cli[q]) /\ cli[q].op = "lock"
    BY <1>4, <2>1, <2>2 DEF SealInv
  <2> QED
    BY <2>1, <2>2, <2>3 DEF LockOK
<1>5. \A q \in Procs : LockOK(cli[q])'
  BY <1>0, <1>4, SameDeployment DEF LockOK
<1> QED
  BY <1>1, <1>3, <1>5 DEF CommandsOK

(* The invariant after a step, from what it did to the manifests, to the   *)
(* archive and to the commands.                                            *)
LEMMA Kept ==
  ASSUME SealInv, deployment' = deployment, crashes' \in Nat, vouched \subseteq vouched',
         CommandsOK,
         \/ manifest' = manifest
         \/ \E d, m : manifest' = [manifest EXCEPT ![d] = m] /\ Vouched(m.hashes, vouched'),
         archive' = archive \/ Listed(archive', vouched')
  PROVE  SealInv'
<1>1. Procs' = Procs /\ \A d \in {"root", "sub"} : Vouched(manifest[d].hashes, vouched')
  BY SameDeployment, VouchedMore DEF SealInv
<1>2. manifest' = [d \in {"root", "sub"} |-> manifest'[d]]
  BY DEF SealInv
<1>3. \A d \in {"root", "sub"} : Vouched(manifest'[d].hashes, vouched')
  BY <1>1 DEF SealInv
<1>4. Listed(archive', vouched')
  BY VouchedMore DEF SealInv
<1> QED
  BY <1>1, <1>2, <1>3, <1>4 DEF SealInv, CommandsOK

-----------------------------------------------------------------------------
(* The rest of a list.                                                     *)
LEMMA RestListed ==
  ASSUME NEW s, NEW V, Listed(s, V), s # <<>>
  PROVE  /\ Listed(Tail(s), V)
         /\ s[1][1] = "seal" => Vouched(s[1][2].hashes, V)
<1> DEFINE S == {s[i] : i \in DOMAIN s}   t == Tail(s)
<1>1. s \in Seq(S)
  BY DEF Listed, IsSeq
<1> HIDE DEF S
<1>2. Len(s) \in Nat \ {0} /\ DOMAIN s = 1 .. Len(s)
  BY <1>1, EmptySeq
<1>3. t \in Seq(S) /\ Len(t) = Len(s) - 1 /\ \A i \in 1 .. Len(t) : t[i] = s[i + 1]
  BY <1>1, <1>2
<1> HIDE DEF t
<1>4. IsSeq(t)
  <2>1. \A i \in 1 .. Len(t) : t[i] \in {t[j] : j \in DOMAIN t}
    BY <1>3
  <2>2. t = [i \in 1 .. Len(t) |-> t[i]] /\ Len(t) \in Nat
    BY <1>3
  <2> QED
    BY <2>1, <2>2 DEF IsSeq
<1>5. \A i \in DOMAIN t : i + 1 \in DOMAIN s /\ t[i] = s[i + 1]
  BY <1>2, <1>3
<1>6. Listed(t, V)
  BY <1>4, <1>5 DEF Listed
<1>7. 1 \in DOMAIN s
  BY <1>2
<1> QED
  BY <1>6, <1>7 DEF Listed, t

(* A list given element by element.                                        *)
LEMMA GivenList ==
  ASSUME NEW n \in Nat, NEW V, NEW s, s = [i \in 1 .. n |-> s[i]],
         \A i \in 1 .. n : s[i][1] = "seal" => Vouched(s[i][2].hashes, V)
  PROVE  Listed(s, V)
<1>1. DOMAIN s = 1 .. n
  OBVIOUS
<1>2. s \in [1 .. n -> {s[i] : i \in DOMAIN s}]
  BY <1>1
<1>3. IsSeq(s)
  BY <1>2 DEF IsSeq
<1> QED
  BY <1>1, <1>3 DEF Listed

(* Where a command goes after the first file of its list.                  *)
LEMMA OnwardsOK ==
  ASSUME NEW c, NEW V, CommandOK(c, V), c.pc \in {"open", "fill"}, c.op # "lock"
  PROVE  CommandOK(Onwards(c), V) /\ Onwards(c).op # "lock"
<1> DEFINE rest == Tail(c.todo)   r == Onwards(c)
<1>1. IsCommand(c) /\ Vouched(c.hashes, V) /\ Listed(rest, V)
  BY RestListed DEF CommandOK
<1> HIDE DEF rest
<1>2. CASE c.op = "undo" /\ rest = <<>>
  <2>1. r = Idle
    BY <1>2 DEF Onwards, rest
  <2> QED
    BY <2>1 DEF CommandOK, Idle, IsCommand, Vouched
<1>3. CASE ~(c.op = "undo" /\ rest = <<>>)
  <2>1. PICK pc : r = [c EXCEPT !.todo = rest, !.pc = pc] /\ (pc \in {"open", "fill"} => rest # <<>>)
    <3>1. CASE rest # <<>>
      <4>1. r = [c EXCEPT !.todo = rest, !.pc = "open"]
        BY <3>1 DEF Onwards, rest
      <4> QED
        BY <3>1, <4>1
    <3>2. CASE rest = <<>> /\ c.op = "set"
      <4>1. r = [c EXCEPT !.todo = rest, !.pc = "check"]
        BY <3>2 DEF Onwards, rest
      <4> QED
        BY <4>1
    <3>3. CASE rest = <<>> /\ c.op # "set"
      <4>1. r = [c EXCEPT !.todo = rest, !.pc = "hash"]
        BY <1>3, <3>3 DEF Onwards, rest
      <4> QED
        BY <4>1
    <3> QED
      BY <3>1, <3>2, <3>3
  <2>2. r = [pc |-> pc, op |-> c.op, file |-> c.file, buf |-> c.buf, todo |-> rest,
             hashes |-> c.hashes, prints |-> c.prints, alone |-> c.alone]
    BY <1>1, <2>1 DEF IsCommand
  <2> HIDE DEF r
  <2>3. IsCommand(r) /\ r.pc = pc /\ r.todo = rest /\ r.hashes = c.hashes /\ r.op = c.op
    BY <2>2 DEF IsCommand
  <2>4. CommandOK(r, V) /\ r.op # "lock"
    BY <1>1, <2>1, <2>3 DEF CommandOK
  <2> QED
    BY <2>4 DEF r
<1> QED
  BY <1>2, <1>3

(* The files an archive may hold are finitely many.                        *)
LEMMA ArchiveFinite ==
  ASSUME deployment \in Deployments
  PROVE  IsFiniteSet(DOMAIN ArchiveOrder)
<1> DEFINE n == Cardinality(Names)
           first == <<"config", "routes", "tokens", "webhooks", "seal", "plugin">>
           tail == SetToSeq(Names)
<1>1. IsFiniteSet(Names)
  BY ConfigSealAssumption DEF Names
<1>2. n \in Nat /\ \E f : f \in Bijection(1 .. n, Names)
  BY <1>1, FS_CardinalityType DEF ExistsBijection
<1>3. \E f \in [1 .. n -> Names] : IsInjective(f)
  BY <1>2 DEF Bijection, Injection, IsInjective
<1>4. tail \in [1 .. n -> Names]
  BY <1>3 DEF SetToSeq
<1> HIDE DEF tail
<1> DEFINE S == Names \union {"config", "routes", "tokens", "webhooks", "seal", "plugin"}
<1>5. tail \in Seq(S)
  BY <1>2, <1>4
<1>6. first \in Seq(S)
  OBVIOUS
<1> HIDE DEF S, first
<1>7. first \o tail \in Seq(S)
  BY <1>5, <1>6
<1>8. DOMAIN (first \o tail) = 1 .. Len(first \o tail) /\ Len(first \o tail) \in Nat
  BY <1>7
<1>9. ArchiveOrder = first \o tail
  BY DEF ArchiveOrder, first, tail
<1> QED
  BY <1>8, <1>9, FS_Interval

-----------------------------------------------------------------------------
(* A command that has begun and has hashed nothing.                        *)
LEMMA Begun ==
  ASSUME NEW pc, NEW op, NEW file, NEW buf, NEW todo, NEW V, NEW alone, NEW c,
         c = [pc |-> pc, op |-> op, file |-> file, buf |-> buf, todo |-> todo,
              hashes |-> <<>>, prints |-> <<>>, alone |-> alone],
         pc \in {"open", "fill"} => todo # <<>> /\ Listed(todo, V)
  PROVE  CommandOK(c, V) /\ (op # "lock" => LockOK(c))
<1>1. /\ c.pc = pc /\ c.op = op /\ c.todo = todo /\ c.hashes = <<>> /\ IsCommand(c)
  BY DEF IsCommand
<1>2. Vouched(<<>>, V)
  BY DEF Vouched
<1> QED
  BY <1>1, <1>2 DEF CommandOK, LockOK

(* The beginning of a command other than a backup.                         *)
LEMMA CommandBegins ==
  ASSUME SealInv, deployment' = deployment, NEW p \in Procs, Command(p)
  PROVE  SealInv'
<1> DEFINE Done(c) == Become(p, c) /\ CommandOK(c, vouched) /\ LockOK(c) /\ Quiet
<1>1. ASSUME NEW c, Done(c) PROVE SealInv'
  <2>1. UNCHANGED <<disk, plug, manifest, archive, vouched, crashes>>
    BY <1>1 DEF Quiet
  <2>2. CommandsOK
    BY <1>1, <2>1, OneCommand
  <2> QED
    BY <2>1, <2>2, Kept DEF SealInv
<1>2. ASSUME NEW n \in Names, NEW sc \in Scopes, TokenCreate(p, n, sc) PROVE SealInv'
  <2> DEFINE buf == disk["tokens"].data
  <2>a. PICK c : c = [Idle EXCEPT !.pc = "scope", !.op = "token", !.file = n, !.buf = buf, !.todo = <<{sc}>>]
    OBVIOUS
  <2>b. c = [pc |-> "scope", op |-> "token", file |-> n, buf |-> buf, todo |-> <<{sc}>>,
             hashes |-> <<>>, prints |-> <<>>, alone |-> FALSE]
    BY <2>a DEF Idle
  <2>1. Become(p, c) /\ Quiet
    BY <1>2, <2>a DEF TokenCreate
  <2>2. CommandOK(c, vouched) /\ LockOK(c)
    BY <2>b, Begun
  <2> QED
    BY <1>1, <2>1, <2>2
<1>3. ASSUME NEW n \in Names, NEW sc \in Scopes, NEW mode \in {"add", "remove", "set"},
             ScopeMutation(p, n, mode, sc)
      PROVE  SealInv'
  <2> DEFINE buf == disk["tokens"].data
             doc == disk[n].data
             todo == << CASE mode = "add" -> doc \union {sc}
                          [] mode = "remove" -> doc \ {sc}
                          [] mode = "set" -> {sc} >>
  <2>1. Become(p, [Idle EXCEPT !.pc = "scope", !.op = "token", !.file = n, !.buf = buf, !.todo = todo])
        /\ Quiet
    BY <1>3 DEF ScopeMutation
  <2> HIDE DEF todo
  <2>a. PICK c : c = [Idle EXCEPT !.pc = "scope", !.op = "token", !.file = n, !.buf = buf, !.todo = todo]
    OBVIOUS
  <2>b. c = [pc |-> "scope", op |-> "token", file |-> n, buf |-> buf, todo |-> todo,
             hashes |-> <<>>, prints |-> <<>>, alone |-> FALSE]
    BY <2>a DEF Idle
  <2>2. Become(p, c)
    BY <2>a, <2>1
  <2>3. CommandOK(c, vouched) /\ LockOK(c)
    BY <2>b, Begun
  <2> QED
    BY <1>1, <2>1, <2>2, <2>3
<1>4. ASSUME NEW f, NEW data, Edits(p, f, data) PROVE SealInv'
  <2>a. PICK c : c = [Idle EXCEPT !.pc = "write", !.op = "edit", !.file = f, !.buf = data]
    OBVIOUS
  <2>b. c = [pc |-> "write", op |-> "edit", file |-> f, buf |-> data, todo |-> <<>>,
             hashes |-> <<>>, prints |-> <<>>, alone |-> FALSE]
    BY <2>a DEF Idle
  <2>1. Become(p, c) /\ Quiet
    BY <1>4, <2>a DEF Edits
  <2>2. CommandOK(c, vouched) /\ LockOK(c)
    BY <2>b, Begun
  <2> QED
    BY <1>1, <2>1, <2>2
<1>5. ASSUME NEW force \in BOOLEAN, ConfigInit(p, force) PROVE SealInv'
  <2> DEFINE buf == IF force THEN {"force"} ELSE {}
             todo == [i \in 1 .. Len(InitOrder) |-> <<InitOrder[i], Content({})>>]
  <2>1. Len(InitOrder) = 4 /\ \A i \in 1 .. 4 : InitOrder[i] # "seal"
    BY DEF InitOrder
  <2>2. todo = [i \in 1 .. 4 |-> todo[i]] /\ \A i \in 1 .. 4 : todo[i][1] # "seal"
    BY <2>1
  <2>3. Listed(todo, vouched)
    <3> HIDE DEF todo
    <3> QED
      BY <2>2, GivenList
  <2>4. todo # <<>>
    BY <2>1
  <2>5. Become(p, [Idle EXCEPT !.pc = "open", !.op = "init", !.buf = buf, !.todo = todo]) /\ Quiet
    BY <1>5 DEF ConfigInit
  <2> HIDE DEF todo, buf
  <2>a. PICK c : c = [Idle EXCEPT !.pc = "open", !.op = "init", !.buf = buf, !.todo = todo]
    OBVIOUS
  <2>b. c = [pc |-> "open", op |-> "init", file |-> "none", buf |-> buf, todo |-> todo,
             hashes |-> <<>>, prints |-> <<>>, alone |-> FALSE]
    BY <2>a DEF Idle
  <2>6. Become(p, c)
    BY <2>a, <2>5
  <2>7. CommandOK(c, vouched) /\ LockOK(c)
    BY <2>3, <2>4, <2>b, Begun
  <2> QED
    BY <1>1, <2>5, <2>6, <2>7
<1>6. ASSUME NEW value, ConfigSet(p, value) PROVE SealInv'
  <2> DEFINE buf == disk["config"].data
             item == <<"config", Content(buf \union {value})>>
             todo == <<item>>
  <2>1. todo # <<>> /\ Listed(todo, vouched)
    <3>1. item[1] # "seal"
      OBVIOUS
    <3> HIDE DEF item
    <3>2. todo = [i \in 1 .. 1 |-> todo[i]] /\ \A i \in 1 .. 1 : todo[i] = item
      OBVIOUS
    <3>3. todo # <<>>
      OBVIOUS
    <3> HIDE DEF todo
    <3>4. \A i \in 1 .. 1 : todo[i][1] = "seal" => Vouched(todo[i][2].hashes, vouched)
      BY <3>1, <3>2
    <3>5. Listed(todo, vouched)
      BY <3>2, <3>4, GivenList
    <3> QED
      BY <3>3, <3>5
  <2>2. Become(p, [Idle EXCEPT !.pc = "open", !.op = "set", !.buf = buf, !.todo = todo]) /\ Quiet
    BY <1>6 DEF ConfigSet
  <2> HIDE DEF todo
  <2>a. PICK c : c = [Idle EXCEPT !.pc = "open", !.op = "set", !.buf = buf, !.todo = todo]
    OBVIOUS
  <2>b. c = [pc |-> "open", op |-> "set", file |-> "none", buf |-> buf, todo |-> todo,
             hashes |-> <<>>, prints |-> <<>>, alone |-> FALSE]
    BY <2>a DEF Idle
  <2>3. Become(p, c)
    BY <2>a, <2>2
  <2>4. CommandOK(c, vouched) /\ LockOK(c)
    BY <2>1, <2>b, Begun
  <2> QED
    BY <1>1, <2>2, <2>3, <2>4
<1>7. ASSUME Restore(p) PROVE SealInv'
  <2>a. PICK c : c = [Idle EXCEPT !.pc = "open", !.op = "restore", !.todo = archive]
    OBVIOUS
  <2>b. c = [pc |-> "open", op |-> "restore", file |-> "none", buf |-> {}, todo |-> archive,
             hashes |-> <<>>, prints |-> <<>>, alone |-> FALSE]
    BY <2>a DEF Idle
  <2>1. Become(p, c) /\ Quiet /\ archive # <<>>
    BY <1>7, <2>a DEF Restore
  <2>2. CommandOK(c, vouched) /\ LockOK(c)
    BY <2>1, <2>b, Begun DEF SealInv
  <2> QED
    BY <1>1, <2>1, <2>2
<1>8. ASSUME NEW byDir \in BOOLEAN, Lock(p, byDir) PROVE SealInv'
  <2> DEFINE todo == IF byDir THEN <<"root">> ELSE ScopeDirs
             yes == TRUE
  <2>1. "sub" \notin Included => todo = <<"root">>
    <3>1. "sub" \notin Included => "sub" \notin Includes
      BY DEF Includes
    <3>2. "sub" \notin Includes => "sub" \notin {DirOf(f) : f \in Includes \intersect ScopeFiles}
      BY DEF DirOf
    <3> QED
      BY <3>1, <3>2 DEF ScopeDirs
  <2>2. Become(p, [Idle EXCEPT !.pc = "lock", !.op = "lock", !.alone = yes, !.todo = todo]) /\ Quiet
    BY <1>8 DEF Lock
  <2> HIDE DEF todo, yes
  <2>a. PICK c : c = [Idle EXCEPT !.pc = "lock", !.op = "lock", !.alone = yes, !.todo = todo]
    OBVIOUS
  <2>b. c = [pc |-> "lock", op |-> "lock", file |-> "none", buf |-> {}, todo |-> todo,
             hashes |-> <<>>, prints |-> <<>>, alone |-> yes]
    BY <2>a DEF Idle
  <2>3. Become(p, c)
    BY <2>a, <2>2
  <2>4. CommandOK(c, vouched)
    BY <2>b, Begun
  <2>5. LockOK(c)
    BY <2>1, <2>b DEF LockOK
  <2> QED
    BY <1>1, <2>2, <2>3, <2>4, <2>5
<1>9. ASSUME Backup(p) PROVE SealInv'
  <2> DEFINE In(f) == IF f = "seal" THEN manifest["root"].present ELSE Exists(f)
             Entry(f) == <<f, IF f = "seal" THEN manifest["root"] ELSE disk[f]>>
             held == {i \in DOMAIN ArchiveOrder : In(ArchiveOrder[i])}
             Nth(k) == CHOOSE i \in held : Cardinality({j \in held : j <= i}) = k
             n == Cardinality(held)
  <2>1. archive' = [k \in 1 .. n |-> Entry(ArchiveOrder[Nth(k)])]
    BY <1>9 DEF Backup
  <2>2. n \in Nat
    <3>1. IsFiniteSet(DOMAIN ArchiveOrder) /\ held \in SUBSET DOMAIN ArchiveOrder
      BY ArchiveFinite DEF SealInv
    <3> QED
      BY <3>1, FS_Subset, FS_CardinalityType
  <2> HIDE DEF n, Nth
  <2>3. /\ archive' = [k \in 1 .. n |-> archive'[k]]
        /\ \A k \in 1 .. n : archive'[k] = Entry(ArchiveOrder[Nth(k)])
    BY <2>1
  <2>4. UNCHANGED <<disk, plug, manifest, cli, crashes, vouched>>
    BY <1>9 DEF Backup
  <2>5. \A f : Entry(f)[1] = "seal" => Vouched(Entry(f)[2].hashes, vouched)
    BY DEF SealInv
  <2> HIDE DEF Entry
  <2>6. \A k \in 1 .. n : archive'[k][1] = "seal" => Vouched(archive'[k][2].hashes, vouched)
    BY <2>3, <2>5
  <2>7. Listed(archive', vouched)
    BY <2>2, <2>3, <2>6, GivenList
  <2>8. CommandsOK
    BY <2>4, SameFiles, SameDeployment DEF CommandsOK, SealInv, LockOK
  <2> QED
    BY <2>4, <2>7, <2>8, Kept DEF SealInv
<1> QED
  BY <1>2, <1>3, <1>4, <1>5, <1>6, <1>7, <1>8, <1>9
     DEF Command, TokenRehash, TokenDelete, RouteMutation, WebhookAdd, PluginSet

(* The steps of a command that write one file.                             *)
LEMMA Writes ==
  ASSUME SealInv, UNCHANGED <<deployment, vouched, archive, crashes>>, NEW p \in Procs,
         NEW f, NEW content, NEW c, WriteFile(p, f, content, c), UNCHANGED manifest,
         CommandOK(c, vouched), c.op # "lock"
  PROVE  SealInv'
<1>0. cli' = [q \in Procs |-> IF q \in {p} THEN c ELSE [cli[q] EXCEPT !.alone = FALSE]]
  BY DEF WriteFile
<1>1. CommandsOK
  BY <1>0, NoneAlone
<1> QED
  BY <1>1, Kept DEF SealInv

(* A command that goes on to another step with what it holds.              *)
LEMMA StepOn ==
  ASSUME NEW c, NEW V, CommandOK(c, V), NEW pc, NEW d, d = [c EXCEPT !.pc = pc],
         pc \in {"open", "fill"} => c.pc \in {"open", "fill"}
  PROVE  CommandOK(d, V) /\ d.op = c.op
<1>1. d = [pc |-> pc, op |-> c.op, file |-> c.file, buf |-> c.buf, todo |-> c.todo,
           hashes |-> c.hashes, prints |-> c.prints, alone |-> c.alone]
  BY DEF CommandOK, IsCommand
<1>2. IsCommand(d) /\ d.pc = pc /\ d.todo = c.todo /\ d.hashes = c.hashes /\ d.op = c.op
  BY <1>1 DEF IsCommand
<1> QED
  BY <1>2 DEF CommandOK

(* A command other than a lock is not where a lock is.                     *)
LEMMA NoLock ==
  ASSUME SealInv, NEW p \in Procs, cli[p].pc \notin {"lock", "seal"}
  PROVE  cli[p].op # "lock"
BY DEF SealInv, LockOK

(* Idle holds nothing.                                                     *)
LEMMA IdleOK == \A V : CommandOK(Idle, V) /\ Idle.op # "lock" /\ LockOK(Idle)
BY DEF CommandOK, Idle, IsCommand, Vouched, LockOK

(* Scope file, tokens.yaml and the file of an edit.                        *)
LEMMA EditWrites ==
  ASSUME SealInv, deployment' = deployment, NEW p \in Procs,
         WriteScope(p) \/ WriteTokens(p) \/ WriteEdit(p)
  PROVE  SealInv'
<1>1. PICK pc, f, content, d : /\ d = [cli[p] EXCEPT !.pc = pc] /\ pc \notin {"open", "fill"}
                              /\ WriteFile(p, f, content, d)
  <2>1. CASE WriteScope(p)
    <3>1. PICK d : d = [cli[p] EXCEPT !.pc = "token"]
      OBVIOUS
    <3>2. PICK f, content : WriteFile(p, f, content, d)
      BY <2>1, <3>1 DEF WriteScope
    <3> QED
      BY <3>1, <3>2
  <2>2. CASE WriteTokens(p) \/ WriteEdit(p)
    <3>1. PICK d : d = [cli[p] EXCEPT !.pc = "hash"]
      OBVIOUS
    <3>2. PICK f, content : WriteFile(p, f, content, d)
      BY <2>2, <3>1 DEF WriteTokens, WriteEdit
    <3> QED
      BY <3>1, <3>2
  <2> QED
    BY <2>1, <2>2
<1>2. UNCHANGED <<vouched, archive, crashes, manifest>> /\ cli[p].pc \notin {"lock", "seal"}
  BY DEF WriteScope, WriteTokens, WriteEdit, Rest
<1>3. CommandOK(d, vouched) /\ d.op # "lock"
  BY <1>1, <1>2, StepOn, NoLock DEF SealInv
<1> QED
  BY <1>1, <1>2, <1>3, Writes

(* init, restore and set open and fill the files of their list.            *)
LEMMA OpenFill ==
  ASSUME SealInv, deployment' = deployment, NEW p \in Procs, Open(p) \/ Fill(p)
  PROVE  SealInv'
<1> DEFINE f == cli[p].todo[1][1]   content == cli[p].todo[1][2]
<1>0. /\ cli[p].pc \in {"open", "fill"} /\ UNCHANGED <<plug, vouched, archive, crashes>>
      /\ CommandOK(cli[p], vouched)
  BY DEF Open, Fill, Rest, SealInv
<1>1. cli[p].op # "lock"
  BY <1>0, NoLock
<1>2. PICK on : on = Onwards(cli[p])
  OBVIOUS
<1>3. CommandOK(on, vouched) /\ on.op # "lock"
  BY <1>0, <1>1, <1>2, OnwardsOK
<1>4. PICK fill : fill = [cli[p] EXCEPT !.pc = "fill"]
  OBVIOUS
<1>5. CommandOK(fill, vouched) /\ fill.op # "lock"
  BY <1>0, <1>1, <1>4, StepOn
<1>6. f = "seal" => Vouched(content.hashes, vouched)
  BY <1>0, RestListed DEF CommandOK
<1>7. \/ Become(p, on) /\ UNCHANGED <<disk, manifest>>
      \/ \E x, y, c : c \in {on, fill} /\ WriteFile(p, x, y, c) /\ UNCHANGED manifest
      \/ \E m, c : /\ c \in {on, fill} /\ Become(p, c) /\ UNCHANGED disk
                   /\ manifest' = [manifest EXCEPT !["root"] = m] /\ Vouched(m.hashes, vouched)
  <2>1. Vouched(NoSeal.hashes, vouched)
    BY DEF NoSeal, Vouched
  <2>2. CASE Open(p)
    BY <1>2, <1>4, <2>1, <2>2 DEF Open
  <2>3. CASE Fill(p)
    <3> HIDE DEF content, f
    <3>1. \/ WriteFile(p, f, content, on) /\ UNCHANGED manifest
          \/ /\ f = "seal" /\ Become(p, on) /\ UNCHANGED disk
             /\ manifest' = [manifest EXCEPT !["root"] = content]
      BY <1>2, <2>3 DEF Fill, f, content
    <3> QED
      BY <1>6, <3>1
  <2> QED
    BY <2>2, <2>3
<1>8. CASE Become(p, on) /\ UNCHANGED <<disk, manifest>>
  <2>1. LockOK(on)
    BY <1>3 DEF LockOK
  <2>2. CommandsOK
    BY <1>0, <1>3, <1>8, <2>1, OneCommand
  <2> QED
    BY <1>0, <1>8, <2>2, Kept DEF SealInv
<1>9. CASE \E x, y, c : c \in {on, fill} /\ WriteFile(p, x, y, c) /\ UNCHANGED manifest
  BY <1>0, <1>3, <1>5, <1>9, Writes
<1>10. CASE \E m, c : /\ c \in {on, fill} /\ Become(p, c) /\ UNCHANGED disk
                      /\ manifest' = [manifest EXCEPT !["root"] = m] /\ Vouched(m.hashes, vouched)
  <2>1. PICK m, c : /\ c \in {on, fill} /\ Become(p, c) /\ UNCHANGED disk
                    /\ manifest' = [manifest EXCEPT !["root"] = m] /\ Vouched(m.hashes, vouched)
    BY <1>10
  <2>2. CommandOK(c, vouched) /\ LockOK(c)
    BY <1>3, <1>5, <2>1 DEF LockOK
  <2>3. CommandsOK
    BY <1>0, <2>1, <2>2, OneCommand
  <2> QED
    BY <1>0, <2>1, <2>3, Kept DEF SealInv
<1> QED
  BY <1>7, <1>8, <1>9, <1>10

(* The trial load of `config set`, a lock that fails, and an abandoned     *)
(* command.                                                                *)
LEMMA Endings ==
  ASSUME SealInv, deployment' = deployment, NEW p \in Procs,
         persistWithValidation(p) \/ LockFails(p) \/ Abandon(p)
  PROVE  SealInv'
<1>0. UNCHANGED <<disk, plug, manifest, vouched, archive>> /\ crashes' \in Nat
  BY DEF persistWithValidation, LockFails, Abandon, Rest, SealInv
<1>1. \E c : Become(p, c) /\ CommandOK(c, vouched) /\ LockOK(c)
  <2>1. CASE Become(p, Idle)
    BY <2>1, IdleOK
  <2>2. CASE persistWithValidation(p) /\ ~Become(p, Idle)
    <3> DEFINE item == <<"config", Content(cli[p].buf)>>
               todo == <<item>>
    <3>1. PICK c : c = [cli[p] EXCEPT !.pc = "open", !.op = "undo", !.todo = todo]
      OBVIOUS
    <3>2. Become(p, c) /\ IsCommand(cli[p]) /\ Vouched(cli[p].hashes, vouched)
      BY <2>2, <3>1 DEF persistWithValidation, SealInv, CommandOK
    <3>3. todo # <<>> /\ Listed(todo, vouched)
      <4>1. item[1] # "seal"
        OBVIOUS
      <4> HIDE DEF item
      <4>2. todo = [i \in 1 .. 1 |-> todo[i]] /\ \A i \in 1 .. 1 : todo[i] = item
        OBVIOUS
      <4>3. todo # <<>>
        OBVIOUS
      <4> HIDE DEF todo
      <4>4. \A i \in 1 .. 1 : todo[i][1] = "seal" => Vouched(todo[i][2].hashes, vouched)
        BY <4>1, <4>2
      <4>5. Listed(todo, vouched)
        BY <4>2, <4>4, GivenList
      <4> QED
        BY <4>3, <4>5
    <3> HIDE DEF todo
    <3>4. c = [pc |-> "open", op |-> "undo", file |-> cli[p].file, buf |-> cli[p].buf, todo |-> todo,
               hashes |-> cli[p].hashes, prints |-> cli[p].prints, alone |-> cli[p].alone]
      BY <3>1, <3>2 DEF IsCommand
    <3>5. IsCommand(c) /\ c.hashes = cli[p].hashes /\ c.todo = todo /\ c.op = "undo"
      BY <3>4 DEF IsCommand
    <3>6. CommandOK(c, vouched) /\ LockOK(c)
      BY <3>2, <3>3, <3>5 DEF CommandOK, LockOK
    <3> QED
      BY <3>2, <3>6
  <2> QED
    BY <2>1, <2>2 DEF persistWithValidation, LockFails, Abandon
<1>2. CommandsOK
  BY <1>0, <1>1, OneCommand
<1> QED
  BY <1>0, <1>2, Kept

(* A command that hashes files vouches for them.                           *)
LEMMA Hashes ==
  ASSUME SealInv, deployment' = deployment, NEW p \in Procs, refreshConfigIntegrity(p) \/ LockDir(p)
  PROVE  SealInv'
<1>1. PICK fs, prints :
         /\ HashFiles(p, fs, prints)
         /\ \/ cli[p].op # "lock"
            \/ /\ Head(cli[p].todo) = "root" /\ LoadsForLock /\ fs = DiscoverConfigFiles
               /\ \A x \in Configured : plug[x] # "gone"
               /\ prints = [x \in Configured |-> plug[x]]
            \/ Head(cli[p].todo) = "sub"
  BY NoLock DEF refreshConfigIntegrity, LockDir
<1> DEFINE hashes == [f \in fs |-> disk[f]]
<1>2. PICK c : c = [cli[p] EXCEPT !.pc = "seal", !.hashes = hashes, !.prints = prints]
  OBVIOUS
<1>3. /\ Become(p, c) /\ vouched' = vouched \union {<<f, disk[f]>> : f \in fs}
      /\ UNCHANGED <<disk, plug, manifest, archive, crashes>>
  BY <1>1, <1>2 DEF HashFiles, Rest
<1>4. Vouched(hashes, vouched') /\ vouched \subseteq vouched'
  BY <1>3 DEF Vouched
<1> HIDE DEF hashes
<1>10. PICK x : x = cli[p] /\ IsCommand(x)
  BY DEF SealInv, CommandOK
<1>11. c = [pc |-> "seal", op |-> x.op, file |-> x.file, buf |-> x.buf,
            todo |-> x.todo, hashes |-> hashes, prints |-> prints, alone |-> x.alone]
  BY <1>2, <1>10 DEF IsCommand
<1>5. c = [pc |-> "seal", op |-> cli[p].op, file |-> cli[p].file, buf |-> cli[p].buf,
           todo |-> cli[p].todo, hashes |-> hashes, prints |-> prints, alone |-> cli[p].alone]
  BY <1>10, <1>11
<1>6. /\ IsCommand(c) /\ c.pc = "seal" /\ c.op = cli[p].op /\ c.todo = cli[p].todo
      /\ c.hashes = hashes /\ c.prints = prints
  BY <1>5 DEF IsCommand
<1>7. CommandOK(c, vouched')
  BY <1>4, <1>6 DEF CommandOK
<1>8. LockOK(c)
  <2> SUFFICES ASSUME c.op = "lock", "sub" \notin Included
               PROVE  c.todo = <<"root">> /\ Current(c)
    BY <1>6 DEF LockOK, SealInv
  <2>1. cli[p].todo = <<"root">>
    BY <1>6 DEF SealInv, LockOK
  <2>2. Head(cli[p].todo) = "root"
    BY <2>1
  <2> QED
    BY <1>1, <1>6, <2>1, <2>2 DEF Current, hashes
<1>9. CommandsOK
  BY <1>3, <1>4, <1>7, <1>8, OneCommand
<1> QED
  BY <1>3, <1>4, <1>9, Kept DEF SealInv

(* The manifest is replaced.                                               *)
LEMMA Seals ==
  ASSUME SealInv, deployment' = deployment, NEW p \in Procs, writeChecksumsAtomic(p)
  PROVE  SealInv'
<1> DEFINE c == cli[p]
           lock == c.op = "lock"
           dir == IF lock THEN Head(c.todo) ELSE "root"
           more == lock /\ Len(c.todo) > 1
           m == [present |-> TRUE, hashes |-> c.hashes, prints |-> c.prints]
<1>1. /\ manifest' = [manifest EXCEPT ![dir] = m]
      /\ UNCHANGED <<disk, plug, archive, crashes, vouched>>
  BY DEF writeChecksumsAtomic
<1>2. m.hashes = c.hashes /\ Vouched(c.hashes, vouched) /\ IsCommand(c)
  BY DEF SealInv, CommandOK
<1>3. \E d : Become(p, d) /\ CommandOK(d, vouched) /\ LockOK(d)
  <2>1. CASE ~more
    BY <2>1, IdleOK DEF writeChecksumsAtomic
  <2>2. CASE more
    <3>1. PICK d : d = [c EXCEPT !.pc = "lock", !.todo = Tail(@), !.hashes = <<>>, !.prints = <<>>]
      OBVIOUS
    <3>2. Become(p, d)
      BY <2>2, <3>1 DEF writeChecksumsAtomic
    <3>3. d = [pc |-> "lock", op |-> c.op, file |-> c.file, buf |-> c.buf, todo |-> Tail(c.todo),
               hashes |-> <<>>, prints |-> <<>>, alone |-> c.alone]
      BY <1>2, <3>1 DEF IsCommand
    <3>4. CommandOK(d, vouched)
      BY <3>3, Begun
    <3>5. "sub" \in Included
      <4>1. "sub" \notin Included => c.todo = <<"root">>
        BY <2>2 DEF SealInv, LockOK
      <4>2. Len(<<"root">>) = 1 /\ ~(1 > 1)
        OBVIOUS
      <4>3. Len(c.todo) > 1
        BY <2>2
      <4> HIDE DEF c
      <4> QED
        BY <4>1, <4>2, <4>3
    <3>6. d.pc = "lock"
      BY <3>3
    <3>7. LockOK(d)
      BY <3>5, <3>6 DEF LockOK
    <3> QED
      BY <3>2, <3>4, <3>7
  <2> QED
    BY <2>1, <2>2
<1>4. CommandsOK
  BY <1>1, <1>3, OneCommand
<1>5. \E d, x : manifest' = [manifest EXCEPT ![d] = x] /\ Vouched(x.hashes, vouched')
  <2> HIDE DEF dir, c, m
  <2> QED
    BY <1>1, <1>2
<1> QED
  BY <1>1, <1>4, <1>5, Kept DEF SealInv

(* Edits by hand, builds, and the gateway.                                 *)
LEMMA Others ==
  ASSUME SealInv, deployment' = deployment, Operator \/ Gateway
  PROVE  SealInv'
<1>1. CASE Operator
  <2>1. /\ cli' = [q \in Procs |-> [cli[q] EXCEPT !.alone = FALSE]]
        /\ UNCHANGED <<manifest, archive, crashes, vouched>>
    BY <1>1 DEF Operator, HandEdit, Rebuild
  <2> DEFINE P == {}
  <2>2. cli' = [q \in Procs |-> IF q \in P THEN Idle ELSE [cli[q] EXCEPT !.alone = FALSE]]
    BY <2>1
  <2>4. (P # {} => CommandOK(Idle, vouched) /\ Idle.op # "lock") /\ UNCHANGED <<deployment, vouched>>
    BY <2>1
  <2> HIDE DEF P
  <2>3. CommandsOK
    BY <2>2, <2>4, NoneAlone, Zenon
  <2> QED
    BY <2>1, <2>3, Kept DEF SealInv
<1>2. CASE Gateway
  <2>1. UNCHANGED <<disk, plug, manifest, archive, cli, crashes, vouched>>
    BY <1>2 DEF Gateway, Start, Preflight, ReloadLoads, verifyReloadIntegrity, Reloaded, Stop, GatewayOnly
  <2>2. CommandsOK
    BY <2>1, SameFiles, SameDeployment DEF CommandsOK, SealInv, LockOK
  <2> QED
    BY <2>1, <2>2, Kept DEF SealInv
<1> QED
  BY <1>1, <1>2

(* Every step keeps the invariant.                                         *)
LEMMA NextInv ==
  ASSUME SealInv, Next
  PROVE  SealInv'
<1>0. deployment' = deployment
  BY DEF Next
<1>1. ASSUME NEW p \in Procs, Command(p) \/ CommandStep(p) \/ Abandon(p) PROVE SealInv'
  BY <1>0, <1>1, CommandBegins, EditWrites, OpenFill, Endings, Hashes, Seals DEF CommandStep
<1> QED
  BY <1>0, <1>1, Others DEF Next

(* It holds initially: what `config init` has written it has hashed.       *)
LEMMA InitInv ==
  ASSUME Init
  PROVE  SealInv
<1>1. PICK fresh \in BOOLEAN :
         LET made == [f \in {InitOrder[i] : i \in 1..Len(InitOrder)} |-> Content({})]
         IN  /\ manifest = [d \in {"root", "sub"} |->
                    IF fresh /\ d = "root"
                    THEN [present |-> TRUE, hashes |-> made, prints |-> <<>>] ELSE NoSeal]
             /\ vouched = IF fresh THEN {<<f, made[f]>> : f \in DOMAIN made} ELSE {}
  BY DEF Init
<1> DEFINE made == [f \in {InitOrder[i] : i \in 1..Len(InitOrder)} |-> Content({})]
<1>2. fresh => Vouched(made, vouched)
  <2>1. fresh => vouched = {<<f, made[f]>> : f \in DOMAIN made}
    BY <1>1
  <2> HIDE DEF made
  <2> QED
    BY <2>1 DEF Vouched
<1>3. Vouched(NoSeal.hashes, vouched) /\ Vouched(<<>>, vouched)
  BY DEF NoSeal, Vouched
<1>4. /\ manifest = [d \in {"root", "sub"} |-> manifest[d]]
      /\ manifest["sub"] = NoSeal
      /\ manifest["root"] = IF fresh THEN [present |-> TRUE, hashes |-> made, prints |-> <<>>] ELSE NoSeal
  BY <1>1
<1> HIDE DEF made
<1>5. \A d \in {"root", "sub"} : Vouched(manifest[d].hashes, vouched)
  BY <1>2, <1>3, <1>4
<1>6. Listed(archive, vouched)
  <2>1. archive = <<>>
    BY DEF Init
  <2> QED
    BY <2>1 DEF Listed, IsSeq
<1>7. cli = [p \in Procs |-> Idle] /\ deployment \in Deployments /\ crashes = 0
  BY DEF Init
<1> QED
  BY <1>4, <1>5, <1>6, <1>7, IdleOK DEF SealInv

(* Every hash in a manifest, in an archive and in the hands of a command   *)
(* is one that some command computed from a file it found, and a lock      *)
(* during which nothing else was written has the files and the plugins as  *)
(* they are.                                                               *)
THEOREM Invariance == Spec => []SealInv
<1>1. SealInv /\ UNCHANGED <<vars, deployment>> => SealInv'
  <2> SUFFICES ASSUME SealInv, UNCHANGED <<vars, deployment>> PROVE SealInv'
    OBVIOUS
  <2>1. UNCHANGED <<disk, plug, manifest, archive, cli, crashes, vouched>>
    BY DEF vars
  <2>2. CommandsOK
    BY <2>1, SameFiles, SameDeployment DEF CommandsOK, SealInv, LockOK
  <2> QED
    BY <2>1, <2>2, Kept DEF SealInv
<1> QED
  BY <1>1, NextInv, InitInv, PTL DEF Spec

-----------------------------------------------------------------------------
(* AcceptsOnlyVouched: commands may race, be killed between a write and    *)
(* the manifest, or restore an archive with its old manifest; a strict     *)
(* start and a reload still accept a high-security file (VerifyIntegrity)  *)
(* only with a content some command has hashed.                            *)
THEOREM OnlyVouchedAccepted == Spec => AcceptsOnlyVouched
<1> DEFINE Good == Accepts => \A f \in DiscoverConfigFiles \intersect HighSecurity :
                                  <<f, disk[f]>> \in vouched
<1>1. SealInv /\ [Next]_<<vars, deployment>> => [Good]_vars
  <2> SUFFICES ASSUME SealInv, Next, Accepts,
                      NEW f \in DiscoverConfigFiles, f \in HighSecurity
               PROVE  <<f, disk[f]>> \in vouched
    BY DEF vars
  <2>1. VerifyIntegrity
    <3>1. gw' # gw /\ gw' \in {"up", "reloading"} /\ (gw = "preflight" \/ gw' = "reloading")
      BY DEF Accepts
    <3>2. Preflight \/ verifyReloadIntegrity
      <4>1. ASSUME NEW p \in Procs, Command(p) \/ CommandStep(p) \/ Abandon(p) PROVE gw' = gw
        BY <4>1 DEF Command, TokenCreate, ScopeMutation, TokenRehash, TokenDelete, RouteMutation,
           WebhookAdd, PluginSet, Edits, ConfigInit, ConfigSet, Backup, Restore, Lock, Quiet, CommandStep,
           WriteScope, WriteTokens, WriteEdit, Open, Fill, persistWithValidation, refreshConfigIntegrity,
           LockDir, HashFiles, LockFails, writeChecksumsAtomic, Abandon, Rest
      <4>2. Operator => gw' = gw
        BY DEF Operator, HandEdit, Rebuild
      <4>3. ~Start /\ ~ReloadLoads /\ ~Reloaded /\ ~Stop
        BY DEF Start, ReloadLoads, Reloaded, Stop, Accepts
      <4> QED
        BY <3>1, <4>1, <4>2, <4>3 DEF Next, Gateway
    <3> QED
      BY <3>1, <3>2 DEF Preflight, verifyReloadIntegrity
  <2>2. f # "sub" /\ DirOf(f) = "root"
    <3>1. "sub" \notin Names
      BY ConfigSealAssumption DEF SealInv, Names
    <3> QED
      BY <3>1 DEF HighSecurity, DirOf
  <2>3. f \in DOMAIN manifest["root"].hashes /\ manifest["root"].hashes[f] = disk[f]
    BY <2>1, <2>2 DEF VerifyIntegrity, IsSealed
  <2>4. Vouched(manifest["root"].hashes, vouched)
    BY DEF SealInv
  <2> QED
    BY <2>3, <2>4 DEF Vouched
<1> QED
  BY <1>1, Invariance, PTL DEF Spec, AcceptsOnlyVouched

(* A lock that has hashed ends by writing the manifest, or is killed.      *)
LEMMA LockEndsSealed ==
  ASSUME SealInv, Next, NEW p \in Procs, cli[p].pc = "seal", cli'[p].pc = "idle", crashes' = crashes
  PROVE  writeChecksumsAtomic(p)
<1>0. /\ cli = [q \in Procs |-> cli[q]] /\ \A q \in Procs : IsCommand(cli[q])
      /\ crashes \in Nat /\ Idle.pc = "idle"
  BY DEF SealInv, CommandOK, Idle
<1>1. ASSUME NEW q, q # p, NEW c, Become(q, c) PROVE FALSE
  BY <1>0, <1>1 DEF Become
<1>2. ASSUME NEW q, q # p, NEW f, NEW content, NEW c, WriteFile(q, f, content, c) PROVE FALSE
  BY <1>0, <1>2 DEF WriteFile, IsCommand
<1>3. cli' # cli
  OBVIOUS
<1>4. ASSUME NEW q \in Procs, Command(q) PROVE FALSE
  <2>1. q # p
    BY <1>0, <1>4 DEF Command, TokenCreate, ScopeMutation, TokenRehash, TokenDelete, RouteMutation,
       WebhookAdd, PluginSet, Edits, ConfigInit, ConfigSet, Backup, Restore, Lock, Begins
  <2>2. UNCHANGED cli \/ \E c : Become(q, c)
    BY <1>4 DEF Command, TokenCreate, ScopeMutation, TokenRehash, TokenDelete, RouteMutation,
       WebhookAdd, PluginSet, Edits, ConfigInit, ConfigSet, Backup, Restore, Lock
  <2> QED
    BY <1>1, <1>3, <2>1, <2>2
<1>5. ASSUME NEW q \in Procs, CommandStep(q) PROVE writeChecksumsAtomic(p)
  <2>1. CASE q = p
    BY <1>5, <2>1 DEF CommandStep, WriteScope, WriteTokens, WriteEdit, Open, Fill,
       persistWithValidation, refreshConfigIntegrity, LockDir, LockFails
  <2>2. CASE q # p
    <3>1. (\E c : Become(q, c)) \/ (\E f, content, c : WriteFile(q, f, content, c))
      BY <1>5 DEF CommandStep, WriteScope, WriteTokens, WriteEdit, Open, Fill, persistWithValidation,
         refreshConfigIntegrity, LockDir, HashFiles, LockFails, writeChecksumsAtomic
    <3> QED
      BY <1>1, <1>2, <2>2, <3>1
  <2> QED
    BY <2>1, <2>2
<1>6. ASSUME NEW q \in Procs, Abandon(q) PROVE FALSE
  BY <1>0, <1>6 DEF Abandon
<1>7. ~Operator
  BY <1>0 DEF Operator, HandEdit, Rebuild, IsCommand
<1>8. ~Gateway
  BY <1>3 DEF Gateway, Start, Preflight, ReloadLoads, verifyReloadIntegrity, Reloaded, Stop, GatewayOnly
<1> QED
  BY <1>4, <1>5, <1>6, <1>7, <1>8 DEF Next

(* What has just been locked may be started: the manifest says of every    *)
(* file and every plugin what it is.                                       *)
LEMMA LockedStartable ==
  ASSUME SealInv, deployment' = deployment, NEW p \in Procs, writeChecksumsAtomic(p),
         cli[p].op = "lock", cli[p].alone, "sub" \notin Included, IsValid
  PROVE  Startable'
<1> DEFINE c == cli[p]
           m == [present |-> TRUE, hashes |-> c.hashes, prints |-> c.prints]
<1>1. c.pc = "seal" /\ c.todo = <<"root">> /\ Current(c)
  BY DEF SealInv, LockOK, writeChecksumsAtomic
<1>2. UNCHANGED <<disk, plug>> /\ manifest' = [manifest EXCEPT !["root"] = m]
  BY <1>1 DEF writeChecksumsAtomic
<1>3. manifest'["root"] = m
  BY <1>2 DEF SealInv
<1>4. /\ m.present /\ m.hashes = [f \in DiscoverConfigFiles |-> disk[f]]
      /\ m.prints = [x \in Configured |-> plug[x]]
      /\ LoadsForLock /\ \A x \in Configured : plug[x] # "gone"
  BY <1>1 DEF Current
<1> HIDE DEF m, c
<1>5. /\ Included' = Included /\ Names' = Names /\ Plugins' = Plugins /\ RootFiles' = RootFiles
      /\ Enabled' = Enabled
  BY SameDeployment DEF Enabled
<1>6. IsComplete' = IsComplete /\ (IsValid' <=> IsValid)
  BY <1>2 DEF IsComplete, IsValid, NoBadValue
<1>7. Configured' = Configured /\ Includes' = Includes
  BY <1>5, <1>6 DEF Configured, Includes
<1>8. \A f : Exists(f)' <=> Exists(f)
  BY <1>2 DEF Exists
<1>9. DiscoverConfigFiles' = DiscoverConfigFiles /\ HighSecurity' = HighSecurity
  BY <1>5, <1>8 DEF DiscoverConfigFiles, HighSecurity
<1>10. LoadsForLock'
  BY <1>4, <1>7, <1>8 DEF LoadsForLock
<1>11. ASSUME NEW f \in DiscoverConfigFiles PROVE IsSealed(f)'
  <2>1. f # "sub"
    <3>1. "sub" \notin Names
      BY ConfigSealAssumption DEF SealInv, Names
    <3> QED
      BY <3>1 DEF DiscoverConfigFiles, RootFiles
  <2>2. DirOf(f) = "root"
    BY <2>1 DEF DirOf
  <2> QED
    BY <1>2, <1>3, <1>4, <2>2 DEF IsSealed
<1>12. Loads'
  <2>1. ASSUME NEW f \in Includes \intersect ScopeFiles PROVE f \in DiscoverConfigFiles
    <3>1. f \in {"tokens", "webhooks"}
      BY DEF ScopeFiles, Includes
    <3> QED
      BY <1>4, <3>1 DEF LoadsForLock, DiscoverConfigFiles, RootFiles
  <2>2. \A f \in Includes \intersect ScopeFiles : IsSealed(f)'
    BY <1>11, <2>1
  <2> QED
    BY <1>6, <1>7, <1>10, <2>2 DEF Loads, ScopeFiles
<1>13. VerifyIntegrity'
  BY <1>9, <1>11 DEF VerifyIntegrity
<1>14. verifyPluginFingerprintsForConfig'
  <2>1. DOMAIN m.prints = Configured
    BY <1>4
  <2> QED
    BY <1>2, <1>3, <1>4, <1>5, <1>7, <1>12, <2>1 DEF verifyPluginFingerprintsForConfig, VerifyPluginFingerprints
<1> QED
  BY <1>12, <1>13, <1>14 DEF Startable

(* LockRestores: from whatever racing and interrupted commands left behind *)
(* a `config lock` that runs to its end, while nothing else is written,    *)
(* makes a strict start and a reload possible again, over a config.yaml    *)
(* that the loader does not refuse, if no tokens.yaml is included from     *)
(* another directory.                                                      *)
THEOREM LockRecovers == Spec => LockRestores
<1> DEFINE Good == "sub" \notin Included => \A p \in Procs :
                       LockEnds(p) /\ cli[p].alone /\ IsValid => Startable'
<1>1. SealInv /\ [Next]_<<vars, deployment>> => [Good]_vars
  <2> SUFFICES ASSUME SealInv, Next, "sub" \notin Included, NEW p \in Procs,
                      LockEnds(p), cli[p].alone, IsValid
               PROVE  Startable'
    BY DEF vars
  <2>1. cli[p].op = "lock" /\ cli[p].pc = "seal" /\ cli'[p] = Idle /\ crashes' = crashes
    BY DEF LockEnds
  <2>2. writeChecksumsAtomic(p)
    BY <2>1, LockEndsSealed DEF Idle
  <2> QED
    BY <2>1, <2>2, LockedStartable DEF Next
<1> QED
  BY <1>1, Invariance, PTL DEF Spec, LockRestores
-----------------------------------------------------------------------------
(* ConsistentAtRest.  Types: what is listed to be written is a file or a   *)
(* manifest, and a command has the form its step calls for.                *)
Kinds == {"absent", "empty", "file"}
Steps == {"idle", "scope", "token", "write", "open", "fill", "check", "hash", "lock", "seal"}

Entries(s) ==
    \A i \in DOMAIN s :
        /\ s[i][1] = "seal" => DOMAIN s[i][2].hashes \subseteq Files
        /\ s[i][1] # "seal" => s[i][1] \in Files /\ s[i][2].kind \in {"empty", "file"}

ListHead(c) == c.todo[1][1]

Shape(c) ==
    /\ c.pc \in Steps /\ DOMAIN c.hashes \subseteq Files
    /\ c.pc = "idle" => c = Idle
    /\ c.pc \in {"scope", "token"} => c.op = "token" /\ c.file \in Names
    /\ c.pc = "write" => c.op = "edit" /\ c.file \in {"tokens", "routes", "webhooks", "plugin"}
    /\ c.pc \in {"open", "fill"} => c.op \in {"init", "restore", "set", "undo"} /\ Entries(c.todo)
    /\ c.pc \in {"open", "fill"} /\ c.op \in {"set", "undo"} =>
           ListHead(c) = "config" /\ Tail(c.todo) = <<>>
    /\ c.pc = "check" => c.op = "set"
    /\ c.pc = "hash" => c.op \in {"token", "edit", "init", "restore"}
    /\ c.pc = "lock" => c.op = "lock"
    /\ c.pc = "seal" => c.op \in {"token", "edit", "init", "restore", "lock"}
    /\ c.op = "lock" => c.todo \in {<<"root">>, <<"sub">>, <<"root", "sub">>}
    /\ c.pc = "seal" /\ c.op = "lock" /\ Head(c.todo) = "sub" => DOMAIN c.hashes \subseteq {"sub"}

TypeInv ==
    /\ disk = [f \in Files |-> disk[f]] /\ \A f \in Files : disk[f].kind \in Kinds
    /\ plug = [x \in Plugins |-> plug[x]] /\ \A x \in Plugins : plug[x] \in {"v1", "v2", "gone"}
    /\ \A d \in {"root", "sub"} : DOMAIN manifest[d].hashes \subseteq Files
    /\ Entries(archive)
    /\ \A p \in Procs : Shape(cli[p])
    /\ gw \in {"down", "preflight", "up", "loaded", "reloading"} /\ unreviewed \subseteq Files
    /\ hands \in Nat

(* How a command begins.                                                   *)
BeginsToken(c) ==
    c.pc = "scope" /\ c.op = "token" /\ c.file \in Names /\ c.buf = disk["tokens"].data /\ Exists("config")
BeginsEdit(c) ==
    /\ c.pc = "write" /\ c.op = "edit" /\ c.file \in {"tokens", "routes", "webhooks", "plugin"}
    /\ Exists("config")
    /\ c.file = "tokens" => \/ c.buf \subseteq disk["tokens"].data
                            \/ \E n \in Names : /\ c.buf = Rehashed(disk["tokens"].data, n)
                                                /\ n \in TokenNames(disk["tokens"].data)
InitList == [i \in 1 .. 4 |-> <<InitOrder[i], Content({})>>]
BeginsInit(c) == c.pc = "open" /\ c.op = "init" /\ c.todo = InitList
BeginsSet(c) ==
    /\ c.pc = "open" /\ c.op = "set" /\ Loads /\ c.buf = disk["config"].data
    /\ \E v : c.todo = << <<"config", Content(v)>> >>
BeginsRestore(c) == c.pc = "open" /\ c.op = "restore" /\ c.todo = archive /\ archive # <<>>
BeginsLock(c) ==
    /\ c.pc = "lock" /\ c.op = "lock" /\ Exists("config")
    /\ c.todo \in {<<"root">>, <<"sub">>, <<"root", "sub">>}
Beginning(c) ==
    \/ BeginsToken(c) \/ BeginsEdit(c) \/ BeginsInit(c) \/ BeginsSet(c) \/ BeginsRestore(c)
    \/ BeginsLock(c)

(* A command but backup starts from rest, with nothing hashed.             *)
LEMMA Beginnings ==
  ASSUME NEW p, Command(p), ~Backup(p)
  PROVE  cli[p] = Idle /\ Quiet /\ \E c : Become(p, c) /\ c.hashes = <<>> /\ Beginning(c)
<1> DEFINE Done == cli[p] = Idle /\ Quiet /\ \E c : Become(p, c) /\ c.hashes = <<>> /\ Beginning(c)
<1>1. ASSUME NEW n \in Names, NEW sc, TokenCreate(p, n, sc) PROVE Done
  <2> DEFINE buf == disk["tokens"].data
  <2>1. PICK c : c = [Idle EXCEPT !.pc = "scope", !.op = "token", !.file = n, !.buf = buf, !.todo = <<{sc}>>]
    OBVIOUS
  <2>2. c.pc = "scope" /\ c.op = "token" /\ c.file = n /\ c.buf = buf /\ c.hashes = <<>>
    BY <2>1 DEF Idle
  <2>3. Become(p, c) /\ Quiet /\ Exists("config") /\ cli[p] = Idle
    BY <1>1, <2>1 DEF TokenCreate, Begins
  <2> QED
    BY <2>2, <2>3 DEF Beginning, BeginsToken
<1>2. ASSUME NEW n \in Names, NEW sc, NEW mode, ScopeMutation(p, n, mode, sc) PROVE Done
  <2> DEFINE buf == disk["tokens"].data
             doc == disk[n].data
             todo == << CASE mode = "add" -> doc \union {sc}
                          [] mode = "remove" -> doc \ {sc}
                          [] mode = "set" -> {sc} >>
  <2>1. /\ Become(p, [Idle EXCEPT !.pc = "scope", !.op = "token", !.file = n, !.buf = buf, !.todo = todo])
        /\ Quiet /\ Exists("config") /\ cli[p] = Idle
    BY <1>2 DEF ScopeMutation, Begins
  <2> HIDE DEF todo
  <2>2. PICK c : c = [Idle EXCEPT !.pc = "scope", !.op = "token", !.file = n, !.buf = buf, !.todo = todo]
    OBVIOUS
  <2>3. c.pc = "scope" /\ c.op = "token" /\ c.file = n /\ c.buf = buf /\ c.hashes = <<>>
    BY <2>2 DEF Idle
  <2> QED
    BY <2>1, <2>2, <2>3 DEF Beginning, BeginsToken
<1>3. ASSUME NEW f \in {"tokens", "routes", "webhooks", "plugin"}, NEW data, Edits(p, f, data),
             f = "tokens" => \/ data \subseteq disk["tokens"].data
                             \/ \E n \in Names : /\ data = Rehashed(disk["tokens"].data, n)
                                                 /\ n \in TokenNames(disk["tokens"].data)
      PROVE  Done
  <2>1. PICK c : c = [Idle EXCEPT !.pc = "write", !.op = "edit", !.file = f, !.buf = data]
    OBVIOUS
  <2>2. c.pc = "write" /\ c.op = "edit" /\ c.file = f /\ c.buf = data /\ c.hashes = <<>>
    BY <2>1 DEF Idle
  <2>3. Become(p, c) /\ Quiet /\ Exists("config") /\ cli[p] = Idle
    BY <1>3, <2>1 DEF Edits, Begins
  <2>4. BeginsEdit(c)
    BY <1>3, <2>2, <2>3 DEF BeginsEdit
  <2> QED
    BY <2>2, <2>3, <2>4 DEF Beginning
<1>4. ASSUME NEW n \in Names, TokenRehash(p, n) PROVE Done
  <2>1. Edits(p, "tokens", Rehashed(disk["tokens"].data, n)) /\ n \in TokenNames(disk["tokens"].data)
    BY <1>4 DEF TokenRehash
  <2> QED
    BY <1>3, <2>1
<1>5. ASSUME NEW n \in Names, TokenDelete(p, n) PROVE Done
  <2>1. Edits(p, "tokens", {e \in disk["tokens"].data : e.name # n})
    BY <1>5 DEF TokenDelete
  <2> QED
    BY <1>3, <2>1
<1>6. ASSUME NEW mode, RouteMutation(p, mode) PROVE Done
  <2>1. \E data : Edits(p, "routes", data)
    BY <1>6 DEF RouteMutation
  <2> QED
    BY <1>3, <2>1
<1>7. ASSUME WebhookAdd(p) PROVE Done
  <2>1. \E data : Edits(p, "webhooks", data)
    BY <1>7 DEF WebhookAdd
  <2> QED
    BY <1>3, <2>1
<1>8. ASSUME PluginSet(p) PROVE Done
  <2>1. \E data : Edits(p, "plugin", data)
    BY <1>8 DEF PluginSet
  <2> QED
    BY <1>3, <2>1
<1>9. ASSUME NEW force, ConfigInit(p, force) PROVE Done
  <2> DEFINE buf == IF force THEN {"force"} ELSE {}
             todo == [i \in 1 .. Len(InitOrder) |-> <<InitOrder[i], Content({})>>]
  <2>1. /\ Become(p, [Idle EXCEPT !.pc = "open", !.op = "init", !.buf = buf, !.todo = todo])
        /\ Quiet /\ cli[p] = Idle
    BY <1>9 DEF ConfigInit, Begins
  <2>2. todo = InitList
    <3>1. Len(InitOrder) = 4
      BY DEF InitOrder
    <3> QED
      BY <3>1 DEF InitList
  <2> HIDE DEF todo, buf
  <2>3. PICK c : c = [Idle EXCEPT !.pc = "open", !.op = "init", !.buf = buf, !.todo = todo]
    OBVIOUS
  <2>4. c.pc = "open" /\ c.op = "init" /\ c.todo = todo /\ c.hashes = <<>>
    BY <2>3 DEF Idle
  <2> QED
    BY <2>1, <2>2, <2>3, <2>4 DEF Beginning, BeginsInit
<1>10. ASSUME NEW value, ConfigSet(p, value) PROVE Done
  <2> DEFINE buf == disk["config"].data
             todo == << <<"config", Content(buf \union {value})>> >>
  <2>1. /\ Become(p, [Idle EXCEPT !.pc = "open", !.op = "set", !.buf = buf, !.todo = todo])
        /\ Quiet /\ cli[p] = Idle /\ Loads
    BY <1>10 DEF ConfigSet, Begins
  <2>2. \E v : todo = << <<"config", Content(v)>> >>
    OBVIOUS
  <2> HIDE DEF todo
  <2>3. PICK c : c = [Idle EXCEPT !.pc = "open", !.op = "set", !.buf = buf, !.todo = todo]
    OBVIOUS
  <2>4. c.pc = "open" /\ c.op = "set" /\ c.todo = todo /\ c.hashes = <<>> /\ c.buf = buf
    BY <2>3 DEF Idle
  <2>5. BeginsSet(c)
    BY <2>1, <2>2, <2>4 DEF BeginsSet
  <2> QED
    BY <2>1, <2>3, <2>4, <2>5 DEF Beginning
<1>11. ASSUME Restore(p) PROVE Done
  <2>1. PICK c : c = [Idle EXCEPT !.pc = "open", !.op = "restore", !.todo = archive]
    OBVIOUS
  <2>2. c.pc = "open" /\ c.op = "restore" /\ c.todo = archive /\ c.hashes = <<>>
    BY <2>1 DEF Idle
  <2>3. Become(p, c) /\ Quiet /\ cli[p] = Idle /\ archive # <<>>
    BY <1>11, <2>1 DEF Restore, Begins
  <2> QED
    BY <2>2, <2>3 DEF Beginning, BeginsRestore
<1>12. ASSUME NEW byDir, Lock(p, byDir) PROVE Done
  <2> DEFINE todo == IF byDir THEN <<"root">> ELSE ScopeDirs
             yes == TRUE
  <2>1. todo \in {<<"root">>, <<"sub">>, <<"root", "sub">>}
    <3>1. ScopeDirs \in {<<"root">>, <<"sub">>, <<"root", "sub">>}
      BY DEF ScopeDirs
    <3> QED
      BY <3>1
  <2>2. /\ Become(p, [Idle EXCEPT !.pc = "lock", !.op = "lock", !.alone = yes, !.todo = todo])
        /\ Quiet /\ cli[p] = Idle /\ Exists("config")
    BY <1>12 DEF Lock, Begins
  <2> HIDE DEF todo, yes
  <2>3. PICK c : c = [Idle EXCEPT !.pc = "lock", !.op = "lock", !.alone = yes, !.todo = todo]
    OBVIOUS
  <2>4. c.pc = "lock" /\ c.op = "lock" /\ c.todo = todo /\ c.hashes = <<>>
    BY <2>3 DEF Idle
  <2> QED
    BY <2>1, <2>2, <2>3, <2>4 DEF Beginning, BeginsLock
<1> HIDE DEF Done
<1>13. Done
  BY <1>1, <1>2, <1>4, <1>5, <1>6, <1>7, <1>8, <1>9, <1>10, <1>11, <1>12 DEF Command
<1> QED
  BY <1>13 DEF Done

(* The names of files and processes depend on the deployment only.         *)
LEMMA SameNames ==
  ASSUME deployment' = deployment
  PROVE  /\ Names' = Names /\ Files' = Files /\ Plugins' = Plugins /\ Procs' = Procs
         /\ RootFiles' = RootFiles /\ \A c : Shape(c)' <=> Shape(c)
<1>1. Names' = Names /\ Plugins' = Plugins /\ Procs' = Procs /\ RootFiles' = RootFiles
  BY SameDeployment
<1>2. Files' = Files
  BY <1>1 DEF Files
<1>3. \A s : Entries(s)' <=> Entries(s)
  BY <1>2 DEF Entries
<1> QED
  BY <1>1, <1>2, <1>3 DEF Shape, ListHead, Steps

(* No other command than that of p is changed, but that it is not alone.   *)
LEMMA OthersStay ==
  ASSUME SealInv, TypeInv, deployment' = deployment, NEW p \in Procs, NEW c,
         Become(p, c) \/ \E f, content : WriteFile(p, f, content, c)
  PROVE  /\ cli'[p] = c
         /\ \A q \in Procs \ {p} : cli'[q] = cli[q] \/ cli'[q] = [cli[q] EXCEPT !.alone = FALSE]
<1>1. cli = [q \in Procs |-> cli[q]]
  BY DEF SealInv
<1>2. CASE Become(p, c)
  BY <1>1, <1>2 DEF Become
<1>3. CASE \E f, content : WriteFile(p, f, content, c)
  BY <1>3 DEF WriteFile
<1> QED
  BY <1>2, <1>3

(* A command that is no longer alone is the same otherwise.                *)
LEMMA NotAlone ==
  ASSUME NEW c, IsCommand(c), NEW d, d = [c EXCEPT !.alone = FALSE]
  PROVE  /\ d.pc = c.pc /\ d.op = c.op /\ d.file = c.file /\ d.buf = c.buf /\ d.todo = c.todo
         /\ d.hashes = c.hashes /\ d.prints = c.prints /\ (c = Idle => d = Idle)
<1> DEFINE no == FALSE
<1>1. d = [c EXCEPT !.alone = no]
  OBVIOUS
<1>3. Idle.alone = no
  BY DEF Idle
<1> HIDE DEF no
<1>2. d = [pc |-> c.pc, op |-> c.op, file |-> c.file, buf |-> c.buf, todo |-> c.todo,
           hashes |-> c.hashes, prints |-> c.prints, alone |-> no]
  BY <1>1 DEF IsCommand
<1>4. c = Idle => d = c
  BY <1>2, <1>3 DEF IsCommand
<1> QED
  BY <1>2, <1>4

(* Its shape does not depend on whether it is alone.                       *)
LEMMA ShapeAlone ==
  ASSUME NEW c, IsCommand(c), Shape(c), NEW d, d = [c EXCEPT !.alone = FALSE]
  PROVE  Shape(d)
<1>1. /\ d.pc = c.pc /\ d.op = c.op /\ d.file = c.file /\ d.buf = c.buf /\ d.todo = c.todo
      /\ d.hashes = c.hashes /\ d.prints = c.prints /\ (c = Idle => d = Idle)
  BY NotAlone
<1> QED
  BY <1>1 DEF Shape, ListHead

(* The shapes are kept by a step that gives every changed command one.     *)
LEMMA ShapesStay ==
  ASSUME SealInv, TypeInv, deployment' = deployment,
         \A q \in Procs : \/ cli'[q] = cli[q] \/ cli'[q] = [cli[q] EXCEPT !.alone = FALSE]
                          \/ Shape(cli'[q])
  PROVE  \A q \in Procs : Shape(cli[q])'
<1> SUFFICES ASSUME NEW q \in Procs PROVE Shape(cli[q])'
  OBVIOUS
<1>1. PICK d : d = cli'[q]
  OBVIOUS
<1>2. Shape(cli[q]) /\ IsCommand(cli[q])
  BY DEF SealInv, TypeInv, CommandOK
<1>3. Shape(d)
  BY <1>1, <1>2, ShapeAlone
<1>4. Shape(d)'
  BY <1>3, SameNames
<1> QED
  BY <1>1, <1>4

(* The types after a step.                                                 *)
LEMMA TypesKept ==
  ASSUME SealInv, TypeInv, deployment' = deployment,
         disk' = disk \/ \E f, x : disk' = [disk EXCEPT ![f] = x] /\ x.kind \in Kinds,
         plug' = plug \/ \E x : \E v \in {"v1", "v2", "gone"} : plug' = [plug EXCEPT ![x] = v],
         \/ manifest' = manifest
         \/ \E d, m : manifest' = [manifest EXCEPT ![d] = m] /\ DOMAIN m.hashes \subseteq Files,
         Entries(archive'),
         \A q \in Procs : \/ cli'[q] = cli[q] \/ cli'[q] = [cli[q] EXCEPT !.alone = FALSE]
                          \/ Shape(cli'[q]),
         gw' \in {"down", "preflight", "up", "loaded", "reloading"}, unreviewed' \subseteq Files, hands' \in Nat
  PROVE  TypeInv'
<1>1. /\ Names' = Names /\ Files' = Files /\ Plugins' = Plugins /\ Procs' = Procs
  BY SameNames
<1>2. disk' = [f \in Files |-> disk'[f]] /\ \A f \in Files : disk'[f].kind \in Kinds
  BY DEF TypeInv
<1>3. plug' = [x \in Plugins |-> plug'[x]] /\ \A x \in Plugins : plug'[x] \in {"v1", "v2", "gone"}
  BY DEF TypeInv
<1>4. \A d \in {"root", "sub"} : DOMAIN manifest'[d].hashes \subseteq Files
  BY DEF TypeInv, SealInv
<1>5. Entries(archive)'
  BY <1>1 DEF Entries
<1>6. \A q \in Procs : Shape(cli[q])'
  BY ShapesStay
<1> QED
  BY <1>1, <1>2, <1>3, <1>4, <1>5, <1>6 DEF TypeInv, Kinds

(* Beginning.                                                              *)
LEMMA InitListed ==
  /\ InitList = << <<"config", Content({})>>, <<"routes", Content({})>>,
                   <<"webhooks", Content({})>>, <<"tokens", Content({})>> >>
  /\ \A i \in DOMAIN InitList : InitList[i][1] \in {"config", "routes", "webhooks", "tokens"}
  /\ \A i \in DOMAIN InitList : InitList[i][2] = Content({})
  /\ DOMAIN InitList = 1 .. 4 /\ InitList[1][1] = "config" /\ InitList[4][1] = "tokens"
BY DEF InitList, InitOrder

(* A command that begins has a shape.                                      *)
LEMMA BeginningShape ==
  ASSUME TypeInv, NEW c, c.hashes = <<>>, Beginning(c)
  PROVE  Shape(c)
<1>0. DOMAIN c.hashes = {}
  OBVIOUS
<1>1. CASE BeginsToken(c)
  BY <1>0, <1>1 DEF BeginsToken, Shape, Steps
<1>2. CASE BeginsEdit(c)
  BY <1>0, <1>2 DEF BeginsEdit, Shape, Steps
<1>3. CASE BeginsInit(c)
  <2>1. Entries(InitList)
    BY InitListed DEF Entries, Files, RootFiles, Content
  <2> QED
    BY <1>0, <1>3, <2>1 DEF BeginsInit, Shape, Steps
<1>4. CASE BeginsSet(c)
  <2>1. PICK v : c.todo = << <<"config", Content(v)>> >>
    BY <1>4 DEF BeginsSet
  <2>2. Content(v).kind = "file"
    BY DEF Content
  <2>3. PICK x : x = Content(v) /\ x.kind = "file"
    BY <2>2
  <2>4. c.todo = << <<"config", x>> >>
    BY <2>1, <2>3
  <2>5. c.todo[1] = <<"config", x>> /\ DOMAIN c.todo = {1} /\ Tail(c.todo) = <<>>
    BY <2>4
  <2>6. Entries(c.todo)
    BY <2>3, <2>5 DEF Entries, Files, RootFiles
  <2> QED
    BY <1>0, <1>4, <2>5, <2>6 DEF BeginsSet, Shape, Steps, ListHead
<1>5. CASE BeginsRestore(c)
  BY <1>0, <1>5 DEF BeginsRestore, Shape, Steps, TypeInv
<1>6. CASE BeginsLock(c)
  BY <1>0, <1>6 DEF BeginsLock, Shape, Steps
<1> QED
  BY <1>1, <1>2, <1>3, <1>4, <1>5, <1>6 DEF Beginning

(* A list and its rest.                                                    *)
LEMMA RestOfList ==
  ASSUME NEW s, IsSeq(s), s # <<>>
  PROVE  /\ 1 \in DOMAIN s
         /\ \A i \in DOMAIN Tail(s) : i + 1 \in DOMAIN s /\ Tail(s)[i] = s[i + 1]
         /\ \A i \in DOMAIN s : i # 1 => i - 1 \in DOMAIN Tail(s) /\ Tail(s)[i - 1] = s[i]
<1> DEFINE S == {s[i] : i \in DOMAIN s}   t == Tail(s)
<1>1. s \in Seq(S)
  BY DEF IsSeq
<1> HIDE DEF S
<1>2. Len(s) \in Nat \ {0} /\ DOMAIN s = 1 .. Len(s)
  BY <1>1, EmptySeq
<1>3. t \in Seq(S) /\ Len(t) = Len(s) - 1 /\ \A i \in 1 .. Len(t) : t[i] = s[i + 1]
  BY <1>1, <1>2
<1>4. DOMAIN t = 1 .. Len(t)
  BY <1>3
<1> HIDE DEF t
<1>5. /\ \A i \in DOMAIN t : i + 1 \in DOMAIN s /\ t[i] = s[i + 1]
      /\ \A i \in DOMAIN s : i # 1 => i - 1 \in DOMAIN t /\ i - 1 + 1 = i
  BY <1>2, <1>3, <1>4
<1>6. \A i \in DOMAIN s : i # 1 => t[i - 1] = s[i]
  BY <1>5
<1> QED
  BY <1>2, <1>5, <1>6 DEF t

(* Fields of a command that goes on to another step.                       *)
LEMMA GoesOn ==
  ASSUME NEW c, IsCommand(c), NEW pc, NEW d, d = [c EXCEPT !.pc = pc]
  PROVE  /\ d.pc = pc /\ d.op = c.op /\ d.file = c.file /\ d.buf = c.buf /\ d.todo = c.todo
         /\ d.hashes = c.hashes
BY DEF IsCommand

(* Where a command is after a file of its list.                            *)
LEMMA AfterFile ==
  ASSUME NEW c, IsCommand(c), NEW r, r = Onwards(c)
  PROVE  \/ c.op = "undo" /\ Tail(c.todo) = <<>> /\ r = Idle
         \/ /\ r.todo = Tail(c.todo) /\ r.op = c.op /\ r.buf = c.buf /\ r.hashes = c.hashes
            /\ \/ Tail(c.todo) # <<>> /\ r.pc = "open"
               \/ Tail(c.todo) = <<>> /\ c.op = "set" /\ r.pc = "check"
               \/ Tail(c.todo) = <<>> /\ c.op \notin {"set", "undo"} /\ r.pc = "hash"
<1> DEFINE rest == Tail(c.todo)
<1>1. PICK t : t = rest
  OBVIOUS
<1>2. ASSUME NEW pc, r = [c EXCEPT !.todo = t, !.pc = pc]
      PROVE  r.todo = t /\ r.op = c.op /\ r.buf = c.buf /\ r.hashes = c.hashes /\ r.pc = pc
  BY <1>2 DEF IsCommand
<1>3. \/ t = <<>> /\ c.op = "undo" /\ r = Idle
      \/ t # <<>> /\ r = [c EXCEPT !.todo = t, !.pc = "open"]
      \/ t = <<>> /\ c.op = "set" /\ r = [c EXCEPT !.todo = t, !.pc = "check"]
      \/ t = <<>> /\ c.op \notin {"set", "undo"} /\ r = [c EXCEPT !.todo = t, !.pc = "hash"]
  BY <1>1 DEF Onwards
<1> QED
  BY <1>1, <1>2, <1>3

(* No command is one.                                                      *)
LEMMA IdleShape == Shape(Idle)
BY DEF Shape, Idle, Steps

(* What follows a write of the list keeps the shape.                       *)
LEMMA OnwardsShape ==
  ASSUME NEW c, NEW V, CommandOK(c, V), Shape(c), c.pc \in {"open", "fill"}
  PROVE  Shape(Onwards(c))
<1>1. PICK r : r = Onwards(c)
  OBVIOUS
<1>2. IsCommand(c) /\ IsSeq(c.todo) /\ c.todo # <<>>
  BY DEF CommandOK, Listed
<1>3. Entries(Tail(c.todo))
  <2>0. PICK t : t = Tail(c.todo)
    OBVIOUS
  <2>1. t = Tail(c.todo) /\ \A i \in DOMAIN t : i + 1 \in DOMAIN c.todo /\ t[i] = c.todo[i + 1]
    BY <1>2, <2>0, RestOfList
  <2>2. Entries(c.todo)
    BY DEF Shape
  <2>3. Entries(t)
    BY <2>1, <2>2 DEF Entries
  <2> QED
    BY <2>1, <2>3
<1>4. c.op \in {"init", "restore", "set", "undo"}
  BY DEF Shape
<1>5. Tail(c.todo) # <<>> => c.op \notin {"set", "undo"}
  BY DEF Shape
<1>6. CASE r = Idle
  BY <1>1, <1>6, IdleShape
<1>7. CASE r # Idle
  <2>1. /\ r.todo = Tail(c.todo) /\ r.op = c.op /\ r.hashes = c.hashes
        /\ \/ Tail(c.todo) # <<>> /\ r.pc = "open"
           \/ Tail(c.todo) = <<>> /\ c.op = "set" /\ r.pc = "check"
           \/ Tail(c.todo) = <<>> /\ c.op \notin {"set", "undo"} /\ r.pc = "hash"
    BY <1>1, <1>2, <1>7, AfterFile
  <2>2. Shape(r)
    BY <1>3, <1>4, <1>5, <2>1 DEF Shape, Steps
  <2> QED
    BY <1>1, <2>2
<1> QED
  BY <1>6, <1>7

(* The k-th of a set of positions: there is one for every k, and each      *)
(* position is one.                                                        *)
Nth(S, k) == CHOOSE i \in S : Cardinality({j \in S : j <= i}) = k

(* Nth enumerates a set of numbers in order, each once.                    *)
LEMMA NthFacts ==
  ASSUME NEW n \in Nat, NEW S \in SUBSET (1 .. n)
  PROVE  /\ Cardinality(S) \in Nat
         /\ \A k \in 1 .. Cardinality(S) : Nth(S, k) \in S
         /\ \A j, k \in 1 .. Cardinality(S) : Nth(S, j) = Nth(S, k) => j = k
         /\ \A i \in S : \E k \in 1 .. Cardinality(S) : Nth(S, k) = i
<1> DEFINE Upto(i) == {j \in S : j <= i}
           rank == [i \in S |-> Cardinality(Upto(i))]
<1>1. /\ IsFiniteSet(S) /\ Cardinality(S) \in Nat
      /\ \A i \in S : i \in Nat
  <2>1. IsFiniteSet(1 .. n)
    BY FS_Interval
  <2>2. IsFiniteSet(S)
    BY <2>1, FS_Subset
  <2>3. \A i \in S : i \in Nat
    OBVIOUS
  <2> QED
    BY <2>2, <2>3, FS_CardinalityType
<1>2. \A i \in S : IsFiniteSet(Upto(i)) /\ Cardinality(Upto(i)) \in Nat
  BY <1>1, FS_Subset, FS_CardinalityType
<1>3. \A i \in S : Cardinality(Upto(i)) \in 1 .. Cardinality(S)
  <2> TAKE i \in S
  <2>1. Cardinality(Upto(i)) <= Cardinality(S)
    BY <1>1, FS_Subset
  <2>2. {i} \in SUBSET Upto(i) /\ Cardinality({i}) = 1
    BY <1>1, FS_Singleton
  <2>3. 1 <= Cardinality(Upto(i))
    BY <1>2, <2>2, FS_Subset
  <2> QED
    BY <1>1, <1>2, <2>1, <2>3
<1>4. \A i, j \in S : i < j => Cardinality(Upto(i)) < Cardinality(Upto(j))
  <2> SUFFICES ASSUME NEW i \in S, NEW j \in S, i < j
               PROVE  Cardinality(Upto(i)) < Cardinality(Upto(j))
    OBVIOUS
  <2>1. /\ Upto(i) \in SUBSET Upto(j)
        /\ j \in Upto(j) /\ j \notin Upto(i)
    <3>1. \A x \in S : x <= i => x <= j
      BY <1>1
    <3>2. j <= j /\ ~(j <= i)
      BY <1>1
    <3> QED
      BY <3>1, <3>2
  <2>2. Cardinality(Upto(i)) <= Cardinality(Upto(j)) /\ Cardinality(Upto(i)) # Cardinality(Upto(j))
    BY <1>2, <2>1, FS_Subset
  <2> QED
    BY <1>2, <2>2
<1>4a. \A i, j \in S : Cardinality(Upto(i)) = Cardinality(Upto(j)) => i = j
  BY <1>1, <1>2, <1>4
<1>5. rank \in Injection(S, 1 .. Cardinality(S))
  <2>1. rank \in [S -> 1 .. Cardinality(S)]
    BY <1>3
  <2>2. \A i, j \in S : rank[i] = rank[j] => i = j
    BY <1>4a
  <2> QED
    BY <2>1, <2>2 DEF Injection, IsInjective
<1>6. rank \in Surjection(S, 1 .. Cardinality(S))
  <2>1. IsFiniteSet(1 .. Cardinality(S)) /\ Cardinality(1 .. Cardinality(S)) = Cardinality(S)
    BY <1>1, FS_Interval
  <2> QED
    BY <1>5, <2>1, FS_Injection
<1>7. \A k \in 1 .. Cardinality(S) : \E i \in S : Cardinality(Upto(i)) = k
  BY <1>6 DEF Surjection
<1>8. \A k \in 1 .. Cardinality(S) : Nth(S, k) \in S /\ Cardinality(Upto(Nth(S, k))) = k
  BY <1>7 DEF Nth
<1>9. ASSUME NEW i \in S PROVE \E k \in 1 .. Cardinality(S) : Nth(S, k) = i
  <2>1. PICK k \in 1 .. Cardinality(S) : k = Cardinality(Upto(i))
    BY <1>3
  <2>2. Nth(S, k) \in S /\ Cardinality(Upto(Nth(S, k))) = Cardinality(Upto(i))
    BY <1>8, <2>1
  <2> QED
    BY <1>4a, <2>2
<1>10. \A j, k \in 1 .. Cardinality(S) : Nth(S, j) = Nth(S, k) => j = k
  BY <1>8
<1> QED
  BY <1>1, <1>8, <1>9, <1>10

(* The files of an archive: each once, every token's scope file among them. *)
LEMMA ArchiveFiles ==
  ASSUME deployment \in Deployments
  PROVE  /\ \E n \in Nat : DOMAIN ArchiveOrder = 1 .. n
         /\ \A i, j \in DOMAIN ArchiveOrder : ArchiveOrder[i] = ArchiveOrder[j] => i = j
         /\ \A i \in DOMAIN ArchiveOrder : ArchiveOrder[i] \in Files \union {"seal"}
         /\ \A f \in Names \union {"tokens"} : \E i \in DOMAIN ArchiveOrder : ArchiveOrder[i] = f
<1> DEFINE n == Cardinality(Names)
           first == <<"config", "routes", "tokens", "webhooks", "seal", "plugin">>
           tail == SetToSeq(Names)
           Six == {"config", "routes", "tokens", "webhooks", "seal", "plugin"}
<1>1. IsFiniteSet(Names) /\ Names \intersect Six = {}
  BY ConfigSealAssumption DEF Names
<1>2. n \in Nat /\ \E f : f \in Bijection(1 .. n, Names)
  BY <1>1, FS_CardinalityType DEF ExistsBijection
<1>3. \E f \in [1 .. n -> Names] : IsInjective(f)
  BY <1>2 DEF Bijection, Injection, IsInjective
<1>4. tail \in [1 .. n -> Names] /\ IsInjective(tail)
  BY <1>3 DEF SetToSeq
<1> HIDE DEF tail
<1>5. tail \in Surjection(1 .. n, Names)
  <2>1. IsFiniteSet(1 .. n) /\ Cardinality(1 .. n) = n
    BY <1>2, FS_Interval
  <2>2. tail \in Injection(1 .. n, Names)
    BY <1>4 DEF Injection
  <2> QED
    BY <1>1, <2>1, <2>2, FS_Injection
<1>6. /\ \A i, j \in 1 .. n : tail[i] = tail[j] => i = j
      /\ \A f \in Names : \E i \in 1 .. n : tail[i] = f
  BY <1>4, <1>5 DEF IsInjective, Surjection
<1> DEFINE S == Names \union Six   all == first \o tail
<1>7. tail \in Seq(S) /\ Len(tail) = n
  BY <1>2, <1>4
<1>8. /\ first \in Seq(S) /\ Len(first) = 6 /\ first[3] = "tokens"
      /\ \A i \in 1 .. 6 : first[i] \in Six
      /\ \A i, j \in 1 .. 6 : first[i] = first[j] => i = j
  OBVIOUS
<1>9. ArchiveOrder = all
  BY DEF ArchiveOrder, tail
<1>9a. \A i \in 1 .. n : tail[i] \in Names
  BY <1>4
<1> HIDE DEF S, first, n
<1>10. /\ all \in Seq(S) /\ Len(all) = 6 + n
       /\ \A i \in 1 .. 6 + n : all[i] = IF i <= 6 THEN first[i] ELSE tail[i - 6]
  <2>0. PICK a \in Seq(S), b \in Seq(S) : a = first /\ b = tail
    BY <1>7, <1>8
  <2>1. /\ a \o b \in Seq(S) /\ Len(a \o b) = Len(a) + Len(b)
        /\ \A i \in 1 .. Len(a) + Len(b) : (a \o b)[i] = IF i <= Len(a) THEN a[i] ELSE b[i - Len(a)]
    BY ConcatProperties, Zenon
  <2>2. all = a \o b /\ Len(a) = 6 /\ Len(b) = n
    BY <1>7, <1>8, <2>0
  <2> HIDE DEF all
  <2> QED
    BY <2>0, <2>1, <2>2
<1> HIDE DEF all, Six
<1>11. DOMAIN all = 1 .. 6 + n
  BY <1>10
<1>12. \A i \in 1 .. 6 + n : \/ i \in 1 .. 6 /\ all[i] = first[i]
                             \/ i - 6 \in 1 .. n /\ all[i] = tail[i - 6] /\ i = (i - 6) + 6
  BY <1>2, <1>10
<1>13. \A i, j \in 1 .. 6 + n : all[i] = all[j] => i = j
  <2> SUFFICES ASSUME NEW i \in 1 .. 6 + n, NEW j \in 1 .. 6 + n, all[i] = all[j] PROVE i = j
    OBVIOUS
  <2>1. CASE i \in 1 .. 6 /\ j \in 1 .. 6 /\ all[i] = first[i] /\ all[j] = first[j]
    BY <1>8, <2>1
  <2>2. CASE i - 6 \in 1 .. n /\ j - 6 \in 1 .. n /\ all[i] = tail[i - 6] /\ all[j] = tail[j - 6]
    <3>1. i - 6 = j - 6
      BY <1>6, <2>2
    <3> QED
      BY <1>12, <3>1
  <2>3. ~(i \in 1 .. 6 /\ all[i] = first[i] /\ j - 6 \in 1 .. n /\ all[j] = tail[j - 6])
    BY <1>1, <1>8, <1>9a
  <2>4. ~(j \in 1 .. 6 /\ all[j] = first[j] /\ i - 6 \in 1 .. n /\ all[i] = tail[i - 6])
    BY <1>1, <1>8, <1>9a
  <2> QED
    BY <1>12, <2>1, <2>2, <2>3, <2>4
<1>14. \A i \in 1 .. 6 + n : all[i] \in Files \union {"seal"}
  <2>1. \A x \in Names \union Six : x \in Files \union {"seal"}
    BY DEF Files, RootFiles, Six
  <2> QED
    BY <1>8, <1>9a, <1>12, <2>1
<1>15. \A f \in Names \union {"tokens"} : \E i \in 1 .. 6 + n : all[i] = f
  <2> TAKE f \in Names \union {"tokens"}
  <2>1. CASE f = "tokens"
    <3>1. 3 \in 1 .. 6 + n /\ 3 <= 6
      BY <1>2
    <3> QED
      BY <1>8, <1>10, <2>1, <3>1
  <2>2. CASE f \in Names
    <3>1. PICK i \in 1 .. n : tail[i] = f
      BY <1>6, <2>2
    <3>2. i + 6 \in 1 .. 6 + n /\ ~(i + 6 <= 6) /\ i + 6 - 6 = i
      BY <1>2, <3>1
    <3> QED
      BY <1>10, <3>1, <3>2
  <2> QED
    BY <2>1, <2>2
<1>16. 6 + n \in Nat
  BY <1>2
<1> QED
  BY <1>9, <1>11, <1>13, <1>14, <1>15, <1>16

(* What `config backup` writes.                                            *)
LEMMA BackupFacts ==
  ASSUME SealInv, TypeInv, NEW p, Backup(p)
  PROVE  /\ Entries(archive')
         /\ \A i, j \in DOMAIN archive' : archive'[i][1] = archive'[j][1] => i = j
         /\ \A i \in DOMAIN archive' : archive'[i][1] # "seal" =>
                archive'[i][2] = disk[archive'[i][1]]
         /\ \A f \in Names \union {"tokens"} : Exists(f) =>
                \E i \in DOMAIN archive' : archive'[i] = <<f, disk[f]>>
<1> DEFINE In(f) == IF f = "seal" THEN manifest["root"].present ELSE Exists(f)
           Entry(f) == <<f, IF f = "seal" THEN manifest["root"] ELSE disk[f]>>
           held == {i \in DOMAIN ArchiveOrder : In(ArchiveOrder[i])}
           k == Cardinality(held)
<1>1. archive' = [i \in 1 .. k |-> Entry(ArchiveOrder[Nth(held, i)])]
  BY DEF Backup, Nth
<1>2. PICK n \in Nat : DOMAIN ArchiveOrder = 1 .. n
  BY ArchiveFiles DEF SealInv
<1>3. held \in SUBSET (1 .. n)
  BY <1>2
<1>4. \A i \in held : i \in DOMAIN ArchiveOrder /\ In(ArchiveOrder[i])
  OBVIOUS
<1>4a. \A i \in DOMAIN ArchiveOrder : In(ArchiveOrder[i]) => i \in held
  OBVIOUS
<1> HIDE DEF held
<1>5. /\ k \in Nat
      /\ \A i \in 1 .. k : Nth(held, i) \in held
      /\ \A i, j \in 1 .. k : Nth(held, i) = Nth(held, j) => i = j
      /\ \A i \in held : \E j \in 1 .. k : Nth(held, j) = i
  BY <1>3, NthFacts
<1> HIDE DEF k
<1>6. /\ DOMAIN archive' = 1 .. k
      /\ \A i \in 1 .. k : archive'[i] = Entry(ArchiveOrder[Nth(held, i)])
  BY <1>1
<1>7. \A f : Entry(f)[1] = f /\ Entry(f)[2] = IF f = "seal" THEN manifest["root"] ELSE disk[f]
  OBVIOUS
<1>7a. \A f : f # "seal" => Entry(f) = <<f, disk[f]>>
  OBVIOUS
<1>8. \A i \in 1 .. k : \E f : /\ f = ArchiveOrder[Nth(held, i)] /\ In(f) /\ f \in Files \union {"seal"}
                               /\ archive'[i] = Entry(f)
  BY <1>4, <1>5, <1>6, ArchiveFiles DEF SealInv
<1>9. \A f : f \in Files \union {"seal"} /\ In(f) /\ f # "seal" => f \in Files /\ disk[f].kind \in {"empty", "file"}
  BY DEF TypeInv, Kinds, Exists
<1> HIDE DEF Entry, In
<1>10. Entries(archive')
  <2> SUFFICES ASSUME NEW i \in 1 .. k
               PROVE  /\ archive'[i][1] = "seal" => DOMAIN archive'[i][2].hashes \subseteq Files
                      /\ archive'[i][1] # "seal" =>
                             archive'[i][1] \in Files /\ archive'[i][2].kind \in {"empty", "file"}
    BY <1>6 DEF Entries
  <2>1. PICK f : In(f) /\ f \in Files \union {"seal"} /\ archive'[i] = Entry(f)
    BY <1>8
  <2>2. DOMAIN manifest["root"].hashes \subseteq Files
    BY DEF TypeInv
  <2> QED
    BY <1>7, <1>9, <2>1, <2>2
<1>11. ASSUME NEW i \in 1 .. k, NEW j \in 1 .. k, archive'[i][1] = archive'[j][1] PROVE i = j
  <2>1. ArchiveOrder[Nth(held, i)] = ArchiveOrder[Nth(held, j)]
    BY <1>6, <1>7, <1>11
  <2>2. Nth(held, i) \in DOMAIN ArchiveOrder /\ Nth(held, j) \in DOMAIN ArchiveOrder
    BY <1>4, <1>5
  <2>3. Nth(held, i) = Nth(held, j)
    BY <2>1, <2>2, ArchiveFiles DEF SealInv
  <2> QED
    BY <1>5, <2>3
<1>12. \A i \in 1 .. k : archive'[i][1] # "seal" => archive'[i][2] = disk[archive'[i][1]]
  BY <1>6, <1>7
<1>13. ASSUME NEW f \in Names \union {"tokens"}, Exists(f)
       PROVE  \E i \in 1 .. k : archive'[i] = <<f, disk[f]>>
  <2>1. f # "seal"
    BY ConfigSealAssumption DEF SealInv, Names
  <2>2. In(f)
    BY <1>13, <2>1 DEF In
  <2>3. PICK i \in DOMAIN ArchiveOrder : ArchiveOrder[i] = f
    BY ArchiveFiles DEF SealInv
  <2>4. i \in held
    BY <1>4a, <2>2, <2>3
  <2>5. PICK j \in 1 .. k : Nth(held, j) = i
    BY <1>5, <2>4
  <2> QED
    BY <1>6, <1>7a, <2>1, <2>3, <2>5
<1> QED
  BY <1>6, <1>10, <1>11, <1>12, <1>13

-----------------------------------------------------------------------------
(* Types, step by step.                                                    *)
LEMMA TypesCommand ==
  ASSUME SealInv, TypeInv, deployment' = deployment, NEW p \in Procs, Command(p)
  PROVE  TypeInv'
<1>1. CASE Backup(p)
  <2>1. Entries(archive') /\ UNCHANGED <<disk, plug, manifest, cli, gw, hands, unreviewed>>
    BY <1>1, BackupFacts DEF Backup
  <2> QED
    BY <2>1, TypesKept DEF TypeInv
<1>2. CASE ~Backup(p)
  <2>1. PICK c : Become(p, c) /\ c.hashes = <<>> /\ Beginning(c)
    BY <1>2, Beginnings
  <2>2. UNCHANGED <<disk, plug, manifest, archive, gw, hands, unreviewed>>
    BY <1>2, Beginnings DEF Quiet
  <2>3. Shape(c)
    BY <2>1, BeginningShape
  <2>4. \A q \in Procs : cli'[q] = cli[q] \/ cli'[q] = [cli[q] EXCEPT !.alone = FALSE] \/ Shape(cli'[q])
    BY <2>1, <2>3, OthersStay
  <2> QED
    BY <2>2, <2>4, TypesKept DEF TypeInv
<1> QED
  BY <1>1, <1>2

(* The steps that write one file: which, and where the command goes.       *)
EditsAs(p, f, data, c, next) ==
    /\ WriteFile(p, f, Content(data), c) /\ c = [cli[p] EXCEPT !.pc = next]
    /\ UNCHANGED <<manifest, vouched, unreviewed, plug, archive, gw, ops, hands, crashes>>
    /\ \/ cli[p].pc = "scope" /\ f = cli[p].file /\ next = "token"
       \/ /\ cli[p].pc = "token" /\ f = "tokens" /\ next = "hash"
          /\ data = {e \in cli[p].buf : e.name # cli[p].file}
                       \union {[name |-> cli[p].file, hash |-> disk[cli[p].file]]}
       \/ cli[p].pc = "write" /\ f = cli[p].file /\ data = cli[p].buf /\ next = "hash"

(* The three edits of a file are one kind of step.                         *)
LEMMA EditStep ==
  ASSUME SealInv, TypeInv, NEW p \in Procs, WriteScope(p) \/ WriteTokens(p) \/ WriteEdit(p)
  PROVE  \E f, data, c, next : EditsAs(p, f, data, c, next)
<1> USE DEF EditsAs
<1>1. CASE WriteScope(p)
  BY <1>1 DEF WriteScope, Rest
<1>2. CASE WriteTokens(p)
  BY <1>2 DEF WriteTokens, Rest
<1>3. CASE WriteEdit(p)
  BY <1>3 DEF WriteEdit, Rest
<1> QED
  BY <1>1, <1>2, <1>3

(* An edit keeps the types.                                                *)
LEMMA TypesEdit ==
  ASSUME SealInv, TypeInv, deployment' = deployment, NEW p \in Procs,
         WriteScope(p) \/ WriteTokens(p) \/ WriteEdit(p)
  PROVE  TypeInv'
<1>1. PICK f, data, c, next : EditsAs(p, f, data, c, next)
  BY EditStep
<1> USE DEF EditsAs
<1>2. IsCommand(cli[p]) /\ Shape(cli[p])
  BY DEF SealInv, CommandOK, TypeInv
<1>3. /\ c.pc = next /\ c.op = cli[p].op /\ c.file = cli[p].file /\ c.todo = cli[p].todo
      /\ c.hashes = cli[p].hashes
  BY <1>1, <1>2, GoesOn
<1>4. Shape(c)
  BY <1>1, <1>2, <1>3 DEF Shape, Steps
<1>5. \A q \in Procs : cli'[q] = cli[q] \/ cli'[q] = [cli[q] EXCEPT !.alone = FALSE] \/ Shape(cli'[q])
  BY <1>1, <1>4, OthersStay
<1>6. \E g, x : disk' = [disk EXCEPT ![g] = x] /\ x.kind \in Kinds
  <2>1. disk' = [disk EXCEPT ![f] = Content(data)] /\ Content(data).kind \in Kinds
    BY <1>1 DEF WriteFile, Content, Kinds
  <2> QED
    BY <2>1
<1> QED
  BY <1>1, <1>5, <1>6, TypesKept DEF TypeInv

(* What init, restore and set do to the next file of their list.           *)
LEMMA ListStep ==
  ASSUME SealInv, TypeInv, NEW p \in Procs, Open(p) \/ Fill(p)
  PROVE  /\ UNCHANGED <<vouched, plug, archive, gw, ops, hands, crashes>>
         /\ CommandOK(cli[p], vouched) /\ Shape(cli[p]) /\ cli[p].pc \in {"open", "fill"}
         /\ LET f == cli[p].todo[1][1]
                content == cli[p].todo[1][2]
                on == Onwards(cli[p])
                fill == [cli[p] EXCEPT !.pc = "fill"]
            IN  \/ /\ Open(p) /\ cli[p].op = "init" /\ Exists(f)
                   /\ Become(p, on) /\ UNCHANGED <<disk, manifest, unreviewed>>
                \/ Open(p) /\ f # "seal" /\ WriteFile(p, f, Truncated, fill) /\ UNCHANGED <<manifest, unreviewed>>
                \/ /\ Open(p) /\ f = "seal" /\ Become(p, fill) /\ UNCHANGED <<disk, unreviewed>>
                   /\ manifest' = [manifest EXCEPT !["root"] = NoSeal]
                \/ /\ Fill(p) /\ f # "seal" /\ WriteFile(p, f, content, on) /\ UNCHANGED manifest
                   /\ unreviewed' = unreviewed \ {f}
                \/ /\ Fill(p) /\ f = "seal" /\ Become(p, on) /\ UNCHANGED disk
                   /\ manifest' = [manifest EXCEPT !["root"] = content]
                   /\ unreviewed' = unreviewed \ {f}
<1>1. CASE Open(p)
  <2>1. UNCHANGED <<vouched, plug, archive, gw, ops, hands, crashes, unreviewed>> /\ cli[p].pc = "open"
    BY <1>1 DEF Open, Rest
  <2> QED
    BY <1>1, <2>1 DEF Open, SealInv, TypeInv
<1>2. CASE Fill(p)
  <2>1. UNCHANGED <<vouched, plug, archive, gw, ops, hands, crashes>> /\ cli[p].pc = "fill"
    BY <1>2 DEF Fill, Rest
  <2> QED
    BY <1>2, <2>1 DEF Fill, SealInv, TypeInv
<1> QED
  BY <1>1, <1>2

(* A file that is opened for writing is filled next.                       *)
LEMMA FillShape ==
  ASSUME NEW c, IsCommand(c), Shape(c), c.pc = "open", NEW d, d = [c EXCEPT !.pc = "fill"]
  PROVE  Shape(d)
<1>1. d.pc = "fill" /\ d.op = c.op /\ d.file = c.file /\ d.todo = c.todo /\ d.hashes = c.hashes
  BY GoesOn
<1> QED
  BY <1>1 DEF Shape, Steps, ListHead

(* Writing the files of a list keeps the types.                            *)
LEMMA TypesList ==
  ASSUME SealInv, TypeInv, deployment' = deployment, NEW p \in Procs, Open(p) \/ Fill(p)
  PROVE  TypeInv'
<1>1. PICK f, content, on, fill : /\ f = cli[p].todo[1][1] /\ content = cli[p].todo[1][2]
                                  /\ on = Onwards(cli[p]) /\ fill = [cli[p] EXCEPT !.pc = "fill"]
  OBVIOUS
<1>2. /\ UNCHANGED <<plug, archive, gw, hands>>
      /\ CommandOK(cli[p], vouched) /\ Shape(cli[p]) /\ cli[p].pc \in {"open", "fill"}
      /\ unreviewed' \subseteq unreviewed
      /\ \/ Become(p, on) /\ UNCHANGED <<disk, manifest>>
         \/ cli[p].pc = "open" /\ WriteFile(p, f, Truncated, fill) /\ UNCHANGED manifest
         \/ /\ cli[p].pc = "open" /\ Become(p, fill) /\ UNCHANGED disk
            /\ manifest' = [manifest EXCEPT !["root"] = NoSeal]
         \/ f # "seal" /\ WriteFile(p, f, content, on) /\ UNCHANGED manifest
         \/ /\ f = "seal" /\ Become(p, on) /\ UNCHANGED disk
            /\ manifest' = [manifest EXCEPT !["root"] = content]
  BY <1>1, ListStep DEF Open
<1>3. Shape(on)
  BY <1>1, <1>2, OnwardsShape
<1>4. cli[p].pc = "open" => Shape(fill)
  BY <1>1, <1>2, FillShape DEF CommandOK
<1>5. \A q \in Procs : cli'[q] = cli[q] \/ cli'[q] = [cli[q] EXCEPT !.alone = FALSE] \/ Shape(cli'[q])
  <2>1. \E c : Shape(c) /\ (Become(p, c) \/ \E x, y : WriteFile(p, x, y, c))
    BY <1>2, <1>3, <1>4
  <2> QED
    BY <2>1, OthersStay
<1>6. /\ f = "seal" => DOMAIN content.hashes \subseteq Files
      /\ f # "seal" => content.kind \in Kinds
  <2>1. 1 \in DOMAIN cli[p].todo /\ Entries(cli[p].todo)
    BY <1>2, RestOfList DEF Shape, CommandOK, Listed
  <2> QED
    BY <1>1, <2>1 DEF Entries, Kinds
<1>7. disk' = disk \/ \E g, x : disk' = [disk EXCEPT ![g] = x] /\ x.kind \in Kinds
  <2>1. Truncated.kind \in Kinds
    BY DEF Truncated, Kinds
  <2> QED
    BY <1>2, <1>6, <2>1 DEF WriteFile
<1>8. \/ manifest' = manifest
      \/ \E d, m : manifest' = [manifest EXCEPT ![d] = m] /\ DOMAIN m.hashes \subseteq Files
  <2>1. DOMAIN NoSeal.hashes \subseteq Files
    BY DEF NoSeal
  <2> QED
    BY <1>2, <1>6, <2>1
<1> QED
  BY <1>2, <1>5, <1>7, <1>8, TypesKept DEF TypeInv

(* The trial load of `config set`.                                         *)
LEMMA TrialStep ==
  ASSUME SealInv, TypeInv, NEW p \in Procs, persistWithValidation(p)
  PROVE  /\ cli[p].pc = "check" /\ cli[p].op = "set"
         /\ UNCHANGED <<disk, manifest, vouched, unreviewed, plug, archive, gw, ops, hands, crashes>>
         /\ \/ Loads /\ Become(p, Idle)
            \/ \E c : /\ ~Loads /\ Become(p, c) /\ c.pc = "open" /\ c.op = "undo" /\ c.hashes = cli[p].hashes
                      /\ c.todo = << <<"config", Content(cli[p].buf)>> >>
<1>1. /\ cli[p].pc = "check" /\ cli[p].op = "set" /\ IsCommand(cli[p])
      /\ UNCHANGED <<disk, manifest, vouched, unreviewed, plug, archive, gw, ops, hands, crashes>>
  BY DEF persistWithValidation, Rest, TypeInv, Shape, SealInv, CommandOK
<1>2. CASE Loads
  BY <1>1, <1>2 DEF persistWithValidation
<1>3. CASE ~Loads
  <2> DEFINE todo == << <<"config", Content(cli[p].buf)>> >>
  <2>1. Become(p, [cli[p] EXCEPT !.pc = "open", !.op = "undo", !.todo = todo])
    BY <1>3 DEF persistWithValidation
  <2> HIDE DEF todo
  <2>2. PICK c : c = [cli[p] EXCEPT !.pc = "open", !.op = "undo", !.todo = todo]
    OBVIOUS
  <2>3. c.pc = "open" /\ c.op = "undo" /\ c.todo = todo /\ c.hashes = cli[p].hashes
    BY <1>1, <2>2 DEF IsCommand
  <2> QED
    BY <1>1, <1>3, <2>1, <2>2, <2>3 DEF todo
<1> QED
  BY <1>2, <1>3

(* A list of one file.                                                     *)
LEMMA OneFile ==
  ASSUME NEW c, NEW data, c.todo = << <<"config", Content(data)>> >>
  PROVE  /\ c.todo[1][1] = "config" /\ c.todo[1][2] = Content(data) /\ DOMAIN c.todo = {1}
         /\ Tail(c.todo) = <<>> /\ Entries(c.todo)
<1>1. Content(data).kind = "file"
  BY DEF Content
<1>2. PICK x : x = Content(data) /\ x.kind = "file"
  BY <1>1
<1>3. c.todo = << <<"config", x>> >>
  BY <1>2
<1>4. c.todo[1] = <<"config", x>> /\ DOMAIN c.todo = {1} /\ Tail(c.todo) = <<>>
  BY <1>3
<1>5. Entries(c.todo)
  BY <1>2, <1>4 DEF Entries, Files, RootFiles
<1> QED
  BY <1>2, <1>4, <1>5

(* A trial load, a failed lock and an abandoned command keep the types.    *)
LEMMA TypesEnd ==
  ASSUME SealInv, TypeInv, deployment' = deployment, NEW p \in Procs,
         persistWithValidation(p) \/ LockFails(p) \/ Abandon(p)
  PROVE  TypeInv'
<1>1. UNCHANGED <<disk, manifest, unreviewed, plug, archive, gw, hands>>
  BY DEF persistWithValidation, LockFails, Abandon, Rest
<1>2. \E c : Become(p, c) /\ Shape(c)
  <2>1. CASE persistWithValidation(p)
    <3>1. CASE Become(p, Idle)
      BY <3>1, IdleShape
    <3>2. CASE ~Become(p, Idle)
      <4>1. PICK c : /\ Become(p, c) /\ c.pc = "open" /\ c.op = "undo" /\ c.hashes = cli[p].hashes
                     /\ c.todo = << <<"config", Content(cli[p].buf)>> >>
        BY <2>1, <3>2, TrialStep
      <4>2. c.todo[1][1] = "config" /\ Tail(c.todo) = <<>> /\ Entries(c.todo)
        BY <4>1, OneFile
      <4>3. DOMAIN c.hashes \subseteq Files
        BY <4>1 DEF TypeInv, Shape
      <4>4. Shape(c)
        BY <4>1, <4>2, <4>3 DEF Shape, Steps, ListHead
      <4> QED
        BY <4>1, <4>4
    <3> QED
      BY <3>1, <3>2
  <2>2. CASE LockFails(p) \/ Abandon(p)
    BY <2>2, IdleShape DEF LockFails, Abandon
  <2> QED
    BY <2>1, <2>2
<1>3. \A q \in Procs : cli'[q] = cli[q] \/ cli'[q] = [cli[q] EXCEPT !.alone = FALSE] \/ Shape(cli'[q])
  BY <1>2, OthersStay
<1> QED
  BY <1>1, <1>3, TypesKept DEF TypeInv

(* The files are hashed: which, and where the command goes.                *)
HashesAs(p, c, fs) ==
    /\ Become(p, c) /\ c.pc = "seal" /\ c.op = cli[p].op /\ c.todo = cli[p].todo
    /\ c.hashes = [f \in fs |-> disk[f]]
    /\ UNCHANGED <<disk, manifest, unreviewed, plug, archive, gw, ops, hands, crashes>>
    /\ \/ /\ cli[p].pc = "hash" /\ c.op \in {"token", "edit", "init", "restore"}
          /\ fs \subseteq DiscoverConfigFiles
          /\ Exists("config") => fs = DiscoverConfigFiles
       \/ cli[p].pc = "lock" /\ c.op = "lock" /\ Head(c.todo) = "root" /\ fs = DiscoverConfigFiles
       \/ cli[p].pc = "lock" /\ c.op = "lock" /\ Head(c.todo) = "sub" /\ fs \subseteq {"sub"}

(* Hashing for an edit and for a lock are one kind of step.                *)
LEMMA HashStep ==
  ASSUME SealInv, TypeInv, NEW p \in Procs, refreshConfigIntegrity(p) \/ LockDir(p)
  PROVE  \E c, fs : HashesAs(p, c, fs)
<1> USE DEF HashesAs
<1>1. PICK fs, prints :
         /\ HashFiles(p, fs, prints)
         /\ \/ /\ cli[p].pc = "hash" /\ fs \subseteq DiscoverConfigFiles
               /\ Exists("config") => fs = DiscoverConfigFiles
            \/ cli[p].pc = "lock" /\ Head(cli[p].todo) = "root" /\ fs = DiscoverConfigFiles
            \/ cli[p].pc = "lock" /\ Head(cli[p].todo) = "sub" /\ fs \subseteq {"sub"}
  <2>1. CASE refreshConfigIntegrity(p)
    <3> DEFINE fs == IF Exists("config") THEN DiscoverConfigFiles
                     ELSE DiscoverConfigFiles \intersect {"tokens", "webhooks"}
    <3>1. HashFiles(p, fs, <<>>) /\ cli[p].pc = "hash"
      BY <2>1 DEF refreshConfigIntegrity
    <3>2. fs \subseteq DiscoverConfigFiles /\ (Exists("config") => fs = DiscoverConfigFiles)
      OBVIOUS
    <3> HIDE DEF fs
    <3> QED
      BY <3>1, <3>2
  <2>2. CASE LockDir(p)
    <3>1. CASE Head(cli[p].todo) = "root"
      <4> DEFINE prints == [x \in Configured |-> plug[x]]
      <4>1. HashFiles(p, DiscoverConfigFiles, prints) /\ cli[p].pc = "lock"
        BY <2>2, <3>1 DEF LockDir
      <4> HIDE DEF prints
      <4> QED
        BY <3>1, <4>1
    <3>2. CASE Head(cli[p].todo) # "root"
      <4> DEFINE fs == {f \in {"sub"} : Exists(f)}
      <4>1. HashFiles(p, fs, <<>>) /\ cli[p].pc = "lock" /\ Head(cli[p].todo) = "sub"
        BY <2>2, <3>2 DEF LockDir
      <4>2. fs \subseteq {"sub"}
        OBVIOUS
      <4> HIDE DEF fs
      <4> QED
        BY <4>1, <4>2
    <3> QED
      BY <3>1, <3>2
  <2> QED
    BY <2>1, <2>2
<1> DEFINE hashes == [f \in fs |-> disk[f]]
<1>2. PICK c : c = [cli[p] EXCEPT !.pc = "seal", !.hashes = hashes, !.prints = prints]
  OBVIOUS
<1>3. Become(p, c) /\ UNCHANGED <<disk, manifest, unreviewed, plug, archive, gw, ops, hands, crashes>>
  BY <1>1, <1>2 DEF HashFiles, Rest
<1>4. Shape(cli[p]) /\ IsCommand(cli[p])
  BY DEF TypeInv, SealInv, CommandOK
<1> HIDE DEF hashes
<1>5. PICK x : x = cli[p] /\ IsCommand(x)
  BY <1>4
<1>6. c.pc = "seal" /\ c.op = x.op /\ c.todo = x.todo /\ c.hashes = hashes
  BY <1>2, <1>5 DEF IsCommand
<1>7. /\ cli[p].pc = "hash" => c.op \in {"token", "edit", "init", "restore"}
      /\ cli[p].pc = "lock" => c.op = "lock"
  BY <1>4, <1>5, <1>6 DEF Shape
<1> QED
  BY <1>1, <1>3, <1>5, <1>6, <1>7 DEF hashes

(* Hashing keeps the types.                                                *)
LEMMA TypesHash ==
  ASSUME SealInv, TypeInv, deployment' = deployment, NEW p \in Procs,
         refreshConfigIntegrity(p) \/ LockDir(p)
  PROVE  TypeInv'
<1>1. PICK c, fs : HashesAs(p, c, fs)
  BY HashStep
<1> USE DEF HashesAs
<1>2. DOMAIN c.hashes = fs /\ DiscoverConfigFiles \subseteq Files /\ "sub" \in Files
  BY <1>1 DEF DiscoverConfigFiles, Files
<1>3. Shape(cli[p])
  BY DEF TypeInv
<1>4. Shape(c)
  BY <1>1, <1>2, <1>3 DEF Shape, Steps
<1>5. \A q \in Procs : cli'[q] = cli[q] \/ cli'[q] = [cli[q] EXCEPT !.alone = FALSE] \/ Shape(cli'[q])
  BY <1>1, <1>4, OthersStay
<1> QED
  BY <1>1, <1>5, TypesKept DEF TypeInv

(* The manifest of a directory is replaced.                                *)
SealsAs(p, d, m, dir) ==
    /\ Become(p, d) /\ manifest' = [manifest EXCEPT ![dir] = m]
    /\ m.present = TRUE /\ m.hashes = cli[p].hashes
    /\ cli[p].pc = "seal"
    /\ UNCHANGED <<disk, plug, archive, gw, hands, crashes>>
    /\ unreviewed' = {f \in unreviewed :
           ~(cli[p].op = "lock" /\ f \in DOMAIN cli[p].hashes /\ cli[p].hashes[f] = disk[f])}
    /\ \/ cli[p].op # "lock" /\ dir = "root" /\ d = Idle
       \/ cli[p].op = "lock" /\ Head(cli[p].todo) = "root" /\ dir = "root" /\ d = Idle
       \/ cli[p].op = "lock" /\ Head(cli[p].todo) = "sub" /\ dir = "sub" /\ d = Idle
       \/ /\ cli[p].op = "lock" /\ Head(cli[p].todo) = "root" /\ dir = "root"
          /\ d.pc = "lock" /\ d.op = "lock" /\ d.todo = <<"sub">> /\ d.hashes = <<>>

(* A manifest is written whole.                                            *)
LEMMA SealStep ==
  ASSUME SealInv, TypeInv, NEW p \in Procs, writeChecksumsAtomic(p)
  PROVE  \E d, m, dir : SealsAs(p, d, m, dir)
<1> USE DEF SealsAs
<1> DEFINE yes == TRUE
<1>0. yes = TRUE
  OBVIOUS
<1>1. PICK m : m = [present |-> TRUE, hashes |-> cli[p].hashes, prints |-> cli[p].prints]
  OBVIOUS
<1>2. m.present = TRUE /\ m.hashes = cli[p].hashes
  BY <1>1
<1>3. PICK dir : dir = IF cli[p].op = "lock" THEN Head(cli[p].todo) ELSE "root"
  OBVIOUS
<1>4. /\ manifest' = [manifest EXCEPT ![dir] = m] /\ cli[p].pc = "seal"
      /\ UNCHANGED <<disk, plug, archive, gw, hands, crashes>>
      /\ unreviewed' = {f \in unreviewed :
                  ~(cli[p].op = "lock" /\ f \in DOMAIN cli[p].hashes /\ cli[p].hashes[f] = disk[f])}
  BY <1>1, <1>3 DEF writeChecksumsAtomic
<1>5. Shape(cli[p]) /\ IsCommand(cli[p])
  BY DEF TypeInv, SealInv, CommandOK
<1>6. CASE cli[p].op # "lock"
  <2>1. Become(p, Idle)
    BY <1>6 DEF writeChecksumsAtomic
  <2> QED
    BY <1>2, <1>3, <1>4, <1>6, <2>1
<1>7. CASE cli[p].op = "lock" /\ cli[p].todo \in {<<"root">>, <<"sub">>}
  <2>1. Len(cli[p].todo) = 1 /\ Head(cli[p].todo) \in {"root", "sub"} /\ ~(1 > 1)
    BY <1>7
  <2>2. Become(p, Idle)
    BY <2>1 DEF writeChecksumsAtomic
  <2> QED
    BY <1>2, <1>3, <1>4, <1>7, <2>1, <2>2
<1>8. CASE cli[p].op = "lock" /\ cli[p].todo = <<"root", "sub">>
  <2>1. Len(cli[p].todo) = 2 /\ Head(cli[p].todo) = "root" /\ 2 > 1 /\ Tail(cli[p].todo) = <<"sub">>
    BY <1>8
  <2>2. PICK d : d = [cli[p] EXCEPT !.pc = "lock", !.todo = Tail(@), !.hashes = <<>>, !.prints = <<>>]
    OBVIOUS
  <2>3. Become(p, d)
    BY <1>8, <2>1, <2>2 DEF writeChecksumsAtomic
  <2>4. d.pc = "lock" /\ d.op = cli[p].op /\ d.todo = Tail(cli[p].todo) /\ d.hashes = <<>>
    BY <1>5, <2>2 DEF IsCommand
  <2> QED
    BY <1>2, <1>3, <1>4, <1>8, <2>1, <2>3, <2>4
<1> QED
  BY <1>5, <1>6, <1>7, <1>8 DEF Shape

(* Writing a manifest keeps the types.                                     *)
LEMMA TypesSeal ==
  ASSUME SealInv, TypeInv, deployment' = deployment, NEW p \in Procs, writeChecksumsAtomic(p)
  PROVE  TypeInv'
<1>1. PICK d, m, dir : SealsAs(p, d, m, dir)
  BY SealStep
<1>1a. unreviewed' \subseteq unreviewed
  BY <1>1 DEF SealsAs
<1>2. DOMAIN m.hashes \subseteq Files
  BY <1>1 DEF TypeInv, Shape, SealsAs
<1>3. Shape(d)
  <2>1. CASE d = Idle
    BY <2>1, IdleShape
  <2>2. CASE d.pc = "lock" /\ d.op = "lock" /\ d.todo = <<"sub">> /\ d.hashes = <<>>
    <3>1. DOMAIN d.hashes = {}
      BY <2>2
    <3> QED
      BY <2>2, <3>1 DEF Shape, Steps
  <2> QED
    BY <1>1, <2>1, <2>2 DEF SealsAs
<1>4. \A q \in Procs : cli'[q] = cli[q] \/ cli'[q] = [cli[q] EXCEPT !.alone = FALSE] \/ Shape(cli'[q])
  BY <1>1, <1>3, OthersStay DEF SealsAs
<1> QED
  BY <1>1, <1>1a, <1>2, <1>4, TypesKept DEF TypeInv, SealsAs

(* Edits by hand, builds and the gateway.                                  *)
LEMMA TypesOthers ==
  ASSUME SealInv, TypeInv, deployment' = deployment, Operator \/ Gateway \/ UNCHANGED vars
  PROVE  TypeInv'
<1>1. ASSUME NEW f \in Files, HandEdit(f) PROVE TypeInv'
  <2> DEFINE data == disk[f].data \union HandMark(f)
  <2> HIDE DEF data
  <2>0. Content(data).kind \in Kinds
    BY DEF Content, Kinds
  <2>1. PICK x : x = Content(data) /\ x.kind \in Kinds
    BY <2>0
  <2>2. /\ disk' = [disk EXCEPT ![f] = x] /\ hands' \in Nat /\ unreviewed' \subseteq Files
        /\ UNCHANGED <<plug, manifest, archive, gw>>
        /\ \A q \in Procs : cli'[q] = [cli[q] EXCEPT !.alone = FALSE]
    BY <1>1, <2>1 DEF HandEdit, TypeInv, data
  <2> QED
    BY <2>1, <2>2, TypesKept DEF TypeInv
<1>2. ASSUME NEW x, NEW v \in {"v1", "v2", "gone"}, Rebuild(x, v) PROVE TypeInv'
  <2>1. /\ plug' = [plug EXCEPT ![x] = v] /\ hands' \in Nat
        /\ UNCHANGED <<disk, manifest, archive, gw, unreviewed>>
        /\ \A q \in Procs : cli'[q] = [cli[q] EXCEPT !.alone = FALSE]
    BY <1>2 DEF Rebuild, TypeInv
  <2> QED
    BY <2>1, TypesKept DEF TypeInv
<1>3. CASE Gateway \/ UNCHANGED vars
  <2>1. UNCHANGED <<disk, plug, manifest, archive, cli, hands, unreviewed>>
        /\ gw' \in {"down", "preflight", "up", "loaded", "reloading"}
    BY <1>3 DEF Gateway, Start, Preflight, ReloadLoads, verifyReloadIntegrity, Reloaded, Stop, GatewayOnly, vars, TypeInv
  <2> QED
    BY <2>1, TypesKept DEF TypeInv
<1> QED
  BY <1>1, <1>2, <1>3 DEF Operator

(* Every step keeps the types.                                             *)
LEMMA TypesNext ==
  ASSUME SealInv, TypeInv, [Next]_<<vars, deployment>>
  PROVE  TypeInv'
<1>0. deployment' = deployment
  BY DEF Next
<1>1. ASSUME NEW p \in Procs, Command(p) \/ CommandStep(p) \/ Abandon(p) PROVE TypeInv'
  BY <1>0, <1>1, TypesCommand, TypesEdit, TypesList, TypesEnd, TypesHash, TypesSeal DEF CommandStep
<1>2. CASE UNCHANGED <<vars, deployment>>
  BY <1>0, <1>2, TypesOthers
<1> QED
  BY <1>0, <1>1, <1>2, TypesOthers DEF Next

(* The files `config init` makes.                                          *)
InitFiles == {"config", "routes", "webhooks", "tokens"}

(* What is on disk initially: a sealed configuration, or none.             *)
LEMMA InitDisk ==
  ASSUME Init
  PROVE  /\ \/ /\ disk = [f \in Files |-> IF f \in InitFiles THEN Content({}) ELSE Absent]
               /\ manifest["root"].present = TRUE
               /\ manifest["root"].hashes = [f \in InitFiles |-> Content({})]
            \/ disk = [f \in Files |-> Absent] /\ manifest["root"] = NoSeal
         /\ manifest["sub"] = NoSeal
<1> DEFINE names == {InitOrder[i] : i \in 1..Len(InitOrder)}
           made == [f \in names |-> Content({})]
<1>1. names = InitFiles
  <2>1. InitOrder = <<"config", "routes", "webhooks", "tokens">> /\ Len(InitOrder) = 4
    BY DEF InitOrder
  <2> HIDE DEF InitOrder
  <2>2. names = {InitOrder[i] : i \in 1 .. 4}
    BY <2>1
  <2>3. /\ InitOrder[1] = "config" /\ InitOrder[2] = "routes" /\ InitOrder[3] = "webhooks"
        /\ InitOrder[4] = "tokens"
    BY <2>1
  <2>4. {InitOrder[i] : i \in 1 .. 4} = {InitOrder[1], InitOrder[2], InitOrder[3], InitOrder[4]}
    <3>1. 1 .. 4 = {1, 2, 3, 4}
      OBVIOUS
    <3> QED
      BY <3>1
  <2> QED
    BY <2>2, <2>3, <2>4 DEF InitFiles
<1>2. PICK fresh \in BOOLEAN :
          /\ disk = [f \in Files |-> IF fresh /\ f \in DOMAIN made THEN made[f] ELSE Absent]
          /\ manifest = [d \in {"root", "sub"} |->
                 IF fresh /\ d = "root" THEN [present |-> TRUE, hashes |-> made, prints |-> <<>>]
                 ELSE NoSeal]
  BY DEF Init
<1>3. DOMAIN made = InitFiles /\ \A f \in InitFiles : made[f] = Content({})
  BY <1>1
<1>3a. made = [f \in InitFiles |-> Content({})]
  BY <1>1
<1> HIDE DEF made
<1>4. CASE fresh
  <2>1. disk = [f \in Files |-> IF f \in InitFiles THEN Content({}) ELSE Absent]
    BY <1>2, <1>3, <1>4
  <2>2. PICK m : m = [present |-> TRUE, hashes |-> made, prints |-> <<>>]
    OBVIOUS
  <2>3. m.present = TRUE /\ m.hashes = made
    BY <2>2
  <2>4. manifest["root"] = m /\ manifest["sub"] = NoSeal
    BY <1>2, <1>4, <2>2
  <2> QED
    BY <1>3a, <2>1, <2>3, <2>4
<1>5. CASE ~fresh
  BY <1>2, <1>5
<1> QED
  BY <1>4, <1>5

(* The types hold initially.                                               *)
LEMMA TypesInit ==
  ASSUME Init
  PROVE  TypeInv
<1>1. disk = [f \in Files |-> disk[f]] /\ \A f \in Files : disk[f].kind \in Kinds
  <2>1. Content({}).kind \in Kinds /\ Absent.kind \in Kinds
    BY DEF Content, Absent, Kinds
  <2>2. PICK full, none : full = Content({}) /\ none = Absent
    OBVIOUS
  <2>3. \/ disk = [f \in Files |-> IF f \in InitFiles THEN full ELSE none]
        \/ disk = [f \in Files |-> none]
    BY <2>2, InitDisk
  <2> QED
    BY <2>1, <2>2, <2>3
<1>2. \A d \in {"root", "sub"} : DOMAIN manifest[d].hashes \subseteq Files
  <2>1. InitFiles \subseteq Files /\ DOMAIN NoSeal.hashes = {}
    BY DEF NoSeal, Files, RootFiles, InitFiles
  <2>2. PICK full, none : full = Content({}) /\ none = NoSeal
    OBVIOUS
  <2>3. manifest["root"].hashes = [f \in InitFiles |-> full] \/ manifest["root"] = none
    BY <2>2, InitDisk
  <2> QED
    BY <2>1, <2>2, <2>3, InitDisk
<1>3. Entries(archive)
  BY DEF Init, Entries
<1>4. \A p \in Procs : Shape(cli[p])
  BY IdleShape DEF Init
<1> QED
  BY <1>1, <1>2, <1>3, <1>4 DEF TypeInv, Init

-----------------------------------------------------------------------------
(* Commands that are run one after the other: the one that is under way.   *)
Running == IF Procs = {} THEN Idle ELSE cli[CHOOSE p \in Procs : TRUE]

Same(c, d) ==
    /\ d.pc = c.pc /\ d.op = c.op /\ d.file = c.file /\ d.buf = c.buf /\ d.todo = c.todo
    /\ d.hashes = c.hashes /\ (c = Idle => d = Idle)

(* What a step does to it, and to the files.                               *)
Steady == UNCHANGED <<disk, manifest, archive, unreviewed>> /\ (hands' = 0 => hands = 0)

StepOf(c, d) ==
    \/ Same(c, d) /\ Steady
    \/ Same(c, d) /\ \E f \in Files : HandEdit(f)
    \/ c = Idle /\ d = Idle /\ \E p : Backup(p)
    \/ c = Idle /\ Beginning(d) /\ d.hashes = <<>> /\ Steady
    \/ \E p \in Procs : cli[p] = c /\ cli'[p] = d /\ CommandStep(p)

(* In sequence there is one command at most.                               *)
LEMMA RunningIs ==
  ASSUME InSequence
  PROVE  \A p \in Procs : cli[p] = Running
BY DEF InSequence, Running

(* A run that is in sequence was so before, and its one command made the   *)
(* step.                                                                   *)
LEMMA SequenceStep ==
  ASSUME SealInv, TypeInv, [Next]_<<vars, deployment>>, InSequence'
  PROVE  InSequence /\ StepOf(Running, Running')
<1>0. deployment' = deployment
  BY DEF Next
<1>1. Procs' = Procs /\ crashes \in Nat /\ crashes' = 0 /\ \A p, q \in Procs : p = q
  BY <1>0, SameDeployment DEF InSequence, SealInv
<1>2. \A p \in Procs : ~Abandon(p)
  BY <1>1 DEF Abandon
<1>3. InSequence
  <2>1. crashes' = crashes
    BY <1>2 DEF Next, Command, TokenCreate, ScopeMutation, TokenRehash, TokenDelete, RouteMutation,
       WebhookAdd, PluginSet, Edits, ConfigInit, ConfigSet, Backup, Restore, Lock, Quiet, CommandStep,
       WriteScope, WriteTokens, WriteEdit, Open, Fill, persistWithValidation, refreshConfigIntegrity,
       LockDir, HashFiles, LockFails, writeChecksumsAtomic, Rest, Operator, HandEdit, Rebuild, Gateway,
       Start, Preflight, ReloadLoads, verifyReloadIntegrity, Reloaded, Stop, GatewayOnly, vars
  <2> QED
    BY <1>1, <2>1 DEF InSequence
<1>4. \A p \in Procs : cli[p] = Running /\ cli'[p] = Running'
  BY <1>1, <1>3, RunningIs DEF Running
<1>5. ASSUME \A p \in Procs : cli'[p] = cli[p] PROVE Same(Running, Running')
  <2>1. Running' = Running
    BY <1>1, <1>5 DEF Running
  <2> QED
    BY <2>1 DEF Same
<1>6. ASSUME \A p \in Procs : cli'[p] = [cli[p] EXCEPT !.alone = FALSE] PROVE Same(Running, Running')
  <2>1. CASE Procs = {}
    <3>1. Running = Idle /\ Running' = Idle
      BY <1>1, <2>1 DEF Running
    <3> QED
      BY <3>1 DEF Same
  <2>2. ASSUME NEW p \in Procs PROVE Same(Running, Running')
    <3>1. IsCommand(cli[p])
      BY DEF SealInv, CommandOK
    <3>2. PICK x, y : x = cli[p] /\ y = cli'[p] /\ x = Running /\ y = Running'
      BY <1>4
    <3>3. y = [x EXCEPT !.alone = FALSE] /\ IsCommand(x)
      BY <1>6, <3>1, <3>2
    <3>4. Same(x, y)
      BY <3>3, NotAlone DEF Same
    <3> QED
      BY <3>2, <3>4
  <2> QED
    BY <2>1, <2>2
<1>7. ASSUME NEW p \in Procs, Command(p) PROVE StepOf(Running, Running')
  <2>1. CASE Backup(p)
    <3>1. cli[p] = Idle /\ cli' = cli
      BY <2>1 DEF Backup, Begins
    <3>2. Running = Idle /\ Running' = Idle
      BY <1>4, <3>1
    <3> QED
      BY <2>1, <3>2 DEF StepOf
  <2>2. CASE ~Backup(p)
    <3>1. PICK d : Become(p, d) /\ d.hashes = <<>> /\ Beginning(d)
      BY <1>7, <2>2, Beginnings
    <3>2. cli[p] = Idle /\ Quiet
      BY <1>7, <2>2, Beginnings
    <3>3. Running = Idle /\ Running' = d
      BY <1>0, <1>4, <3>1, <3>2, OthersStay
    <3>4. Steady
      BY <3>2 DEF Quiet, Steady
    <3> QED
      BY <3>1, <3>3, <3>4 DEF StepOf
  <2> QED
    BY <2>1, <2>2
<1>8. ASSUME NEW p \in Procs, CommandStep(p) PROVE StepOf(Running, Running')
  BY <1>4, <1>8 DEF StepOf
<1>9. ASSUME NEW f \in Files, HandEdit(f) PROVE StepOf(Running, Running')
  <2>1. \A p \in Procs : cli'[p] = [cli[p] EXCEPT !.alone = FALSE]
    BY <1>9 DEF HandEdit
  <2> QED
    BY <1>6, <1>9, <2>1 DEF StepOf
<1>10. ASSUME NEW x, NEW v, Rebuild(x, v) PROVE StepOf(Running, Running')
  <2>1. \A p \in Procs : cli'[p] = [cli[p] EXCEPT !.alone = FALSE]
    BY <1>10 DEF Rebuild
  <2>2. Steady
    BY <1>10 DEF Rebuild, Steady, TypeInv
  <2> QED
    BY <1>6, <2>1, <2>2 DEF StepOf
<1>11. CASE Gateway \/ UNCHANGED <<vars, deployment>>
  <2>1. Steady /\ cli' = cli
    BY <1>11 DEF Gateway, Start, Preflight, ReloadLoads, verifyReloadIntegrity, Reloaded, Stop, GatewayOnly, vars, Steady
  <2>2. \A p \in Procs : cli'[p] = cli[p]
    BY <2>1
  <2>3. Same(Running, Running')
    BY <1>5, <2>2
  <2> QED
    BY <1>3, <2>1, <2>3 DEF StepOf
<1>12. StepOf(Running, Running')
  BY <1>2, <1>7, <1>8, <1>9, <1>10, <1>11 DEF Next, Operator
<1> QED
  BY <1>3, <1>12

(* Every file of a step is one of the directory.                           *)
LEMMA FilesIn ==
  /\ {"config", "routes", "tokens", "webhooks", "plugin", "sub"} \subseteq Files /\ Names \subseteq Files
  /\ RootFiles \subseteq Files
BY DEF Files, RootFiles

(* A step that writes files writes them with a content.                    *)
Written(f, x) == f \in Files /\ x.kind \in {"empty", "file"} /\ disk' = [disk EXCEPT ![f] = x]

(* A file that exists stays.                                               *)
LEMMA WritesExist ==
  ASSUME SealInv, TypeInv, deployment' = deployment, NEW f, NEW x, Written(f, x)
  PROVE  /\ f \in Files /\ Exists(f)' /\ disk'[f] = x /\ \A g \in Files : g # f => disk'[g] = disk[g]
         /\ \A g \in Files : Exists(g) => Exists(g)'
         /\ \A g \in Files : g # f => (Exists(g)' <=> Exists(g))
BY DEF TypeInv, Exists, Written

(* An edit writes one file, which is not the root file.                    *)
LEMMA EditWritten ==
  ASSUME SealInv, TypeInv, NEW p \in Procs, NEW f, NEW data, NEW c, NEW next, EditsAs(p, f, data, c, next)
  PROVE  Written(f, Content(data)) /\ f # "config"
<1>1. f \in Files /\ f # "config"
  <2>1. Shape(cli[p])
    BY DEF TypeInv
  <2>2. "config" \notin Names
    BY ConfigSealAssumption DEF SealInv, Names
  <2> QED
    BY <2>1, <2>2, FilesIn DEF EditsAs, Shape
<1>2. Content(data).kind = "file"
  BY DEF Content
<1> QED
  BY <1>1, <1>2 DEF Written, EditsAs, WriteFile

(* An edit by hand writes one file.                                        *)
LEMMA HandWritten ==
  ASSUME SealInv, TypeInv, NEW f \in Files, HandEdit(f)
  PROVE  Written(f, Content(disk[f].data \union HandMark(f)))
<1> DEFINE data == disk[f].data \union HandMark(f)
<1> HIDE DEF data
<1>1. Content(data).kind = "file"
  BY DEF Content
<1>2. disk' = [disk EXCEPT ![f] = Content(data)]
  BY DEF HandEdit, data
<1>3. Written(f, Content(data))
  BY <1>1, <1>2 DEF Written
<1> QED
  BY <1>3 DEF data

(* The next file of a list, and where the command goes.                    *)
Goes(c, d) ==
    \/ c.op = "undo" /\ Tail(c.todo) = <<>> /\ d = Idle
    \/ /\ d.todo = Tail(c.todo) /\ d.op = c.op /\ d.buf = c.buf /\ d.hashes = c.hashes
       /\ \/ Tail(c.todo) # <<>> /\ d.pc = "open"
          \/ Tail(c.todo) = <<>> /\ c.op = "set" /\ d.pc = "check"
          \/ Tail(c.todo) = <<>> /\ c.op \notin {"set", "undo"} /\ d.pc = "hash"
Stays(c, d) ==
    d.pc = "fill" /\ d.op = c.op /\ d.buf = c.buf /\ d.todo = c.todo /\ d.hashes = c.hashes

ListsAs(c, d) ==
    /\ c.pc \in {"open", "fill"} /\ c.op \in {"init", "restore", "set", "undo"}
    /\ IsSeq(c.todo) /\ c.todo # <<>> /\ Entries(c.todo) /\ UNCHANGED <<archive, hands>>
    /\ c.op \in {"set", "undo"} => ListHead(c) = "config" /\ Tail(c.todo) = <<>>
    /\ \/ /\ c.pc = "open" /\ c.op = "init" /\ Exists(ListHead(c)) /\ Goes(c, d)
          /\ UNCHANGED <<disk, manifest, unreviewed>>
       \/ /\ c.pc = "open" /\ ListHead(c) # "seal" /\ Written(ListHead(c), Truncated) /\ Stays(c, d)
          /\ UNCHANGED <<manifest, unreviewed>>
       \/ c.pc = "open" /\ ListHead(c) = "seal" /\ Stays(c, d) /\ UNCHANGED <<disk, unreviewed>>
       \/ /\ c.pc = "fill" /\ ListHead(c) # "seal" /\ Written(ListHead(c), c.todo[1][2]) /\ Goes(c, d)
          /\ UNCHANGED manifest /\ unreviewed' = unreviewed \ {ListHead(c)}
       \/ /\ c.pc = "fill" /\ ListHead(c) = "seal" /\ Goes(c, d) /\ UNCHANGED disk
          /\ unreviewed' = unreviewed \ {ListHead(c)}

(* The steps of writing a list, told by the command before and after.      *)
LEMMA ListWritten ==
  ASSUME SealInv, TypeInv, deployment' = deployment, NEW p \in Procs, Open(p) \/ Fill(p)
  PROVE  ListsAs(cli[p], cli'[p])
<1>1. PICK f, x, on, fill : /\ f = cli[p].todo[1][1] /\ x = cli[p].todo[1][2]
                            /\ on = Onwards(cli[p]) /\ fill = [cli[p] EXCEPT !.pc = "fill"]
  OBVIOUS
<1>2. /\ UNCHANGED <<archive, hands>>
      /\ CommandOK(cli[p], vouched) /\ Shape(cli[p]) /\ cli[p].pc \in {"open", "fill"}
      /\ \/ /\ Open(p) /\ cli[p].op = "init" /\ Exists(f)
            /\ Become(p, on) /\ UNCHANGED <<disk, manifest, unreviewed>>
         \/ Open(p) /\ f # "seal" /\ WriteFile(p, f, Truncated, fill) /\ UNCHANGED <<manifest, unreviewed>>
         \/ Open(p) /\ f = "seal" /\ Become(p, fill) /\ UNCHANGED <<disk, unreviewed>>
         \/ /\ Fill(p) /\ f # "seal" /\ WriteFile(p, f, x, on) /\ UNCHANGED manifest
            /\ unreviewed' = unreviewed \ {f}
         \/ /\ Fill(p) /\ f = "seal" /\ Become(p, on) /\ UNCHANGED disk
            /\ unreviewed' = unreviewed \ {f}
  BY <1>1, ListStep
<1>3. /\ IsCommand(cli[p]) /\ IsSeq(cli[p].todo) /\ cli[p].todo # <<>> /\ Entries(cli[p].todo)
      /\ cli[p].op \in {"init", "restore", "set", "undo"}
      /\ cli[p].op \in {"set", "undo"} => ListHead(cli[p]) = "config" /\ Tail(cli[p].todo) = <<>>
  BY <1>2 DEF CommandOK, Listed, Shape
<1>4. (Open(p) => cli[p].pc = "open") /\ (Fill(p) => cli[p].pc = "fill")
  BY DEF Open, Fill
<1>5. Goes(cli[p], on)
  BY <1>1, <1>3, AfterFile DEF Goes
<1>6. Stays(cli[p], fill)
  BY <1>1, <1>3, GoesOn DEF Stays
<1>7. f # "seal" => f \in Files /\ x.kind \in {"empty", "file"}
  <2>1. 1 \in DOMAIN cli[p].todo
    BY <1>3, RestOfList
  <2> QED
    BY <1>1, <1>3, <2>1 DEF Entries
<1>8. Truncated.kind = "empty"
  BY DEF Truncated
<1>9. ASSUME NEW d, Become(p, d) \/ \E g, y : WriteFile(p, g, y, d) PROVE cli'[p] = d
  BY <1>9, OthersStay
<1>10. f = ListHead(cli[p]) /\ x = cli[p].todo[1][2]
  BY <1>1 DEF ListHead
<1> HIDE DEF Truncated
<1>11. ASSUME NEW g, NEW y, NEW d, WriteFile(p, g, y, d) PROVE disk' = [disk EXCEPT ![g] = y]
  BY <1>11 DEF WriteFile
<1>12. CASE Open(p) /\ cli[p].op = "init" /\ Exists(f) /\ Become(p, on) /\ UNCHANGED <<disk, manifest, unreviewed>>
  BY <1>2, <1>3, <1>4, <1>5, <1>9, <1>10, <1>12 DEF ListsAs
<1>13. CASE Open(p) /\ f # "seal" /\ WriteFile(p, f, Truncated, fill) /\ UNCHANGED <<manifest, unreviewed>>
  <2>1. Written(f, Truncated)
    BY <1>7, <1>8, <1>11, <1>13 DEF Written
  <2> QED
    BY <1>2, <1>3, <1>4, <1>6, <1>9, <1>10, <1>13, <2>1 DEF ListsAs
<1>14. CASE Open(p) /\ f = "seal" /\ Become(p, fill) /\ UNCHANGED <<disk, unreviewed>>
  BY <1>2, <1>3, <1>4, <1>6, <1>9, <1>10, <1>14 DEF ListsAs
<1>15. CASE /\ Fill(p) /\ f # "seal" /\ WriteFile(p, f, x, on) /\ UNCHANGED manifest
            /\ unreviewed' = unreviewed \ {f}
  <2>1. Written(f, x)
    BY <1>7, <1>11, <1>15 DEF Written
  <2> QED
    BY <1>2, <1>3, <1>4, <1>5, <1>9, <1>10, <1>15, <2>1 DEF ListsAs
<1>16. CASE Fill(p) /\ f = "seal" /\ Become(p, on) /\ UNCHANGED disk /\ unreviewed' = unreviewed \ {f}
  BY <1>2, <1>3, <1>4, <1>5, <1>9, <1>10, <1>16 DEF ListsAs
<1> QED
  BY <1>2, <1>12, <1>13, <1>14, <1>15, <1>16

(* The other steps of a command.                                           *)
Aside == UNCHANGED <<archive, hands>>

EditTo(c, d) ==
    /\ Aside /\ UNCHANGED <<manifest, unreviewed>> /\ c.op \in {"token", "edit"}
    /\ d.op = c.op /\ d.file = c.file /\ d.buf = c.buf
    /\ \/ /\ c.pc = "scope" /\ d.pc = "token" /\ c.file \in Names
          /\ \E data : Written(c.file, Content(data))
       \/ /\ c.pc = "token" /\ d.pc = "hash" /\ c.file \in Names
          /\ \E data : /\ Written("tokens", Content(data))
                       /\ data = {e \in c.buf : e.name # c.file}
                                    \union {[name |-> c.file, hash |-> disk[c.file]]}
       \/ /\ c.pc = "write" /\ d.pc = "hash" /\ c.file \in {"tokens", "routes", "webhooks", "plugin"}
          /\ Written(c.file, Content(c.buf))

TrialTo(c, d) ==
    /\ c.pc = "check" /\ c.op = "set" /\ Aside /\ UNCHANGED <<disk, manifest, unreviewed>>
    /\ \/ Loads /\ d = Idle
       \/ d.pc = "open" /\ d.op = "undo" /\ d.todo = << <<"config", Content(c.buf)>> >>

HashTo(c, d) ==
    /\ Aside /\ UNCHANGED <<disk, manifest, unreviewed>>
    /\ c.pc \in {"hash", "lock"} /\ d.pc = "seal" /\ d.op = c.op /\ d.todo = c.todo
    /\ d.op \in {"token", "edit", "init", "restore", "lock"}
    /\ Exists("config") /\ ~(d.op = "lock" /\ Head(d.todo) = "sub") =>
           d.hashes = [f \in DiscoverConfigFiles |-> disk[f]]

FailTo(c, d) ==
    c.pc = "lock" /\ c.op = "lock" /\ d = Idle /\ Aside /\ UNCHANGED <<disk, manifest, unreviewed>>

SealTo(c, d) ==
    /\ c.pc = "seal" /\ Aside /\ UNCHANGED disk
    /\ d = Idle \/ (d.pc = "lock" /\ d.op = "lock" /\ d.todo = <<"sub">>)
    /\ unreviewed' = {f \in unreviewed :
           ~(c.op = "lock" /\ f \in DOMAIN c.hashes /\ c.hashes[f] = disk[f])}
    /\ \/ /\ ~(c.op = "lock" /\ Head(c.todo) = "sub")
          /\ manifest'["root"].present = TRUE /\ manifest'["root"].hashes = c.hashes
       \/ /\ c.op = "lock" /\ Head(c.todo) = "sub" /\ DOMAIN c.hashes \subseteq {"sub"}
          /\ manifest'["root"] = manifest["root"]

(* The steps of a command, told by the command before and after.           *)
LEMMA CommandSteps ==
  ASSUME SealInv, TypeInv, deployment' = deployment, NEW p \in Procs, CommandStep(p),
         NEW c, NEW d, c = cli[p], d = cli'[p]
  PROVE  EditTo(c, d) \/ ListsAs(c, d) \/ TrialTo(c, d) \/ HashTo(c, d) \/ FailTo(c, d) \/ SealTo(c, d)
<1>0. IsCommand(c) /\ Shape(c)
  BY DEF SealInv, TypeInv, CommandOK
<1>1. ASSUME NEW x, Become(p, x) \/ \E g, y : WriteFile(p, g, y, x) PROVE d = x
  BY <1>1, OthersStay
<1>2. CASE WriteScope(p) \/ WriteTokens(p) \/ WriteEdit(p)
  <2>1. PICK f, data, x, next : EditsAs(p, f, data, x, next)
    BY <1>2, EditStep
  <2>2. d = x /\ x = [c EXCEPT !.pc = next]
    BY <1>1, <2>1 DEF EditsAs
  <2>3. d.pc = next /\ d.op = c.op /\ d.file = c.file /\ d.buf = c.buf
    BY <1>0, <2>2, GoesOn
  <2>4. Written(f, Content(data))
    BY <2>1, EditWritten
  <2>5. /\ UNCHANGED <<manifest, unreviewed>> /\ Aside
        /\ \/ c.pc = "scope" /\ f = c.file /\ next = "token"
           \/ /\ c.pc = "token" /\ f = "tokens" /\ next = "hash"
              /\ data = {e \in c.buf : e.name # c.file} \union {[name |-> c.file, hash |-> disk[c.file]]}
           \/ c.pc = "write" /\ f = c.file /\ data = c.buf /\ next = "hash"
    BY <2>1 DEF EditsAs, Aside
  <2>6. /\ c.op \in {"token", "edit"} /\ (c.pc \in {"scope", "token"} => c.file \in Names)
        /\ (c.pc = "write" => c.file \in {"tokens", "routes", "webhooks", "plugin"})
    BY <1>0, <2>5 DEF Shape
  <2>7. CASE c.pc = "scope"
    BY <2>3, <2>4, <2>5, <2>6, <2>7 DEF EditTo
  <2>8. CASE c.pc = "token"
    <3>1. d.pc = "hash" /\ f = "tokens" /\ data = {e \in c.buf : e.name # c.file} \union {[name |-> c.file, hash |-> disk[c.file]]}
      BY <2>3, <2>5, <2>8
    <3>2. \E data1 : /\ Written("tokens", Content(data1))
                     /\ data1 = {e \in c.buf : e.name # c.file}
                                    \union {[name |-> c.file, hash |-> disk[c.file]]}
      BY <2>4, <3>1
    <3> QED
      BY <2>3, <2>5, <2>6, <2>8, <3>1, <3>2 DEF EditTo
  <2>9. CASE c.pc = "write"
    BY <2>3, <2>4, <2>5, <2>6, <2>9 DEF EditTo
  <2> QED
    BY <2>5, <2>7, <2>8, <2>9
<1>3. CASE Open(p) \/ Fill(p)
  BY <1>3, ListWritten
<1>4. CASE persistWithValidation(p)
  <2>1. c.pc = "check" /\ c.op = "set" /\ Aside /\ UNCHANGED <<disk, manifest, unreviewed>>
    BY <1>4, TrialStep DEF Aside
  <2>2. CASE Loads /\ Become(p, Idle)
    BY <1>1, <2>1, <2>2 DEF TrialTo
  <2>3. CASE ~(Loads /\ Become(p, Idle))
    <3>1. PICK x : /\ Become(p, x) /\ x.pc = "open" /\ x.op = "undo"
                   /\ x.todo = << <<"config", Content(c.buf)>> >>
      BY <1>4, <2>3, TrialStep
    <3>2. d = x
      BY <1>1, <3>1
    <3> QED
      BY <2>1, <3>1, <3>2 DEF TrialTo
  <2> QED
    BY <2>2, <2>3
<1>5. CASE refreshConfigIntegrity(p) \/ LockDir(p)
  <2>1. PICK x, fs : HashesAs(p, x, fs)
    BY <1>5, HashStep
  <2>2. d = x
    BY <1>1, <2>1 DEF HashesAs
  <2> QED
    BY <2>1, <2>2 DEF HashesAs, HashTo, Aside
<1>6. CASE LockFails(p)
  <2>1. Become(p, Idle) /\ c.pc = "lock" /\ Aside /\ UNCHANGED <<disk, manifest, unreviewed>>
    BY <1>6 DEF LockFails, Aside, Rest
  <2>2. d = Idle /\ c.op = "lock"
    BY <1>0, <1>1, <2>1 DEF Shape
  <2> QED
    BY <2>1, <2>2 DEF FailTo
<1>7. CASE writeChecksumsAtomic(p)
  <2>1. PICK x, m, dir : SealsAs(p, x, m, dir)
    BY <1>7, SealStep
  <2>2. d = x /\ Aside
    BY <1>1, <2>1 DEF SealsAs, Aside
  <2>3. manifest = [i \in {"root", "sub"} |-> manifest[i]]
    BY DEF SealInv
  <2>4. /\ d = Idle \/ (d.pc = "lock" /\ d.op = "lock" /\ d.todo = <<"sub">>)
        /\ c.pc = "seal" /\ UNCHANGED disk
        /\ unreviewed' = {f \in unreviewed :
               ~(c.op = "lock" /\ f \in DOMAIN c.hashes /\ c.hashes[f] = disk[f])}
    BY <2>1, <2>2 DEF SealsAs
  <2>5. CASE c.op = "lock" /\ Head(c.todo) = "sub"
    <3>1. DOMAIN c.hashes \subseteq {"sub"}
      BY <1>0, <2>4, <2>5 DEF Shape
    <3>2. dir = "sub"
      BY <2>1, <2>5 DEF SealsAs
    <3>3. manifest'["root"] = manifest["root"]
      BY <2>1, <2>3, <3>2 DEF SealsAs
    <3> QED
      BY <2>2, <2>4, <2>5, <3>1, <3>3 DEF SealTo
  <2>6. CASE ~(c.op = "lock" /\ Head(c.todo) = "sub")
    <3>2. dir = "root"
      BY <2>1, <2>6 DEF SealsAs
    <3>3. manifest'["root"].present = TRUE /\ manifest'["root"].hashes = c.hashes
      BY <2>1, <2>3, <3>2 DEF SealsAs
    <3> QED
      BY <2>2, <2>4, <2>6, <3>3 DEF SealTo
  <2> QED
    BY <2>5, <2>6
<1> QED
  BY <1>2, <1>3, <1>4, <1>5, <1>6, <1>7 DEF CommandStep

-----------------------------------------------------------------------------
(* config.yaml exists once anything has been written or archived.          *)
There(c) ==
    \/ Exists("config")
    \/ archive = <<>> /\ (c = Idle \/ (c.op = "init" /\ c.pc = "open" /\ ListHead(c) = "config"))

(* The root file exists from the first init or restore on.                 *)
LEMMA ThereStep ==
  ASSUME SealInv, TypeInv, deployment' = deployment, NEW c, NEW d, There(c), StepOf(c, d)
  PROVE  There(d)'
<1>0. Idle.pc = "idle" /\ "config" \in Files
  BY FilesIn DEF Idle
<1>1. ASSUME NEW f, NEW x, Written(f, x), Exists("config") \/ f = "config" PROVE Exists("config")'
  BY <1>0, <1>1, WritesExist
<1>2. ASSUME UNCHANGED disk, Exists("config") PROVE There(d)'
  BY <1>2 DEF There, Exists
<1>3. CASE Same(c, d) /\ Steady
  <2>1. CASE Exists("config")
    BY <1>2, <1>3, <2>1 DEF Steady
  <2>2. CASE ~Exists("config")
    BY <1>3, <2>2 DEF There, Exists, Same, Steady, ListHead
  <2> QED
    BY <2>1, <2>2
<1>4. CASE \E f \in Files : HandEdit(f)
  <2>1. PICK f \in Files : HandEdit(f)
    BY <1>4
  <2>2. Exists("config")
    BY <2>1 DEF HandEdit
  <2> QED
    BY <1>1, <2>1, <2>2, HandWritten DEF There
<1>5. CASE c = Idle /\ d = Idle /\ \E p : Backup(p)
  <2>1. Exists("config") /\ UNCHANGED disk
    BY <1>5 DEF Backup
  <2> QED
    BY <1>2, <2>1
<1>6. CASE c = Idle /\ Beginning(d) /\ d.hashes = <<>> /\ Steady
  <2>1. CASE Exists("config")
    BY <1>2, <1>6, <2>1 DEF Steady
  <2>2. CASE ~Exists("config")
    <3>1. BeginsInit(d)
      <4>1. archive = <<>>
        BY <2>2 DEF There
      <4> QED
        BY <1>6, <2>2, <4>1 DEF Beginning, BeginsToken, BeginsEdit, BeginsSet, BeginsRestore, BeginsLock,
           Loads, LoadsForLock
    <3>2. ListHead(d) = "config"
      BY <3>1, InitListed DEF BeginsInit, ListHead
    <3> QED
      BY <1>6, <2>2, <3>1, <3>2 DEF There, BeginsInit, Steady
  <2> QED
    BY <2>1, <2>2
<1>7. ASSUME NEW p \in Procs, cli[p] = c, cli'[p] = d, CommandStep(p) PROVE There(d)'
  <2>1. EditTo(c, d) \/ ListsAs(c, d) \/ TrialTo(c, d) \/ HashTo(c, d) \/ FailTo(c, d) \/ SealTo(c, d)
    BY <1>7, CommandSteps
  <2>2. CASE Exists("config")
    <3>1. UNCHANGED disk \/ \E f, x : Written(f, x)
      BY <2>1 DEF EditTo, ListsAs, TrialTo, HashTo, FailTo, SealTo
    <3>2. Exists("config")'
      BY <1>1, <2>2, <3>1 DEF Exists
    <3> QED
      BY <3>2 DEF There
  <2>3. CASE ~Exists("config")
    <3>1. c.pc \in {"idle", "open"} /\ (c.pc = "open" => ListHead(c) = "config")
      BY <1>0, <2>3 DEF There
    <3>2. ListsAs(c, d) /\ c.pc = "open" /\ ListHead(c) = "config"
      BY <2>1, <3>1 DEF EditTo, ListsAs, TrialTo, HashTo, FailTo, SealTo
    <3>3. Written("config", Truncated)
      BY <2>3, <3>2 DEF ListsAs
    <3>4. Exists("config")'
      BY <1>1, <3>3
    <3> QED
      BY <3>4 DEF There
  <2> QED
    BY <2>2, <2>3
<1> QED
  BY <1>3, <1>4, <1>5, <1>6, <1>7 DEF StepOf

(* The manifest is that of the files unless a command is under way that    *)
(* has still to hash, and what it has hashed the files are still.          *)
Calm(c) == c.op \in {"none", "set", "undo", "lock"}
SealedFiles == \A f \in DiscoverConfigFiles \ ({"config"} \union unreviewed) : IsSealed(f)
HashedFiles(c) == \A f \in DiscoverConfigFiles \ unreviewed : f \in DOMAIN c.hashes /\ c.hashes[f] = disk[f]
Sealing(c) ==
    /\ Calm(c) => SealedFiles
    /\ c.pc = "seal" /\ ~(c.op = "lock" /\ Head(c.todo) = "sub") => HashedFiles(c)

(* The files of the root directory are sealed by its manifest.             *)
LEMMA RootSealed ==
  ASSUME SealInv
  PROVE  \A f \in RootFiles : /\ f # "sub"
                              /\ IsSealed(f) <=> /\ manifest["root"].present
                                                 /\ f \in DOMAIN manifest["root"].hashes
                                                 /\ manifest["root"].hashes[f] = disk[f]
<1>1. "sub" \notin Names
  BY ConfigSealAssumption DEF SealInv, Names
<1>2. "sub" \notin RootFiles
  BY <1>1 DEF RootFiles
<1> QED
  BY <1>2 DEF IsSealed, DirOf

(* A file that is written does not count if it is not sealed.              *)
LEMMA OthersSealed ==
  ASSUME SealInv, TypeInv, deployment' = deployment, manifest' = manifest, NEW g, NEW x, Written(g, x),
         SealedFiles, g \in {"config"} \union unreviewed', unreviewed \subseteq unreviewed' \union {"config"}
  PROVE  SealedFiles'
<1>0. RootFiles' = RootFiles
  BY SameNames
<1> SUFFICES ASSUME NEW f \in RootFiles, Exists(f)', f # "config", f \notin unreviewed'
             PROVE  IsSealed(f)'
  BY <1>0 DEF SealedFiles, DiscoverConfigFiles
<1>1. f # g /\ f \in Files /\ f \notin unreviewed
  BY FilesIn
<1>2. disk'[f] = disk[f] /\ Exists(f)
  BY <1>1, WritesExist
<1>3. IsSealed(f)
  BY <1>1, <1>2 DEF SealedFiles, DiscoverConfigFiles
<1> QED
  BY <1>2, <1>3 DEF IsSealed, DirOf

(* A step that writes nothing leaves what is sealed.                       *)
LEMMA SameSealed ==
  ASSUME deployment' = deployment, UNCHANGED <<disk, manifest, unreviewed>>
  PROVE  (SealedFiles' <=> SealedFiles) /\ \A c : HashedFiles(c)' <=> HashedFiles(c)
<1>0. RootFiles' = RootFiles
  BY SameNames
<1>1. DiscoverConfigFiles' = DiscoverConfigFiles
  BY <1>0 DEF DiscoverConfigFiles, Exists
<1> QED
  BY <1>1 DEF SealedFiles, HashedFiles, IsSealed, DirOf

(* What is sealed, or about to be, is what is on disk.                     *)
LEMMA SealingStep ==
  ASSUME SealInv, TypeInv, deployment' = deployment, NEW c, NEW d, There(c), Sealing(c), StepOf(c, d)
  PROVE  Sealing(d)'
<1>0. Idle.pc = "idle" /\ Idle.op = "none" /\ "config" \in Files /\ RootFiles' = RootFiles
  BY FilesIn, SameNames DEF Idle
<1>1. ASSUME UNCHANGED <<disk, manifest, unreviewed>>, Calm(d) => Calm(c), d.pc # "seal" PROVE Sealing(d)'
  BY <1>1, SameSealed DEF Sealing, Calm
<1>2. CASE Same(c, d) /\ Steady
  <2>1. UNCHANGED <<disk, manifest, unreviewed>> /\ Same(c, d)
    BY <1>2 DEF Steady
  <2> QED
    BY <2>1, SameSealed DEF Sealing, Calm, Same, HashedFiles
<1>3. CASE Same(c, d) /\ \E f \in Files : HandEdit(f)
  <2>1. PICK f \in Files : HandEdit(f)
    BY <1>3
  <2>2. PICK x : Written(f, x)
    BY <2>1, HandWritten
  <2>3. unreviewed' = unreviewed \union {f} /\ manifest' = manifest
    BY <2>1 DEF HandEdit
  <2>4. SealedFiles => SealedFiles'
    BY <2>2, <2>3, OthersSealed
  <2>5. HashedFiles(c) => HashedFiles(d)'
    <3> SUFFICES ASSUME HashedFiles(c), NEW g \in RootFiles, Exists(g)', g # f, g \notin unreviewed
                 PROVE  g \in DOMAIN d.hashes /\ d.hashes[g] = disk'[g]
      BY <1>0, <2>3 DEF HashedFiles, DiscoverConfigFiles
    <3>1. g \in Files /\ disk'[g] = disk[g] /\ Exists(g)
      BY <2>2, WritesExist, FilesIn
    <3>2. g \in DOMAIN c.hashes /\ c.hashes[g] = disk[g]
      BY <3>1 DEF HashedFiles, DiscoverConfigFiles
    <3> QED
      BY <1>3, <3>1, <3>2 DEF Same
  <2> QED
    BY <1>3, <2>4, <2>5 DEF Sealing, Calm, Same
<1>4. CASE c = Idle /\ d = Idle /\ \E p : Backup(p)
  <2>1. UNCHANGED <<disk, manifest, unreviewed>>
    BY <1>4 DEF Backup
  <2> QED
    BY <1>0, <1>1, <1>4, <2>1
<1>5. CASE c = Idle /\ Beginning(d) /\ d.hashes = <<>> /\ Steady
  <2>1. d.pc # "seal" /\ Calm(c)
    BY <1>0, <1>5 DEF Beginning, BeginsToken, BeginsEdit, BeginsInit, BeginsSet, BeginsRestore, BeginsLock, Calm
  <2> QED
    BY <1>1, <1>5, <2>1 DEF Steady
<1>6. ASSUME NEW p \in Procs, cli[p] = c, cli'[p] = d, CommandStep(p) PROVE Sealing(d)'
  <2>1. EditTo(c, d) \/ ListsAs(c, d) \/ TrialTo(c, d) \/ HashTo(c, d) \/ FailTo(c, d) \/ SealTo(c, d)
    BY <1>6, CommandSteps
  <2>2. CASE EditTo(c, d)
    BY <2>2 DEF EditTo, Sealing, Calm
  <2>3. CASE ListsAs(c, d)
    <3>1. d.pc # "seal"
      BY <1>0, <2>3 DEF ListsAs, Goes, Stays
    <3>2. CASE c.op \in {"init", "restore"}
      <4>1. d.op = c.op
        BY <2>3, <3>2 DEF ListsAs, Goes, Stays
      <4> QED
        BY <3>1, <3>2, <4>1 DEF Sealing, Calm
    <3>3. CASE c.op \in {"set", "undo"}
      <4>1. SealedFiles /\ ListHead(c) = "config"
        BY <2>3, <3>3 DEF Sealing, Calm, ListsAs
      <4>2. /\ manifest' = manifest /\ \E x : Written("config", x)
            /\ unreviewed' = unreviewed \/ unreviewed' = unreviewed \ {"config"}
        BY <2>3, <3>3, <4>1 DEF ListsAs
      <4>3. SealedFiles'
        BY <4>1, <4>2, OthersSealed
      <4> QED
        BY <3>1, <4>3 DEF Sealing
    <3> QED
      BY <2>3, <3>2, <3>3 DEF ListsAs
  <2>4. CASE TrialTo(c, d)
    BY <1>0, <1>1, <2>4 DEF TrialTo, Calm
  <2>5. CASE HashTo(c, d)
    <3>1. Exists("config")
      BY <1>0, <2>5 DEF There, HashTo
    <3>2. UNCHANGED <<disk, manifest, unreviewed>> /\ d.op = c.op
      BY <2>5 DEF HashTo
    <3>3. Calm(d) => SealedFiles'
      BY <3>2, SameSealed DEF Sealing, Calm
    <3>4. ~(d.op = "lock" /\ Head(d.todo) = "sub") => HashedFiles(d)
      <4>1. ~(d.op = "lock" /\ Head(d.todo) = "sub") => d.hashes = [f \in DiscoverConfigFiles |-> disk[f]]
        BY <2>5, <3>1 DEF HashTo
      <4> QED
        BY <4>1 DEF HashedFiles
    <3> QED
      BY <3>2, <3>3, <3>4, SameSealed DEF Sealing, Calm
  <2>6. CASE FailTo(c, d)
    BY <1>0, <1>1, <2>6 DEF FailTo, Calm
  <2>7. CASE SealTo(c, d)
    <3>1. d.pc # "seal" /\ UNCHANGED disk
      BY <1>0, <2>7 DEF SealTo
    <3>2. SealInv'
      BY <1>6, Seals, CommandBegins, EditWrites, OpenFill, Endings, Hashes DEF CommandStep
    <3>3. ASSUME NEW f \in RootFiles, Exists(f)', f # "config", f \notin unreviewed' PROVE IsSealed(f)'
      <4>1. f # "sub" /\ f \in DiscoverConfigFiles
        BY <3>1, <3>3, RootSealed DEF DiscoverConfigFiles, Exists
      <4>2. CASE ~(c.op = "lock" /\ Head(c.todo) = "sub")
        <5>1. manifest'["root"].present = TRUE /\ manifest'["root"].hashes = c.hashes
          BY <2>7, <4>2 DEF SealTo
        <5>2. f \in DOMAIN c.hashes /\ c.hashes[f] = disk[f]
          BY <2>7, <3>3, <4>1, <4>2 DEF SealTo, Sealing, HashedFiles
        <5> QED
          BY <3>1, <4>1, <5>1, <5>2 DEF IsSealed, DirOf
      <4>3. CASE c.op = "lock" /\ Head(c.todo) = "sub"
        <5>1. manifest'["root"] = manifest["root"] /\ DOMAIN c.hashes \subseteq {"sub"}
          BY <2>7, <4>3 DEF SealTo
        <5>2. f \notin unreviewed /\ SealedFiles
          BY <2>7, <3>3, <4>1, <4>3, <5>1 DEF SealTo, Sealing, Calm
        <5>3. IsSealed(f)
          BY <3>3, <4>1, <5>2 DEF SealedFiles
        <5> QED
          BY <3>1, <4>1, <5>1, <5>3 DEF IsSealed, DirOf
      <4> QED
        BY <4>2, <4>3
    <3>4. SealedFiles'
      BY <1>0, <3>3 DEF SealedFiles, DiscoverConfigFiles
    <3> QED
      BY <3>1, <3>4 DEF Sealing
  <2> QED
    BY <2>1, <2>2, <2>3, <2>4, <2>5, <2>6, <2>7
<1> QED
  BY <1>2, <1>3, <1>4, <1>5, <1>6 DEF StepOf

-----------------------------------------------------------------------------
(* What is in config.yaml, in the archive and on the way back is valid;    *)
(* only what a `config set` tries may not be, until it is taken back.      *)
Valid(x) == "bad" \notin x.data
ValidList(s) == \A i \in DOMAIN s : s[i][1] = "config" => Valid(s[i][2])
Trying(c) == c.pc = "check" \/ (c.op = "undo" /\ c.pc = "open")
ValidNow(c) ==
    /\ ValidList(archive)
    /\ c.op = "set" => "bad" \notin c.buf
    /\ c.pc \in {"open", "fill"} /\ c.op # "set" => ValidList(c.todo)
    /\ ~Trying(c) => NoBadValue

(* An empty file loads.                                                    *)
LEMMA ValidEmpty == Valid(Truncated) /\ Valid(Content({}))
BY DEF Valid, Truncated, Content

(* The rest of a list of contents that load.                               *)
LEMMA ValidRest ==
  ASSUME NEW s, IsSeq(s), s # <<>>, ValidList(s)
  PROVE  ValidList(Tail(s)) /\ (s[1][1] = "config" => Valid(s[1][2]))
<1>1. PICK t : t = Tail(s)
  OBVIOUS
<1>2. 1 \in DOMAIN s /\ \A i \in DOMAIN t : i + 1 \in DOMAIN s /\ t[i] = s[i + 1]
  BY <1>1, RestOfList
<1>3. ValidList(t)
  BY <1>2 DEF ValidList
<1> QED
  BY <1>1, <1>2, <1>3 DEF ValidList

(* The root file on disk loads, or is about to be replaced by one that     *)
(* does.                                                                   *)
LEMMA ValidStep ==
  ASSUME SealInv, TypeInv, deployment' = deployment, NEW c, NEW d, ValidNow(c), StepOf(c, d)
  PROVE  ValidNow(d)'
<1>0. Idle.pc = "idle" /\ Idle.op = "none" /\ "config" \in Files /\ ~Trying(Idle)
  BY FilesIn DEF Idle, Trying
<1>1. ASSUME UNCHANGED disk PROVE NoBadValue' <=> NoBadValue
  BY <1>1 DEF NoBadValue
<1>2. ASSUME NEW f, NEW x, Written(f, x) PROVE /\ f # "config" => (NoBadValue' <=> NoBadValue)
                                               /\ f = "config" => (NoBadValue' <=> Valid(x))
  BY <1>0, <1>2, WritesExist DEF NoBadValue, Valid
<1>3. CASE Same(c, d) /\ Steady
  BY <1>1, <1>3 DEF Same, Steady, ValidNow, Trying
<1>4. CASE Same(c, d) /\ \E f \in Files : HandEdit(f)
  <2>1. PICK f \in Files : HandEdit(f)
    BY <1>4
  <2> DEFINE data == disk[f].data \union HandMark(f)
  <2>2. Written(f, Content(data)) /\ archive' = archive
    BY <2>1, HandWritten DEF HandEdit
  <2>3. NoBadValue => NoBadValue'
    <3>1. CASE f = "config"
      <4>1. HandMark(f) = {"complete"}
        BY <3>1 DEF HandMark
      <4>2. NoBadValue => "bad" \notin data
        BY <3>1, <4>1 DEF NoBadValue
      <4> HIDE DEF data
      <4>3. Content(data).data = data
        BY DEF Content
      <4>4. NoBadValue => Valid(Content(data))
        BY <4>2, <4>3 DEF Valid
      <4> QED
        BY <1>2, <2>2, <3>1, <4>4
    <3>2. CASE f # "config"
      BY <1>2, <2>2, <3>2
    <3> QED
      BY <3>1, <3>2
  <2> QED
    BY <1>4, <2>2, <2>3 DEF Same, ValidNow, Trying
<1>5. ASSUME c = Idle, d = Idle, NEW p, Backup(p) PROVE ValidNow(d)'
  <2>1. UNCHANGED disk /\ NoBadValue
    BY <1>0, <1>5 DEF Backup, ValidNow
  <2>2. \A i \in DOMAIN archive' : archive'[i][1] # "seal" => archive'[i][2] = disk[archive'[i][1]]
    BY <1>5, BackupFacts
  <2>3. ValidList(archive')
    BY <2>1, <2>2 DEF ValidList, Valid, NoBadValue
  <2> QED
    BY <1>0, <1>1, <1>5, <2>1, <2>3 DEF ValidNow
<1>6. CASE c = Idle /\ Beginning(d) /\ d.hashes = <<>> /\ Steady
  <2>1. NoBadValue /\ NoBadValue' /\ archive' = archive /\ ValidList(archive)
    BY <1>0, <1>1, <1>6 DEF Steady, ValidNow
  <2>2. CASE BeginsInit(d)
    <3>1. ValidList(InitList)
      BY InitListed, ValidEmpty DEF ValidList
    <3> QED
      BY <2>1, <2>2, <3>1 DEF ValidNow, BeginsInit
  <2>3. CASE BeginsSet(d)
    <3>1. "bad" \notin d.buf
      BY <2>1, <2>3 DEF BeginsSet, NoBadValue
    <3> QED
      BY <2>1, <2>3, <3>1 DEF ValidNow, BeginsSet
  <2>4. CASE BeginsRestore(d)
    BY <2>1, <2>4 DEF ValidNow, BeginsRestore
  <2>5. CASE BeginsToken(d) \/ BeginsEdit(d) \/ BeginsLock(d)
    BY <2>1, <2>5 DEF ValidNow, BeginsToken, BeginsEdit, BeginsLock
  <2> QED
    BY <1>6, <2>2, <2>3, <2>4, <2>5 DEF Beginning
<1>7. ASSUME NEW p \in Procs, cli[p] = c, cli'[p] = d, CommandStep(p) PROVE ValidNow(d)'
  <2>1. EditTo(c, d) \/ ListsAs(c, d) \/ TrialTo(c, d) \/ HashTo(c, d) \/ FailTo(c, d) \/ SealTo(c, d)
    BY <1>7, CommandSteps
  <2>2. CASE EditTo(c, d)
    <3>1. c.pc \in {"scope", "token", "write"} /\ c.op \in {"token", "edit"} /\ d.op = c.op
          /\ d.pc \in {"token", "hash"} /\ archive' = archive
      BY <2>2 DEF EditTo, Aside
    <3>2. \E f, x : Written(f, x) /\ f # "config"
      <4>1. "config" \notin Names
        BY ConfigSealAssumption DEF SealInv, Names
      <4> QED
        BY <2>2, <4>1 DEF EditTo
    <3>3. NoBadValue'
      BY <1>2, <3>1, <3>2 DEF ValidNow, Trying
    <3> QED
      BY <3>1, <3>3 DEF ValidNow
  <2>3. CASE ListsAs(c, d)
    <3>1. archive' = archive /\ ValidList(archive) /\ IsSeq(c.todo) /\ c.todo # <<>>
      BY <2>3 DEF ListsAs, ValidNow
    <3>2. c.op # "set" => ValidList(c.todo)
      BY <2>3 DEF ListsAs, ValidNow
    <3>3. c.op # "set" => ValidList(Tail(c.todo)) /\ (ListHead(c) = "config" => Valid(c.todo[1][2]))
      BY <3>1, <3>2, ValidRest DEF ListHead
    <3>4. CASE Stays(c, d)
      <4>1. NoBadValue'
        <5>1. CASE ListHead(c) = "config"
          <6>1. d.pc = "fill" /\ d # Idle
            BY <1>0, <3>4 DEF Stays
          <6>2. Written("config", Truncated)
            BY <2>3, <5>1, <6>1 DEF ListsAs, Goes
          <6> QED
            BY <1>2, <6>2, ValidEmpty
        <5>2. CASE ListHead(c) # "config"
          <6>1. ~Trying(c)
            BY <2>3, <5>2 DEF ListsAs, Trying
          <6> QED
            BY <1>1, <1>2, <2>3, <3>4, <5>2, <6>1 DEF ListsAs, ValidNow
        <5> QED
          BY <5>1, <5>2
      <4> QED
        BY <3>1, <3>2, <3>4, <4>1 DEF Stays, ValidNow
    <3>5. CASE Goes(c, d) /\ c.op # "set"
      <4>2. NoBadValue'
        <5>1. CASE UNCHANGED disk /\ ~Trying(c)
          BY <1>1, <5>1 DEF ValidNow
        <5>2. CASE \E x : Written(ListHead(c), x) /\ (x = c.todo[1][2] \/ x = Truncated)
          <6>1. PICK x : Written(ListHead(c), x) /\ (x = c.todo[1][2] \/ x = Truncated)
            BY <5>2
          <6>2. CASE ListHead(c) = "config"
            BY <1>2, <3>3, <3>5, <6>1, <6>2, ValidEmpty
          <6>3. CASE ListHead(c) # "config"
            <7>1. ~Trying(c)
              BY <2>3, <6>3 DEF ListsAs, Trying
            <7> QED
              BY <1>2, <6>1, <6>3, <7>1 DEF ValidNow
          <6> QED
            BY <6>2, <6>3
        <5> QED
          BY <2>3, <5>1, <5>2 DEF ListsAs, Trying
      <4>3. d = Idle \/ (d.op = c.op /\ d.pc \in {"open", "hash"} /\ d.todo = Tail(c.todo))
        BY <3>5 DEF Goes
      <4> QED
        BY <1>0, <3>1, <3>3, <3>5, <4>2, <4>3 DEF ValidNow
    <3>6. CASE Goes(c, d) /\ c.op = "set"
      <4>1. d.op = "set" /\ d.pc = "check" /\ d.buf = c.buf
        BY <2>3, <3>6 DEF Goes, ListsAs
      <4> QED
        BY <3>1, <3>6, <4>1 DEF ValidNow, Trying
    <3> QED
      BY <2>3, <3>4, <3>5, <3>6 DEF ListsAs
  <2>4. CASE TrialTo(c, d)
    <3>1. archive' = archive /\ ValidList(archive) /\ "bad" \notin c.buf /\ UNCHANGED disk
      BY <2>4 DEF TrialTo, ValidNow, Aside
    <3>2. CASE Loads /\ d = Idle
      BY <1>0, <1>1, <3>1, <3>2 DEF ValidNow, Loads, IsValid
    <3>3. CASE d.pc = "open" /\ d.op = "undo" /\ d.todo = << <<"config", Content(c.buf)>> >>
      <4>1. d.todo[1][1] = "config" /\ d.todo[1][2] = Content(c.buf) /\ DOMAIN d.todo = {1}
        BY <3>3, OneFile
      <4>2. Content(c.buf).data = c.buf
        BY DEF Content
      <4>3. ValidList(d.todo)
        BY <3>1, <4>1, <4>2 DEF ValidList, Valid
      <4> QED
        BY <3>1, <3>3, <4>3 DEF ValidNow, Trying
    <3> QED
      BY <2>4, <3>2, <3>3 DEF TrialTo
  <2>5. CASE HashTo(c, d)
    BY <1>1, <2>5 DEF HashTo, ValidNow, Trying, Aside
  <2>6. CASE FailTo(c, d)
    BY <1>0, <1>1, <2>6 DEF FailTo, ValidNow, Trying, Aside
  <2>7. CASE SealTo(c, d)
    <3>1. UNCHANGED disk /\ archive' = archive /\ c.pc = "seal" /\ (d = Idle \/ (d.pc = "lock" /\ d.op = "lock"))
      BY <2>7 DEF SealTo, Aside
    <3> QED
      BY <1>0, <1>1, <3>1 DEF ValidNow, Trying
  <2> QED
    BY <2>1, <2>2, <2>3, <2>4, <2>5, <2>6, <2>7
<1> QED
  BY <1>3, <1>4, <1>5, <1>6, <1>7 DEF StepOf

-----------------------------------------------------------------------------
(* The entries of tokens.yaml have the hashes of the scope files, unless   *)
(* a command has written a scope file and not yet its entry, or a restore  *)
(* has still to write some of what the archive holds.                      *)
IsEntry(e) == e = [name |-> e.name, hash |-> e.hash] /\ e.name \in Names /\ e.hash.kind = "file"
Cur(E) == \A e \in E : IsEntry(e) /\ e.hash = disk[e.name]

ArchiveOK(s) ==
    /\ \A i, j \in DOMAIN s : s[i][1] = s[j][1] => i = j
    /\ DOMAIN s # {} => \E i \in DOMAIN s : s[i][1] = "tokens"
    /\ \A i \in DOMAIN s : s[i][1] = "tokens" =>
           \A e \in s[i][2].data : IsEntry(e) /\ \E j \in DOMAIN s : s[j] = <<e.name, e.hash>>

Listing(c, op) == c.op = op /\ c.pc \in {"open", "fill"}

Restoring(c) ==
    /\ \A m \in DOMAIN c.todo : \E i \in DOMAIN archive : c.todo[m] = archive[i]
    /\ \A i \in DOMAIN archive : archive[i][1] # "seal" =>
           disk[archive[i][1]] = archive[i][2] \/ \E m \in DOMAIN c.todo : c.todo[m] = archive[i]

Making(c) ==
    /\ \A i \in DOMAIN c.todo : c.todo[i][2] = Content({}) /\ c.todo[i][1] \in InitFiles
    /\ Exists("tokens") \/ \E i \in DOMAIN c.todo : c.todo[i][1] = "tokens"

Holding(c) ==
    /\ c.pc = "scope" => c.buf = disk["tokens"].data
    /\ c.pc = "token" => /\ disk[c.file].kind = "file"
                         /\ \A e \in c.buf : e.name # c.file => IsEntry(e) /\ e.hash = disk[e.name]
    /\ c.pc = "write" /\ c.file = "tokens" => Cur(c.buf)
    /\ Listing(c, "init") => Making(c)
    /\ Listing(c, "restore") => Restoring(c)

Tokens == Cur(disk["tokens"].data)
TokensNow(c) ==
    /\ ArchiveOK(archive) /\ Holding(c)
    /\ c.pc # "token" /\ ~Listing(c, "restore") => Tokens
    /\ Exists("config") /\ ~Listing(c, "init") => Exists("tokens")

(* The names of tokens are not those of other files.                       *)
LEMMA NamesApart ==
  ASSUME SealInv
  PROVE  Names \intersect {"config", "routes", "tokens", "webhooks", "plugin", "sub", "seal"} = {}
BY ConfigSealAssumption DEF SealInv, Names

(* A write to a file that is not a scope leaves the scopes, and the tokens *)
(* too if it is another file.                                              *)
LEMMA CurKept ==
  ASSUME SealInv, TypeInv, deployment' = deployment, NEW g, NEW x, Written(g, x) , g \notin Names
  PROVE  /\ \A E : Cur(E) => Cur(E)'
         /\ g # "tokens" => /\ Tokens => Tokens'
                            /\ disk'["tokens"] = disk["tokens"]
<1>0. Names' = Names
  BY SameNames
<1>1. \A n \in Names : disk'[n] = disk[n]
  BY WritesExist, FilesIn
<1>2. \A E : Cur(E) => Cur(E)'
  BY <1>0, <1>1 DEF Cur, IsEntry
<1>3. g # "tokens" => disk'["tokens"] = disk["tokens"]
  BY WritesExist, FilesIn
<1>4. \A E : Cur(E) => \A e \in E : IsEntry(e)' /\ e.hash = disk'[e.name]
  BY <1>0, <1>1 DEF Cur, IsEntry
<1>5. g # "tokens" => (Tokens => Tokens')
  BY <1>3, <1>4 DEF Tokens, Cur
<1> QED
  BY <1>2, <1>3, <1>5

(* A step that writes nothing leaves the tokens.                           *)
LEMMA SameTokens ==
  ASSUME deployment' = deployment, UNCHANGED <<disk, archive>>
  PROVE  /\ \A c : Holding(c)' <=> Holding(c)
         /\ Tokens' <=> Tokens
         /\ ArchiveOK(archive)' <=> ArchiveOK(archive)
         /\ \A f : Exists(f)' <=> Exists(f)
<1>0. Names' = Names
  BY SameNames
<1>1. \A e : IsEntry(e)' <=> IsEntry(e)
  BY <1>0 DEF IsEntry
<1>2. \A E : Cur(E)' <=> Cur(E)
  BY <1>1 DEF Cur
<1>3. Tokens' <=> Tokens
  BY <1>1 DEF Tokens, Cur
<1>4. \A f : Exists(f)' <=> Exists(f)
  BY DEF Exists
<1>5. ArchiveOK(archive)' <=> ArchiveOK(archive)
  BY <1>1 DEF ArchiveOK
<1>6. \A c : (Restoring(c)' <=> Restoring(c)) /\ (Making(c)' <=> Making(c))
  BY <1>4 DEF Restoring, Making
<1>7. \A c : Holding(c)' <=> Holding(c)
  BY <1>1, <1>2, <1>6 DEF Holding, Listing
<1> QED
  BY <1>3, <1>4, <1>5, <1>7

(* A backup copies tokens whose scopes it copies too.                      *)
LEMMA TokensBackup ==
  ASSUME SealInv, TypeInv, deployment' = deployment, TokensNow(Idle), NEW p, Backup(p)
  PROVE  TokensNow(Idle)'
<1>0. Idle.pc = "idle" /\ Idle.op = "none"
  BY DEF Idle
<1>1. /\ \A i, j \in DOMAIN archive' : archive'[i][1] = archive'[j][1] => i = j
      /\ \A i \in DOMAIN archive' : archive'[i][1] # "seal" => archive'[i][2] = disk[archive'[i][1]]
      /\ \A f \in Names \union {"tokens"} : Exists(f) =>
                \E i \in DOMAIN archive' : archive'[i] = <<f, disk[f]>>
  BY BackupFacts
<1>2. UNCHANGED disk /\ Tokens /\ Exists("tokens") /\ Names' = Names
  BY <1>0, SameNames DEF Backup, TokensNow, Listing
<1>3. PICK i \in DOMAIN archive' : archive'[i] = <<"tokens", disk["tokens"]>>
  BY <1>1, <1>2
<1>4. archive'[i][1] = "tokens"
  BY <1>3
<1>5. \A e : IsEntry(e)' <=> IsEntry(e)
  BY <1>2 DEF IsEntry
<1>6. ASSUME NEW j \in DOMAIN archive', archive'[j][1] = "tokens", NEW e \in archive'[j][2].data
      PROVE  IsEntry(e)' /\ \E k \in DOMAIN archive' : archive'[k] = <<e.name, e.hash>>
  <2>1. e \in disk["tokens"].data
    BY <1>1, <1>6
  <2>2. IsEntry(e) /\ e.hash = disk[e.name]
    BY <1>2, <2>1 DEF Tokens, Cur
  <2>3. e.name \in Names /\ Exists(e.name)
    BY <2>2 DEF IsEntry, Exists
  <2> QED
    BY <1>1, <1>5, <2>2, <2>3
<1>7. ArchiveOK(archive)'
  BY <1>1, <1>4, <1>6 DEF ArchiveOK
<1>8. Tokens'
  BY <1>2, <1>5 DEF Tokens, Cur
<1> QED
  BY <1>0, <1>2, <1>7, <1>8 DEF TokensNow, Holding, Listing, Exists

(* A command that begins leaves the tokens as they were.                   *)
LEMMA TokensBegin ==
  ASSUME SealInv, TypeInv, deployment' = deployment, TokensNow(Idle), NEW d, Beginning(d),
         UNCHANGED <<disk, archive>>
  PROVE  TokensNow(d)'
<1>0. Idle.pc = "idle" /\ Idle.op = "none"
  BY DEF Idle
<1>1. Tokens /\ ArchiveOK(archive) /\ (Exists("config") => Exists("tokens"))
  BY <1>0 DEF TokensNow, Listing
<1> SUFFICES Holding(d) /\ d.pc # "token"
  BY <1>1, SameTokens DEF TokensNow, Listing
<1>2. CASE BeginsToken(d)
  BY <1>2 DEF BeginsToken, Holding, Listing
<1>3. CASE BeginsEdit(d)
  <2>1. ASSUME d.file = "tokens", d.buf \subseteq disk["tokens"].data PROVE Cur(d.buf)
    BY <1>1, <2>1 DEF Tokens, Cur
  <2>2. ASSUME NEW n \in Names, d.buf = Rehashed(disk["tokens"].data, n) PROVE Cur(d.buf)
    <3>1. ASSUME NEW e \in disk["tokens"].data, e.name = n PROVE [e EXCEPT !.hash = disk[n]] = e
      <4>1. e = [name |-> e.name, hash |-> e.hash] /\ e.hash = disk[n]
        BY <1>1, <3>1 DEF Tokens, Cur, IsEntry
      <4>2. PICK a, b : a = e.name /\ b = e.hash
        OBVIOUS
      <4>3. e = [name |-> a, hash |-> b] /\ disk[n] = b
        BY <4>1, <4>2
      <4> QED
        BY <4>3
    <3>2. d.buf \subseteq disk["tokens"].data
      BY <2>2, <3>1 DEF Rehashed
    <3> QED
      BY <1>1, <3>2 DEF Tokens, Cur
  <2> QED
    BY <1>3, <2>1, <2>2 DEF BeginsEdit, Holding, Listing
<1>4. CASE BeginsInit(d)
  <2>1. Making(d)
    BY <1>4, InitListed DEF BeginsInit, Making, InitFiles
  <2> QED
    BY <1>4, <2>1 DEF BeginsInit, Holding, Listing
<1>5. CASE BeginsRestore(d)
  <2>1. Restoring(d)
    BY <1>5 DEF BeginsRestore, Restoring
  <2> QED
    BY <1>5, <2>1 DEF BeginsRestore, Holding, Listing
<1>6. CASE BeginsSet(d) \/ BeginsLock(d)
  BY <1>6 DEF BeginsSet, BeginsLock, Holding, Listing
<1> QED
  BY <1>2, <1>3, <1>4, <1>5, <1>6 DEF Beginning

(* An edit keeps the tokens and their scopes together.                     *)
LEMMA TokensEdit ==
  ASSUME SealInv, TypeInv, deployment' = deployment, NEW c, NEW d, TokensNow(c), There(c), EditTo(c, d)
  PROVE  TokensNow(d)'
<1>0. Idle.pc = "idle" /\ Idle.op = "none" /\ Names' = Names
  BY SameNames DEF Idle
<1>1. archive' = archive /\ ~Listing(c, "init") /\ ~Listing(c, "restore") /\ c # Idle /\ c.op # "init"
  BY <1>0 DEF EditTo, Aside, Listing
<1>2. Exists("config") /\ Exists("tokens") /\ ArchiveOK(archive)
  BY <1>1 DEF There, TokensNow
<1>3. (\E f, x : Written(f, x)) /\ "tokens" \in Files
  BY FilesIn DEF EditTo
<1>4. Exists("tokens")'
  BY <1>2, <1>3, WritesExist
<1>5. ArchiveOK(archive)'
  BY <1>0, <1>1, <1>2 DEF ArchiveOK, IsEntry
<1>6. ~Listing(d, "init") /\ ~Listing(d, "restore") /\ d.op \in {"token", "edit"}
  BY DEF EditTo, Listing
<1>7. CASE c.pc = "scope"
  <2>1. PICK data : Written(c.file, Content(data)) /\ c.file \in Names /\ d.pc = "token"
    BY <1>7 DEF EditTo
  <2>2. d.buf = c.buf /\ d.file = c.file /\ c.buf = disk["tokens"].data /\ Tokens
    BY <1>1, <1>7 DEF EditTo, TokensNow, Holding
  <2>3. disk'[c.file] = Content(data) /\ \A n \in Names : n # c.file => disk'[n] = disk[n]
    BY <2>1, WritesExist, FilesIn
  <2>4. Content(data).kind = "file"
    BY DEF Content
  <2>5. \A e \in d.buf : e.name # d.file => IsEntry(e)' /\ e.hash = disk'[e.name]
    BY <1>0, <2>2, <2>3 DEF Tokens, Cur, IsEntry
  <2>6. Holding(d)'
    BY <1>6, <2>1, <2>2, <2>3, <2>4, <2>5 DEF Holding, Listing
  <2> QED
    BY <1>4, <1>5, <2>1, <2>6 DEF TokensNow
<1>8. CASE c.pc = "token"
  <2>1. PICK data : /\ Written("tokens", Content(data))
                    /\ data = {e \in c.buf : e.name # c.file}
                                 \union {[name |-> c.file, hash |-> disk[c.file]]}
    BY <1>8 DEF EditTo
  <2>2. c.file \in Names /\ d.pc = "hash"
    BY <1>8 DEF EditTo
  <2>3. disk'["tokens"] = Content(data) /\ \A n \in Names : disk'[n] = disk[n]
    BY <2>1, NamesApart, WritesExist, FilesIn
  <2>4. Content(data).data = data
    BY DEF Content
  <2>5. ASSUME NEW e \in data PROVE IsEntry(e) /\ e.hash = disk[e.name]
    <3>1. CASE e \in c.buf /\ e.name # c.file
      BY <1>8, <3>1 DEF TokensNow, Holding
    <3>2. CASE e = [name |-> c.file, hash |-> disk[c.file]]
      <4>1. e.name = c.file /\ e.hash = disk[c.file]
        BY <3>2
      <4>2. disk[c.file].kind = "file"
        BY <1>8 DEF TokensNow, Holding
      <4> QED
        BY <2>2, <3>2, <4>1, <4>2 DEF IsEntry
    <3> QED
      BY <2>1, <3>1, <3>2
  <2>6. Tokens'
    BY <1>0, <2>3, <2>4, <2>5 DEF Tokens, Cur, IsEntry
  <2>7. Holding(d)'
    BY <1>6, <2>2 DEF Holding, Listing
  <2> QED
    BY <1>4, <1>5, <2>6, <2>7 DEF TokensNow
<1>9. CASE c.pc = "write"
  <2>1. Written(c.file, Content(c.buf)) /\ c.file \in {"tokens", "routes", "webhooks", "plugin"} /\ d.pc = "hash"
    BY <1>9 DEF EditTo
  <2>2. c.file \notin Names /\ Tokens
    BY <1>1, <1>9, <2>1, NamesApart DEF TokensNow
  <2>3. Content(c.buf).data = c.buf
    BY DEF Content
  <2>4. Tokens'
    <3>1. CASE c.file # "tokens"
      BY <2>1, <2>2, <3>1, CurKept
    <3>2. CASE c.file = "tokens"
      <4>1. Cur(c.buf)'
        BY <1>9, <2>1, <2>2, <3>2, CurKept DEF TokensNow, Holding
      <4>2. disk'["tokens"].data = c.buf
        BY <2>1, <2>3, <3>2, WritesExist
      <4> QED
        BY <4>1, <4>2 DEF Tokens, Cur
    <3> QED
      BY <3>1, <3>2
  <2>5. Holding(d)'
    BY <1>6, <2>1 DEF Holding, Listing
  <2> QED
    BY <1>4, <1>5, <2>4, <2>5 DEF TokensNow
<1> QED
  BY <1>7, <1>8, <1>9 DEF EditTo

(* The files that `config init` makes are empty.                           *)
LEMMA TokensMade ==
  ASSUME SealInv, TypeInv, deployment' = deployment, NEW c, NEW d, TokensNow(c), ListsAs(c, d), c.op = "init"
  PROVE  TokensNow(d)'
<1>0. Names' = Names /\ archive' = archive /\ "tokens" \in Files
  BY SameNames, FilesIn DEF ListsAs
<1>1. /\ Listing(c, "init") /\ Making(c) /\ Tokens /\ c.pc # "token" /\ ArchiveOK(archive)
  BY DEF ListsAs, Listing, TokensNow, Holding
<1>2. /\ 1 \in DOMAIN c.todo
      /\ \A i \in DOMAIN Tail(c.todo) : i + 1 \in DOMAIN c.todo /\ Tail(c.todo)[i] = c.todo[i + 1]
      /\ \A i \in DOMAIN c.todo : i # 1 => i - 1 \in DOMAIN Tail(c.todo) /\ Tail(c.todo)[i - 1] = c.todo[i]
  BY RestOfList DEF ListsAs
<1>3. ListHead(c) \in InitFiles /\ c.todo[1][2] = Content({}) /\ ListHead(c) # "seal"
  BY <1>1, <1>2 DEF Making, ListHead, InitFiles
<1>4. ListHead(c) \notin Names
  BY <1>3, NamesApart DEF InitFiles
<1>5. Truncated.data = {} /\ Content({}).data = {}
  BY DEF Truncated, Content
<1>6. UNCHANGED disk \/ Written(ListHead(c), Truncated) \/ Written(ListHead(c), Content({}))
  BY <1>3 DEF ListsAs
<1>7. Tokens'
  <2>1. CASE UNCHANGED disk
    BY <1>0, <1>1, <2>1, SameTokens
  <2>2. ASSUME NEW x, Written(ListHead(c), x), x.data = {} PROVE Tokens'
    <3>1. CASE ListHead(c) # "tokens"
      BY <1>1, <1>4, <2>2, <3>1, CurKept
    <3>2. CASE ListHead(c) = "tokens"
      <4>1. disk'["tokens"].data = {}
        BY <2>2, <3>2, WritesExist
      <4> QED
        BY <4>1 DEF Tokens, Cur
    <3> QED
      BY <3>1, <3>2
  <2> QED
    BY <1>5, <1>6, <2>1, <2>2
<1>8. /\ Exists("tokens") => Exists("tokens")'
      /\ (ListHead(c) = "tokens" /\ Goes(c, d)) => Exists("tokens")'
  <2>1. Exists("tokens") => Exists("tokens")'
    BY <1>0, <1>6, WritesExist DEF Exists
  <2>2. ASSUME ListHead(c) = "tokens", Goes(c, d) PROVE Exists("tokens")'
    <3>1. Exists(ListHead(c)) \/ Written(ListHead(c), Truncated) \/ Written(ListHead(c), Content({}))
      BY <1>3 DEF ListsAs
    <3> QED
      BY <2>1, <2>2, <3>1, WritesExist
  <2> QED
    BY <2>1, <2>2
<1>9. ArchiveOK(archive)'
  BY <1>0, <1>1 DEF ArchiveOK, IsEntry
<1>10. CASE Stays(c, d)
  <2>1. Exists("tokens")' \/ \E i \in DOMAIN c.todo : c.todo[i][1] = "tokens"
    BY <1>1, <1>8 DEF Making
  <2>2. Making(d)'
    BY <1>1, <1>10, <2>1 DEF Making, Stays
  <2>3. Holding(d)'
    BY <1>10, <2>2 DEF Holding, Listing, Stays
  <2>4. Listing(d, "init")
    BY <1>10 DEF Stays, Listing
  <2> QED
    BY <1>7, <1>9, <2>3, <2>4 DEF TokensNow
<1>11. CASE Goes(c, d)
  <2>1. /\ d.todo = Tail(c.todo) /\ d.op = "init"
        /\ \/ Tail(c.todo) # <<>> /\ d.pc = "open"
           \/ Tail(c.todo) = <<>> /\ d.pc = "hash"
    BY <1>11 DEF Goes
  <2>2. Exists("tokens")' \/ \E i \in DOMAIN d.todo : d.todo[i][1] = "tokens"
    <3>1. CASE Exists("tokens") \/ ListHead(c) = "tokens"
      BY <1>8, <1>11, <3>1
    <3>2. CASE \E i \in DOMAIN c.todo : i # 1 /\ c.todo[i][1] = "tokens"
      BY <1>2, <2>1, <3>2
    <3> QED
      BY <1>1, <3>1, <3>2 DEF Making, ListHead
  <2>3. \A i \in DOMAIN d.todo : d.todo[i][2] = Content({}) /\ d.todo[i][1] \in InitFiles
    BY <1>1, <1>2, <2>1 DEF Making
  <2>4. Making(d)'
    BY <2>2, <2>3 DEF Making
  <2>5. Holding(d)'
    BY <2>1, <2>4 DEF Holding, Listing
  <2>6. ~Listing(d, "init") => Exists("tokens")'
    <3>1. ~Listing(d, "init") => d.todo = <<>> /\ DOMAIN <<>> = {}
      BY <2>1 DEF Listing
    <3> QED
      BY <2>2, <3>1
  <2> QED
    BY <1>7, <1>9, <2>5, <2>6 DEF TokensNow
<1> QED
  BY <1>10, <1>11, <1>3 DEF ListsAs

(* What a restore has written so far is what the archive holds.            *)
LEMMA TokensRestored ==
  ASSUME SealInv, TypeInv, deployment' = deployment, NEW c, NEW d, TokensNow(c), There(c), ListsAs(c, d),
         c.op = "restore"
  PROVE  TokensNow(d)'
<1>0. Names' = Names /\ archive' = archive /\ "tokens" \in Files /\ Idle.op = "none"
  BY SameNames, FilesIn DEF ListsAs, Idle
<1>1. Listing(c, "restore") /\ ~Listing(c, "init") /\ Restoring(c) /\ ArchiveOK(archive)
  BY DEF ListsAs, Listing, TokensNow, Holding
<1>2. Exists("tokens")
  BY <1>0, <1>1 DEF There, TokensNow
<1>3. /\ 1 \in DOMAIN c.todo
      /\ \A i \in DOMAIN Tail(c.todo) : i + 1 \in DOMAIN c.todo /\ Tail(c.todo)[i] = c.todo[i + 1]
      /\ \A i \in DOMAIN c.todo : i # 1 => i - 1 \in DOMAIN Tail(c.todo) /\ Tail(c.todo)[i - 1] = c.todo[i]
  BY RestOfList DEF ListsAs
<1>4. ASSUME NEW i \in DOMAIN archive, archive[i][1] = ListHead(c) PROVE archive[i] = c.todo[1]
  <2>1. PICK j \in DOMAIN archive : c.todo[1] = archive[j]
    BY <1>1, <1>3 DEF Restoring
  <2>2. archive[j][1] = archive[i][1]
    BY <1>4, <2>1 DEF ListHead
  <2> QED
    BY <1>1, <2>1, <2>2 DEF ArchiveOK
<1>5. Exists("tokens")' /\ ArchiveOK(archive)'
  <2>1. UNCHANGED disk \/ \E x : Written(ListHead(c), x)
    BY DEF ListsAs
  <2>2. Exists("tokens")'
    BY <1>0, <1>2, <2>1, WritesExist DEF Exists
  <2> QED
    BY <1>0, <1>1, <2>2 DEF ArchiveOK, IsEntry
<1>6. \A i \in DOMAIN archive : archive[i][1] # "seal" => archive[i][1] \in Files
  BY DEF TypeInv, Entries
<1>7. CASE Stays(c, d)
  <2>1. d.todo = c.todo /\ d.op = "restore" /\ d.pc = "fill"
    BY <1>7 DEF Stays
  <2>2. ASSUME NEW i \in DOMAIN archive, archive[i][1] # "seal"
        PROVE  disk'[archive[i][1]] = archive[i][2] \/ \E m \in DOMAIN c.todo : c.todo[m] = archive[i]
    <3>1. CASE archive[i][1] = ListHead(c)
      BY <1>3, <1>4, <3>1
    <3>2. CASE archive[i][1] # ListHead(c)
      <4>1. disk'[archive[i][1]] = disk[archive[i][1]]
        <5>1. UNCHANGED disk \/ \E x : Written(ListHead(c), x)
          BY DEF ListsAs
        <5> QED
          BY <1>6, <2>2, <3>2, <5>1, WritesExist
      <4> QED
        BY <1>1, <2>2, <4>1 DEF Restoring
    <3> QED
      BY <3>1, <3>2
  <2>3. Restoring(d)'
    BY <1>0, <1>1, <2>1, <2>2 DEF Restoring
  <2>4. Holding(d)'
    BY <2>1, <2>3 DEF Holding, Listing
  <2> QED
    BY <1>5, <2>1, <2>4 DEF TokensNow, Listing
<1>8. CASE Goes(c, d)
  <2>1. /\ d.todo = Tail(c.todo) /\ d.op = "restore"
        /\ \/ Tail(c.todo) # <<>> /\ d.pc = "open"
           \/ Tail(c.todo) = <<>> /\ d.pc = "hash"
    BY <1>8 DEF Goes
  <2>1a. d.pc \in {"open", "hash"}
    BY <2>1
  <2>1b. /\ ListHead(c) # "seal" => Written(ListHead(c), c.todo[1][2])
         /\ ListHead(c) = "seal" => UNCHANGED disk
    BY <2>1a DEF ListsAs, Stays
  <2>2. ASSUME NEW i \in DOMAIN archive, archive[i][1] # "seal"
        PROVE  disk'[archive[i][1]] = archive[i][2] \/ \E m \in DOMAIN d.todo : d.todo[m] = archive[i]
    <3>1. CASE archive[i][1] = ListHead(c)
      <4>1. archive[i] = c.todo[1] /\ Written(ListHead(c), c.todo[1][2])
        BY <1>4, <2>1b, <2>2, <3>1
      <4>2. disk'[ListHead(c)] = c.todo[1][2]
        BY <4>1, WritesExist
      <4> QED
        BY <3>1, <4>1, <4>2
    <3>2. CASE archive[i][1] # ListHead(c)
      <4>1. disk'[archive[i][1]] = disk[archive[i][1]]
        BY <1>6, <2>1b, <2>2, <3>2, WritesExist
      <4>2. CASE disk[archive[i][1]] = archive[i][2]
        BY <4>1, <4>2
      <4>3. CASE \E m \in DOMAIN c.todo : c.todo[m] = archive[i]
        <5>1. PICK m \in DOMAIN c.todo : c.todo[m] = archive[i]
          BY <4>3
        <5>2. m # 1
          BY <3>2, <5>1 DEF ListHead
        <5>3. m - 1 \in DOMAIN d.todo /\ d.todo[m - 1] = archive[i]
          BY <1>3, <2>1, <5>1, <5>2
        <5> QED
          BY <5>3
      <4> QED
        BY <1>1, <2>2, <4>2, <4>3 DEF Restoring
    <3> QED
      BY <3>1, <3>2
  <2>3. \A m \in DOMAIN d.todo : \E i \in DOMAIN archive : d.todo[m] = archive[i]
    BY <1>1, <1>3, <2>1 DEF Restoring
  <2>4. Restoring(d)'
    BY <1>0, <2>2, <2>3 DEF Restoring
  <2>5. Holding(d)'
    BY <2>1, <2>4 DEF Holding, Listing
  <2>6. CASE d.pc = "open"
    BY <1>5, <2>1, <2>5, <2>6 DEF TokensNow, Listing
  <2>7. CASE d.pc = "hash"
    <3>1. d.todo = <<>> /\ DOMAIN <<>> = {}
      BY <2>1, <2>7
    <3>2. \A i \in DOMAIN archive : archive[i][1] # "seal" => disk'[archive[i][1]] = archive[i][2]
      BY <2>2, <3>1
    <3>3. DOMAIN archive # {}
      BY <1>1, <1>3 DEF Restoring
    <3>4. PICK i \in DOMAIN archive : archive[i][1] = "tokens"
      BY <1>1, <3>3 DEF ArchiveOK
    <3>5. disk'["tokens"] = archive[i][2]
      BY <3>2, <3>4
    <3>6. ASSUME NEW e \in archive[i][2].data PROVE IsEntry(e)' /\ e.hash = disk'[e.name]
      <4>1. IsEntry(e) /\ \E j \in DOMAIN archive : archive[j] = <<e.name, e.hash>>
        BY <1>1, <3>4, <3>6 DEF ArchiveOK
      <4>2. PICK j \in DOMAIN archive : archive[j] = <<e.name, e.hash>>
        BY <4>1
      <4>3. archive[j][1] = e.name /\ archive[j][2] = e.hash
        BY <4>2
      <4>4. e.name # "seal"
        BY <4>1, NamesApart DEF IsEntry
      <4> QED
        BY <1>0, <3>2, <4>1, <4>3, <4>4 DEF IsEntry
    <3>7. Tokens'
      BY <3>5, <3>6 DEF Tokens, Cur
    <3> QED
      BY <1>5, <2>5, <3>7 DEF TokensNow
  <2> QED
    BY <2>1, <2>6, <2>7
<1> QED
  BY <1>7, <1>8 DEF ListsAs

(* `config set` writes config.yaml only.                                   *)
LEMMA TokensSet ==
  ASSUME SealInv, TypeInv, deployment' = deployment, NEW c, NEW d, TokensNow(c), There(c), ListsAs(c, d),
         c.op \in {"set", "undo"}
  PROVE  TokensNow(d)'
<1>0. Names' = Names /\ archive' = archive /\ "tokens" \in Files /\ Idle.op = "none" /\ Idle.pc = "idle"
  BY SameNames, FilesIn DEF ListsAs, Idle
<1>1. ListHead(c) = "config" /\ c.pc # "token" /\ "config" \notin Names
  BY NamesApart DEF ListsAs
<1>2. Tokens /\ Exists("tokens") /\ ArchiveOK(archive)
  BY <1>0, <1>1 DEF TokensNow, Listing, There
<1>3. \E x : Written("config", x)
  BY <1>1 DEF ListsAs
<1>4. Tokens' /\ Exists("tokens")'
  BY <1>0, <1>1, <1>2, <1>3, CurKept, WritesExist
<1>5. ArchiveOK(archive)'
  BY <1>0, <1>2 DEF ArchiveOK, IsEntry
<1>6. d.pc \in {"idle", "fill", "open", "check", "hash"} /\ d.op \in {"none", "set", "undo"}
  BY <1>0 DEF ListsAs, Goes, Stays
<1>7. Holding(d)'
  BY <1>6 DEF Holding, Listing
<1> QED
  BY <1>4, <1>5, <1>7 DEF TokensNow

(* So does every step of a command.                                        *)
LEMMA TokensStep ==
  ASSUME SealInv, TypeInv, deployment' = deployment, NEW c, NEW d, There(c), StepOf(c, d), hands' = 0,
         hands = 0 => TokensNow(c)
  PROVE  TokensNow(d)'
<1>0. Idle.pc = "idle" /\ Idle.op = "none" /\ hands \in Nat
  BY DEF Idle, TypeInv
<1>1. CASE Same(c, d) /\ Steady
  <2>1. TokensNow(c) /\ UNCHANGED <<disk, archive>>
    BY <1>1 DEF Steady
  <2>2. Holding(d)
    BY <1>1, <2>1 DEF TokensNow, Same, Holding, Listing, Making, Restoring
  <2> QED
    BY <1>1, <2>1, <2>2, SameTokens DEF TokensNow, Same, Listing
<1>2. ASSUME NEW f \in Files, HandEdit(f) PROVE FALSE
  BY <1>0, <1>2 DEF HandEdit
<1>3. ASSUME c = Idle, d = Idle, NEW p, Backup(p) PROVE TokensNow(d)'
  <2>1. TokensNow(Idle)
    BY <1>3 DEF Backup
  <2>2. TokensNow(Idle)'
    BY <1>3, <2>1, TokensBackup
  <2> QED
    BY <1>3, <2>2 DEF Idle
<1>4. CASE c = Idle /\ Beginning(d) /\ d.hashes = <<>> /\ Steady
  BY <1>4, TokensBegin DEF Steady
<1>5. ASSUME NEW p \in Procs, cli[p] = c, cli'[p] = d, CommandStep(p) PROVE TokensNow(d)'
  <2>1. EditTo(c, d) \/ ListsAs(c, d) \/ TrialTo(c, d) \/ HashTo(c, d) \/ FailTo(c, d) \/ SealTo(c, d)
    BY <1>5, CommandSteps
  <2>2. TokensNow(c)
    BY <2>1 DEF EditTo, ListsAs, TrialTo, HashTo, FailTo, SealTo, Aside
  <2>3. CASE EditTo(c, d)
    BY <2>2, <2>3, TokensEdit
  <2>4. CASE ListsAs(c, d)
    <3>1. c.op \in {"init", "restore", "set", "undo"}
      BY <2>4 DEF ListsAs
    <3> QED
      BY <2>2, <2>4, <3>1, TokensMade, TokensRestored, TokensSet
  <2>5. CASE TrialTo(c, d) \/ HashTo(c, d) \/ FailTo(c, d) \/ SealTo(c, d)
    <3>1. /\ UNCHANGED <<disk, archive>> /\ c.pc \in {"check", "hash", "lock", "seal"}
          /\ d = Idle \/ (d.pc = "open" /\ d.op = "undo") \/ d.pc \in {"seal", "lock"}
      BY <2>5 DEF TrialTo, HashTo, FailTo, SealTo, Aside
    <3>2. Tokens /\ ArchiveOK(archive) /\ (Exists("config") => Exists("tokens"))
      BY <2>2, <3>1 DEF TokensNow, Listing
    <3>3. Holding(d) /\ d.pc # "token" /\ ~Listing(d, "restore")
      BY <1>0, <3>1 DEF Holding, Listing
    <3> QED
      BY <3>1, <3>2, <3>3, SameTokens DEF TokensNow, Listing
  <2> QED
    BY <2>1, <2>3, <2>4, <2>5
<1> QED
  BY <1>1, <1>2, <1>3, <1>4, <1>5 DEF StepOf

-----------------------------------------------------------------------------
(* The invariant of commands that are run one after the other.             *)
SequenceInv ==
    InSequence => /\ There(Running) /\ Sealing(Running) /\ ValidNow(Running)
                  /\ hands = 0 => TokensNow(Running)

(* The invariant of commands in sequence is kept.                          *)
LEMMA SequenceNext ==
  ASSUME SealInv, TypeInv, SequenceInv, [Next]_<<vars, deployment>>
  PROVE  SequenceInv'
<1> SUFFICES ASSUME InSequence'
             PROVE  /\ There(Running)' /\ Sealing(Running)' /\ ValidNow(Running)'
                    /\ hands' = 0 => TokensNow(Running)'
  BY DEF SequenceInv
<1>0. deployment' = deployment
  BY DEF Next
<1>1. PICK c, d : c = Running /\ d = Running'
  OBVIOUS
<1>2. InSequence /\ StepOf(c, d)
  BY <1>1, SequenceStep
<1>3. There(c) /\ Sealing(c) /\ ValidNow(c) /\ (hands = 0 => TokensNow(c))
  BY <1>1, <1>2 DEF SequenceInv
<1>4. There(d)' /\ Sealing(d)' /\ ValidNow(d)'
  BY <1>0, <1>2, <1>3, ThereStep, SealingStep, ValidStep
<1>5. hands' = 0 => TokensNow(d)'
  BY <1>0, <1>2, <1>3, TokensStep
<1>6. There(Running)'
  BY <1>1, <1>4 DEF There, ListHead
<1>7. Sealing(Running)'
  BY <1>1, <1>4 DEF Sealing, Calm, HashedFiles
<1>8. ValidNow(Running)'
  BY <1>1, <1>4 DEF ValidNow, Trying
<1>9. hands' = 0 => TokensNow(Running)'
  BY <1>1, <1>5 DEF TokensNow, Holding, Listing, Making, Restoring
<1> QED
  BY <1>6, <1>7, <1>8, <1>9

(* It holds initially.                                                     *)
LEMMA SequenceInit ==
  ASSUME Init
  PROVE  SequenceInv
<1>1. Running = Idle
  BY DEF Running, Init
<1>2. Idle.pc = "idle" /\ Idle.op = "none"
  BY DEF Idle
<1>3. archive = <<>> /\ DOMAIN archive = {}
  BY DEF Init
<1>4. There(Idle)
  BY <1>3 DEF There
<1>5. PICK full, none : full = Content({}) /\ none = Absent
  OBVIOUS
<1>6. full.kind = "file" /\ full.data = {} /\ none.kind = "absent" /\ none.data = {}
  BY <1>5 DEF Content, Absent
<1>7. /\ \/ /\ disk = [f \in Files |-> IF f \in InitFiles THEN full ELSE none]
            /\ manifest["root"].present = TRUE
            /\ manifest["root"].hashes = [f \in InitFiles |-> full]
         \/ disk = [f \in Files |-> none]
  BY <1>5, InitDisk
<1>8. /\ disk["tokens"].data = {} /\ disk["config"].data = {}
      /\ Exists("config") => Exists("tokens")
  BY <1>6, <1>7, FilesIn DEF Exists, InitFiles
<1>9. SealInv
  BY InitInv
<1>10. SealedFiles
  <2> SUFFICES ASSUME NEW f \in RootFiles, Exists(f) PROVE IsSealed(f)
    BY DEF SealedFiles, DiscoverConfigFiles
  <2>1. f \in Files /\ f # "sub"
    BY <1>9, RootSealed, FilesIn
  <2>2. /\ manifest["root"].present = TRUE
        /\ manifest["root"].hashes = [g \in InitFiles |-> full]
        /\ f \in InitFiles /\ disk[f] = full
    BY <1>6, <1>7, <2>1 DEF Exists
  <2> QED
    BY <1>9, <2>2, RootSealed
<1>11. Sealing(Idle)
  BY <1>2, <1>10 DEF Sealing
<1>12. ValidNow(Idle)
  BY <1>2, <1>3, <1>8 DEF ValidNow, ValidList, NoBadValue
<1>13. TokensNow(Idle)
  BY <1>2, <1>3, <1>8 DEF TokensNow, ArchiveOK, Holding, Listing, Tokens, Cur
<1> QED
  BY <1>1, <1>4, <1>11, <1>12, <1>13 DEF SequenceInv

(* What the invariants say of a directory in which no command is under way. *)
LEMMA AtRest ==
  ASSUME SealInv, TypeInv, SequenceInv
  PROVE  ConsistentAtRest
<1>1. TypeOK
  BY DEF TypeOK, TypeInv, Kinds, Shape, Steps
<1>2. ASSUME AllIdle, InSequence
      PROVE  /\ unreviewed = {} => \A f \in DiscoverConfigFiles \ {"config"} : IsSealed(f)
             /\ NoBadValue
             /\ hands = 0 => \A e \in disk["tokens"].data : e.hash = disk[e.name]
  <2>1. Running = Idle
    BY <1>2 DEF AllIdle, Running
  <2>2. Idle.pc = "idle" /\ Idle.op = "none"
    BY DEF Idle
  <2>3. Sealing(Idle) /\ ValidNow(Idle) /\ (hands = 0 => TokensNow(Idle))
    BY <1>2, <2>1 DEF SequenceInv
  <2>4. SealedFiles
    BY <2>2, <2>3 DEF Sealing, Calm
  <2>5. NoBadValue
    BY <2>2, <2>3 DEF ValidNow, Trying
  <2>6. hands = 0 => Tokens
    BY <2>2, <2>3 DEF TokensNow, Listing
  <2> QED
    BY <2>4, <2>5, <2>6 DEF SealedFiles, Tokens, Cur
<1> QED
  BY <1>1, <1>2 DEF ConsistentAtRest, SealedAtRest, TokenHashCurrent, RefusedSetUndone

(* ConsistentAtRest: whatever commands were run one after the other, each  *)
(* to its end, the manifest is that of every file but config.yaml and the  *)
(* ones edited by hand and not locked since, a refused `config set` has    *)
(* left nothing behind, and, with no edit by hand, every scopes_hash in    *)
(* tokens.yaml is that of its scope file - also after a restore of any     *)
(* earlier backup.                                                         *)
THEOREM RestConsistent == Spec => []ConsistentAtRest
<1>1. Init => SealInv /\ TypeInv /\ SequenceInv
  BY InitInv, TypesInit, SequenceInit
<1>2. TypeInv /\ SequenceInv /\ SealInv /\ [Next]_<<vars, deployment>> => TypeInv' /\ SequenceInv'
  BY TypesNext, SequenceNext
<1>3. SealInv /\ TypeInv /\ SequenceInv => ConsistentAtRest
  BY AtRest
<1> QED
  BY <1>1, <1>2, <1>3, Invariance, PTL DEF Spec
=============================================================================
