----------------------------- MODULE ConfigSeal -----------------------------
(***************************************************************************)
(* The configuration directory and the .checksums manifest that seals it:  *)
(* the `ductile config` commands of cmd/ductile/config_manage.go and       *)
(* config.go, which edit files and hash them, and the checks of a start or *)
(* a reload of the gateway (internal/config/integrity.go, hash.go,         *)
(* plugin_fingerprint.go, cmd/ductile/runtime.go).                         *)
(*                                                                         *)
(* Every command is a process of its own without any lock: it reads, then  *)
(* writes file after file, then hashes, then writes the manifest.  A write *)
(* through a temporary file and a rename is one step; what `config init`   *)
(* and `config restore` write is truncated first and filled later.  A      *)
(* command that is killed and one that returns at an error leave the same  *)
(* files behind: both are Abandon.                                         *)
(*                                                                         *)
(* A hash is the content it is computed from (BLAKE3 taken for injective). *)
(* A hand edit gives a well-formed file.  The warnings of the checks are   *)
(* left out, they change nothing.                                          *)
(***************************************************************************)
EXTENDS Naturals, Sequences, FiniteSets, SequencesExt

CONSTANT Deployments

VARIABLE deployment \* chosen initially

Names == deployment.names        \* token names; scopes/<name>.json is the file <name>
Scopes == deployment.scopes      \* scopes a token may be given
Plugins == deployment.plugins    \* the plugins a complete config.yaml configures
Enabled == deployment.enabled    \* those of them that are enabled
Included == deployment.included  \* the files a complete config.yaml includes; "sub"
                                 \* is a tokens.yaml in a directory of its own
Procs == deployment.procs        \* processes that run a command at the same time
StrictMode == deployment.strict  \* service.strict_mode
\* Bounds: commands, edits by hand and interruptions.
MaxOps == deployment.ops
MaxHand == deployment.hand
MaxCrash == deployment.crash

\* The relay files are operational files that no command edits: like routes.
RootFiles == {"config", "routes", "tokens", "webhooks"} \union Names

Files == RootFiles \union {"plugin", "sub"}

ASSUME ConfigSealAssumption ==
    \A d \in Deployments :
        /\ d.names \intersect {"config", "routes", "tokens", "webhooks", "plugin",
                               "sub", "seal"} = {}
        /\ IsFiniteSet(d.names)
        /\ d.enabled \subseteq d.plugins
        /\ d.included \subseteq {"routes", "tokens", "webhooks", "sub"}
        /\ d.strict \in BOOLEAN
        /\ d.ops \in Nat /\ d.hand \in Nat /\ d.crash \in Nat

VARIABLES
    disk,       \* file -> content
    plug,       \* plugin -> version of its manifest and entrypoint, or "gone"
    manifest,   \* directory -> its .checksums
    archive,    \* the archive `config backup` wrote
    cli,        \* process -> the command it runs
    gw,         \* the gateway process
    ops, hands, crashes,
    \* history, read by properties only
    vouched,    \* <<file, content>> pairs a command has hashed
    unreviewed  \* files edited by hand since the last `config lock`

vars == <<disk, plug, manifest, archive, cli, gw, ops, hands, crashes,
          vouched, unreviewed>>

Absent == [kind |-> "absent", data |-> {}]
Truncated == [kind |-> "empty", data |-> {}]
Content(data) == [kind |-> "file", data |-> data]

NoSeal == [present |-> FALSE, hashes |-> <<>>, prints |-> <<>>]

Idle == [pc |-> "idle", op |-> "none", file |-> "none", buf |-> {},
         todo |-> <<>>, hashes |-> <<>>, prints |-> <<>>, alone |-> FALSE]

Exists(f) == disk[f].kind # "absent"

HighSecurity == {"tokens", "webhooks"} \union Names

\* The files DiscoverConfigFiles finds in the root directory.
DiscoverConfigFiles == {f \in RootFiles : Exists(f)}

\* What the config.yaml says: that of `config init` configures no plugin,
\* includes no file and leaves strict mode off.
IsComplete == "complete" \in disk["config"].data
\* validate: a file that was truncated names no plugin_roots and is refused.
NoBadValue == "bad" \notin disk["config"].data
IsValid == disk["config"].kind = "file" /\ NoBadValue
IsStrict == StrictMode /\ IsComplete
Includes == IF IsComplete THEN Included ELSE {}
Configured == IF IsComplete THEN Plugins ELSE {}
DirOf(f) == IF f = "sub" THEN "sub" ELSE "root"
ScopeFiles == {"tokens", "webhooks", "sub"}

IsSealed(f) ==
    LET m == manifest[DirOf(f)]
    IN  m.present /\ f \in DOMAIN m.hashes /\ m.hashes[f] = disk[f]

-----------------------------------------------------------------------------
(* What a start and a reload check.                                        *)

\* config.Load: every included file exists, and the included tokens.yaml and
\* webhooks.yaml match the manifest of their own directory, and the result is
\* valid.  A lock loads without the last two: it seals what a start refuses.
LoadsForLock == Exists("config") /\ \A f \in Includes : Exists(f)

Loads ==
    /\ LoadsForLock /\ IsValid
    /\ \A f \in Includes \intersect ScopeFiles : IsSealed(f)

\* mutant: the scope files are left out of the check
VerifyIntegrity_NoScopes ==
    \A f \in DiscoverConfigFiles \intersect {"tokens", "webhooks"} : IsSealed(f)

\* VerifyIntegrity passes: only the high-security tier can fail it.
VerifyIntegrity ==
    \A f \in DiscoverConfigFiles \intersect HighSecurity : IsSealed(f)

\* VerifyPluginFingerprints passes: only enabled plugins can fail it.
VerifyPluginFingerprints(prints) ==
    \A p \in Configured \intersect Enabled :
        plug[p] # "gone" /\ p \in DOMAIN prints /\ prints[p] = plug[p]

verifyPluginFingerprintsForConfig ==
    LET m == manifest["root"]
    IN  m.present =>
            /\ Loads
            /\ IF DOMAIN m.prints = {} THEN Configured = {}
               ELSE VerifyPluginFingerprints(m.prints)

-----------------------------------------------------------------------------
(* The commands.  Each begins by reading what it edits.                    *)

TokenNames(entries) == {e.name : e \in entries}

\* A command starts in an existing configuration directory.
Begins(p) == cli[p] = Idle /\ ops < MaxOps /\ ops' = ops + 1

Become(p, c) == cli' = [cli EXCEPT ![p] = c]

Quiet == UNCHANGED <<disk, plug, manifest, archive, gw, hands, crashes,
                     vouched, unreviewed>>

\* token create: a new scope file, then an entry with its hash.
TokenCreate(p, n, s) ==
    /\ Begins(p) /\ Exists("config")
    /\ n \notin TokenNames(disk["tokens"].data)
    /\ Become(p, [Idle EXCEPT !.pc = "scope", !.op = "token", !.file = n,
                              !.buf = disk["tokens"].data,
                              !.todo = <<{s}>>])
    /\ Quiet

\* scope add, scope remove, scope set: the scope file, then the hash in its
\* token's entry.  An empty scope file is not JSON and fails the command.
ScopeMutation(p, n, mode, s) ==
    LET doc == disk[n].data
    IN  /\ Begins(p) /\ Exists("config")
        /\ n \in TokenNames(disk["tokens"].data)
        /\ disk[n].kind = "file"
        /\ Become(p, [Idle EXCEPT
               !.pc = "scope", !.op = "token", !.file = n,
               !.buf = disk["tokens"].data,
               !.todo = << CASE mode = "add" -> doc \union {s}
                             [] mode = "remove" -> doc \ {s}
                             [] mode = "set" -> {s} >>])
        /\ Quiet

\* The step of a command that writes one file with writeFileAtomicWithBackup.
Edits(p, f, data) ==
    /\ Begins(p) /\ Exists("config")
    /\ Become(p, [Idle EXCEPT !.pc = "write", !.op = "edit", !.file = f,
                              !.buf = data])
    /\ Quiet

Rehashed(entries, n) ==
    {IF e.name = n THEN [e EXCEPT !.hash = disk[n]] ELSE e : e \in entries}

TokenRehash(p, n) ==
    /\ n \in TokenNames(disk["tokens"].data) /\ Exists(n)
    /\ Edits(p, "tokens", Rehashed(disk["tokens"].data, n))

\* token delete keeps the scope file.
TokenDelete(p, n) ==
    /\ n \in TokenNames(disk["tokens"].data)
    /\ Edits(p, "tokens", {e \in disk["tokens"].data : e.name # n})

RouteMutation(p, mode) ==
    LET routes == disk["routes"].data
    IN  \/ mode = "add" /\ Edits(p, "routes", routes \union {"route"})
        \/ /\ mode = "remove" /\ "route" \in routes
           /\ Edits(p, "routes", routes \ {"route"})

WebhookAdd(p) ==
    LET webhooks == disk["webhooks"].data
    IN  /\ "webhook" \notin webhooks
        /\ Edits(p, "webhooks", webhooks \union {"webhook"})

\* plugin set writes plugins/<name>.yaml, which no manifest covers.
PluginSet(p) == Loads /\ Edits(p, "plugin", {"set"})

\* config init writes four files, those that exist only when forced to.
InitOrder == <<"config", "routes", "webhooks", "tokens">>

ConfigInit(p, force) ==
    /\ Begins(p)
    /\ Become(p, [Idle EXCEPT !.pc = "open", !.op = "init",
                              !.buf = IF force THEN {"force"} ELSE {},
                              !.todo = [i \in 1..Len(InitOrder) |->
                                        <<InitOrder[i], Content({})>>]])
    /\ Quiet

\* config set --apply: config.yaml in place, then a trial load; a change that
\* makes the configuration invalid is taken back.  Nothing is hashed.
ConfigSet(p, value) ==
    LET original == disk["config"].data
    IN  /\ Begins(p) /\ Loads
        /\ Become(p, [Idle EXCEPT
               !.pc = "open", !.op = "set", !.buf = original,
               !.todo = << <<"config", Content(original \union {value})>> >>])
        /\ Quiet

\* config backup: the files it knows of, the manifest among them, in the
\* order in which the archive holds them.
ArchiveOrder ==
    <<"config", "routes", "tokens", "webhooks", "seal", "plugin">>
        \o SetToSeq(Names)

Backup(p) ==
    LET In(f) == IF f = "seal" THEN manifest["root"].present ELSE Exists(f)
        Entry(f) == <<f, IF f = "seal" THEN manifest["root"] ELSE disk[f]>>
        held == {i \in DOMAIN ArchiveOrder : In(ArchiveOrder[i])}
        Nth(k) == CHOOSE i \in held : Cardinality({j \in held : j <= i}) = k
    IN  /\ Begins(p) /\ Exists("config")
        /\ archive' = [k \in 1..Cardinality(held) |-> Entry(ArchiveOrder[Nth(k)])]
        /\ UNCHANGED <<disk, plug, manifest, cli, gw, hands, crashes,
                       vouched, unreviewed>>

\* config restore: what the archive does not hold stays as it is.
Restore(p) ==
    /\ archive # <<>>
    /\ Begins(p)
    /\ Become(p, [Idle EXCEPT !.pc = "open", !.op = "restore",
                              !.todo = archive])
    /\ Quiet

\* config lock: with --config, the directories of the scope files that are
\* included (DiscoverScopeDirs), in order; with --config-dir, that directory.
ScopeDirs ==
    LET dirs == {DirOf(f) : f \in Includes \intersect ScopeFiles}
    IN  CASE "sub" \notin dirs -> <<"root">>
          [] dirs = {"sub"} -> <<"sub">>
          [] OTHER -> <<"root", "sub">>

Lock(p, byDir) ==
    /\ Begins(p) /\ Exists("config")
    /\ byDir \/ LoadsForLock
    /\ Become(p, [Idle EXCEPT
           !.pc = "lock", !.op = "lock", !.alone = TRUE,
           !.todo = IF byDir THEN <<"root">> ELSE ScopeDirs])
    /\ Quiet

-----------------------------------------------------------------------------
(* The steps of a command that is under way.                               *)

\* A write, which a lock that is under way may or may not have seen.
WriteFile(p, f, content, c) ==
    /\ disk' = [disk EXCEPT ![f] = content]
    /\ cli' = [q \in Procs |-> IF q = p THEN c
                               ELSE [cli[q] EXCEPT !.alone = FALSE]]

Rest == UNCHANGED <<plug, archive, gw, ops, hands, crashes>>

WriteScope(p) ==
    /\ cli[p].pc = "scope"
    /\ WriteFile(p, cli[p].file, Content(cli[p].todo[1]),
                 [cli[p] EXCEPT !.pc = "token"])
    /\ UNCHANGED <<manifest, vouched, unreviewed>> /\ Rest

\* mutant: the entry of an existing token keeps its hash
WriteTokens_StaleHash(p) ==
    LET n == cli[p].file
        entry == [name |-> n, hash |-> disk[n]]
    IN  /\ cli[p].pc = "token"
        /\ WriteFile(p, "tokens",
               Content(IF n \in TokenNames(cli[p].buf) THEN cli[p].buf
                       ELSE cli[p].buf \union {entry}),
               [cli[p] EXCEPT !.pc = "hash"])
        /\ UNCHANGED <<manifest, vouched, unreviewed>> /\ Rest

\* The scope file is hashed again as it is now; the other entries are those
\* the command read when it began.
WriteTokens(p) ==
    LET n == cli[p].file
        entry == [name |-> n, hash |-> disk[n]]
    IN  /\ cli[p].pc = "token"
        /\ WriteFile(p, "tokens",
               Content({e \in cli[p].buf : e.name # n} \union {entry}),
               [cli[p] EXCEPT !.pc = "hash"])
        /\ UNCHANGED <<manifest, vouched, unreviewed>> /\ Rest

WriteEdit(p) ==
    /\ cli[p].pc = "write"
    /\ WriteFile(p, cli[p].file, Content(cli[p].buf),
                 [cli[p] EXCEPT !.pc = "hash"])
    /\ UNCHANGED <<manifest, vouched, unreviewed>> /\ Rest

\* Where a command goes once it has written the first file of its list.
Onwards(c) ==
    LET rest == Tail(c.todo)
    IN  CASE rest # <<>> -> [c EXCEPT !.todo = rest, !.pc = "open"]
          [] rest = <<>> /\ c.op = "set" ->
                 [c EXCEPT !.todo = rest, !.pc = "check"]
          [] rest = <<>> /\ c.op = "undo" -> Idle
          [] OTHER -> [c EXCEPT !.todo = rest, !.pc = "hash"]

\* init, restore and set: the next file of the list is truncated ...
Open(p) ==
    LET f == cli[p].todo[1][1]
        skip == cli[p].op = "init" /\ cli[p].buf = {} /\ Exists(f)
    IN  /\ cli[p].pc = "open"
        /\ \/ skip /\ Become(p, Onwards(cli[p])) /\ UNCHANGED <<disk, manifest>>
           \/ /\ ~skip /\ f # "seal"
              /\ WriteFile(p, f, Truncated, [cli[p] EXCEPT !.pc = "fill"])
              /\ UNCHANGED manifest
           \/ /\ ~skip /\ f = "seal"
              /\ manifest' = [manifest EXCEPT !["root"] = NoSeal]
              /\ Become(p, [cli[p] EXCEPT !.pc = "fill"])
              /\ UNCHANGED disk
        /\ UNCHANGED <<vouched, unreviewed>> /\ Rest

\* ... and filled.
Fill(p) ==
    LET f == cli[p].todo[1][1]
        content == cli[p].todo[1][2]
    IN  /\ cli[p].pc = "fill"
        /\ \/ /\ f # "seal" /\ WriteFile(p, f, content, Onwards(cli[p]))
              /\ UNCHANGED manifest
           \/ /\ f = "seal" /\ Become(p, Onwards(cli[p]))
              /\ manifest' = [manifest EXCEPT !["root"] = content]
              /\ UNCHANGED disk
        /\ unreviewed' = unreviewed \ {f}
        /\ UNCHANGED vouched /\ Rest

\* persistWithValidation loads what it wrote and puts the original back when
\* that fails.
persistWithValidation(p) ==
    /\ cli[p].pc = "check"
    /\ Become(p, IF Loads THEN Idle
                 ELSE [cli[p] EXCEPT
                        !.pc = "open", !.op = "undo",
                        !.todo = << <<"config", Content(cli[p].buf)>> >>])
    /\ UNCHANGED <<disk, manifest, vouched, unreviewed>> /\ Rest

\* Hash the files of a set: what the manifest will say of them.
HashFiles(p, fs, prints) ==
    LET hashes == [f \in fs |-> disk[f]]
    IN  /\ Become(p, [cli[p] EXCEPT !.pc = "seal", !.hashes = hashes,
                                    !.prints = prints])
        /\ vouched' = vouched \union {<<f, disk[f]>> : f \in fs}
        /\ UNCHANGED <<disk, manifest, unreviewed>> /\ Rest

\* refreshConfigIntegrity hashes the files of the directory, no plugin.
refreshConfigIntegrity(p) ==
    /\ cli[p].pc = "hash"
    /\ HashFiles(p, IF Exists("config") THEN DiscoverConfigFiles
                    ELSE DiscoverConfigFiles \intersect {"tokens", "webhooks"},
                 <<>>)

\* mutant: the lock forgets the plugins
LockDir_NoPlugins(p) ==
    /\ cli[p].pc = "lock"
    /\ Head(cli[p].todo) = "root" /\ LoadsForLock
    /\ HashFiles(p, DiscoverConfigFiles, <<>>)

\* The lock of one directory: the root with every configured plugin, of which
\* none may be missing; a directory without config.yaml with its scope files.
LockDir(p) ==
    /\ cli[p].pc = "lock"
    /\ \/ /\ Head(cli[p].todo) = "root" /\ LoadsForLock
          /\ \A x \in Configured : plug[x] # "gone"
          /\ HashFiles(p, DiscoverConfigFiles, [x \in Configured |-> plug[x]])
       \/ /\ Head(cli[p].todo) = "sub"
          /\ HashFiles(p, {f \in {"sub"} : Exists(f)}, <<>>)

\* A lock that cannot load the configuration or resolve a plugin stops; the
\* directories before this one stay locked.
LockFails(p) ==
    /\ cli[p].pc = "lock" /\ Head(cli[p].todo) = "root"
    /\ ~LoadsForLock \/ \E x \in Configured : plug[x] = "gone"
    /\ Become(p, Idle)
    /\ UNCHANGED <<disk, manifest, vouched, unreviewed>> /\ Rest

\* writeChecksumsAtomic replaces the manifest.  The command's own validation
\* follows, which only chooses its exit code.
writeChecksumsAtomic(p) ==
    LET c == cli[p]
        lock == c.op = "lock"
        dir == IF lock THEN Head(c.todo) ELSE "root"
        more == lock /\ Len(c.todo) > 1
    IN  /\ c.pc = "seal"
        /\ manifest' = [manifest EXCEPT
               ![dir] = [present |-> TRUE, hashes |-> c.hashes,
                         prints |-> c.prints]]
        /\ Become(p, IF more
                     THEN [c EXCEPT !.pc = "lock", !.todo = Tail(@),
                                    !.hashes = <<>>, !.prints = <<>>]
                     ELSE Idle)
        /\ unreviewed' = {f \in unreviewed :
               ~(lock /\ f \in DOMAIN c.hashes /\ c.hashes[f] = disk[f])}
        /\ UNCHANGED <<disk, plug, archive, gw, ops, hands, crashes, vouched>>

\* The process is killed, or a step fails and the command returns 1.
Abandon(p) ==
    /\ cli[p].pc # "idle" /\ crashes < MaxCrash
    /\ crashes' = crashes + 1
    /\ Become(p, Idle)
    /\ UNCHANGED <<disk, plug, manifest, archive, gw, ops, hands, vouched,
                   unreviewed>>

-----------------------------------------------------------------------------
(* The operator's editor and the plugins' builds.                          *)

HandMark(f) ==
    CASE f = "config" -> {"complete"}
      [] f \in {"tokens", "sub"} -> {[name |-> "hand", hash |-> Absent]}
      [] OTHER -> {"hand"}

HandEdit(f) ==
    LET content == Content(disk[f].data \union HandMark(f))
    IN  /\ hands < MaxHand /\ hands' = hands + 1
        /\ Exists("config") /\ content # disk[f]
        /\ f \in Names => Exists(f)
        /\ f = "sub" => "sub" \in Included
        /\ disk' = [disk EXCEPT ![f] = content]
        /\ cli' = [q \in Procs |-> [cli[q] EXCEPT !.alone = FALSE]]
        /\ unreviewed' = unreviewed \union {f}
        /\ UNCHANGED <<plug, manifest, archive, gw, ops, crashes, vouched>>

Rebuild(x, v) ==
    /\ hands < MaxHand /\ hands' = hands + 1
    /\ plug[x] # v
    /\ plug' = [plug EXCEPT ![x] = v]
    /\ cli' = [q \in Procs |-> [cli[q] EXCEPT !.alone = FALSE]]
    /\ UNCHANGED <<disk, manifest, archive, gw, ops, crashes, vouched,
                   unreviewed>>

-----------------------------------------------------------------------------
(* The gateway.  A refused start leaves it down.                           *)

GatewayOnly == UNCHANGED <<disk, plug, manifest, archive, cli, ops, hands,
                           crashes, vouched, unreviewed>>

Start ==
    /\ gw = "down" /\ Loads
    /\ gw' = IF IsStrict THEN "preflight" ELSE "up"
    /\ GatewayOnly

\* The pre-flight checks of strict mode, on the files as they are now.
Preflight ==
    /\ gw = "preflight"
    /\ gw' = IF VerifyIntegrity /\ verifyPluginFingerprintsForConfig
             THEN "up" ELSE "down"
    /\ GatewayOnly

\* A reload first loads the configuration it will run with, then checks the
\* files as they are by then, whether strict mode is on or not; refused by
\* either, it changes nothing.  What it does with what it loaded is the
\* subject of module Reload.
ReloadLoads ==
    /\ gw = "up" /\ Loads
    /\ gw' = "loaded"
    /\ GatewayOnly

verifyReloadIntegrity ==
    /\ gw = "loaded"
    /\ gw' = IF Exists("config") /\ VerifyIntegrity /\ verifyPluginFingerprintsForConfig
             THEN "reloading" ELSE "up"
    /\ GatewayOnly

Reloaded == gw = "reloading" /\ gw' = "up" /\ GatewayOnly

Stop == gw = "up" /\ gw' = "down" /\ GatewayOnly

-----------------------------------------------------------------------------
\* Either nothing yet, or what `config init` makes of an empty directory.
Init ==
    /\ deployment \in Deployments
    /\ \E fresh \in BOOLEAN :
           LET made == [f \in {InitOrder[i] : i \in 1..Len(InitOrder)} |->
                        Content({})]
           IN  /\ disk = [f \in Files |-> IF fresh /\ f \in DOMAIN made
                                          THEN made[f] ELSE Absent]
               /\ manifest = [d \in {"root", "sub"} |->
                      IF fresh /\ d = "root"
                      THEN [present |-> TRUE, hashes |-> made, prints |-> <<>>]
                      ELSE NoSeal]
               /\ vouched = IF fresh THEN {<<f, made[f]>> : f \in DOMAIN made}
                            ELSE {}
    /\ plug = [x \in Plugins |-> "v1"]
    /\ archive = <<>>
    /\ cli = [p \in Procs |-> Idle]
    /\ gw = "down"
    /\ ops = 0 /\ hands = 0 /\ crashes = 0
    /\ unreviewed = {}

Command(p) ==
    \/ \E n \in Names, s \in Scopes : TokenCreate(p, n, s)
    \/ \E n \in Names, s \in Scopes, mode \in {"add", "remove", "set"} :
           ScopeMutation(p, n, mode, s)
    \/ \E n \in Names : TokenRehash(p, n) \/ TokenDelete(p, n)
    \/ \E mode \in {"add", "remove"} : RouteMutation(p, mode)
    \/ WebhookAdd(p) \/ PluginSet(p)
    \/ \E force \in BOOLEAN : ConfigInit(p, force)
    \/ \E value \in {"set", "bad"} : ConfigSet(p, value)
    \/ Backup(p) \/ Restore(p)
    \/ \E byDir \in BOOLEAN : Lock(p, byDir)

CommandStep(p) ==
    \/ WriteScope(p) \/ WriteTokens(p) \/ WriteEdit(p) \/ Open(p) \/ Fill(p)
    \/ persistWithValidation(p)
    \/ refreshConfigIntegrity(p) \/ LockDir(p) \/ LockFails(p)
    \/ writeChecksumsAtomic(p)

Operator ==
    \/ \E f \in Files \ {"plugin"} : HandEdit(f)
    \/ \E x \in Plugins, v \in {"v1", "v2", "gone"} : Rebuild(x, v)

Gateway == Start \/ Preflight \/ ReloadLoads \/ verifyReloadIntegrity \/ Reloaded \/ Stop

Next ==
    /\ \/ \E p \in Procs : Command(p) \/ CommandStep(p) \/ Abandon(p)
       \/ Operator
       \/ Gateway
    /\ UNCHANGED deployment

Spec == Init /\ [][Next]_<<vars, deployment>>

-----------------------------------------------------------------------------
AllIdle == \A p \in Procs : cli[p] = Idle

\* Commands are run one after the other, and each to its end.
InSequence == crashes = 0 /\ \A p, q \in Procs : p = q

\* Type correctness.
TypeOK ==
    /\ \A f \in Files : disk[f].kind \in {"absent", "empty", "file"}
    /\ \A x \in Plugins : plug[x] \in {"v1", "v2", "gone"}
    /\ \A d \in {"root", "sub"} : DOMAIN manifest[d].hashes \subseteq Files
    /\ \A p \in Procs : cli[p].pc \in {"idle", "scope", "token", "write",
                                       "open", "fill", "check", "hash", "lock",
                                       "seal"}
    /\ gw \in {"down", "preflight", "up", "loaded", "reloading"}
    /\ unreviewed \subseteq Files

\* Whatever commands were run one after the other, and whatever was edited by
\* hand and locked since, every file of the directory is as the manifest says
\* once no command is under way: each command hashes after its last write
\* (config_manage.go:254, :496, :571, :715, :1589, :1749, :1912, :2024, :2106),
\* but for the `config set` of config.yaml.
SealedAtRest ==
    AllIdle /\ InSequence /\ unreviewed = {} =>
        \A f \in DiscoverConfigFiles \ {"config"} : IsSealed(f)

\* A `config set` that is refused leaves nothing of it in config.yaml
\* (access.go:251).
RefusedSetUndone == AllIdle /\ InSequence => NoBadValue

\* The scopes_hash of a token is that of its scope file when no command is
\* under way: create and the scope commands write the file before they hash
\* it (config_manage.go:222, :704), delete keeps the file, restore brings
\* both back.
TokenHashCurrent ==
    AllIdle /\ InSequence /\ hands = 0 =>
        \A e \in disk["tokens"].data : e.hash = disk[e.name]

Accepts ==
    \/ gw = "preflight" /\ gw' = "up"
    \/ gw = "loaded" /\ gw' = "reloading"

\* With commands racing each other, killed half-way or restoring an archive
\* with its old manifest, a start in strict mode or a reload never accepts a
\* high-security file with a content no command has ever hashed, such as the
\* truncated file of an interrupted restore (integrity.go:11).  This is about
\* the files when they are checked; what a reload loaded before may differ.
AcceptsOnlyVouched ==
    [][Accepts => \A f \in DiscoverConfigFiles \intersect HighSecurity :
                      <<f, disk[f]>> \in vouched]_vars

LockEnds(p) ==
    /\ cli[p].op = "lock" /\ cli[p].pc = "seal" /\ Len(cli[p].todo) = 1
    /\ cli'[p] = Idle /\ crashes' = crashes

Startable == Loads /\ VerifyIntegrity /\ verifyPluginFingerprintsForConfig

\* Once no command is under way, manifest, scope hashes and config.yaml are
\* what the commands that were run make of them.
ConsistentAtRest == TypeOK /\ SealedAtRest /\ TokenHashCurrent /\ RefusedSetUndone

\* From whatever interrupted and racing commands left behind, a `config lock`
\* that runs to its end while nothing else is written makes a strict start and
\* a reload possible again, over a config.yaml that is valid: every diagnostic
\* names "the literal recovery command so operators can always recover"
\* (plugin_fingerprint.go:141).  A lock does not look whether it is: it also
\* seals one that was truncated or set to a bad value, which no start accepts.
\* (With a tokens.yaml in another directory it may not recover either: only
\* one of the directories is locked.)
LockRestores ==
    []["sub" \notin Included => \A p \in Procs :
           LockEnds(p) /\ cli[p].alone /\ IsValid => Startable']_vars
=============================================================================
