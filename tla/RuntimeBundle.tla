--------------------------- MODULE RuntimeBundle ---------------------------
(***************************************************************************)
(* The managed Codex runtime (internal/codexruntime/runtime.go) and the      *)
(* start of the daemon that validates it (cmd/ctr-go/main.go).               *)
(*                                                                          *)
(* A bundle is copied from Desktop's directories into a private one, made    *)
(* active for the next start, confirmed once both App Servers connected,    *)
(* and rolled back otherwise.  The daemon and the command `ctr-go runtime`  *)
(* do this to the same files, one file operation after the other, without a *)
(* lock, and either may die between two of them.  A bundle is a number in   *)
(* the order of the modification times; its versionID is as good.           *)
(***************************************************************************)
EXTENDS Naturals, FiniteSetsExt

CONSTANTS
    MaxBundle,      \* bound: bundles that Desktop ever brings
    MaxCommands,    \* bound: runs of `ctr-go runtime`
    Overlap,        \* bound: whether both may be at the files at a time
    MaxStarts       \* bound: starts of the daemon

ASSUME RuntimeAssumption ==
    MaxBundle \in Nat \ {0} /\ MaxCommands \in Nat /\ MaxStarts \in Nat
    /\ Overlap \in BOOLEAN

Bundles == 1 .. MaxBundle
NoBundle == 0
Versions == Bundles \cup {NoBundle}

\* state.json; a state with no active version is no state.
States == [active : Versions, previous : Versions,
           activeConfirmed : BOOLEAN, previousConfirmed : BOOLEAN]
NoState == [active |-> NoBundle, previous |-> NoBundle,
            activeConfirmed |-> FALSE, previousConfirmed |-> FALSE]

Processes == {"daemon", "command"}

VARIABLES
    sources,        \* complete bundles in Desktop's directories
    newestBundle,   \* the newest that Desktop brought
    runs,           \* bundles whose App Servers connect
    disk,           \* complete bundles under versions/
    current,        \* state.json
    backup,         \* state.json.old
    op,             \* what each process does to the files
    daemon,
    starts, commands,
    connected       \* history: bundles whose App Servers connected

files == <<disk, current, backup>>
runtimeVars == <<sources, newestBundle, runs, files, op, daemon, starts, commands, connected>>

Idle == [job |-> "none", at |-> "load", next |-> NoState, bundle |-> NoBundle]
Off == [phase |-> "off", version |-> NoBundle, previous |-> FALSE, attempt |-> 0, moved |-> 0]

RuntimeInit ==
    /\ sources = {1} /\ newestBundle = 1
    /\ runs \in {S \in SUBSET Bundles : 1 \in S}        \* bound: Desktop's first one runs
    /\ disk = {} /\ current = NoState /\ backup = NoState
    /\ op = [p \in Processes |-> Idle]
    /\ daemon = Off /\ starts = 0 /\ commands = 0
    /\ connected = {}

-----------------------------------------------------------------------------
(* Reading the files.                                                       *)

loadState == IF current # NoState THEN current ELSE backup
completeBundle(v) == v \in disk
bestCandidate == Max(sources)

Swapped(s) == [active |-> s.previous, previous |-> s.active,
               activeConfirmed |-> s.previousConfirmed,
               previousConfirmed |-> s.activeConfirmed]
Bootstrapped(b) == [NoState EXCEPT !.active = b]
Promoted(b, s) == [active |-> b, previous |-> s.active,
                   activeConfirmed |-> FALSE, previousConfirmed |-> s.activeConfirmed]

OpGoes(p, at, next, bundle) ==
    op' = [op EXCEPT ![p] = [@ EXCEPT !.at = at, !.next = next, !.bundle = bundle]]

\* What Ensure finds; SyncBundle goes on from there with "sync".
Resolved(p, s) ==
    IF op[p].job = "sync" THEN OpGoes(p, "sync", s, NoBundle) ELSE OpGoes(p, "done", s, NoBundle)

Fails(p) == OpGoes(p, "failed", NoState, NoBundle)

Ensure(p) ==
    LET s == loadState IN
    /\ op[p].job \in {"ensure", "sync"} /\ op[p].at = "load"
    /\ \/ completeBundle(s.active) /\ Resolved(p, s)
       \/ /\ ~completeBundle(s.active) /\ completeBundle(s.previous)
          /\ OpGoes(p, "backup", Swapped(s), NoBundle)
       \/ /\ ~completeBundle(s.active) /\ ~completeBundle(s.previous)
          /\ IF sources = {} THEN Fails(p)
             ELSE OpGoes(p, "install", Bootstrapped(bestCandidate), bestCandidate)
    /\ UNCHANGED <<sources, newestBundle, runs, files, daemon, starts, commands, connected>>

\* An unreadable state fails; no candidate leaves the active bundle.
SyncBundle(p) ==
    LET s == loadState IN
    /\ op[p].at = "sync"
    /\ IF s = NoState THEN Fails(p)
       ELSE IF sources = {} \/ bestCandidate = s.active THEN OpGoes(p, "done", s, NoBundle)
       ELSE OpGoes(p, "install", Promoted(bestCandidate, s), bestCandidate)
    /\ UNCHANGED <<sources, newestBundle, runs, files, daemon, starts, commands, connected>>

\* Only the bundle that this daemon started is confirmed.
ConfirmsOnly(s) == s # NoState /\ daemon.version = s.active

Confirm(p) ==
    LET s == loadState IN
    /\ op[p].job = "confirm" /\ op[p].at = "load"
    /\ IF ConfirmsOnly(s)
       THEN OpGoes(p, "backup", [s EXCEPT !.activeConfirmed = TRUE], s.active)
       ELSE Fails(p)
    /\ UNCHANGED <<sources, newestBundle, runs, files, daemon, starts, commands, connected>>

Rollback(p) ==
    LET s == loadState IN
    /\ op[p].job = "rollback" /\ op[p].at = "load"
    /\ IF completeBundle(s.previous) THEN OpGoes(p, "backup", Swapped(s), s.previous)
       ELSE Fails(p)
    /\ UNCHANGED <<sources, newestBundle, runs, files, daemon, starts, commands, connected>>

-----------------------------------------------------------------------------
(* Writing the files.                                                       *)

\* The bundle is staged beside the others and renamed; a copy or a probe fails.
install(p) ==
    /\ op[p].at = "install"
    /\ \/ /\ op[p].bundle \in sources \cup disk
          /\ disk' = disk \cup {op[p].bundle}
          /\ OpGoes(p, "backup", op[p].next, op[p].bundle)
       \/ Fails(p) /\ UNCHANGED disk
    /\ UNCHANGED <<sources, newestBundle, runs, current, backup, daemon, starts, commands,
                   connected>>

BacksUp(p) ==
    /\ op[p].at = "backup"
    /\ \/ /\ backup' = IF current # NoState THEN current ELSE backup
          /\ OpGoes(p, "replace", op[p].next, op[p].bundle)
       \/ Fails(p) /\ UNCHANGED backup
    /\ UNCHANGED <<sources, newestBundle, runs, disk, current, daemon, starts, commands,
                   connected>>

\* The daemon's bundle is moved away from when state.json names another.
Moves(next) ==
    daemon' = [daemon EXCEPT !.moved =
        IF daemon.phase # "off" /\ next.active # loadState.active /\ @ < 2 THEN @ + 1 ELSE @]

\* Ensure does not prune after it swapped.
AfterWrite(p) == IF op[p].bundle = NoBundle THEN Resolved(p, op[p].next)
                 ELSE OpGoes(p, "prune", op[p].next, op[p].bundle)

replaceFile(p) ==
    /\ op[p].at \in {"replace", "rename"}
    /\ \/ /\ current' = op[p].next /\ Moves(op[p].next)
          /\ AfterWrite(p)
       \/ /\ op[p].at = "replace"       \* the rename failed: remove, then rename
          /\ current' = NoState /\ UNCHANGED daemon
          /\ OpGoes(p, "rename", op[p].next, op[p].bundle)
       \/ Fails(p) /\ UNCHANGED <<current, daemon>>
    /\ UNCHANGED <<sources, newestBundle, runs, disk, backup, starts, commands, connected>>

\* Mutant of Kept: the bundle to go back to is pruned as well.
KeepsActive(next) == {next.active}

Kept(next) == {next.active, next.previous}

pruneUnused(p) ==
    /\ op[p].at = "prune"
    /\ disk' = disk \cap Kept(op[p].next)
    /\ IF op[p].job = "sync" /\ op[p].next.previous = NoBundle
       THEN Resolved(p, op[p].next)     \* the bundle that Ensure brought
       ELSE OpGoes(p, "done", op[p].next, NoBundle)
    /\ UNCHANGED <<sources, newestBundle, runs, current, backup, daemon, starts, commands,
                   connected>>

-----------------------------------------------------------------------------
(* The daemon: runDaemon and syncManagedCodexRuntime.                        *)

OpBegins(p, job) ==
    /\ Overlap \/ \A q \in Processes \ {p} : op[q] = Idle
    /\ op' = [op EXCEPT ![p] = [Idle EXCEPT !.job = job]]
OpEnds(p) == op' = [op EXCEPT ![p] = Idle]

Starts ==
    /\ daemon.phase = "off" /\ starts < MaxStarts
    /\ starts' = starts + 1
    /\ daemon' = [Off EXCEPT !.phase = "prepares"]
    /\ OpBegins("daemon", "ensure")
    /\ UNCHANGED <<sources, newestBundle, runs, files, commands, connected>>

\* The bundle that this attempt starts; one that is confirmed is not validated.
Takes(s) == [phase |-> IF s.activeConfirmed THEN "running" ELSE "validates",
             version |-> s.active, previous |-> s.previous # NoBundle,
             attempt |-> daemon.attempt, moved |-> 0]

\* Ensure reports the previous bundle only when it is complete.
Prepared ==
    /\ daemon.phase \in {"prepares", "rollsBack"} /\ op["daemon"].at \in {"done", "failed"}
    /\ daemon' = IF op["daemon"].at = "failed" THEN Off
                 ELSE IF daemon.phase = "rollsBack"
                      THEN [Takes(op["daemon"].next) EXCEPT !.attempt = 1]
                 ELSE [Takes(op["daemon"].next) EXCEPT
                          !.previous = completeBundle(op["daemon"].next.previous)]
    /\ OpEnds("daemon")
    /\ UNCHANGED <<sources, newestBundle, runs, files, starts, commands, connected>>

Runnable == daemon.version \in runs \cap disk

Validated ==
    /\ daemon.phase = "validates" /\ Runnable
    /\ connected' = connected \cup {daemon.version}
    /\ daemon' = [daemon EXCEPT !.phase = "confirms"]
    /\ OpBegins("daemon", "confirm")
    /\ UNCHANGED <<sources, newestBundle, runs, files, starts, commands>>

\* The time is up: the bundle does not run, or is slow.
NotValidated ==
    /\ daemon.phase = "validates"
    /\ IF daemon.attempt > 0 \/ ~daemon.previous
       THEN daemon' = Off /\ UNCHANGED op
       ELSE daemon' = [daemon EXCEPT !.phase = "rollsBack"] /\ OpBegins("daemon", "rollback")
    /\ UNCHANGED <<sources, newestBundle, runs, files, starts, commands, connected>>

Confirmed ==
    /\ daemon.phase = "confirms" /\ op["daemon"].at \in {"done", "failed"}
    /\ daemon' = IF op["daemon"].at = "failed" THEN Off ELSE [daemon EXCEPT !.phase = "running"]
    /\ OpEnds("daemon")
    /\ UNCHANGED <<sources, newestBundle, runs, files, starts, commands, connected>>

SyncBegins ==
    /\ daemon.phase = "running" /\ op["daemon"] = Idle
    /\ OpBegins("daemon", "sync")
    /\ UNCHANGED <<sources, newestBundle, runs, files, daemon, starts, commands, connected>>

SyncEnds ==
    /\ op["daemon"].job = "sync" /\ op["daemon"].at \in {"done", "failed"}
    /\ OpEnds("daemon")
    /\ UNCHANGED <<sources, newestBundle, runs, files, daemon, starts, commands, connected>>

\* The daemon stops, or dies wherever it is.
Stops ==
    /\ daemon.phase # "off"
    /\ daemon' = Off /\ OpEnds("daemon")
    /\ UNCHANGED <<sources, newestBundle, runs, files, starts, commands, connected>>

-----------------------------------------------------------------------------
(* The command, Desktop, and the whole.                                     *)

runRuntime ==
    /\ op["command"] = Idle /\ commands < MaxCommands
    /\ commands' = commands + 1
    /\ \E job \in {"sync", "rollback"} : OpBegins("command", job)
    /\ UNCHANGED <<sources, newestBundle, runs, files, daemon, starts, connected>>

\* It also ends when it is killed.
CommandEnds ==
    /\ op["command"] # Idle
    /\ OpEnds("command")
    /\ UNCHANGED <<sources, newestBundle, runs, files, daemon, starts, commands, connected>>

\* An update brings a bundle and may take the others away; Desktop is removed.
CodexUpdates ==
    /\ \/ /\ newestBundle < MaxBundle
          /\ newestBundle' = newestBundle + 1
          /\ sources' \in {{newestBundle'}, sources \cup {newestBundle'}}
       \/ /\ sources # {} /\ sources' = {}
          /\ UNCHANGED newestBundle
    /\ UNCHANGED <<runs, files, op, daemon, starts, commands, connected>>

RuntimeNext ==
    \/ \E p \in Processes : \/ Ensure(p) \/ SyncBundle(p) \/ Confirm(p) \/ Rollback(p)
                            \/ install(p) \/ BacksUp(p) \/ replaceFile(p) \/ pruneUnused(p)
    \/ Starts \/ Prepared \/ Validated \/ NotValidated \/ Confirmed
    \/ SyncBegins \/ SyncEnds \/ Stops
    \/ runRuntime \/ CommandEnds \/ CodexUpdates

RuntimeSpec == RuntimeInit /\ [][RuntimeNext]_runtimeVars

RuntimeTypeOK ==
    /\ sources \subseteq Bundles /\ newestBundle \in Bundles /\ runs \subseteq Bundles
    /\ disk \subseteq Bundles /\ {current, backup} \subseteq States
    /\ op \in [Processes -> [job : {"none", "ensure", "sync", "rollback", "confirm"},
                             at : {"load", "sync", "install", "backup", "replace", "rename",
                                   "prune", "done", "failed"},
                             next : States, bundle : Versions]]
    /\ daemon \in [phase : {"off", "prepares", "validates", "confirms", "rollsBack", "running"},
                   version : Versions, previous : BOOLEAN, attempt : 0 .. 1, moved : 0 .. 2]
    /\ starts \in 0 .. MaxStarts /\ commands \in 0 .. MaxCommands
    /\ connected \subseteq runs

-----------------------------------------------------------------------------
(* What the daemon may rely on.                                             *)

\* A process that dies between two file operations leaves a state that names a
\* complete bundle.
StateNamesABundle ==
    loadState # NoState =>
        completeBundle(loadState.active) \/ completeBundle(loadState.previous)

\* A confirmation is of a bundle whose two App Servers did connect.
ConfirmedHasRun ==
    /\ loadState.activeConfirmed => loadState.active \in connected
    /\ loadState.previousConfirmed => loadState.previous \in connected

\* One promotion leaves the bundle of the running daemon, which starts App
\* Servers from it again.  The second one removes it.
RunningBundleStays ==
    daemon.phase = "running" => completeBundle(daemon.version) \/ daemon.moved > 1

\* The managed runtime: the state names a complete bundle wherever a process
\* died, a confirmed bundle has run, and a promotion spares the running one.
RuntimeIsUsable == StateNamesABundle /\ ConfirmedHasRun /\ RunningBundleStays
=============================================================================
