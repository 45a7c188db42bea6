--------------------------------- MODULE Setup ---------------------------------
(***************************************************************************)
(* Setup, uninstall and the repair of the install record.  Three things     *)
(* should tell the same story: the distro that WSL has registered, the      *)
(* install flag of state.json, and the paths of config.json.  Commands are  *)
(* processes; a setup has a second goroutine that answers Ctrl+C.           *)
(*                                                                          *)
(* A call of WithLock is one step (module StateLock).  Restore --full is a  *)
(* setup.  The contents of the distro and its snapshot are in Restore.      *)
(***************************************************************************)
EXTENDS Naturals, FiniteSets

CONSTANTS
  Procs,        \* slots of processes
  Paths,        \* directories to install into
  NoPath,       \* no path
  NoDistro,     \* WSL has no distro of this name
  Worlds,       \* sets of the faults below that may occur together
  MaxCommands,  \* bound: commands started
  MaxAccidents  \* bound: distros removed outside dockup

AllFaults ==
  { "install",    \* a download, the import or the engine fails
    "unregister", \* wsl --unregister fails
    "wsl",        \* WSL does not answer
    "blind",      \* what WSL answers when it fails passes for a distro that is absent
    "saves",      \* state.json or config.json cannot be written
    "interrupt",  \* Ctrl+C in a setup
    "crash",      \* a process dies
    "external",   \* the distro is unregistered outside dockup
    "overlap" }   \* commands run side by side

ASSUME SetupAssumption ==
  /\ NoPath \notin Paths
  /\ NoDistro \notin [path : Paths, ready : BOOLEAN]
  /\ Worlds \subseteq SUBSET AllFaults
  /\ MaxCommands \in Nat
  /\ MaxAccidents \in Nat

VARIABLES
  faults,     \* what may happen here
  distro,     \* where it is imported and whether its engine has answered, or NoDistro
  installed,  \* state.json: Installed
  config,     \* config.json: DefaultPath and CurrentPath
  pc,         \* where a process is
  mem,        \* a setup's copy of config.json
  dir,        \* the directory a setup installs into
  caught,     \* its interrupt goroutine has run fail
  said,       \* how the last command that ended did so
  stale,      \* history: a setup found no distro, but the install flag of one
  missed,     \* history: the last look at WSL took a distro for absent
  spoilt,     \* history: since the last complete setup a look did so, WSL refused to
              \* unregister, or a setup was interrupted or a command died
  started,    \* commands so far
  accidents   \* removals outside dockup so far

disk   == <<distro, installed, config>>
local  == <<mem, dir, caught>>
events == <<stale, missed, spoilt>>
counts == <<faults, started, accidents>>
vars   == <<disk, pc, local, said, events, counts>>

Config == [dflt : Paths, cur : Paths \cup {NoPath}]

Distro == {NoDistro} \cup [path : Paths, ready : BOOLEAN]

SetupAt     == {"exists", "confirm", "unregister", "reset", "path", "fetch", "import",
                "test", "engine", "record", "remember"}
UninstallAt == {"gone", "erase", "forget"}
RepairAt    == {"check", "clearPath", "clearFlag"}

Quiet == \A p \in Procs : pc[p] = "idle"

\* None of these faults occurs.
Without(F) == faults \cap F = {}

Registered == distro # NoDistro

\* What a look at WSL may answer: IsRegistered reads a failure of the API as absence,
\* List an output of a failed wsl.exe as the list.
Answers == {IF Registered THEN "present" ELSE "absent"}
             \cup (IF "wsl" \in faults THEN {"unknown"} ELSE {})
             \cup (IF "blind" \in faults THEN {"absent"} ELSE {})

\* wsl.Exists knows no unknown.
Exists == {a = "present" : a \in Answers}

\* A look that took the distro for absent or not.
Saw(there) ==
  /\ missed' = (Registered /\ ~there)
  /\ spoilt' = (spoilt \/ missed')

Init ==
  /\ faults \in Worlds
  /\ distro = NoDistro
  /\ installed = FALSE
  /\ config \in [dflt : Paths, cur : {NoPath}]
  /\ pc = [p \in Procs |-> "idle"]
  /\ mem = [p \in Procs |-> config]
  /\ dir = [p \in Procs |-> config.dflt]
  /\ caught = [p \in Procs |-> FALSE]
  /\ said = "none"
  /\ stale = FALSE
  /\ missed = FALSE
  /\ spoilt = FALSE
  /\ started = 0
  /\ accidents = 0

Goto(p, l) == pc' = [pc EXCEPT ![p] = l]

End(p, outcome) == Goto(p, "idle") /\ said' = outcome

\* Every command loads config.json first; a gate or doctor runs ReconcileDistro.
Begin(p) ==
  /\ pc[p] = "idle"
  /\ Quiet \/ "overlap" \in faults
  /\ started < MaxCommands
  /\ started' = started + 1
  /\ \E l \in {"exists", "gone", "check"} : Goto(p, l)
  /\ mem' = [mem EXCEPT ![p] = config]
  /\ caught' = [caught EXCEPT ![p] = FALSE]
  /\ said' = "none"
  /\ UNCHANGED <<faults, disk, dir, events, accidents>>

-----------------------------------------------------------------------------
(* Setup *)

\* Save of config.json, whose error is ignored.
SaveConfig(c) == config' \in {c} \cup (IF "saves" \in faults THEN {config} ELSE {})

\* A locked update of the install flag, whose error is ignored.
SaveFlag(b) == installed' \in {b} \cup (IF "saves" \in faults THEN {installed} ELSE {})

\* Mutant of Forget: the wrong one of the two paths is cleared.
ForgetDefault(p) ==
  /\ mem' = [mem EXCEPT ![p].dflt = NoPath]
  /\ SaveConfig(mem'[p])

\* fail: the copy of config.json is saved without current_path.
Forget(p) ==
  /\ mem' = [mem EXCEPT ![p].cur = NoPath]
  /\ SaveConfig(mem'[p])

Fail(p) ==
  /\ Forget(p)
  /\ End(p, "failed")
  /\ UNCHANGED <<distro, installed, dir, caught, events, counts>>

Look(p) ==
  /\ pc[p] = "exists"
  /\ \E there \in Exists :
       /\ Goto(p, IF there THEN "unregister" ELSE "path")
       /\ stale' = (stale \/ (~there /\ installed))
       /\ Saw(there)
  /\ UNCHANGED <<disk, local, said, counts>>

\* Answering no, a dry run, or a path that is not valid.
Decline(p) ==
  /\ pc[p] \in {"unregister", "path"}
  /\ End(p, "aborted")
  /\ UNCHANGED <<disk, local, events, counts>>

\* Its error is ignored.
Unregister(p) ==
  /\ pc[p] = "unregister"
  /\ \/ distro' = NoDistro /\ UNCHANGED spoilt
     \/ "unregister" \in faults /\ UNCHANGED distro /\ spoilt' = TRUE
  /\ Goto(p, "reset")
  /\ UNCHANGED <<installed, config, local, said, stale, missed, counts>>

\* Mutant of Reset: the old record is kept.
ResetNothing(p) ==
  /\ pc[p] = "reset"
  /\ Goto(p, "path")
  /\ UNCHANGED <<disk, local, said, events, counts>>

Reset(p) ==
  /\ pc[p] = "reset"
  /\ SaveFlag(FALSE)
  /\ Goto(p, "path")
  /\ UNCHANGED <<distro, config, local, said, events, counts>>

ChoosePath(p) ==
  /\ pc[p] = "path"
  /\ \E d \in Paths : dir' = [dir EXCEPT ![p] = d]
  /\ Goto(p, "fetch")
  /\ UNCHANGED <<disk, mem, caught, said, events, counts>>

\* The signed image or, without it, a Debian root file system.
Fetch(p) ==
  /\ pc[p] = "fetch"
  /\ \/ Goto(p, "import") /\ UNCHANGED <<disk, local, said, events, counts>>
     \/ "install" \in faults /\ Fail(p)

Imported(p) == distro' = [path |-> dir[p], ready |-> FALSE]

\* WSL refuses a second distro of the name.
Import(p) ==
  /\ pc[p] = "import"
  /\ \/ /\ ~Registered
        /\ Imported(p)
        /\ Goto(p, "test")
        /\ UNCHANGED <<installed, config, local, said, events, counts>>
     \/ (Registered \/ "install" \in faults) /\ Fail(p)

\* The user is asked whether to start again; a new RunEx loads config.json.
RetryOrFail(p) ==
  \/ /\ Goto(p, "exists")
     /\ mem' = [mem EXCEPT ![p] = config]
     /\ UNCHANGED <<disk, dir, caught, said, events, counts>>
  \/ Fail(p)

Test(p) ==
  /\ pc[p] = "test"
  /\ \/ Registered /\ Goto(p, "engine") /\ UNCHANGED <<disk, local, said, events, counts>>
     \/ (~Registered \/ "install" \in faults) /\ RetryOrFail(p)

\* The engine is configured or installed, and answers.
Engine(p) ==
  /\ pc[p] = "engine"
  /\ \/ /\ Registered
        /\ distro' = [distro EXCEPT !.ready = TRUE]
        /\ Goto(p, "record")
        /\ UNCHANGED <<installed, config, local, said, events, counts>>
     \/ (~Registered \/ "install" \in faults) /\ RetryOrFail(p)

Record(p) ==
  /\ pc[p] = "record"
  /\ SaveFlag(TRUE)
  /\ Goto(p, "remember")
  /\ UNCHANGED <<distro, config, local, said, events, counts>>

Remember(p) ==
  /\ pc[p] = "remember"
  /\ mem' = [mem EXCEPT ![p] = [dflt |-> dir[p], cur |-> dir[p]]]
  /\ SaveConfig(mem'[p])
  /\ End(p, "installed")
  /\ spoilt' = FALSE
  /\ UNCHANGED <<distro, installed, dir, caught, stale, missed, counts>>

\* Ctrl+C: the interrupt goroutine runs fail beside the setup, at any point of it ...
Interrupt(p) ==
  /\ "interrupt" \in faults
  /\ pc[p] \in SetupAt
  /\ ~caught[p]
  /\ Forget(p)
  /\ caught' = [caught EXCEPT ![p] = TRUE]
  /\ spoilt' = TRUE
  /\ UNCHANGED <<distro, installed, pc, dir, said, stale, missed, counts>>

\* wsl --import goes on when its parent has died.
Orphaned(p) ==
  \/ UNCHANGED distro
  \/ pc[p] = "import" /\ ~Registered /\ Imported(p)

\* ... and then ends the process.
Exit(p) ==
  /\ pc[p] \in SetupAt
  /\ caught[p]
  /\ Orphaned(p)
  /\ End(p, "interrupted")
  /\ UNCHANGED <<installed, config, local, events, counts>>

-----------------------------------------------------------------------------
(* Uninstall *)

\* Mutant of Gone: a failure to unregister is not looked at.
GoneAnyway(p) ==
  /\ pc[p] = "gone"
  /\ \E there \in Exists :
       /\ Saw(there)
       /\ distro' \in (IF there THEN {NoDistro} ELSE {})
                      \cup (IF there /\ "unregister" \notin faults THEN {} ELSE {distro})
  /\ Goto(p, "erase")
  /\ UNCHANGED <<installed, config, local, said, stale, counts>>

Gone(p) ==
  /\ pc[p] = "gone"
  /\ \E there \in Exists :
       /\ Saw(there)
       /\ \/ /\ distro' = IF there THEN NoDistro ELSE distro
             /\ Goto(p, "erase")
             /\ UNCHANGED said
          \/ there /\ "unregister" \in faults /\ UNCHANGED distro /\ End(p, "failed")
  /\ UNCHANGED <<installed, config, local, stale, counts>>

Erase(p) ==
  /\ pc[p] = "erase"
  /\ SaveFlag(FALSE)
  /\ Goto(p, "forget")
  /\ UNCHANGED <<distro, config, local, said, events, counts>>

ForgetPath(p) ==
  /\ pc[p] = "forget"
  /\ SaveConfig([config EXCEPT !.cur = NoPath])
  /\ End(p, "uninstalled")
  /\ UNCHANGED <<distro, installed, local, events, counts>>

-----------------------------------------------------------------------------
(* ReconcileDistro *)

\* Mutant of Check: no answer passes for absence, too.
CheckBlind(p) ==
  /\ pc[p] = "check"
  /\ \E a \in Answers :
       /\ Saw(a # "absent")
       /\ IF a = "present" THEN End(p, "checked") ELSE Goto(p, "clearPath") /\ UNCHANGED said
  /\ UNCHANGED <<disk, local, stale, counts>>

\* Without an answer nothing is repaired.
Check(p) ==
  /\ pc[p] = "check"
  /\ \E a \in Answers :
       /\ Saw(a # "absent")
       /\ IF a = "absent" THEN Goto(p, "clearPath") /\ UNCHANGED said ELSE End(p, "checked")
  /\ UNCHANGED <<disk, local, stale, counts>>

ClearPath(p) ==
  /\ pc[p] = "clearPath"
  /\ SaveConfig([config EXCEPT !.cur = NoPath])
  /\ Goto(p, "clearFlag")
  /\ UNCHANGED <<distro, installed, local, said, events, counts>>

ClearFlag(p) ==
  /\ pc[p] = "clearFlag"
  /\ SaveFlag(FALSE)
  /\ End(p, "repaired")
  /\ UNCHANGED <<distro, config, local, events, counts>>

-----------------------------------------------------------------------------
Crash(p) ==
  /\ "crash" \in faults
  /\ pc[p] # "idle"
  /\ Orphaned(p)
  /\ End(p, "crashed")
  /\ spoilt' = TRUE
  /\ UNCHANGED <<installed, config, local, stale, missed, counts>>

External ==
  /\ "external" \in faults
  /\ accidents < MaxAccidents
  /\ Registered
  /\ distro' = NoDistro
  /\ accidents' = accidents + 1
  /\ UNCHANGED <<installed, config, pc, local, said, events, faults, started>>

RunEx(p) ==
  \/ Look(p) \/ Decline(p) \/ Unregister(p) \/ Reset(p) \/ ChoosePath(p) \/ Fetch(p)
  \/ Import(p) \/ Test(p) \/ Engine(p) \/ Record(p) \/ Remember(p)

Uninstall(p) == Gone(p) \/ Erase(p) \/ ForgetPath(p)

ReconcileDistro(p) == Check(p) \/ ClearPath(p) \/ ClearFlag(p)

Next ==
  \/ \E p \in Procs : \/ Begin(p) \/ RunEx(p) \/ Interrupt(p) \/ Exit(p)
                      \/ Uninstall(p) \/ ReconcileDistro(p) \/ Crash(p)
  \/ External

Spec == Init /\ [][Next]_vars

-----------------------------------------------------------------------------
TypeOK ==
  /\ faults \in Worlds
  /\ distro \in Distro
  /\ installed \in BOOLEAN
  /\ config \in Config
  /\ pc \in [Procs -> {"idle"} \cup SetupAt \cup UninstallAt \cup RepairAt]
  /\ mem \in [Procs -> Config]
  /\ dir \in [Procs -> Paths]
  /\ caught \in [Procs -> BOOLEAN]
  /\ said \in {"none", "installed", "aborted", "failed", "interrupted", "uninstalled",
               "checked", "repaired", "crashed"}
  /\ stale \in BOOLEAN
  /\ missed \in BOOLEAN
  /\ spoilt \in BOOLEAN
  /\ started \in 0..MaxCommands
  /\ accidents \in 0..MaxAccidents

\* "Only a fully successful setup earns installed=true": the flag never stands for a
\* distro whose engine has not answered, after any failures, interrupts and crashes,
\* unless a setup began without a distro while the flag of a lost one still stood.
InstalledIsEarned ==
  installed /\ Registered /\ ~stale /\ Without({"overlap", "saves"}) => distro.ready

\* Between commands a distro that a setup completed is recorded with its path, over
\* any history of declined and failed setups, uninstalls and repairs in which, since
\* that setup, no look at WSL took it for absent, WSL obeyed, and nothing was cut off.
\* An unanswered look is none of these: "wsl.Exists-style blindness must never wipe
\* the record".  In any case the recorded path is never that of another directory,
\* unless a command died.
RecordMatchesDistro ==
  Quiet /\ Registered /\ distro.ready /\ Without({"overlap", "saves"}) =>
    /\ ~spoilt => installed /\ config.cur = distro.path
    /\ Without({"crash"}) => config.cur \in {distro.path, NoPath}

\* "current_path (cleared on uninstall)": a successful uninstall leaves no record, and
\* no distro that its look at WSL did not miss.
UninstallComplete ==
  said = "uninstalled" /\ Quiet /\ Without({"overlap", "saves"}) =>
    /\ ~installed
    /\ config.cur = NoPath
    /\ Registered => missed
=============================================================================
