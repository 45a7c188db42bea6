-------------------------------- MODULE Restore --------------------------------
(***************************************************************************)
(* dockup restore: internal/restore's plan over the package snapshot of     *)
(* state.json, and internal/docker's reinstall and repair of the engine.    *)
(* The distro is its explicitly installed packages, /etc/docker/daemon.json *)
(* with its backup, and the engine; users change it between restores.       *)
(***************************************************************************)
EXTENDS Naturals, FiniteSets

CONSTANTS
  Base,      \* packages of the distro image
  Engine,    \* EnginePackages
  Tools,     \* the other packages InstallScript installs
  Extra,     \* packages a user may add
  Needed,    \* those the engine depends on (iptables): installed with it, but
             \* not marked manual until a user asks for them by name
  Configs,   \* daemon.json files a user may write
  Accepted,  \* those that dockerd starts with
  NoFile,    \* no such file
  Worlds,    \* sets of the faults below that may occur together
  MaxEdits   \* bound: changes by users

AllFaults ==
  { "list",      \* apt-mark showmanual fails
    "state",     \* state.json cannot be read
    "apt",       \* apt fails, at any point
    "slowBoot",  \* dockerd still boots when it is tested
    "broken",    \* dockerd does not start, whatever its daemon.json
    "call" }     \* wsl.exe or its script fails, or passes its time limit

ASSUME RestoreAssumption ==
  /\ Accepted \subseteq Configs
  /\ NoFile \notin Configs
  /\ Extra \cap (Base \cup Engine \cup Tools) = {}
  /\ Needed \subseteq Extra
  /\ Worlds \subseteq SUBSET AllFaults
  /\ MaxEdits \in Nat

VARIABLES
  faults,    \* what may go wrong
  pc,        \* where restore is
  manual,    \* packages marked manual
  snapshot,  \* state.json: the package snapshot, empty when there is none
  plan,      \* the removal list
  engine,    \* "up", "booting" or "down"
  json,      \* /etc/docker/daemon.json
  bak,       \* daemon.json.bak
  said,      \* outcome of the last restore
  shipped,   \* history: setup installed it and no user removed it
  yours,     \* history: daemon.json as the user last left it
  edits      \* changes so far

vars == <<faults, pc, manual, snapshot, plan, engine, json, bak, said, shipped, yours, edits>>

Package == Base \cup Engine \cup Tools \cup Extra

Setup == Base \cup Engine \cup Tools

\* Mutant of Listed: the blank last line of the output is taken for a package.
ListedBlank(pkgs) == {pkgs \cup {NoFile}}

\* ManualPackages: the list, or nothing when apt-mark fails.
Listed(pkgs) == {pkgs} \cup (IF "list" \in faults THEN {{}} ELSE {})

\* Mutant of RemovalList: the snapshot is not subtracted.
RemovalListAll(current, snap) == current \ Engine

\* RemovalList: what is manual and neither in the snapshot nor the engine's.
RemovalList(current, snap) == current \ (snap \cup Engine)

\* dockerd after a restart.
Restarted(pkgs, conf) ==
  {IF Engine \subseteq pkgs /\ conf \in Accepted \cup {NoFile} THEN "booting" ELSE "down"}
    \cup (IF "broken" \in faults THEN {"down"} ELSE {})

\* The state a successful setup leaves: the snapshot is best effort.
Init ==
  /\ faults \in Worlds
  /\ pc = "idle"
  /\ manual = Setup
  /\ snapshot \in Listed(Setup)
  /\ plan = {}
  /\ engine = "up"
  /\ json = NoFile
  /\ bak = NoFile
  /\ said = "none"
  /\ shipped = Setup
  /\ yours = NoFile
  /\ edits = 0

-----------------------------------------------------------------------------
\* Between restores a user works in the distro as root.
Edit ==
  /\ pc = "idle"
  /\ edits < MaxEdits
  /\ edits' = edits + 1
  /\ UNCHANGED <<faults, pc, snapshot, plan, bak, said>>

UserInstalls ==
  /\ Edit
  /\ \E p \in Package \ manual : manual' = manual \cup {p}
  /\ UNCHANGED <<engine, json, shipped, yours>>

UserRemoves ==
  /\ Edit
  /\ \E p \in manual :
       /\ manual' = manual \ {p}
       /\ shipped' = shipped \ {p}
       /\ engine' = IF p \in Engine THEN "down" ELSE engine
  /\ UNCHANGED <<json, yours>>

\* The file is written, or removed.
UserConfigures ==
  /\ Edit
  /\ \E c \in (Configs \cup {NoFile}) \ {json} : json' = c /\ yours' = c
  /\ UNCHANGED <<manual, engine, shipped>>

-----------------------------------------------------------------------------
Fail ==
  /\ pc' = "idle"
  /\ said' = "failed"

\* runLight reads the snapshot, whatever state.Load answers, and the packages.
Begin ==
  /\ pc = "idle"
  /\ \/ /\ \E snap \in {snapshot} \cup (IF "state" \in faults THEN {{}} ELSE {}) :
             plan' = RemovalList(manual, snap)
        /\ pc' = IF plan' = {} THEN "install" ELSE "remove"
        /\ said' = "none"
     \/ "list" \in faults /\ Fail /\ plan' = {}
  /\ UNCHANGED <<faults, manual, snapshot, engine, json, bak, shipped, yours, edits>>

\* The user answers no.
Decline ==
  /\ pc \in {"remove", "install"}
  /\ pc' = "idle"
  /\ said' = "aborted"
  /\ UNCHANGED <<faults, manual, snapshot, plan, engine, json, bak, shipped, yours, edits>>

\* apt-get remove of S: what depends on a removed package goes with it.
Apt(S) ==
  /\ manual' = manual \ (S \cup (IF S \cap Needed # {} THEN Engine ELSE {}))
  /\ engine' = IF S \cap Needed # {} THEN "down" ELSE engine

\* Mutant of Remove: the error of apt is dropped.
RemoveSome ==
  /\ pc = "remove"
  /\ \E S \in SUBSET plan : Apt(S)
  /\ pc' = "reinstall"
  /\ UNCHANGED <<faults, snapshot, plan, json, bak, said, shipped, yours, edits>>

Remove ==
  /\ pc = "remove"
  /\ \/ Apt(plan) /\ pc' = "reinstall" /\ UNCHANGED said
     \/ "apt" \in faults /\ Fail /\ \E S \in SUBSET plan : Apt(S)
  /\ UNCHANGED <<faults, snapshot, plan, json, bak, shipped, yours, edits>>

\* docker.Install: missing packages are installed and marked manual.
Install ==
  /\ pc \in {"install", "reinstall"}
  /\ \/ manual' = manual \cup Engine \cup Tools /\ pc' = "repair" /\ UNCHANGED said
     \/ /\ {"apt", "call"} \cap faults # {}
        /\ \E S \in SUBSET (Engine \cup Tools) : manual' = manual \cup S
        /\ Fail
  /\ UNCHANGED <<faults, snapshot, plan, engine, json, bak, shipped, yours, edits>>

\* docker.Repair: the script restarts dockerd.
Repair ==
  /\ pc = "repair"
  /\ \/ engine' \in Restarted(manual, json) /\ pc' = "test" /\ UNCHANGED said
     \/ "call" \in faults /\ Fail /\ engine' \in {engine} \cup Restarted(manual, json)
  /\ UNCHANGED <<faults, manual, snapshot, plan, json, bak, shipped, yours, edits>>

Boot ==
  /\ engine = "booting"
  /\ engine' = "up"
  /\ UNCHANGED <<faults, pc, manual, snapshot, plan, json, bak, said, shipped, yours, edits>>

\* One TestDaemon, then a `test -f`, decide whether daemon.json is to blame.
Test ==
  /\ pc = "test"
  /\ "slowBoot" \in faults \/ engine # "booting"
  /\ \/ engine = "up" /\ pc' = "verify"
     \/ /\ engine # "up" \/ "call" \in faults
        /\ \/ json # NoFile /\ pc' = "rescue"
           \/ (json = NoFile \/ "call" \in faults) /\ pc' = "await"
  /\ UNCHANGED <<faults, manual, snapshot, plan, engine, json, bak, said, shipped, yours, edits>>

\* cp to daemon.json.bak: all of it or, when the script ends there, none or a torn
\* file, which is none that anybody wrote.
Copied(done) == bak' \in {json} \cup (IF done THEN {} ELSE {bak, NoFile})

\* Mutant of Rescue: the script goes on after a cp that failed.
RescueLoose ==
  /\ pc = "rescue"
  /\ Copied("call" \notin faults)
  /\ json' = NoFile
  /\ engine' \in Restarted(manual, NoFile)
  /\ pc' = "await"
  /\ UNCHANGED <<faults, manual, snapshot, plan, said, shipped, yours, edits>>

\* daemon.json is copied to daemon.json.bak and removed, dockerd restarts.  The script
\* may end before any of it, and nobody looks.
Rescue ==
  /\ pc = "rescue"
  /\ \/ Copied(TRUE) /\ json' = NoFile /\ engine' \in Restarted(manual, NoFile)
     \/ "call" \in faults /\ Copied(TRUE) /\ json' = NoFile /\ UNCHANGED engine
     \/ "call" \in faults /\ Copied(FALSE) /\ UNCHANGED <<json, engine>>
  /\ pc' = "await"
  /\ UNCHANGED <<faults, manual, snapshot, plan, said, shipped, yours, edits>>

\* WaitDaemon, which outlasts a boot.
Await ==
  /\ pc = "await"
  /\ \/ engine = "up" /\ pc' = "verify" /\ UNCHANGED said
     \/ (engine = "down" \/ "call" \in faults) /\ Fail
  /\ UNCHANGED <<faults, manual, snapshot, plan, engine, json, bak, shipped, yours, edits>>

\* The final TestDaemon, and the new snapshot, whether or not it can be taken.
Finish ==
  /\ pc = "verify"
  /\ \/ /\ engine = "up"
        /\ pc' = "idle"
        /\ said' = "complete"
        /\ snapshot' \in Listed(manual) \cup
                          (IF "state" \in faults THEN {snapshot} ELSE {})
     \/ "call" \in faults /\ Fail /\ UNCHANGED snapshot
  /\ UNCHANGED <<faults, manual, plan, engine, json, bak, shipped, yours, edits>>

Next ==
  \/ UserInstalls \/ UserRemoves \/ UserConfigures
  \/ Begin \/ Decline \/ Remove \/ Install \/ Repair \/ Boot \/ Test \/ Rescue
  \/ Await \/ Finish

Spec == Init /\ [][Next]_vars

-----------------------------------------------------------------------------
TypeOK ==
  /\ faults \in Worlds
  /\ pc \in {"idle", "remove", "install", "reinstall", "repair", "test", "rescue",
             "await", "verify"}
  /\ manual \in SUBSET Package
  /\ snapshot \in SUBSET Package
  /\ plan \in SUBSET Package
  /\ engine \in {"up", "booting", "down"}
  /\ json \in Configs \cup {NoFile}
  /\ bak \in Configs \cup {NoFile}
  /\ said \in {"none", "failed", "aborted", "complete"}
  /\ shipped \in SUBSET Package
  /\ yours \in Configs \cup {NoFile}
  /\ edits \in 0..MaxEdits

Lost == manual \ manual'

\* Restore removes "the user-added set": never a package that setup put there and
\* that the user left alone, over any number of restores and failed restores,
\* provided the snapshot could always be taken and read, and apt does not take the
\* engine along with one of its dependencies.
SparesShipped ==
  [][pc = "remove" /\ faults \cap {"list", "state"} = {} /\ plan \cap Needed = {} =>
       Lost \cap shipped = {}]_vars

\* "Engine packages are never removed" by dockup, whatever the snapshot says, with
\* none, and after any failure: only apt itself can take them, for a dependency.
SparesEngine == [][pc = "remove" /\ plan \cap Needed = {} => Lost \cap Engine = {}]_vars

\* Restore removes what a user added, and nothing else.
SparesTheRest == SparesShipped /\ SparesEngine

\* A restore that reports success has removed every package added since setup
\* when a snapshot was there, and the engine is installed and answers.
CompleteIsClean ==
  [][said # "complete" /\ said' = "complete" =>
       /\ faults \cap {"list", "state"} = {} => manual' \cap Extra = {}
       /\ Engine \subseteq manual'
       /\ engine' = "up"]_vars

\* "yours is kept at daemon.json.bak": whatever makes a healthy or a broken dockerd fail
\* its test, and wherever the reset, this one or an earlier one, was cut off, daemon.json
\* is as the user last left it, or restore took it away and the copy is whole.
KeepsYours == json = yours \/ (json = NoFile /\ bak = yours)
=============================================================================
