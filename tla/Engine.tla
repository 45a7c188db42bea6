--------------------------------- MODULE Engine ---------------------------------
(***************************************************************************)
(* The engine inside the distro and the commands that bring it up: doctor   *)
(* --fix, upgrade, the engine part of setup, and shutdown, which stops the  *)
(* distro under the others.  Commands are processes; what they do goes      *)
(* through wsl.exe into a distro that boots when it is called, where apt    *)
(* runs on after a time-out and dockerd takes its time.                     *)
(*                                                                          *)
(* Restore's repair is in module Restore, the records of setup in Setup.    *)
(* wsl.Exists and the prompts come before; an import is one step.           *)
(***************************************************************************)
EXTENDS Naturals, FiniteSets

CONSTANTS
  Procs,        \* slots of processes
  NoProc,       \* no apt runs
  Orphan,       \* an apt run whose wsl.exe was killed
  Worlds,       \* sets of the faults below that may occur together
  MaxCommands,  \* bound: commands started
  MaxEdits      \* bound: steps of the user

AllFaults ==
  { "mirror",   \* apt fails before it changes anything
    "timeout",  \* wsl.exe is killed after its time limit
    "slow",     \* dockerd is not there yet when the wait ends
    "wsl",      \* a call of wsl.exe fails
    "reboots",  \* Windows or WSL goes down, which ends every command
    "overlap" } \* commands and edits run side by side

ASSUME EngineAssumption ==
  /\ {NoProc, Orphan} \cap Procs = {}
  /\ NoProc # Orphan
  /\ Worlds \subseteq SUBSET AllFaults
  /\ MaxCommands \in Nat
  /\ MaxEdits \in Nat

VARIABLES
  faults,    \* what may happen here
  up,        \* the distro runs
  systemd,   \* systemd is its PID 1
  conf,      \* /etc/wsl.conf asks for systemd
  units,     \* containerd and docker are enabled
  packages,  \* the packages of the engine that are installed
  cut,       \* dpkg was interrupted: apt refuses to work
  dockerd,   \* the daemon
  apt,       \* whose apt run holds the lock of dpkg
  task,      \* what a process is running
  pc,        \* where it is
  tries,     \* attempts of RunRetry so far
  said,      \* how the last command that ended did so
  hit,       \* history: a fault or another command has met the running commands
  sound,     \* history: a repair succeeded unhit, and nothing has been broken since
  started,   \* commands so far
  edits      \* steps of the user so far

distro == <<up, systemd, conf, units, packages, cut, dockerd, apt>>
vars   == <<faults, distro, task, pc, tries, said, hit, sound, started, edits>>

Packages == {"docker", "socat"}
Tasks    == {"fix", "upgrade", "setup", "shutdown"}
Steps    == {"idle", "probe", "import", "install", "apt", "configure", "terminate",
             "pid1", "wait", "kill"}

Quiet == \A p \in Procs : pc[p] = "idle"

Fails(f) == f \in faults

Init ==
  /\ faults \in Worlds
  /\ packages = Packages
  /\ conf = TRUE /\ units = TRUE /\ cut = FALSE
  /\ up = FALSE /\ systemd = FALSE /\ dockerd = "down"
  /\ apt = NoProc
  /\ task = [p \in Procs |-> "fix"]
  /\ pc = [p \in Procs |-> "idle"]
  /\ tries = [p \in Procs |-> 0]
  /\ said = "none"
  /\ hit = FALSE
  /\ sound = FALSE
  /\ started = 0
  /\ edits = 0

Goto(p, l) == pc' = [pc EXCEPT ![p] = l]

End(p, outcome) == Goto(p, "idle") /\ said' = outcome

First(t) ==
  CASE t = "fix" -> "probe"
    [] t = "upgrade" -> "install"
    [] t = "setup" -> "import"
    [] t = "shutdown" -> "kill"

Begin(p) ==
  /\ pc[p] = "idle"
  /\ Quiet \/ Fails("overlap")
  /\ started < MaxCommands
  /\ started' = started + 1
  /\ \E t \in Tasks : task' = [task EXCEPT ![p] = t] /\ Goto(p, First(t))
  /\ tries' = [tries EXCEPT ![p] = 0]
  /\ said' = "none"
  /\ hit' = (~Quiet \/ cut \/ apt # NoProc)
  /\ UNCHANGED <<faults, distro, sound, edits>>

-----------------------------------------------------------------------------
(* The distro *)

\* The units of a distro that boots under systemd start dockerd.
Starts == conf /\ units /\ "docker" \in packages

\* A call into a distro that does not run boots it.
Boot ==
  /\ ~up
  /\ up' = TRUE
  /\ systemd' = conf
  /\ dockerd' = IF Starts THEN "starting" ELSE "down"
  /\ UNCHANGED <<conf, units, packages, cut, apt>>

\* systemctl start: what does not run under systemd starts.
Started == IF systemd /\ "docker" \in packages /\ dockerd = "down" THEN "starting" ELSE dockerd

\* The distro goes down, and an apt run in it with it.
Stop ==
  /\ up' = FALSE /\ systemd' = FALSE /\ dockerd' = "down"
  /\ apt' = NoProc
  /\ cut' \in {cut, cut \/ apt # NoProc}
  /\ UNCHANGED <<conf, units, packages>>

Calls == {"probe", "install", "apt", "configure", "pid1", "wait"}

Wake ==
  /\ \E p \in Procs : pc[p] \in Calls
  /\ Boot
  /\ UNCHANGED <<faults, task, pc, tries, said, hit, sound, started, edits>>

\* dockerd answers some time after its start.
Serve ==
  /\ dockerd = "starting"
  /\ dockerd' = "up"
  /\ UNCHANGED <<faults, up, systemd, conf, units, packages, cut, apt, task, pc, tries, said,
                 hit, sound, started, edits>>

\* Packages arrive, are configured, and start what they bring.
Installed ==
  /\ packages' = Packages
  /\ units' \in {units, units \/ "docker" \notin packages}
  /\ dockerd' = IF ~systemd THEN dockerd
                ELSE IF "docker" \in packages THEN dockerd ELSE "starting"
  /\ apt' = NoProc
  /\ UNCHANGED <<up, systemd, conf, cut>>

\* An apt run goes on without its wsl.exe.
OrphanEnds ==
  /\ apt = Orphan
  /\ Installed
  /\ UNCHANGED <<faults, task, pc, tries, said, hit, sound, started, edits>>

-----------------------------------------------------------------------------
(* RunRetry *)

Tries(t) == IF t = "setup" THEN 3 ELSE 2

Try(p) ==
  /\ pc[p] = "install"
  /\ up
  /\ tries' = [tries EXCEPT ![p] = @ + 1]
  /\ IF apt = NoProc /\ ~cut
       THEN apt' = p /\ Goto(p, "apt")
       ELSE UNCHANGED <<apt, pc>>
  /\ UNCHANGED <<faults, up, systemd, conf, units, packages, cut, dockerd, task, said, hit,
                 sound, started, edits>>

\* Mutant of Attempt: one attempt too many.
AttemptTooMany(p) == tries[p] <= Tries(task[p]) /\ Try(p)

\* An attempt: with the lock taken, or after an interrupted dpkg, apt fails at once.
Attempt(p) == tries[p] < Tries(task[p]) /\ Try(p)

\* Mutant of Exhausted: it waits for one failure more.
ExhaustedLate(p) ==
  /\ pc[p] = "install"
  /\ tries[p] > Tries(task[p])
  /\ End(p, "failed")
  /\ UNCHANGED <<faults, distro, task, tries, hit, sound, started, edits>>

Exhausted(p) ==
  /\ pc[p] = "install"
  /\ tries[p] = Tries(task[p])
  /\ End(p, "failed")
  /\ UNCHANGED <<faults, distro, task, tries, hit, sound, started, edits>>

\* The upgrade script restarts the units at its end, which takes systemd.
Fetched(p) ==
  /\ pc[p] = "apt" /\ apt = p
  /\ IF task[p] # "upgrade"
       THEN Installed /\ Goto(p, "configure")
       ELSE /\ packages' = Packages
            /\ units' \in {units, units \/ "docker" \notin packages}
            /\ dockerd' = IF systemd THEN "starting" ELSE dockerd
            /\ apt' = NoProc
            /\ Goto(p, IF systemd THEN "wait" ELSE "install")
            /\ UNCHANGED <<up, systemd, conf, cut>>
  /\ UNCHANGED <<faults, task, tries, said, hit, sound, started, edits>>

\* A mirror fails, or the time is over and apt goes on, or ends half way.
FetchFails(p) ==
  /\ pc[p] = "apt" /\ apt = p
  /\ \/ Fails("mirror") /\ apt' = NoProc /\ UNCHANGED cut
     \/ Fails("timeout") /\ apt' = Orphan /\ UNCHANGED cut
     \/ Fails("timeout") /\ apt' = NoProc /\ cut' = TRUE
  /\ hit' = TRUE
  /\ Goto(p, "install")
  /\ UNCHANGED <<faults, up, systemd, conf, units, packages, dockerd, task, tries, said, sound,
                 started, edits>>

\* The distro went down under the attempt.
FetchDies(p) ==
  /\ pc[p] = "apt" /\ apt # p
  /\ Goto(p, "install")
  /\ UNCHANGED <<faults, distro, task, tries, said, hit, sound, started, edits>>

-----------------------------------------------------------------------------
(* fixDistro, Install and Configure, Upgrade *)

\* TestDaemon, once.
Probe(p) ==
  /\ pc[p] = "probe"
  /\ up
  /\ Goto(p, IF dockerd = "up" THEN "configure" ELSE "install")
  /\ UNCHANGED <<faults, distro, task, tries, said, hit, sound, started, edits>>

\* A fresh distro from the signed image or from a Debian root.
Import(p) ==
  /\ pc[p] = "import"
  /\ \E image \in BOOLEAN :
       /\ packages' = IF image THEN Packages ELSE {}
       /\ conf' = image /\ units' = image
       /\ Goto(p, IF image THEN "configure" ELSE "install")
  /\ up' = FALSE /\ systemd' = FALSE /\ dockerd' = "down"
  /\ apt' = NoProc /\ cut' = FALSE
  /\ sound' = FALSE
  /\ UNCHANGED <<faults, task, tries, said, hit, started, edits>>

\* An engine from the image that does not come up is installed again.
Fail(p) ==
  IF task[p] = "setup" /\ tries[p] = 0
    THEN Goto(p, "install") /\ UNCHANGED said
    ELSE End(p, "failed")

\* Mutant of Configure: the units are started, not enabled.
ConfigureStart(p) ==
  /\ pc[p] = "configure"
  /\ up
  /\ conf' = TRUE
  /\ IF "docker" \in packages
       THEN dockerd' = Started /\ Goto(p, "terminate") /\ UNCHANGED said
       ELSE UNCHANGED dockerd /\ Fail(p)
  /\ UNCHANGED <<faults, up, systemd, units, packages, cut, apt, task, tries, hit, sound,
                 started, edits>>

\* ConfigureScript: wsl.conf first; a unit that is not there cannot be enabled.
Configure(p) ==
  /\ pc[p] = "configure"
  /\ up
  /\ conf' = TRUE
  /\ IF "docker" \in packages
       THEN units' = TRUE /\ dockerd' = Started /\ Goto(p, "terminate") /\ UNCHANGED said
       ELSE UNCHANGED <<units, dockerd>> /\ Fail(p)
  /\ UNCHANGED <<faults, up, systemd, packages, cut, apt, task, tries, hit, sound, started, edits>>

AfterStop(p) ==
  CASE task[p] = "fix" -> Goto(p, "wait") /\ UNCHANGED said
    [] task[p] = "setup" -> Goto(p, "pid1") /\ UNCHANGED said
    [] task[p] = "shutdown" -> End(p, "ok")

Terminate(p) ==
  /\ pc[p] = "terminate"
  /\ Stop
  /\ hit' = (hit \/ apt # NoProc)
  /\ AfterStop(p)
  /\ UNCHANGED <<faults, task, tries, sound, started, edits>>

\* Configure looks at PID 1 and starts the units once more.
Pid1(p) ==
  /\ pc[p] = "pid1"
  /\ up
  /\ IF systemd
       THEN dockerd' = Started /\ Goto(p, "wait") /\ UNCHANGED said
       ELSE UNCHANGED dockerd /\ Fail(p)
  /\ UNCHANGED <<faults, up, systemd, conf, units, packages, cut, apt, task, tries, hit, sound,
                 started, edits>>

\* Mutant of Answers: one look, as before the restart.
AnswersOnce(p) ==
  /\ pc[p] = "wait"
  /\ up
  /\ IF dockerd = "up"
       THEN End(p, "ok") /\ sound' = (~hit /\ task[p] \in {"fix", "setup"})
       ELSE Fail(p) /\ UNCHANGED sound
  /\ UNCHANGED <<faults, distro, task, tries, hit, started, edits>>

\* WaitDaemon: dockerd answered in time.
Answers(p) ==
  /\ pc[p] = "wait"
  /\ up
  /\ dockerd = "up"
  /\ End(p, "ok")
  /\ sound' = (sound \/ (~hit /\ task[p] \in {"fix", "setup"}))
  /\ UNCHANGED <<faults, distro, task, tries, hit, started, edits>>

\* It did not: 90 seconds are enough unless it is slow.
Gives(p) ==
  /\ pc[p] = "wait"
  /\ up
  /\ dockerd = "down" \/ (dockerd = "starting" /\ Fails("slow"))
  /\ Fail(p)
  /\ hit' = (hit \/ dockerd = "starting")
  /\ UNCHANGED <<faults, distro, task, tries, sound, started, edits>>

\* A call of wsl.exe fails: its script may have run.  The look at the kernel
\* comes before the first attempt to install.
CallFails(p) ==
  /\ Fails("wsl")
  /\ hit' = TRUE
  /\ \/ /\ pc[p] = "probe" /\ Goto(p, "install")
        /\ UNCHANGED <<conf, units, said>>
     \/ /\ pc[p] = "install" /\ tries[p] = 0 /\ task[p] # "upgrade"
        /\ End(p, "failed")
        /\ UNCHANGED <<conf, units>>
     \/ /\ pc[p] = "pid1" /\ Goto(p, "wait")
        /\ UNCHANGED <<conf, units, said>>
     \/ /\ pc[p] = "configure" /\ Fail(p)
        /\ \/ UNCHANGED <<conf, units>>
           \/ conf' = TRUE /\ units' \in {units, units \/ "docker" \in packages}
     \/ /\ pc[p] = "terminate" /\ AfterStop(p)
        /\ UNCHANGED <<conf, units>>
     \/ /\ pc[p] = "wait" /\ Fail(p)
        /\ UNCHANGED <<conf, units>>
  /\ UNCHANGED <<faults, up, systemd, packages, cut, dockerd, apt, task, tries, sound, started, edits>>

-----------------------------------------------------------------------------
(* Shutdown, reboots and the user *)

\* Shutdown ends the other dockup processes; an apt run of theirs goes on.
Kill(p) ==
  /\ pc[p] = "kill"
  /\ pc' = [q \in Procs |-> IF q = p THEN "terminate" ELSE "idle"]
  /\ apt' = IF apt = NoProc THEN NoProc ELSE Orphan
  /\ hit' = (hit \/ \E q \in Procs \ {p} : pc[q] # "idle")
  /\ UNCHANGED <<faults, up, systemd, conf, units, packages, cut, dockerd, task, tries, said,
                 sound, started, edits>>

User ==
  /\ edits < MaxEdits
  /\ edits' = edits + 1
  /\ hit' = (hit \/ ~Quiet)
  /\ UNCHANGED <<faults, task, tries, said, started>>

\* Windows goes down, or wsl --shutdown.
Reboot ==
  /\ User
  /\ Fails("reboots") \/ Quiet
  /\ Stop
  /\ pc' = [p \in Procs |-> "idle"]
  /\ sound' = (sound /\ apt = NoProc)

\* The user works in the distro, which boots it.
UserLooks ==
  /\ User
  /\ Quiet \/ Fails("overlap")
  /\ Boot
  /\ UNCHANGED <<pc, sound>>

\* A user removes a package, a setting or a unit, or stops dockerd.
UserBreaks ==
  /\ User
  /\ Quiet \/ Fails("overlap")
  /\ up
  /\ \/ \E k \in packages :
          /\ packages' = packages \ {k}
          /\ dockerd' = IF k = "docker" THEN "down" ELSE dockerd
          /\ UNCHANGED <<conf, units>>
     \/ conf' = FALSE /\ UNCHANGED <<packages, units, dockerd>>
     \/ units' = FALSE /\ UNCHANGED <<packages, conf, dockerd>>
     \/ dockerd' = "down" /\ UNCHANGED <<packages, conf, units>>
  /\ sound' = FALSE
  /\ UNCHANGED <<up, systemd, cut, apt, pc>>

Next ==
  \/ \E p \in Procs :
       \/ Begin(p) \/ Attempt(p) \/ Exhausted(p) \/ Fetched(p) \/ FetchFails(p) \/ FetchDies(p)
       \/ Probe(p) \/ Import(p) \/ Configure(p) \/ Terminate(p) \/ Pid1(p) \/ Answers(p)
       \/ Gives(p) \/ CallFails(p) \/ Kill(p)
  \/ Wake \/ Serve \/ OrphanEnds \/ Reboot \/ UserLooks \/ UserBreaks

\* What a running command does by itself.
Proceeds(p) ==
  \/ Attempt(p) \/ Exhausted(p) \/ Fetched(p) \/ FetchDies(p) \/ Probe(p) \/ Import(p)
  \/ Configure(p) \/ Terminate(p) \/ Pid1(p) \/ Answers(p) \/ Gives(p) \/ Kill(p)

Spec ==
  /\ Init /\ [][Next]_vars
  /\ \A p \in Procs : WF_vars(Proceeds(p))
  /\ WF_vars(Wake) /\ WF_vars(Serve) /\ WF_vars(OrphanEnds)

-----------------------------------------------------------------------------
(* Properties *)

(* Every variable stays in its range, and dockerd runs under systemd only. *)
TypeOK ==
  /\ faults \in SUBSET AllFaults
  /\ up \in BOOLEAN /\ systemd \in BOOLEAN /\ conf \in BOOLEAN /\ units \in BOOLEAN
  /\ cut \in BOOLEAN /\ hit \in BOOLEAN /\ sound \in BOOLEAN
  /\ packages \in SUBSET Packages
  /\ dockerd \in {"down", "starting", "up"}
  /\ dockerd # "down" => up /\ systemd /\ "docker" \in packages
  /\ apt \in Procs \cup {NoProc, Orphan}
  /\ task \in [Procs -> Tasks]
  /\ pc \in [Procs -> Steps]
  /\ tries \in [Procs -> Nat]
  /\ \A p \in Procs : tries[p] <= Tries(task[p])
  /\ said \in {"none", "ok", "failed"}
  /\ started \in 0 .. MaxCommands
  /\ edits \in 0 .. MaxEdits

(* doctor --fix heals whatever was removed, disabled or stopped: a run that *)
(* no fault and no other command meets, in a distro whose dpkg was not      *)
(* interrupted, ends well.                                                  *)
FixHeals ==
  [][\A p \in Procs :
       task[p] = "fix" /\ pc[p] # "idle" /\ pc'[p] = "idle" /\ ~hit' =>
         said' = "ok"]_vars

(* What doctor --fix or setup reported repaired stays so until somebody     *)
(* breaks it: whatever commands, failures and reboots follow, dockerd runs  *)
(* or starts whenever the distro does, and comes back with the next boot.   *)
StaysRepaired ==
  sound => Starts /\ (up => systemd /\ dockerd # "down")

(* Every command ends, whatever fails, goes down or is broken around it. *)
CommandsEnd == \A p \in Procs : pc[p] # "idle" ~> pc[p] = "idle"

(* "restores dockup's internal files when they are missing, broken, or      *)
(* misconfigured: ... the engine packages ..." (doctor.go:303): after a     *)
(* --fix that ends well the engine packages are all there.                  *)
FixRestoresPackages ==
  [][\A p \in Procs :
       task[p] = "fix" /\ pc[p] # "idle" /\ pc'[p] = "idle" /\ said' = "ok" =>
         packages' = Packages]_vars
=============================================================================
