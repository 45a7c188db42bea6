-------------------------------- MODULE Daemon --------------------------------
(***************************************************************************)
(* The life of the background pipe holder: internal/daemon, the relay's     *)
(* start-up, the foreground, doctor's pid repair and shutdown, as processes *)
(* that meet in three places: the daemon record of state.json, the named    *)
(* pipe, and the Windows table of processes, where a pid is reused.         *)
(*                                                                          *)
(* A WithLock call is one step (StateLock proves it is one unless a lock is *)
(* stolen), except in Start, which spawns a process before it saves: there  *)
(* the lock is held over two steps.  Reads without the lock see state.json  *)
(* at any time.                                                             *)
(***************************************************************************)
EXTENDS Naturals, FiniteSets

CONSTANTS
  Pid,          \* process ids; an id is reused when its process is gone
  Worlds,       \* environments to consider: what users run, and how often (a
                \* bound), and what may go wrong
  None,         \* no process
  Dead          \* value of lock: the lock file of a dead process

AllCommands == {"start", "stop", "restart", "shutdown", "doctor", "fore"}

AllFaults ==
  { "overlap",     \* a command is run while another is in progress
    "slowBoot",    \* the child takes longer than Start waits (15s)
    "tcpBusy",     \* the TCP port is taken
    "sick",        \* the distro does not answer
    "saveFails",   \* state.json cannot be written
    "crash",       \* one dockup process dies
    "reboot",      \* all processes die
    "reuse",       \* another program gets a dead process's id
    "unkillable",  \* Windows refuses to end a process
    "listFails",   \* tasklist fails, or takes longer than 15s
    "unregister" } \* wsl --unregister outside dockup

ASSUME DaemonAssumption ==
  /\ None \notin Pid
  /\ Dead \notin Pid
  /\ None # Dead
  /\ Worlds \subseteq [commands : SUBSET AllCommands, faults : SUBSET AllFaults,
                       launches : Nat]

VARIABLES
  kind,        \* what each process is
  pc,          \* and where it is in its code
  seen,        \* pids it remembers: Start's child, doctor's record, shutdown's list
  mirror,      \* has this server bound the default docker pipe too?
  rec,         \* state.json: the daemon record
  installed,   \* state.json: the install flag
  registered,  \* WSL knows the distro
  lock,        \* the state lock
  pipe,        \* the main pipe: who bound it, and whether it accepts
  said,        \* history: the last report, and the process that made it
  shot,        \* history: a process that is not dockup's was killed
  missed,      \* history: dockup's processes that outlived a kill or a list of all
  launches,    \* commands run so far
  world        \* the environment of this behaviour

vars == <<kind, pc, seen, mirror, rec, installed, registered, lock, pipe, said,
          shot, missed, launches, world>>

\* May f happen here?
May(f) == f \in world.faults

Nobody    == [pid |-> None, mirror |-> FALSE]
FreePipe  == [owner |-> None, accepting |-> FALSE]
Gone      == {"none", "foreign"}
Servers   == {"serve", "fore"}

\* AliveOn: a dial succeeds only when the holder accepts (a pipe that is bound
\* and not yet accepted on refuses clients).
AliveOn == pipe.accepting

\* Mutant of ProcessAlive: the image name is not compared.
AnyProcessAlive(q) == q \in Pid /\ kind[q] # "none"

\* processAlive: some process of the dockup image has this id.
ProcessAlive(q) == q \in Pid /\ kind[q] \notin Gone

\* Is a command in progress?  A daemon child or a running foreground is not one.
InProgress(p) == kind[p] \notin Gone \cup {"serve"} /\ pc[p] # "serving"

Init ==
  /\ kind = [p \in Pid |-> "none"]
  /\ pc = [p \in Pid |-> "none"]
  /\ seen = [p \in Pid |-> {}]
  /\ mirror = [p \in Pid |-> FALSE]
  /\ rec = Nobody
  /\ installed = TRUE
  /\ registered = TRUE
  /\ lock = None
  /\ pipe = FreePipe
  /\ said = <<"nothing", None>>
  /\ shot = FALSE
  /\ missed = {}
  /\ launches = 0
  /\ world \in Worlds

-----------------------------------------------------------------------------
Step(p, label) == pc' = [pc EXCEPT ![p] = label] /\ UNCHANGED kind
Goto(p, label) == Step(p, label) /\ UNCHANGED missed

\* The processes in Q end; what they hold in Windows goes with them.
EndAll(Q) ==
  /\ kind' = [q \in Pid |-> IF q \in Q THEN "none" ELSE kind[q]]
  /\ pc' = [q \in Pid |-> IF q \in Q THEN "none" ELSE pc[q]]
  /\ missed' = missed \ Q

Exit(p) == EndAll({p})
Say(p, what) == said' = <<what, p>>
FreedBy(Q) == IF pipe.owner \in Q THEN FreePipe ELSE pipe
Shoots(Q) == shot \/ \E q \in Q : kind[q] = "foreign"

\* A label where a command waits for the state lock.
WantsLock == {"want", "clear", "sick", "stop", "dclear", "record"}

Launch(p, cmd) ==
  /\ kind[p] = "none"
  /\ launches < world.launches
  /\ cmd \in world.commands
  /\ May("overlap") \/ \A q \in Pid : ~InProgress(q)
  /\ launches' = launches + 1
  /\ kind' = [kind EXCEPT ![p] = cmd]
  /\ pc' = [pc EXCEPT ![p] =
       CASE cmd = "start"                         -> "check"
         [] cmd \in {"stop", "restart", "shutdown"} -> "stop"
         [] cmd = "doctor"                        -> "dread"
         [] cmd = "fore"                          -> "fgate"]
  /\ seen' = [seen EXCEPT ![p] = {}]
  /\ UNCHANGED <<mirror, rec, installed, registered, lock, pipe, said, shot, missed, world>>

\* ReconcileDistro in a start-up gate: a confirmed absence clears the install
\* flag, unless the lock stays taken, and ends the process.  (When wsl.exe fails
\* nothing is known, and the gate opens.)
MissingDistro(p) ==
  /\ installed
  /\ ~registered
  /\ installed' = (lock # None)
  /\ Exit(p)
  /\ Say(p, "missing")

-----------------------------------------------------------------------------
(* dockup daemon start *)

\* cmdDaemon, before Start: refuse when a foreground holds the pipe.
StartCheck(p) ==
  /\ kind[p] = "start"
  /\ pc[p] = "check"
  /\ IF AliveOn /\ rec.pid = None
     THEN Exit(p) /\ Say(p, "refused")
     ELSE Goto(p, "gate") /\ UNCHANGED said
  /\ UNCHANGED <<seen, mirror, rec, installed, registered, lock, pipe, shot, launches, world>>

StartGate(p) ==
  /\ pc[p] = "gate"
  /\ \/ MissingDistro(p)
     \/ Goto(p, "want") /\ UNCHANGED <<installed, said>>
  /\ UNCHANGED <<seen, mirror, rec, registered, lock, pipe, shot, launches, world>>

\* Mutant of MayStart: the pipe is not dialled.
MayStartBlind ==
  /\ installed
  /\ ~ProcessAlive(rec.pid)

\* The checks under the lock.
MayStart ==
  /\ installed
  /\ ~(AliveOn /\ rec.pid = None)
  /\ ~ProcessAlive(rec.pid)

\* Refused, or the log cannot be opened, or the child not be started.
StartRefuse(p) ==
  /\ pc[p] = "want"
  /\ lock = None
  /\ Exit(p)
  /\ Say(p, IF MayStart THEN "failed" ELSE "refused")
  /\ UNCHANGED <<seen, mirror, rec, installed, registered, lock, pipe, shot, launches, world>>

\* cmd.Start inside the locked function: the child runs, nothing is saved yet.
StartSpawn(p, c) ==
  /\ pc[p] = "want"
  /\ lock = None
  /\ MayStart
  /\ kind[c] = "none"
  /\ lock' = p
  /\ kind' = [kind EXCEPT ![c] = "serve"]
  /\ pc' = [pc EXCEPT ![c] = "boot", ![p] = "spawned"]
  /\ seen' = [seen EXCEPT ![p] = {c}, ![c] = {}]
  /\ mirror' = [mirror EXCEPT ![c] = FALSE]
  /\ UNCHANGED <<rec, installed, registered, pipe, said, shot, missed, launches, world>>

\* Mutant of StartSave: only the pid of the old record is replaced.
StartSavePid(p) ==
  /\ pc[p] = "spawned"
  /\ lock' = IF lock = p THEN None ELSE lock
  /\ \E c \in seen[p] : rec' = [rec EXCEPT !.pid = c]
  /\ Goto(p, "wait")
  /\ UNCHANGED <<seen, mirror, installed, registered, pipe, said, shot, launches, world>>

StartSave(p) ==
  /\ pc[p] = "spawned"
  /\ lock' = IF lock = p THEN None ELSE lock
  /\ \/ /\ \E c \in seen[p] : rec' = [pid |-> c, mirror |-> FALSE]
        /\ Goto(p, "wait")
        /\ UNCHANGED said
     \/ /\ May("saveFails")
        /\ Exit(p)
        /\ Say(p, "failed")
        /\ UNCHANGED rec
  /\ UNCHANGED <<seen, mirror, installed, registered, pipe, shot, launches, world>>

\* Mutant of StartWait: WaitAliveOn has no deadline.
StartWaitForever(p) ==
  /\ pc[p] = "wait"
  /\ AliveOn
  /\ Goto(p, "warm")
  /\ UNCHANGED <<seen, mirror, rec, installed, registered, lock, pipe, said, shot,
                 launches, world>>

\* WaitAliveOn: any server's pipe counts.  It gives up after 15s.
StartWait(p) ==
  /\ pc[p] = "wait"
  /\ \/ AliveOn /\ Goto(p, "warm")
     \/ /\ ~AliveOn
        /\ May("slowBoot") \/ \A c \in seen[p] : kind[c] # "serve"
        /\ Goto(p, "clear")
  /\ UNCHANGED <<seen, mirror, rec, installed, registered, lock, pipe, said, shot,
                 launches, world>>

\* The record is cleared, whichever process it names, and nothing is killed.
StartClear(p) ==
  /\ pc[p] = "clear"
  /\ lock = None
  /\ rec' = Nobody
  /\ Exit(p)
  /\ Say(p, "failed")
  /\ UNCHANGED <<seen, mirror, installed, registered, lock, pipe, shot, launches, world>>

\* The eager boot of the distro decides what Start reports.
StartWarm(p) ==
  /\ pc[p] = "warm"
  /\ \/ registered /\ Exit(p) /\ Say(p, "started")
     \/ (May("sick") \/ ~registered) /\ Goto(p, "sick") /\ UNCHANGED said
  /\ UNCHANGED <<seen, mirror, rec, installed, registered, lock, pipe, shot, launches, world>>

\* A distro that does not answer: kill the recorded pid unverified, clear it.
StartSick(p) ==
  /\ pc[p] = "sick"
  /\ lock = None
  /\ EndAll({p, rec.pid})
  /\ pipe' = FreedBy({rec.pid})
  /\ shot' = Shoots({rec.pid} \cap Pid)
  /\ rec' = Nobody
  /\ Say(p, "failed")
  /\ UNCHANGED <<seen, mirror, installed, registered, lock, launches, world>>

\* killQuiet does not say that the kill failed: the record is cleared all the same.
StartSickKeeps(p) ==
  /\ pc[p] = "sick"
  /\ lock = None
  /\ May("unkillable")
  /\ rec.pid # p
  /\ kind' = [kind EXCEPT ![p] = "none"]
  /\ pc' = [pc EXCEPT ![p] = "none"]
  /\ missed' = (missed \cup {q \in {rec.pid} : ProcessAlive(q)}) \ {p}
  /\ rec' = Nobody
  /\ Say(p, "failed")
  /\ UNCHANGED <<seen, mirror, installed, registered, lock, pipe, shot, launches, world>>

-----------------------------------------------------------------------------
(* dockup daemon stop, and the Stop of restart and shutdown *)

\* Where a command goes after Stop, whatever Stop returned.
AfterStop(p) == CASE kind[p] = "stop"     -> "none"
                  [] kind[p] = "restart"  -> "gate"
                  [] kind[p] = "shutdown" -> "list"

Leave(p, what) ==
  \/ AfterStop(p) = "none" /\ Exit(p) /\ Say(p, what)
  \/ AfterStop(p) # "none" /\ Goto(p, AfterStop(p)) /\ UNCHANGED said

\* Nothing recorded, or a stale pid: the function returns an error, and
\* WithLock saves nothing.
StopNothing(p) ==
  /\ pc[p] = "stop"
  /\ lock = None
  /\ ~ProcessAlive(rec.pid)
  /\ Leave(p, IF rec.pid = None THEN "not running" ELSE "repaired")
  /\ UNCHANGED <<seen, mirror, rec, installed, registered, lock, pipe, shot, launches, world>>

\* Mutant of StopKill: the record is cleared and the process lives on.
StopForget(p) ==
  /\ pc[p] = "stop"
  /\ lock = None
  /\ ProcessAlive(rec.pid)
  /\ rec.pid # p
  /\ Goto(p, "stopWait")
  /\ rec' = Nobody
  /\ UNCHANGED <<seen, mirror, installed, registered, lock, pipe, said, shot, launches, world>>

\* The recorded process has dockup's image: kill it, clear the record.
StopKill(p) ==
  /\ pc[p] = "stop"
  /\ lock = None
  /\ ProcessAlive(rec.pid)
  /\ rec.pid # p
  /\ kind' = [kind EXCEPT ![rec.pid] = "none"]
  /\ pc' = [pc EXCEPT ![rec.pid] = "none", ![p] = "stopWait"]
  /\ pipe' = FreedBy({rec.pid})
  /\ shot' = Shoots({rec.pid})
  /\ rec' = Nobody
  /\ missed' = missed \ {rec.pid}
  /\ UNCHANGED <<seen, mirror, installed, registered, lock, said, launches, world>>

\* The kill fails, which nobody is told: the record is cleared, and Stop goes on.
StopKillFails(p) ==
  /\ pc[p] = "stop"
  /\ lock = None
  /\ May("unkillable")
  /\ ProcessAlive(rec.pid)
  /\ rec.pid # p
  /\ Step(p, "stopWait")
  /\ rec' = Nobody
  /\ missed' = missed \cup {rec.pid}
  /\ UNCHANGED <<seen, mirror, installed, registered, lock, pipe, said, shot, launches, world>>

\* A stale record that names this very process: it kills itself in the lock.
StopSelf(p) ==
  /\ pc[p] = "stop"
  /\ lock = None
  /\ rec.pid = p
  /\ Exit(p)
  /\ lock' = Dead
  /\ UNCHANGED <<seen, mirror, rec, installed, registered, pipe, said, shot, launches, world>>

\* WaitDeadOn, at most 10s; its result is not looked at.
StopWait(p) ==
  /\ pc[p] = "stopWait"
  /\ Leave(p, "stopped")
  /\ UNCHANGED <<seen, mirror, rec, installed, registered, lock, pipe, shot, launches, world>>

-----------------------------------------------------------------------------
(* dockup shutdown, after its Stop *)

\* DockupPIDs: every other process of the dockup image at this moment.
ShutdownList(p) ==
  /\ pc[p] = "list"
  /\ seen' = [seen EXCEPT ![p] = {q \in Pid \ {p} : ProcessAlive(q)}]
  /\ Goto(p, "kill")
  /\ UNCHANGED <<mirror, rec, installed, registered, lock, pipe, said, shot, launches, world>>

\* Without an answer of tasklist the list is empty.
ShutdownListFails(p) ==
  /\ pc[p] = "list"
  /\ May("listFails")
  /\ seen' = [seen EXCEPT ![p] = {}]
  /\ missed' = missed \cup {q \in Pid \ {p} : ProcessAlive(q)}
  /\ Step(p, "kill")
  /\ UNCHANGED <<mirror, rec, installed, registered, lock, pipe, said, shot, launches, world>>

\* Kill by pid, whoever has it by now.
ShutdownKill(p, q) ==
  /\ pc[p] = "kill"
  /\ q \in seen[p]
  /\ seen' = [seen EXCEPT ![p] = @ \ {q}]
  /\ EndAll({q})
  /\ pipe' = FreedBy({q})
  /\ lock' = IF lock = q THEN Dead ELSE lock
  /\ shot' = Shoots({q})
  /\ UNCHANGED <<mirror, rec, installed, registered, said, launches, world>>

\* A warning, and on to the next.
ShutdownKillFails(p, q) ==
  /\ pc[p] = "kill"
  /\ q \in seen[p]
  /\ May("unkillable")
  /\ seen' = [seen EXCEPT ![p] = @ \ {q}]
  /\ missed' = missed \cup {x \in {q} : ProcessAlive(x)}
  /\ UNCHANGED <<kind, pc, mirror, rec, installed, registered, lock, pipe, said, shot,
                 launches, world>>

\* wsl --terminate, then the verdict on the pipe.
ShutdownEnd(p) ==
  /\ pc[p] = "kill"
  /\ seen[p] = {}
  /\ Exit(p)
  /\ Say(p, IF AliveOn THEN "still held" ELSE "complete")
  /\ UNCHANGED <<seen, mirror, rec, installed, registered, lock, pipe, shot, launches, world>>

-----------------------------------------------------------------------------
(* dockup doctor: the stale pid repair and the install record *)

\* Mutant of DoctorRead: a zero pid is remembered like any other.
DoctorReadZero(p) ==
  /\ pc[p] = "dread"
  /\ seen' = [seen EXCEPT ![p] = {rec.pid}]
  /\ Goto(p, "dprobe")
  /\ UNCHANGED <<mirror, rec, installed, registered, lock, pipe, said, shot, launches, world>>

DoctorRead(p) ==
  /\ pc[p] = "dread"
  /\ seen' = [seen EXCEPT ![p] = {rec.pid} \ {None}]
  /\ Goto(p, "dprobe")
  /\ UNCHANGED <<mirror, rec, installed, registered, lock, pipe, said, shot, launches, world>>

DoctorProbe(p) ==
  /\ pc[p] = "dprobe"
  /\ Goto(p, IF seen[p] # {} /\ ~AliveOn THEN "dclear" ELSE "dinstall")
  /\ UNCHANGED <<seen, mirror, rec, installed, registered, lock, pipe, said, shot,
                 launches, world>>

DoctorClear(p) ==
  /\ pc[p] = "dclear"
  /\ lock = None
  /\ rec' = IF rec.pid \in seen[p] THEN Nobody ELSE rec
  /\ Goto(p, "dinstall")
  /\ UNCHANGED <<seen, mirror, installed, registered, lock, pipe, said, shot, launches, world>>

DoctorInstall(p) ==
  /\ pc[p] = "dinstall"
  /\ \/ MissingDistro(p)
     \/ Exit(p) /\ Say(p, "checked") /\ UNCHANGED installed
  /\ UNCHANGED <<seen, mirror, rec, registered, lock, pipe, shot, launches, world>>

-----------------------------------------------------------------------------
(* The servers: dockup in the foreground, and the child dockup __serve *)

ForeRefuses == \/ ~installed /\ ~registered
               \/ ProcessAlive(rec.pid)
               \/ AliveOn

ForeGate(p) ==
  /\ pc[p] = "fgate"
  /\ \/ ForeRefuses /\ Exit(p) /\ Say(p, "refused") /\ UNCHANGED installed
     \/ ~ForeRefuses /\ MissingDistro(p)
     \/ ~ForeRefuses /\ Goto(p, "listen") /\ UNCHANGED <<installed, said>>
  /\ UNCHANGED <<seen, mirror, rec, registered, lock, pipe, shot, launches, world>>

ServeBoot(c) ==
  /\ pc[c] = "boot"
  /\ \/ ~installed /\ Exit(c) /\ Say(c, "refused") /\ UNCHANGED installed
     \/ MissingDistro(c)
     \/ installed /\ Goto(c, "listen") /\ UNCHANGED <<installed, said>>
  /\ UNCHANGED <<seen, mirror, rec, registered, lock, pipe, shot, launches, world>>

\* ServeEx binds the main pipe, which one process at a time can hold, then the
\* default docker pipe, which another program may hold.
Listen(s) ==
  /\ pc[s] = "listen"
  /\ pipe = FreePipe
  /\ pipe' = [owner |-> s, accepting |-> FALSE]
  /\ \E served \in BOOLEAN : mirror' = [mirror EXCEPT ![s] = served]
  /\ Goto(s, "callback")
  /\ UNCHANGED <<seen, rec, installed, registered, lock, said, shot, launches, world>>

\* The pipe is taken.  The foreground still waits for a pipe that answers, and
\* reports itself up on another process's pipe before it fails.
ListenFails(s) ==
  /\ pc[s] = "listen"
  /\ pipe # FreePipe
  /\ Exit(s)
  /\ \/ kind[s] = "fore" /\ AliveOn /\ Say(s, "up")
     \/ Say(s, "failed")
  /\ UNCHANGED <<seen, mirror, rec, installed, registered, lock, pipe, shot, launches, world>>

\* recordMirror: a read without the lock, then the update under it.
Callback(s) ==
  /\ pc[s] = "callback"
  /\ Goto(s, IF rec.pid = s THEN "record" ELSE "accept")
  /\ UNCHANGED <<seen, mirror, rec, installed, registered, lock, pipe, said, shot,
                 launches, world>>

RecordMirror(s) ==
  /\ pc[s] = "record"
  /\ lock = None
  /\ rec' = IF rec.pid = s THEN [rec EXCEPT !.mirror = mirror[s]] ELSE rec
  /\ Goto(s, "accept")
  /\ UNCHANGED <<seen, mirror, installed, registered, lock, pipe, said, shot, launches, world>>

\* serveListener: from here on clients can connect.
Accept(s) ==
  /\ pc[s] = "accept"
  /\ pipe' = [pipe EXCEPT !.accepting = TRUE]
  /\ Goto(s, "tcp")
  /\ UNCHANGED <<seen, mirror, rec, installed, registered, lock, said, shot, launches, world>>

\* The TCP listener comes last, and its failure ends the server.
ListenTcp(s) ==
  /\ pc[s] = "tcp"
  /\ \/ /\ Goto(s, "serving")
        /\ IF kind[s] = "fore" THEN Say(s, "up") ELSE UNCHANGED said
        /\ UNCHANGED pipe
     \/ /\ May("tcpBusy")
        /\ Exit(s)
        /\ Say(s, "failed")
        /\ pipe' = FreePipe
  /\ UNCHANGED <<seen, mirror, rec, installed, registered, lock, shot, launches, world>>

\* Ctrl+C, or a foreground whose distro does not answer.
ForeStop(p) ==
  /\ kind[p] = "fore"
  /\ pc[p] = "serving"
  /\ Exit(p)
  /\ pipe' = FreePipe
  /\ Say(p, "stopped")
  /\ UNCHANGED <<seen, mirror, rec, installed, registered, lock, shot, launches, world>>

-----------------------------------------------------------------------------
(* The lock and the world *)

\* A caller gives up on a lock held by another process after 15s.  Only Start
\* and Stop look at the error.
GiveUp(p) ==
  /\ pc[p] \in WantsLock
  /\ lock # None
  /\ CASE pc[p] \in {"want", "clear", "sick"} -> Exit(p) /\ Say(p, "failed")
       [] pc[p] = "stop"                      -> Leave(p, "failed")
       [] pc[p] = "dclear"                    -> Goto(p, "dinstall") /\ UNCHANGED said
       [] pc[p] = "record"                    -> Goto(p, "accept") /\ UNCHANGED said
  /\ UNCHANGED <<seen, mirror, rec, installed, registered, lock, pipe, shot, launches, world>>

\* The lock file of a dead process is removed after 30s.
ExpireLock ==
  /\ lock = Dead
  /\ lock' = None
  /\ UNCHANGED <<kind, pc, seen, mirror, rec, installed, registered, pipe, said, shot,
                 missed, launches, world>>

\* Dockup processes die, one or all.
Crash ==
  /\ \E Q \in SUBSET {q \in Pid : ProcessAlive(q)} :
       /\ \/ May("crash") /\ Cardinality(Q) = 1
          \/ May("reboot") /\ Q = {q \in Pid : ProcessAlive(q)} /\ Q # {}
       /\ EndAll(Q)
       /\ pipe' = FreedBy(Q)
       /\ lock' = IF lock \in Q THEN Dead ELSE lock
  /\ UNCHANGED <<seen, mirror, rec, installed, registered, said, shot, launches, world>>

\* Another program gets the id of a process that is gone, or ends.
Reuse ==
  /\ May("reuse")
  /\ \E q \in Pid :
       /\ kind[q] \in Gone
       /\ kind' = [kind EXCEPT ![q] = IF kind[q] = "none" THEN "foreign" ELSE "none"]
  /\ UNCHANGED <<pc, seen, mirror, rec, installed, registered, lock, pipe, said, shot,
                 missed, launches, world>>

Unregister ==
  /\ May("unregister")
  /\ registered
  /\ registered' = FALSE
  /\ UNCHANGED <<kind, pc, seen, mirror, rec, installed, lock, pipe, said, shot, missed,
                 launches, world>>

-----------------------------------------------------------------------------
\* What the program does by itself once a command or a child runs.
Advance(p) ==
  \/ StartCheck(p) \/ StartGate(p) \/ StartRefuse(p)
  \/ \E c \in Pid : StartSpawn(p, c)
  \/ StartSave(p) \/ StartWait(p) \/ StartClear(p) \/ StartWarm(p) \/ StartSick(p)
  \/ StartSickKeeps(p)
  \/ StopNothing(p) \/ StopKill(p) \/ StopKillFails(p) \/ StopSelf(p) \/ StopWait(p)
  \/ ShutdownList(p) \/ ShutdownListFails(p) \/ ShutdownEnd(p)
  \/ \E q \in Pid : ShutdownKill(p, q) \/ ShutdownKillFails(p, q)
  \/ DoctorRead(p) \/ DoctorProbe(p) \/ DoctorClear(p) \/ DoctorInstall(p)
  \/ ForeGate(p) \/ ServeBoot(p) \/ Listen(p) \/ ListenFails(p) \/ Callback(p)
  \/ RecordMirror(p) \/ Accept(p) \/ ListenTcp(p) \/ GiveUp(p)

Next ==
  \/ \E p \in Pid : Advance(p)
  \/ \E p \in Pid, cmd \in AllCommands : Launch(p, cmd)
  \/ \E p \in Pid : ForeStop(p)
  \/ ExpireLock \/ Crash \/ Reuse \/ Unregister

Spec == Init /\ [][Next]_vars

\* Windows schedules every live process, and the clock expires a stale lock.
Fairness == WF_vars(ExpireLock) /\ \A p \in Pid : WF_vars(Advance(p))

FairSpec == Spec /\ Fairness

-----------------------------------------------------------------------------
TypeOK ==
  /\ kind \in [Pid -> AllCommands \cup Gone \cup {"serve"}]
  /\ pc \in [Pid -> WantsLock \cup
              {"none", "check", "gate", "spawned", "wait", "warm", "stopWait", "list",
               "kill", "dread", "dprobe", "dinstall", "fgate", "boot", "listen",
               "callback", "accept", "tcp", "serving"}]
  /\ seen \in [Pid -> SUBSET Pid]
  /\ mirror \in [Pid -> BOOLEAN]
  /\ rec \in [pid : Pid \cup {None}, mirror : BOOLEAN]
  /\ installed \in BOOLEAN
  /\ registered \in BOOLEAN
  /\ lock \in Pid \cup {None, Dead}
  /\ pipe \in [owner : Pid \cup {None}, accepting : BOOLEAN]
  /\ said[2] \in Pid \cup {None}
  /\ shot \in BOOLEAN
  /\ missed \subseteq {p \in Pid : ProcessAlive(p)}
  /\ launches \in 0..world.launches
  /\ world \in Worlds

-----------------------------------------------------------------------------
(* What daemon promises.  A promise that the code keeps in some environments
   only names the others first: the fault, and the code that does not stand it. *)

Never(F) == F \cap world.faults = {}
Run(cmd) == cmd \in world.commands

\* A record outlives its process: from then on Start does not look at the pipe.
RecordOutlives == ~Never({"reboot", "crash", "tcpBusy"})

\* Start forgets a child that is slow, that it could not record, that it did not
\* live to record, that doctor or another Start took for stale, or whose pipe it
\* took that of a foreground for.
Recorded == /\ Never({"overlap", "slowBoot", "saveFails", "crash"})
            /\ ~(RecordOutlives /\ Run("fore"))

\* What dockup daemon status prints from the record and a dial of the pipe.
Status ==
  CASE ProcessAlive(rec.pid) /\ AliveOn                 -> "running daemon"
    [] ~ProcessAlive(rec.pid) /\ AliveOn /\ installed
         /\ rec.pid = None                             -> "running foreground"
    [] ~ProcessAlive(rec.pid) /\ AliveOn /\ installed
         /\ rec.pid # None                             -> "held by another process"
    [] ~ProcessAlive(rec.pid) /\ AliveOn /\ ~installed -> "not dockup"
    [] ~AliveOn                                        -> "stopped"

Quiet == \A p \in Pid : ~InProgress(p)
Children == {c \in Pid : kind[c] = "serve"}

\* "Daemon tracks the background pipe holder": a live child is recorded, or a Start
\* still inside its locked function is about to record it, so stop reaches it.  Only
\* a child that outlived a kill, of which Stop does not know, escapes the record.
Tracked ==
  Recorded => \A c \in Children \ missed :
                \/ rec.pid = c
                \/ \E p \in Pid : pc[p] = "spawned" /\ seen[p] = {c}

\* Status names the holder of the pipe truthfully between commands.
StatusTruthful ==
  Recorded /\ ~RecordOutlives /\ Quiet =>
    /\ Status = "running daemon" => kind[pipe.owner] = "serve" /\ rec.pid = pipe.owner
    /\ Status = "running foreground" => kind[pipe.owner] = "fore" \/ pipe.owner \in missed

\* "Only one may run at a time; the second starter refuses": Start spawns no child
\* while a pipe answers, also when the record is that of a dead process, or when the
\* holder outlived a kill and is not recorded, unless a stale record meets a
\* foreground or a child that Start forgot.
SecondStarterRefuses ==
  [][Recorded =>
       \A p \in Pid : pc[p] = "want" /\ pc'[p] = "spawned" => ~AliveOn]_vars

Reports(what) == said' # said /\ said'[1] = what

\* Start "refuses instead of reporting started over a dead backend": when it
\* reports success the recorded child lives and its pipe accepts.  (A busy TCP port
\* ends the child after its pipe answered.)
StartedMeansServing ==
  [][Recorded /\ ~May("tcpBusy") =>
       (Reports("started") =>
          pipe'.accepting /\ pipe'.owner = rec'.pid /\ kind'[rec'.pid] = "serve")]_vars

\* A running foreground is up on its own pipe: "only one may run at a time".
UpMeansMine ==
  [][Recorded /\ Reports("up")
       => pipe'.accepting /\ pipe'.owner = said'[2]]_vars

\* After "dockup stopped successfully" no child is left, recorded or not, that did
\* not outlive a kill.
StoppedMeansGone ==
  [][Recorded /\ Reports("stopped") /\ kind[said'[2]] = "stop" =>
       rec'.pid = None /\ \A c \in Pid : kind'[c] = "serve" => c \in missed']_vars

\* After "dockup shutdown complete" no other dockup process exists that did not
\* outlive a kill, or a list that tasklist failed to give.
ShutdownMeansAlone ==
  [][Never({"overlap"}) /\ Reports("complete") =>
       \A q \in Pid : kind'[q] \in Gone \/ q \in missed']_vars

\* "Stop/shutdown must never kill" a process that is not dockup's.  Start with a
\* sick distro and shutdown kill by number, so there nothing else may end meanwhile,
\* and no child may be left that is about to end.
NeverShootsForeign ==
  shot => /\ May("sick") \/ May("unregister") \/ Run("shutdown")
          /\ Recorded => Run("fore") \/ May("tcpBusy")

\* The mirror flag in the record is that of the child the record names, also when
\* that child has the id of an earlier one whose flag was still recorded.  (When
\* Start fails or is killed before it saves the new pid, the old flag stays.)
MirrorHonest ==
  Never({"saveFails", "crash"}) /\ (Never({"overlap"}) \/ ~Run("shutdown")) =>
    (lock = None /\ rec.mirror =>
       /\ rec.pid # None
       /\ rec.pid \in Children /\ pc[rec.pid] \in {"accept", "tcp", "serving"}
            => mirror[rec.pid])

\* Doctor's repair clears the record of a dead daemon only, unless it runs beside
\* a Start, or after one that left a child behind that its record is not true of.
ClearsOnlyStale ==
  [][\A p \in Pid : Recorded /\ pc[p] = "dclear" /\ rec' # rec
                      => kind[rec.pid] # "serve"]_vars

\* What state.json says of the daemon, and status of it, is so.
RecordHonest == Tracked /\ MirrorHonest /\ StatusTruthful

\* What a command reports when it ends well is so.
ReportsTrue == StartedMeansServing /\ UpMeansMine /\ StoppedMeansGone /\ ShutdownMeansAlone

\* A living holder of the pipe is not overlooked: no second one is started, and its
\* record is not cleared.
SparesTheLiving == SecondStarterRefuses /\ ClearsOnlyStale

\* Every command ends, whatever dies around it.
CommandsEnd == \A p \in Pid : InProgress(p) ~> ~InProgress(p)
=============================================================================
