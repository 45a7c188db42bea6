-------------------------------- MODULE Contexts --------------------------------
(***************************************************************************)
(* What dockup leaves on the Windows side: the context "dockup" of the      *)
(* docker CLI, the shortcut in the Startup folder, and the settings of      *)
(* config.json that go with them.  Commands are processes; each call of the *)
(* docker CLI and each system call on config.json is a step, nothing is     *)
(* locked, and the user edits the same contexts and the same file.          *)
(*                                                                          *)
(* Of config.json the pipe, the remembered context and the autostart flag   *)
(* are kept.  Setup and uninstall appear with the parts that touch these;   *)
(* the rest of them is in Setup.                                            *)
(***************************************************************************)
EXTENDS Naturals, FiniteSets

CONSTANTS
  Procs,        \* slots of processes
  Own,          \* contexts of the user
  Pipes,        \* values of pipe_name
  DefaultPipe,  \* config.PipeName
  Foreign,      \* an endpoint that is none of dockup's pipes
  NoHost,       \* there is no context "dockup"
  NoName,       \* no context: the empty string
  Torn,         \* config.json does not parse
  Worlds,       \* sets of the faults below that may occur together
  MaxCommands,  \* bound: commands started where nothing fails
  MaxFaulty,    \* bound: commands started where something does
  MaxEdits      \* bound: steps of the user

AllFaults ==
  { "docker",   \* the docker CLI fails or times out
    "saves",    \* config.json cannot be written, or not completely
    "shortcut", \* the shortcut cannot be written or removed
    "crash",    \* a process dies
    "overlap" } \* commands and edits run side by side

Names   == Own \cup {"default", "dockup"}
Prevs   == Own \cup {"default", NoName}
Setting == [pipe : Pipes, prev : Prevs, auto : BOOLEAN]

ASSUME ContextsAssumption ==
  /\ DefaultPipe \in Pipes
  /\ Foreign \notin Pipes
  /\ NoHost \notin Pipes \cup {Foreign}
  /\ {"default", "dockup"} \cap Own = {}
  /\ NoName \notin Names
  /\ Torn \notin Setting
  /\ Worlds \subseteq SUBSET AllFaults
  /\ MaxCommands \in Nat
  /\ MaxFaulty \in 0 .. MaxCommands
  /\ MaxEdits \in Nat

VARIABLES
  faults,    \* what may happen here
  host,      \* endpoint of the context "dockup", or NoHost
  own,       \* the user's contexts that exist
  current,   \* Docker's current context
  file,      \* config.json
  shortcut,  \* the Startup folder has the shortcut
  task,      \* what a process is running
  pc,        \* where it is
  mem,       \* its copy of config.json
  seen,      \* the context it found, or the one it switches to
  fresh,     \* history: config.json is still as it read or wrote it last
  stale,     \* history: a command saved, or followed up, a copy that was not the file any more
  home,      \* history: the context before the last context use, until an off or uninstall
  started,   \* commands so far
  edits      \* steps of the user so far

docker == <<host, own, current>>
disk   == <<file, shortcut>>
local  == <<mem, seen, fresh>>
hist   == <<home, stale>>
vars   == <<faults, docker, disk, task, pc, local, hist, started, edits>>

Tasks == {"use", "off", "enable", "disable", "setup", "uninstall"}
Steps == {"idle", "show", "inspect", "rm", "create", "switch", "pick", "back", "truncate",
          "write", "shortcut", "load", "check", "drop", "unlink"}

Existing == own \cup {"default"} \cup (IF host = NoHost THEN {} ELSE {"dockup"})

Quiet == \A p \in Procs : pc[p] = "idle"

\* None of these faults occurs.
Without(F) == faults \cap F = {}

Fails(f) == f \in faults

Defaults == [pipe |-> DefaultPipe, prev |-> NoName, auto |-> FALSE]

\* ensureUserConfig: a file that does not parse gives the defaults.
Loaded == IF file = Torn THEN Defaults ELSE file

\* A copy of config.json with one field changed.
WithPipe(s, n) == [s EXCEPT !.pipe = n]
WithPrev(s, c) == [s EXCEPT !.prev = c]
WithAuto(s, b) == [s EXCEPT !.auto = b]

Init ==
  /\ faults \in Worlds
  /\ host \in {NoHost, Foreign}
  /\ own = Own
  /\ current \in Own \cup {"default"}
  /\ file = Defaults
  /\ shortcut = FALSE
  /\ task = [p \in Procs |-> "use"]
  /\ pc = [p \in Procs |-> "idle"]
  /\ mem = [p \in Procs |-> Defaults]
  /\ seen = [p \in Procs |-> NoName]
  /\ fresh = [p \in Procs |-> TRUE]
  /\ stale = FALSE
  /\ home = NoName
  /\ started = 0
  /\ edits = 0

Goto(p, l) == pc' = [pc EXCEPT ![p] = l]

First(t) ==
  CASE t \in {"use", "off"} -> "show"
    [] t \in {"enable", "disable"} -> "shortcut"
    [] t = "setup" -> "truncate"
    [] t = "uninstall" -> "load"

\* Every command loads config.json first; only autostart refuses a torn one.
Begin(p) ==
  /\ pc[p] = "idle"
  /\ Quiet \/ Fails("overlap")
  /\ started < (IF faults = {} THEN MaxCommands ELSE MaxFaulty)
  /\ started' = started + 1
  /\ \E t \in Tasks :
       /\ t \in {"enable", "disable"} => file # Torn
       /\ task' = [task EXCEPT ![p] = t]
       /\ Goto(p, First(t))
  /\ mem' = [mem EXCEPT ![p] = Loaded]
  /\ seen' = [seen EXCEPT ![p] = NoName]
  /\ fresh' = [fresh EXCEPT ![p] = (file # Torn)]
  /\ UNCHANGED <<faults, docker, disk, hist, edits>>

-----------------------------------------------------------------------------
(* config.json: WriteFile truncates, then writes. *)

\* The file changes: of those that knew it, only these still do.
Known(P) == fresh' = [p \in Procs |-> p \in P /\ fresh[p]]

AfterSave(t) ==
  CASE t = "uninstall" -> {"check"}
    [] t = "setup" -> {"inspect", "idle"}
    [] OTHER -> {"idle"}

Truncate(p) ==
  /\ pc[p] = "truncate"
  /\ \/ file' = Torn /\ Known({p}) /\ Goto(p, "write")
     \/ Fails("saves") /\ UNCHANGED <<file, fresh>> /\ \E l \in AfterSave(task[p]) : Goto(p, l)
  /\ stale' = (stale \/ ~fresh[p])
  /\ UNCHANGED <<faults, docker, shortcut, task, mem, seen, home, started, edits>>

\* Over the text of another writer the rest of the longer one stays.
Write(p) ==
  /\ pc[p] = "write"
  /\ file' \in {mem[p]} \cup (IF file # Torn \/ Fails("saves") THEN {Torn} ELSE {})
  /\ Known({p})
  /\ stale' = (stale \/ ~fresh[p])
  /\ \E l \in AfterSave(task[p]) : Goto(p, l)
  /\ UNCHANGED <<faults, docker, shortcut, task, mem, seen, home, started, edits>>

-----------------------------------------------------------------------------
(* dockup context use *)

\* docker context show; its error leaves the name empty.
Show(p) ==
  /\ pc[p] = "show"
  /\ \E c \in {current} \cup (IF Fails("docker") THEN {NoName} ELSE {}) :
       /\ seen' = [seen EXCEPT ![p] = c]
       /\ Goto(p, CASE task[p] = "use" -> "inspect"
                    [] task[p] = "off" /\ c = "dockup" -> "pick"
                    [] OTHER -> "idle")
  /\ UNCHANGED <<faults, docker, disk, task, mem, fresh, hist, started, edits>>

Ensured(t) == IF t = "use" THEN "switch" ELSE "idle"

\* Ensure: a context that points elsewhere is replaced, whoever made it.
Inspect(p) ==
  /\ pc[p] = "inspect"
  /\ \/ Goto(p, CASE host = mem[p].pipe -> Ensured(task[p])
                  [] host = NoHost -> "create"
                  [] OTHER -> "rm")
     \/ Fails("docker") /\ Goto(p, "create")
  /\ UNCHANGED <<faults, docker, disk, task, local, hist, started, edits>>

\* Mutant of Removed: Docker stays on a context that is gone.
RemovedOnly == host' = NoHost /\ UNCHANGED <<own, current>>

\* docker context rm -f: Docker falls back to its default context.
Removed ==
  /\ host' = NoHost
  /\ current' = IF current = "dockup" THEN "default" ELSE current
  /\ UNCHANGED own

Rm(p) ==
  /\ pc[p] = "rm"
  /\ \/ Removed /\ Goto(p, "create")
     \/ Fails("docker") /\ Goto(p, "idle") /\ (Removed \/ UNCHANGED docker)
  /\ UNCHANGED <<faults, disk, task, local, hist, started, edits>>

Create(p) ==
  /\ pc[p] = "create"
  /\ \/ host = NoHost /\ host' = mem[p].pipe /\ Goto(p, Ensured(task[p]))
     \/ host # NoHost /\ UNCHANGED host /\ Goto(p, "idle")
     \/ Fails("docker") /\ host' \in {host, IF host = NoHost THEN mem[p].pipe ELSE host} /\ Goto(p, "idle")
  /\ UNCHANGED <<faults, own, current, disk, task, local, hist, started, edits>>

\* Mutant of Remembers: the first remembered context stays.
RemembersFirst(p) ==
  /\ seen[p] \notin {NoName, "dockup"}
  /\ mem[p].prev = NoName

\* The context to come back to is saved when it is another one than the saved one.
Remembers(p) == seen[p] \notin {NoName, "dockup"} /\ seen[p] # mem[p].prev

\* docker context use dockup, and then the save.
Switch(p) ==
  /\ pc[p] = "switch"
  /\ \/ /\ host # NoHost
        /\ current' = "dockup"
        /\ home' = IF seen[p] = "dockup" THEN home ELSE seen[p]
        /\ IF Remembers(p)
             THEN mem' = [mem EXCEPT ![p] = WithPrev(mem[p], seen[p])] /\ Goto(p, "truncate")
             ELSE UNCHANGED mem /\ Goto(p, "idle")
     \/ /\ host = NoHost \/ Fails("docker")
        /\ current' \in {current} \cup (IF host = NoHost THEN {} ELSE {"dockup"})
        /\ Goto(p, "idle")
        /\ UNCHANGED <<mem, home>>
  /\ UNCHANGED <<faults, host, own, disk, task, seen, fresh, stale, started, edits>>

-----------------------------------------------------------------------------
(* dockup context off *)

Pick(p) ==
  /\ pc[p] = "pick"
  /\ \E c \in {IF mem[p].prev \in Existing THEN mem[p].prev ELSE "default"}
              \cup (IF Fails("docker") THEN {"default"} ELSE {}) :
       seen' = [seen EXCEPT ![p] = c]
  /\ Goto(p, "back")
  /\ UNCHANGED <<faults, docker, disk, task, mem, fresh, hist, started, edits>>

Back(p) ==
  /\ pc[p] = "back"
  /\ \/ /\ seen[p] \in Existing
        /\ current' = seen[p]
        /\ home' = NoName
        /\ mem' = [mem EXCEPT ![p] = WithPrev(mem[p], NoName)]
        /\ Goto(p, IF mem[p].prev = NoName THEN "idle" ELSE "truncate")
     \/ /\ seen[p] \notin Existing \/ Fails("docker")
        /\ current' \in {current} \cup ({seen[p]} \cap Existing)
        /\ Goto(p, "idle")
        /\ UNCHANGED <<mem, home>>
  /\ UNCHANGED <<faults, host, own, disk, task, seen, fresh, stale, started, edits>>

-----------------------------------------------------------------------------
(* dockup daemon autostart on, off *)

\* The shortcut first, the flag after it.
SetEnabled(p) ==
  /\ pc[p] = "shortcut"
  /\ \/ /\ shortcut' = (task[p] = "enable")
        /\ mem' = [mem EXCEPT ![p] = WithAuto(mem[p], task[p] = "enable")]
        /\ Goto(p, "truncate")
     \/ /\ Fails("shortcut")
        /\ shortcut' \in {shortcut, shortcut \/ task[p] = "enable"}
        /\ Goto(p, "idle")
        /\ UNCHANGED mem
  /\ UNCHANGED <<faults, docker, file, task, seen, fresh, hist, started, edits>>

-----------------------------------------------------------------------------
(* The end of dockup uninstall *)

\* A torn file stays, and the default pipe is taken.
Load(p) ==
  /\ pc[p] = "load"
  /\ mem' = [mem EXCEPT ![p] = WithAuto(WithPrev(Loaded, NoName), FALSE)]
  /\ Goto(p, IF file = Torn THEN "check" ELSE "truncate")
  /\ fresh' = [fresh EXCEPT ![p] = (file # Torn)]
  /\ home' = NoName
  /\ UNCHANGED <<faults, docker, disk, task, seen, stale, started, edits>>

\* Mutant of Remove: the context goes whoever made it.
RemoveAny(p) ==
  /\ pc[p] = "check"
  /\ Goto(p, IF host # NoHost THEN "drop" ELSE "unlink")
  /\ UNCHANGED <<faults, docker, disk, task, local, hist, started, edits>>

\* Remove: only a context that points at the pipe goes.
Remove(p) ==
  /\ pc[p] = "check"
  /\ \/ Goto(p, IF host = mem[p].pipe THEN "drop" ELSE "unlink")
     \/ Fails("docker") /\ Goto(p, "unlink")
  /\ UNCHANGED <<faults, docker, disk, task, local, hist, started, edits>>

Drop(p) ==
  /\ pc[p] = "drop"
  /\ Removed \/ (Fails("docker") /\ UNCHANGED docker)
  /\ Goto(p, "unlink")
  /\ UNCHANGED <<faults, disk, task, local, hist, started, edits>>

\* Mutant of Unlink: the shortcut is forgotten.
UnlinkNothing(p) ==
  /\ pc[p] = "unlink"
  /\ Goto(p, "idle")
  /\ UNCHANGED <<faults, docker, disk, task, local, hist, started, edits>>

\* Another command has set the shortcut and not yet saved its flag.
Crosses(p) ==
  \E q \in Procs \ {p} : task[q] \in {"enable", "disable"} /\ pc[q] \in {"truncate", "write"}

\* SetEnabled(false), whose error is ignored.
Unlink(p) ==
  /\ pc[p] = "unlink"
  /\ shortcut' \in {FALSE} \cup (IF Fails("shortcut") THEN {shortcut} ELSE {})
  /\ stale' = (stale \/ ~fresh[p] \/ Crosses(p))
  /\ Goto(p, "idle")
  /\ UNCHANGED <<faults, docker, file, task, local, home, started, edits>>

-----------------------------------------------------------------------------
(* The user, and the death of a process *)

User ==
  /\ Quiet \/ Fails("overlap")
  /\ edits < MaxEdits
  /\ edits' = edits + 1
  /\ UNCHANGED <<faults, shortcut, task, pc, mem, seen, hist, started>>

\* docker context use.
UserSwitches ==
  /\ User
  /\ current' \in Existing
  /\ UNCHANGED <<host, own, file, fresh>>

\* docker context create dockup.
UserCreates ==
  /\ User
  /\ host = NoHost
  /\ host' = Foreign
  /\ UNCHANGED <<own, current, file, fresh>>

\* docker context rm -f.
UserRemoves ==
  /\ User
  /\ \E c \in Existing \ {"default"} :
       /\ host' = IF c = "dockup" THEN NoHost ELSE host
       /\ own' = own \ {c}
       /\ current' = IF current = c THEN "default" ELSE current
  /\ UNCHANGED <<file, fresh>>

\* Another pipe in config.json, which a torn file becomes valid by.
UserConfigures ==
  /\ User
  /\ \E n \in Pipes : file' = WithPipe(Loaded, n)
  /\ Known({})
  /\ UNCHANGED docker

Crash(p) ==
  /\ Fails("crash")
  /\ pc[p] # "idle"
  /\ Goto(p, "idle")
  /\ UNCHANGED <<faults, docker, disk, task, local, hist, started, edits>>

Next ==
  \/ \E p \in Procs :
       \/ Begin(p) \/ Truncate(p) \/ Write(p)
       \/ Show(p) \/ Inspect(p) \/ Rm(p) \/ Create(p) \/ Switch(p)
       \/ Pick(p) \/ Back(p) \/ SetEnabled(p)
       \/ Load(p) \/ Remove(p) \/ Drop(p) \/ Unlink(p) \/ Crash(p)
  \/ UserSwitches \/ UserCreates \/ UserRemoves \/ UserConfigures

Spec == Init /\ [][Next]_vars

-----------------------------------------------------------------------------
(* Properties *)

(* Every variable stays in its range. *)
TypeOK ==
  /\ faults \in SUBSET AllFaults
  /\ host \in Pipes \cup {Foreign, NoHost}
  /\ own \in SUBSET Own
  /\ current \in Existing
  /\ file \in Setting \cup {Torn}
  /\ shortcut \in BOOLEAN
  /\ task \in [Procs -> Tasks]
  /\ pc \in [Procs -> Steps]
  /\ mem \in [Procs -> Setting]
  /\ seen \in [Procs -> Names \cup {NoName}]
  /\ fresh \in [Procs -> BOOLEAN]
  /\ stale \in BOOLEAN
  /\ home \in Prevs
  /\ started \in 0 .. MaxCommands
  /\ edits \in 0 .. MaxEdits

(* "dockup context use" that ends well has put Docker on a context that     *)
(* leads to the pipe it read, and "dockup context off" puts it back on the  *)
(* context of before that use (on "default" when that context is gone),     *)
(* through pipe changes, replaced contexts, repeated uses and switches by   *)
(* hand.  Without overlap, faults of Docker or the file, and crashes: the   *)
(* switch comes first and is remembered by a save whose error is ignored.   *)
SwitchesBothWays ==
  [][Without({"overlap", "saves", "crash", "docker"}) =>
       \A p \in Procs :
         /\ pc[p] = "back" /\ pc'[p] # "back" =>
              current' = IF home \in Existing THEN home ELSE "default"
         /\ task[p] = "use" /\ pc[p] # "idle" /\ pc'[p] = "idle" =>
              /\ current' = "dockup"
              /\ host' = mem[p].pipe]_vars

(* Between commands the Startup folder has the shortcut exactly when        *)
(* config.json says so.  Every command saves the whole file from its copy,  *)
(* so this holds, overlapping commands or not, until one saves a copy that  *)
(* is not the file any more, or an uninstall removes the shortcut while     *)
(* another command changes it or has changed the flag; and while no process *)
(* dies and no write of either fails.                                       *)
AutostartAgrees ==
  Quiet /\ ~stale /\ Without({"saves", "crash", "shortcut"}) =>
    file # Torn /\ shortcut = file.auto

(* An uninstall that runs alone leaves no context that leads to the pipe it *)
(* found configured, no shortcut and no remembered context, and removes no  *)
(* context that the user made, whatever the user had configured before.     *)
UninstallLeavesOnlyTheUsers ==
  [][Without({"overlap"}) =>
       \A p \in Procs :
         task[p] = "uninstall" /\ pc[p] # "idle" =>
           /\ host = Foreign => host' = Foreign
           /\ pc[p] = "unlink" /\ Without({"saves", "crash", "docker", "shortcut"}) /\ pc'[p] = "idle" =>
                /\ host' # file'.pipe
                /\ ~shortcut' /\ ~file'.auto
                /\ file'.prev = NoName]_vars
=============================================================================
