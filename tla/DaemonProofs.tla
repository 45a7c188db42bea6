------------------------------ MODULE DaemonProofs ------------------------------
(* Proofs about Daemon, for any number of processes and commands, and for every
   environment. *)
EXTENDS Daemon, TLAPS

\* A server from the moment it holds the pipe, and from the moment it answers.
Bound     == {"callback", "record", "accept", "tcp", "serving"}
Answering == {"tcp", "serving"}

\* Where each kind of process may be.
Stages ==
  \A p \in Pid :
    /\ kind[p] \in Gone <=> pc[p] = "none"
    /\ pc[p] = "check" => kind[p] = "start"
    /\ pc[p] \in {"gate", "want", "spawned", "wait", "clear", "warm", "sick"}
         => kind[p] \in {"start", "restart"}
    /\ pc[p] \in {"stop", "stopWait"} => kind[p] \in {"stop", "restart", "shutdown"}
    /\ pc[p] \in {"list", "kill"} => kind[p] = "shutdown"
    /\ pc[p] \in {"dread", "dprobe", "dclear", "dinstall"} => kind[p] = "doctor"
    /\ pc[p] = "fgate" => kind[p] = "fore"
    /\ pc[p] = "boot" => kind[p] = "serve"
    /\ pc[p] \in Bound \cup {"listen"} => kind[p] \in Servers

\* The pipe is held by the server that bound it, and answers from Accept on.
Holder ==
  /\ \A s \in Pid : pc[s] \in Bound <=> pipe.owner = s
  /\ pipe.accepting <=> \E s \in Pid : pc[s] \in Answering

\* A lock that outlasts a step is that of a Start with its child.
Locking ==
  \A p \in Pid : /\ pc[p] = "spawned" <=> lock = p
                 /\ pc[p] = "spawned" => \E c \in Pid : seen[p] = {c}

\* Commands run where users run them, and Start meets a sick distro where one is.
Environment ==
  /\ \A p \in Pid : kind[p] \in AllCommands => Run(kind[p])
  /\ registered \/ May("unregister")
  /\ \A p \in Pid : pc[p] = "sick" => May("sick") \/ May("unregister")

\* Without overlap one command runs at a time,
Alone == \A p, q \in Pid : InProgress(p) /\ InProgress(q) => p = q

\* and a process that shutdown leaves alone outlived its kill or its list.
ShutdownSees ==
  \A p, q \in Pid : pc[p] = "kill" /\ ProcessAlive(q) => q = p \/ q \in seen[p] \/ q \in missed

\* A live child is recorded, or the Start that holds the lock is about to record it,
Recording ==
  \A c \in Children \ missed : rec.pid = c \/ (lock \in Pid /\ seen[lock] = {c})

\* or it outlived a kill: then there is no record, and its pipe keeps Start away.
Escaped == Children \cap missed # {} => rec.pid = None

\* A Start that spawned meets no other server than its child.
Starting ==
  \A p \in Pid :
    /\ pc[p] \in {"spawned", "wait", "clear", "warm", "sick"} =>
         /\ Children \subseteq seen[p]
         /\ seen[p] \cap missed = {}
         /\ \A q \in Pid : kind[q] # "fore"
    /\ pc[p] = "clear" => Children = {}

\* A child answers, but for the time in which a Start waits for that.
Settled ==
  \A c \in Children : pc[c] \in Answering \/ \E p \in Pid : pc[p] \in {"spawned", "wait"}

\* Where a command relies on there being no child, or no server, there is none, but
\* for a child that outlived a kill, and a record that could name it.
Judged ==
  /\ \A p \in Pid :
       /\ pc[p] = "dclear" => Children = {}
       /\ pc[p] = "stopWait" => rec.pid = None /\ Children \subseteq missed
       /\ pc[p] \in {"list", "kill"} => rec.pid = None \/ Children = {}
       /\ pc[p] = "listen" /\ kind[p] = "fore" => pipe = FreePipe
  /\ lock = Dead => Children = {}

\* Where no record outlives its process, a record is that of a child, until its
\* Start has cleared it.
Fresh ==
  /\ rec.pid # None =>
       \/ rec.pid \in Children
       \/ \E p \in Pid : pc[p] \in {"wait", "clear"}
  /\ lock # Dead
  /\ \A p \in Pid : pc[p] \in {"list", "kill", "spawned"} => rec.pid = None

\* Where the TCP port is free, a Start that saw its pipe answer has a recorded child
\* that answers.
Answered ==
  \A p \in Pid : pc[p] \in {"warm", "sick"} => /\ pipe.accepting
                                               /\ pipe.owner = rec.pid
                                               /\ rec.pid \in Children

\* Where, besides, nobody runs a foreground, what shutdown has listed stays a child.
Listed == \A p \in Pid : pc[p] = "kill" => seen[p] \subseteq Children

\* A recorded mirror flag is that of a child past its record, unless the Start of a
\* new child with the same id is about to reset it.
Mirrored ==
  /\ rec.mirror => rec.pid # None
  /\ \A s \in Children : rec.mirror /\ rec.pid = s =>
       \/ \E p \in Pid : pc[p] = "spawned" /\ s \in seen[p]
       \/ pc[s] \in Answering \cup {"accept"} /\ mirror[s]

\* Where a Start can die before it saved is left out.
MirrorsReset ==
  Never({"saveFails", "crash"}) /\ (Never({"overlap"}) \/ ~Run("shutdown"))

Base == TypeOK /\ Stages /\ Holder /\ Locking /\ Environment
Calm == Alone /\ Recording /\ Escaped /\ Starting /\ Settled /\ Judged

DInv ==
  /\ Base
  /\ Never({"overlap"}) => Alone /\ ShutdownSees
  /\ Recorded => Calm
  /\ Recorded /\ ~RecordOutlives => Fresh
  /\ Recorded /\ ~May("tcpBusy") => Answered
  /\ Recorded /\ ~May("tcpBusy") /\ ~Run("fore") => Listed
  /\ MirrorsReset => Mirrored
  /\ NeverShootsForeign

\* A process that left Stop goes on as its command says.
LeavesStop(p) ==
  \/ kind[p] = "stop" /\ Exit(p)
  \/ kind[p] = "restart" /\ Goto(p, "gate")
  \/ kind[p] = "shutdown" /\ Goto(p, "list")

\* The reports that the promises speak of.
Successes == {"started", "up", "stopped", "complete"}

LEMMA LeaveLeaves ==
  ASSUME Base, NEW p \in Pid, pc[p] = "stop" \/ pc[p] = "stopWait", NEW what, Leave(p, what)
  PROVE  LeavesStop(p) /\ (said' = said \/ said' = <<what, p>>)
<1>1. kind[p] \in {"stop", "restart", "shutdown"}
  BY DEF Base, Stages
<1> QED
  BY <1>1 DEF Leave, AfterStop, LeavesStop, Say

LEMMA StopNothingDoes ==
  ASSUME Base, NEW p \in Pid, StopNothing(p)
  PROVE  /\ pc[p] = "stop" /\ lock = None /\ ~ProcessAlive(rec.pid)
         /\ LeavesStop(p)
         /\ said' = said \/ \E what : what \notin Successes /\ said' = <<what, p>>
         /\ UNCHANGED <<seen, mirror, rec, installed, registered, lock, pipe, shot,
                        launches, world>>
<1>1. PICK what : what \notin Successes /\ Leave(p, what)
  <2>1. CASE rec.pid = None
    BY <2>1, Zenon DEF StopNothing, Successes
  <2>2. CASE rec.pid # None
    BY <2>2, Zenon DEF StopNothing, Successes
  <2> QED
    BY <2>1, <2>2
<1>2. pc[p] = "stop"
  BY DEF StopNothing
<1>3. LeavesStop(p) /\ (said' = said \/ said' = <<what, p>>)
  BY <1>1, <1>2, LeaveLeaves
<1>4. /\ lock = None /\ ~ProcessAlive(rec.pid)
      /\ UNCHANGED <<seen, mirror, rec, installed, registered, lock, pipe, shot,
                     launches, world>>
  BY Zenon DEF StopNothing
<1> QED
  BY <1>1, <1>2, <1>3, <1>4

LEMMA GiveUpDoes ==
  ASSUME Base, NEW p \in Pid, GiveUp(p)
  PROVE  /\ lock # None
         /\ \/ pc[p] \in {"want", "clear", "sick"} /\ Exit(p)
            \/ pc[p] = "stop" /\ LeavesStop(p)
            \/ pc[p] = "dclear" /\ Goto(p, "dinstall")
            \/ pc[p] = "record" /\ Goto(p, "accept")
         /\ said' = said \/ said' = <<"failed", p>>
         /\ UNCHANGED <<seen, mirror, rec, installed, registered, lock, pipe, shot,
                        launches, world>>
<1>1. /\ pc[p] \in WantsLock /\ lock # None
      /\ UNCHANGED <<seen, mirror, rec, installed, registered, lock, pipe, shot,
                     launches, world>>
  BY DEF GiveUp
<1>2. CASE pc[p] \in {"want", "clear", "sick"}
  BY <1>1, <1>2 DEF GiveUp, Say
<1>3. CASE pc[p] = "stop"
  <2>1. Leave(p, "failed")
    BY <1>3 DEF GiveUp
  <2> QED
    BY <1>1, <1>3, <2>1, LeaveLeaves
<1>4. CASE pc[p] = "dclear"
  BY <1>1, <1>4 DEF GiveUp
<1>5. CASE pc[p] = "record"
  BY <1>1, <1>5 DEF GiveUp
<1> QED
  BY <1>1, <1>2, <1>3, <1>4, <1>5 DEF WantsLock

\* What outlived a kill or a list is a process.
MissedLive == \A p \in missed : p \in Pid /\ ProcessAlive(p)

LEMMA MissedStep ==
  Base /\ [Next]_vars => MissedLive'
<1> SUFFICES ASSUME Base, [Next]_vars PROVE MissedLive'
  OBVIOUS
<1> USE DaemonAssumption DEF Base, Goto, Step, Gone, Servers, Bound, TypeOK, Stages,
   AllCommands, MissedLive, ProcessAlive
<1>1. ASSUME NEW p \in Pid, NEW cmd \in AllCommands, Launch(p, cmd) PROVE MissedLive'
  BY <1>1 DEF Launch
<1>2. ASSUME NEW p \in Pid, StartCheck(p) PROVE MissedLive'
  BY <1>2 DEF StartCheck, Exit, EndAll
<1>3. ASSUME NEW p \in Pid, StartGate(p) PROVE MissedLive'
  BY <1>3 DEF StartGate, MissingDistro, Exit, EndAll
<1>4. ASSUME NEW p \in Pid, StartRefuse(p) PROVE MissedLive'
  BY <1>4 DEF StartRefuse, Exit, EndAll
<1>5. ASSUME NEW p \in Pid, NEW c \in Pid, StartSpawn(p, c) PROVE MissedLive'
  BY <1>5 DEF StartSpawn
<1>6. ASSUME NEW p \in Pid, StartSave(p) PROVE MissedLive'
  BY <1>6 DEF StartSave, Exit, EndAll
<1>7. ASSUME NEW p \in Pid, StartWait(p) PROVE MissedLive'
  BY <1>7 DEF StartWait
<1>8. ASSUME NEW p \in Pid, StartClear(p) PROVE MissedLive'
  BY <1>8 DEF StartClear, Exit, EndAll, Nobody
<1>9. ASSUME NEW p \in Pid, StartWarm(p) PROVE MissedLive'
  BY <1>9 DEF StartWarm, Exit, EndAll
<1>10. ASSUME NEW p \in Pid, StartSick(p) PROVE MissedLive'
  BY <1>10 DEF StartSick, EndAll, FreedBy, FreePipe, Nobody
<1>11. ASSUME NEW p \in Pid, StopNothing(p) PROVE MissedLive'
  BY <1>11, StopNothingDoes DEF LeavesStop, Exit, EndAll
<1>12. ASSUME NEW p \in Pid, StopKill(p) PROVE MissedLive'
  BY <1>12 DEF StopKill, FreedBy, FreePipe, Nobody
<1>13. ASSUME NEW p \in Pid, StopSelf(p) PROVE MissedLive'
  BY <1>13 DEF StopSelf, Exit, EndAll
<1>14. ASSUME NEW p \in Pid, StopWait(p) PROVE MissedLive'
  BY <1>14 DEF StopWait, Leave, AfterStop, Exit, EndAll
<1>15. ASSUME NEW p \in Pid, ShutdownList(p) PROVE MissedLive'
  BY <1>15 DEF ShutdownList
<1>16. ASSUME NEW p \in Pid, NEW q \in Pid, ShutdownKill(p, q) PROVE MissedLive'
  BY <1>16 DEF ShutdownKill, EndAll, FreedBy, FreePipe
<1>17. ASSUME NEW p \in Pid, ShutdownEnd(p) PROVE MissedLive'
  BY <1>17 DEF ShutdownEnd, Exit, EndAll
<1>18. ASSUME NEW p \in Pid, DoctorRead(p) PROVE MissedLive'
  BY <1>18 DEF DoctorRead
<1>19. ASSUME NEW p \in Pid, DoctorProbe(p) PROVE MissedLive'
  BY <1>19 DEF DoctorProbe
<1>20. ASSUME NEW p \in Pid, DoctorClear(p) PROVE MissedLive'
  BY <1>20 DEF DoctorClear, Nobody
<1>21. ASSUME NEW p \in Pid, DoctorInstall(p) PROVE MissedLive'
  BY <1>21 DEF DoctorInstall, MissingDistro, Exit, EndAll
<1>22. ASSUME NEW p \in Pid, ForeGate(p) PROVE MissedLive'
  BY <1>22 DEF ForeGate, MissingDistro, Exit, EndAll
<1>23. ASSUME NEW p \in Pid, ServeBoot(p) PROVE MissedLive'
  BY <1>23 DEF ServeBoot, MissingDistro, Exit, EndAll
<1>24. ASSUME NEW p \in Pid, Listen(p) PROVE MissedLive'
  BY <1>24 DEF Listen, FreePipe
<1>25. ASSUME NEW p \in Pid, ListenFails(p) PROVE MissedLive'
  BY <1>25 DEF ListenFails, Exit, EndAll
<1>26. ASSUME NEW p \in Pid, Callback(p) PROVE MissedLive'
  BY <1>26 DEF Callback
<1>27. ASSUME NEW p \in Pid, RecordMirror(p) PROVE MissedLive'
  BY <1>27 DEF RecordMirror
<1>28. ASSUME NEW p \in Pid, Accept(p) PROVE MissedLive'
  BY <1>28 DEF Accept
<1>29. ASSUME NEW p \in Pid, ListenTcp(p) PROVE MissedLive'
  BY <1>29 DEF ListenTcp, Exit, EndAll, FreePipe
<1>30. ASSUME NEW p \in Pid, ForeStop(p) PROVE MissedLive'
  BY <1>30 DEF ForeStop, Exit, EndAll, FreePipe
<1>31. ASSUME NEW p \in Pid, GiveUp(p) PROVE MissedLive'
  BY <1>31, GiveUpDoes DEF LeavesStop, Exit, EndAll
<1>32. CASE ExpireLock
  BY <1>32 DEF ExpireLock
<1>33. CASE Crash
  BY <1>33 DEF Crash, EndAll, FreedBy, FreePipe
<1>34. CASE Reuse
  BY <1>34 DEF Reuse
<1>35. CASE Unregister
  BY <1>35 DEF Unregister
<1>36. CASE UNCHANGED vars
  BY <1>36 DEF vars
<1>37. ASSUME NEW p \in Pid, StartSickKeeps(p) PROVE MissedLive'
  BY <1>37 DEF StartSickKeeps, Nobody
<1>38. ASSUME NEW p \in Pid, StopKillFails(p) PROVE MissedLive'
  BY <1>38 DEF StopKillFails, Nobody
<1>39. ASSUME NEW p \in Pid, ShutdownListFails(p) PROVE MissedLive'
  BY <1>39 DEF ShutdownListFails
<1>40. ASSUME NEW p \in Pid, NEW q \in Pid, ShutdownKillFails(p, q) PROVE MissedLive'
  BY <1>40 DEF ShutdownKillFails
<1> HIDE DEF Base, Goto, Step, Gone, Servers, Bound, TypeOK, Stages, AllCommands,
   MissedLive, ProcessAlive
<1> QED
  BY <1>1, <1>2, <1>3, <1>4, <1>5, <1>6, <1>7, <1>8, <1>9, <1>10, <1>11, <1>12, <1>13,
     <1>14, <1>15, <1>16, <1>17, <1>18, <1>19, <1>20, <1>21, <1>22, <1>23, <1>24,
     <1>25, <1>26, <1>27, <1>28, <1>29, <1>30, <1>31, <1>32, <1>33, <1>34, <1>35,
     <1>36, <1>37, <1>38, <1>39, <1>40 DEF Next, Advance

LEMMA TypeStep ==
  Base /\ [Next]_vars => TypeOK'
<1> SUFFICES ASSUME Base, [Next]_vars PROVE TypeOK'
  OBVIOUS
<1>0. (missed \subseteq {p \in Pid : ProcessAlive(p)})'
  BY MissedStep DEF MissedLive
<1> USE <1>0, DaemonAssumption DEF Base, Goto, Step, Gone, Servers, Bound, TypeOK, Stages,
   AllCommands, WantsLock
<1>1. ASSUME NEW p \in Pid, NEW cmd \in AllCommands, Launch(p, cmd) PROVE TypeOK'
  BY <1>1 DEF Launch
<1>2. ASSUME NEW p \in Pid, StartCheck(p) PROVE TypeOK'
  BY <1>2 DEF StartCheck, Exit, EndAll, Say
<1>3. ASSUME NEW p \in Pid, StartGate(p) PROVE TypeOK'
  BY <1>3 DEF StartGate, MissingDistro, Exit, EndAll, Say
<1>4. ASSUME NEW p \in Pid, StartRefuse(p) PROVE TypeOK'
  BY <1>4 DEF StartRefuse, Exit, EndAll, Say
<1>5. ASSUME NEW p \in Pid, NEW c \in Pid, StartSpawn(p, c) PROVE TypeOK'
  BY <1>5 DEF StartSpawn
<1>6. ASSUME NEW p \in Pid, StartSave(p) PROVE TypeOK'
  <2>1. rec' = rec \/ \E c \in seen[p] : rec' = [pid |-> c, mirror |-> FALSE]
    BY <1>6 DEF StartSave
  <2>2. rec' \in [pid : Pid \cup {None}, mirror : BOOLEAN]
    <3>1. CASE rec' = rec
      BY <3>1
    <3>2. ASSUME NEW c \in Pid, rec' = [pid |-> c, mirror |-> FALSE]
          PROVE  rec' \in [pid : Pid \cup {None}, mirror : BOOLEAN]
      BY <3>2
    <3> QED
      BY <2>1, <3>1, <3>2
  <2>3. said'[2] \in Pid \cup {None} /\ lock' \in Pid \cup {None, Dead}
    BY <1>6 DEF StartSave, Say
  <2>4. kind' \in [Pid -> AllCommands \cup Gone \cup {"serve"}] /\ (Exit(p) \/ Goto(p, "wait"))
    BY <1>6 DEF StartSave, Exit, EndAll
  <2> QED
    BY <1>6, <2>2, <2>3, <2>4 DEF StartSave, Exit, EndAll
<1>7. ASSUME NEW p \in Pid, StartWait(p) PROVE TypeOK'
  BY <1>7 DEF StartWait
<1>8. ASSUME NEW p \in Pid, StartClear(p) PROVE TypeOK'
  BY <1>8 DEF StartClear, Exit, EndAll, Nobody, Say
<1>9. ASSUME NEW p \in Pid, StartWarm(p) PROVE TypeOK'
  BY <1>9 DEF StartWarm, Exit, EndAll, Say
<1>10. ASSUME NEW p \in Pid, StartSick(p) PROVE TypeOK'
  <2>1. rec' \in [pid : Pid \cup {None}, mirror : BOOLEAN]
        /\ pipe' \in [owner : Pid \cup {None}, accepting : BOOLEAN]
    BY <1>10 DEF StartSick, FreedBy, FreePipe, Nobody
  <2>2. shot' \in BOOLEAN
    BY <1>10 DEF StartSick, Shoots
  <2> QED
    BY <1>10, <2>1, <2>2 DEF StartSick, EndAll, Say
<1>11. ASSUME NEW p \in Pid, StopNothing(p) PROVE TypeOK'
  BY <1>11, StopNothingDoes DEF LeavesStop, Exit, EndAll
<1>12. ASSUME NEW p \in Pid, StopKill(p) PROVE TypeOK'
  <2>1. rec' \in [pid : Pid \cup {None}, mirror : BOOLEAN]
        /\ pipe' \in [owner : Pid \cup {None}, accepting : BOOLEAN]
    BY <1>12 DEF StopKill, FreedBy, FreePipe, Nobody
  <2>2. shot' \in BOOLEAN
    BY <1>12 DEF StopKill, Shoots
  <2> QED
    BY <1>12, <2>1, <2>2 DEF StopKill
<1>13. ASSUME NEW p \in Pid, StopSelf(p) PROVE TypeOK'
  BY <1>13 DEF StopSelf, Exit, EndAll
<1>14. ASSUME NEW p \in Pid, StopWait(p) PROVE TypeOK'
  BY <1>14 DEF StopWait, Leave, AfterStop, Exit, EndAll, Say
<1>15. ASSUME NEW p \in Pid, ShutdownList(p) PROVE TypeOK'
  BY <1>15 DEF ShutdownList
<1>16. ASSUME NEW p \in Pid, NEW q \in Pid, ShutdownKill(p, q) PROVE TypeOK'
  <2>1. pipe' \in [owner : Pid \cup {None}, accepting : BOOLEAN]
    BY <1>16 DEF ShutdownKill, FreedBy, FreePipe
  <2>2. shot' \in BOOLEAN
    BY <1>16 DEF ShutdownKill, Shoots
  <2>3. lock' \in Pid \cup {None, Dead}
    BY <1>16 DEF ShutdownKill
  <2> QED
    BY <1>16, <2>1, <2>2, <2>3 DEF ShutdownKill, EndAll
<1>17. ASSUME NEW p \in Pid, ShutdownEnd(p) PROVE TypeOK'
  BY <1>17 DEF ShutdownEnd, Exit, EndAll, Say
<1>18. ASSUME NEW p \in Pid, DoctorRead(p) PROVE TypeOK'
  BY <1>18 DEF DoctorRead
<1>19. ASSUME NEW p \in Pid, DoctorProbe(p) PROVE TypeOK'
  BY <1>19 DEF DoctorProbe
<1>20. ASSUME NEW p \in Pid, DoctorClear(p) PROVE TypeOK'
  BY <1>20 DEF DoctorClear, Nobody
<1>21. ASSUME NEW p \in Pid, DoctorInstall(p) PROVE TypeOK'
  BY <1>21 DEF DoctorInstall, MissingDistro, Exit, EndAll, Say
<1>22. ASSUME NEW p \in Pid, ForeGate(p) PROVE TypeOK'
  BY <1>22 DEF ForeGate, MissingDistro, Exit, EndAll, Say
<1>23. ASSUME NEW p \in Pid, ServeBoot(p) PROVE TypeOK'
  BY <1>23 DEF ServeBoot, MissingDistro, Exit, EndAll, Say
<1>24. ASSUME NEW p \in Pid, Listen(p) PROVE TypeOK'
  BY <1>24 DEF Listen, FreePipe
<1>25. ASSUME NEW p \in Pid, ListenFails(p) PROVE TypeOK'
  BY <1>25 DEF ListenFails, Exit, EndAll, Say
<1>26. ASSUME NEW p \in Pid, Callback(p) PROVE TypeOK'
  BY <1>26 DEF Callback
<1>27. ASSUME NEW p \in Pid, RecordMirror(p) PROVE TypeOK'
  BY <1>27 DEF RecordMirror
<1>28. ASSUME NEW p \in Pid, Accept(p) PROVE TypeOK'
  BY <1>28 DEF Accept
<1>29. ASSUME NEW p \in Pid, ListenTcp(p) PROVE TypeOK'
  <2>1. said'[2] \in Pid \cup {None}
    BY <1>29 DEF ListenTcp, Say
  <2>2. pipe' = pipe \/ pipe' = FreePipe
    BY <1>29 DEF ListenTcp
  <2>3. pipe' \in [owner : Pid \cup {None}, accepting : BOOLEAN]
    <3>1. CASE pipe' = pipe
      BY <3>1
    <3>2. CASE pipe' = FreePipe
      BY <3>2 DEF FreePipe
    <3> QED
      BY <2>2, <3>1, <3>2
  <2>4. Exit(p) \/ Goto(p, "serving")
    BY <1>29 DEF ListenTcp
  <2> QED
    BY <1>29, <2>1, <2>3, <2>4 DEF ListenTcp, Exit, EndAll
<1>30. ASSUME NEW p \in Pid, ForeStop(p) PROVE TypeOK'
  BY <1>30 DEF ForeStop, Exit, EndAll, FreePipe, Say
<1>31. ASSUME NEW p \in Pid, GiveUp(p) PROVE TypeOK'
  BY <1>31, GiveUpDoes DEF LeavesStop, Exit, EndAll
<1>32. CASE ExpireLock
  BY <1>32 DEF ExpireLock
<1>33. CASE Crash
  BY <1>33 DEF Crash, EndAll, FreedBy, FreePipe
<1>34. CASE Reuse
  BY <1>34 DEF Reuse
<1>35. CASE Unregister
  BY <1>35 DEF Unregister
<1>36. CASE UNCHANGED vars
  BY <1>36 DEF vars
<1>37. ASSUME NEW p \in Pid, StartSickKeeps(p) PROVE TypeOK'
  BY <1>37 DEF StartSickKeeps, Nobody, Say
<1>38. ASSUME NEW p \in Pid, StopKillFails(p) PROVE TypeOK'
  BY <1>38 DEF StopKillFails, Nobody
<1>39. ASSUME NEW p \in Pid, ShutdownListFails(p) PROVE TypeOK'
  BY <1>39 DEF ShutdownListFails
<1>40. ASSUME NEW p \in Pid, NEW q \in Pid, ShutdownKillFails(p, q) PROVE TypeOK'
  BY <1>40 DEF ShutdownKillFails
<1> HIDE <1>0 DEF Base, Goto, Step, Gone, Servers, Bound, TypeOK, Stages, AllCommands, WantsLock
<1> QED
  BY <1>1, <1>2, <1>3, <1>4, <1>5, <1>6, <1>7, <1>8, <1>9, <1>10, <1>11, <1>12, <1>13,
     <1>14, <1>15, <1>16, <1>17, <1>18, <1>19, <1>20, <1>21, <1>22, <1>23, <1>24,
     <1>25, <1>26, <1>27, <1>28, <1>29, <1>30, <1>31, <1>32, <1>33, <1>34, <1>35,
     <1>36, <1>37, <1>38, <1>39, <1>40 DEF Next, Advance

LEMMA StagesStep ==
  Base /\ [Next]_vars => Stages'
<1> SUFFICES ASSUME Base, [Next]_vars PROVE Stages'
  OBVIOUS
<1> USE DaemonAssumption DEF Base, Goto, Step, Gone, Servers, Bound, TypeOK, Stages,
   AllCommands
<1>1. ASSUME NEW p \in Pid, NEW cmd \in AllCommands, Launch(p, cmd) PROVE Stages'
  BY <1>1 DEF Launch
<1>2. ASSUME NEW p \in Pid, StartCheck(p) PROVE Stages'
  BY <1>2 DEF StartCheck, Exit, EndAll
<1>3. ASSUME NEW p \in Pid, StartGate(p) PROVE Stages'
  BY <1>3 DEF StartGate, MissingDistro, Exit, EndAll
<1>4. ASSUME NEW p \in Pid, StartRefuse(p) PROVE Stages'
  BY <1>4 DEF StartRefuse, Exit, EndAll
<1>5. ASSUME NEW p \in Pid, NEW c \in Pid, StartSpawn(p, c) PROVE Stages'
  BY <1>5 DEF StartSpawn
<1>6. ASSUME NEW p \in Pid, StartSave(p) PROVE Stages'
  BY <1>6 DEF StartSave, Exit, EndAll
<1>7. ASSUME NEW p \in Pid, StartWait(p) PROVE Stages'
  BY <1>7 DEF StartWait
<1>8. ASSUME NEW p \in Pid, StartClear(p) PROVE Stages'
  BY <1>8 DEF StartClear, Exit, EndAll, Nobody
<1>9. ASSUME NEW p \in Pid, StartWarm(p) PROVE Stages'
  BY <1>9 DEF StartWarm, Exit, EndAll
<1>10. ASSUME NEW p \in Pid, StartSick(p) PROVE Stages'
  BY <1>10 DEF StartSick, EndAll, FreedBy, FreePipe, Nobody
<1>11. ASSUME NEW p \in Pid, StopNothing(p) PROVE Stages'
  BY <1>11, StopNothingDoes DEF LeavesStop, Exit, EndAll
<1>12. ASSUME NEW p \in Pid, StopKill(p) PROVE Stages'
  BY <1>12 DEF StopKill, FreedBy, FreePipe, Nobody
<1>13. ASSUME NEW p \in Pid, StopSelf(p) PROVE Stages'
  BY <1>13 DEF StopSelf, Exit, EndAll
<1>14. ASSUME NEW p \in Pid, StopWait(p) PROVE Stages'
  BY <1>14 DEF StopWait, Leave, AfterStop, Exit, EndAll
<1>15. ASSUME NEW p \in Pid, ShutdownList(p) PROVE Stages'
  BY <1>15 DEF ShutdownList
<1>16. ASSUME NEW p \in Pid, NEW q \in Pid, ShutdownKill(p, q) PROVE Stages'
  BY <1>16 DEF ShutdownKill, EndAll, FreedBy, FreePipe
<1>17. ASSUME NEW p \in Pid, ShutdownEnd(p) PROVE Stages'
  BY <1>17 DEF ShutdownEnd, Exit, EndAll
<1>18. ASSUME NEW p \in Pid, DoctorRead(p) PROVE Stages'
  BY <1>18 DEF DoctorRead
<1>19. ASSUME NEW p \in Pid, DoctorProbe(p) PROVE Stages'
  BY <1>19 DEF DoctorProbe
<1>20. ASSUME NEW p \in Pid, DoctorClear(p) PROVE Stages'
  BY <1>20 DEF DoctorClear, Nobody
<1>21. ASSUME NEW p \in Pid, DoctorInstall(p) PROVE Stages'
  BY <1>21 DEF DoctorInstall, MissingDistro, Exit, EndAll
<1>22. ASSUME NEW p \in Pid, ForeGate(p) PROVE Stages'
  BY <1>22 DEF ForeGate, MissingDistro, Exit, EndAll
<1>23. ASSUME NEW p \in Pid, ServeBoot(p) PROVE Stages'
  BY <1>23 DEF ServeBoot, MissingDistro, Exit, EndAll
<1>24. ASSUME NEW p \in Pid, Listen(p) PROVE Stages'
  BY <1>24 DEF Listen, FreePipe
<1>25. ASSUME NEW p \in Pid, ListenFails(p) PROVE Stages'
  BY <1>25 DEF ListenFails, Exit, EndAll
<1>26. ASSUME NEW p \in Pid, Callback(p) PROVE Stages'
  BY <1>26 DEF Callback
<1>27. ASSUME NEW p \in Pid, RecordMirror(p) PROVE Stages'
  BY <1>27 DEF RecordMirror
<1>28. ASSUME NEW p \in Pid, Accept(p) PROVE Stages'
  BY <1>28 DEF Accept
<1>29. ASSUME NEW p \in Pid, ListenTcp(p) PROVE Stages'
  BY <1>29 DEF ListenTcp, Exit, EndAll, FreePipe
<1>30. ASSUME NEW p \in Pid, ForeStop(p) PROVE Stages'
  BY <1>30 DEF ForeStop, Exit, EndAll, FreePipe
<1>31. ASSUME NEW p \in Pid, GiveUp(p) PROVE Stages'
  BY <1>31, GiveUpDoes DEF LeavesStop, Exit, EndAll
<1>32. CASE ExpireLock
  BY <1>32 DEF ExpireLock
<1>33. CASE Crash
  BY <1>33 DEF Crash, EndAll, FreedBy, FreePipe
<1>34. CASE Reuse
  BY <1>34 DEF Reuse
<1>35. CASE Unregister
  BY <1>35 DEF Unregister
<1>36. CASE UNCHANGED vars
  BY <1>36 DEF vars
<1>37. ASSUME NEW p \in Pid, StartSickKeeps(p) PROVE Stages'
  BY <1>37 DEF StartSickKeeps, Nobody
<1>38. ASSUME NEW p \in Pid, StopKillFails(p) PROVE Stages'
  BY <1>38 DEF StopKillFails, Nobody
<1>39. ASSUME NEW p \in Pid, ShutdownListFails(p) PROVE Stages'
  BY <1>39 DEF ShutdownListFails
<1>40. ASSUME NEW p \in Pid, NEW q \in Pid, ShutdownKillFails(p, q) PROVE Stages'
  BY <1>40 DEF ShutdownKillFails
<1> HIDE DEF Base, Goto, Step, Gone, Servers, Bound, TypeOK, Stages, AllCommands
<1> QED
  BY <1>1, <1>2, <1>3, <1>4, <1>5, <1>6, <1>7, <1>8, <1>9, <1>10, <1>11, <1>12, <1>13,
     <1>14, <1>15, <1>16, <1>17, <1>18, <1>19, <1>20, <1>21, <1>22, <1>23, <1>24,
     <1>25, <1>26, <1>27, <1>28, <1>29, <1>30, <1>31, <1>32, <1>33, <1>34, <1>35,
     <1>36, <1>37, <1>38, <1>39, <1>40 DEF Next, Advance

LEMMA HolderStep ==
  Base /\ [Next]_vars => Holder'
<1> SUFFICES ASSUME Base, [Next]_vars PROVE Holder'
  OBVIOUS
<1> USE DaemonAssumption DEF Base, Goto, Step, Gone, Servers, Bound, TypeOK, Stages, Holder,
   Answering, AllCommands
<1>1. ASSUME NEW p \in Pid, NEW cmd \in AllCommands, Launch(p, cmd) PROVE Holder'
  BY <1>1 DEF Launch
<1>2. ASSUME NEW p \in Pid, StartCheck(p) PROVE Holder'
  BY <1>2 DEF StartCheck, Exit, EndAll
<1>3. ASSUME NEW p \in Pid, StartGate(p) PROVE Holder'
  BY <1>3 DEF StartGate, MissingDistro, Exit, EndAll
<1>4. ASSUME NEW p \in Pid, StartRefuse(p) PROVE Holder'
  BY <1>4 DEF StartRefuse, Exit, EndAll
<1>5. ASSUME NEW p \in Pid, NEW c \in Pid, StartSpawn(p, c) PROVE Holder'
  BY <1>5 DEF StartSpawn
<1>6. ASSUME NEW p \in Pid, StartSave(p) PROVE Holder'
  BY <1>6 DEF StartSave, Exit, EndAll
<1>7. ASSUME NEW p \in Pid, StartWait(p) PROVE Holder'
  BY <1>7 DEF StartWait
<1>8. ASSUME NEW p \in Pid, StartClear(p) PROVE Holder'
  BY <1>8 DEF StartClear, Exit, EndAll, Nobody
<1>9. ASSUME NEW p \in Pid, StartWarm(p) PROVE Holder'
  BY <1>9 DEF StartWarm, Exit, EndAll
<1>10. ASSUME NEW p \in Pid, StartSick(p) PROVE Holder'
  BY <1>10 DEF StartSick, EndAll, FreedBy, FreePipe, Nobody
<1>11. ASSUME NEW p \in Pid, StopNothing(p) PROVE Holder'
  BY <1>11, StopNothingDoes DEF LeavesStop, Exit, EndAll
<1>12. ASSUME NEW p \in Pid, StopKill(p) PROVE Holder'
  BY <1>12 DEF StopKill, FreedBy, FreePipe, Nobody
<1>13. ASSUME NEW p \in Pid, StopSelf(p) PROVE Holder'
  BY <1>13 DEF StopSelf, Exit, EndAll
<1>14. ASSUME NEW p \in Pid, StopWait(p) PROVE Holder'
  BY <1>14 DEF StopWait, Leave, AfterStop, Exit, EndAll
<1>15. ASSUME NEW p \in Pid, ShutdownList(p) PROVE Holder'
  BY <1>15 DEF ShutdownList
<1>16. ASSUME NEW p \in Pid, NEW q \in Pid, ShutdownKill(p, q) PROVE Holder'
  BY <1>16 DEF ShutdownKill, EndAll, FreedBy, FreePipe
<1>17. ASSUME NEW p \in Pid, ShutdownEnd(p) PROVE Holder'
  BY <1>17 DEF ShutdownEnd, Exit, EndAll
<1>18. ASSUME NEW p \in Pid, DoctorRead(p) PROVE Holder'
  BY <1>18 DEF DoctorRead
<1>19. ASSUME NEW p \in Pid, DoctorProbe(p) PROVE Holder'
  BY <1>19 DEF DoctorProbe
<1>20. ASSUME NEW p \in Pid, DoctorClear(p) PROVE Holder'
  BY <1>20 DEF DoctorClear, Nobody
<1>21. ASSUME NEW p \in Pid, DoctorInstall(p) PROVE Holder'
  BY <1>21 DEF DoctorInstall, MissingDistro, Exit, EndAll
<1>22. ASSUME NEW p \in Pid, ForeGate(p) PROVE Holder'
  BY <1>22 DEF ForeGate, MissingDistro, Exit, EndAll
<1>23. ASSUME NEW p \in Pid, ServeBoot(p) PROVE Holder'
  BY <1>23 DEF ServeBoot, MissingDistro, Exit, EndAll
<1>24. ASSUME NEW p \in Pid, Listen(p) PROVE Holder'
  BY <1>24 DEF Listen, FreePipe
<1>25. ASSUME NEW p \in Pid, ListenFails(p) PROVE Holder'
  BY <1>25 DEF ListenFails, Exit, EndAll
<1>26. ASSUME NEW p \in Pid, Callback(p) PROVE Holder'
  BY <1>26 DEF Callback
<1>27. ASSUME NEW p \in Pid, RecordMirror(p) PROVE Holder'
  BY <1>27 DEF RecordMirror
<1>28. ASSUME NEW p \in Pid, Accept(p) PROVE Holder'
  BY <1>28 DEF Accept
<1>29. ASSUME NEW p \in Pid, ListenTcp(p) PROVE Holder'
  BY <1>29 DEF ListenTcp, Exit, EndAll, FreePipe
<1>30. ASSUME NEW p \in Pid, ForeStop(p) PROVE Holder'
  BY <1>30 DEF ForeStop, Exit, EndAll, FreePipe
<1>31. ASSUME NEW p \in Pid, GiveUp(p) PROVE Holder'
  BY <1>31, GiveUpDoes DEF LeavesStop, Exit, EndAll
<1>32. CASE ExpireLock
  BY <1>32 DEF ExpireLock
<1>33. CASE Crash
  BY <1>33 DEF Crash, EndAll, FreedBy, FreePipe
<1>34. CASE Reuse
  BY <1>34 DEF Reuse
<1>35. CASE Unregister
  BY <1>35 DEF Unregister
<1>36. CASE UNCHANGED vars
  BY <1>36 DEF vars
<1>37. ASSUME NEW p \in Pid, StartSickKeeps(p) PROVE Holder'
  BY <1>37 DEF StartSickKeeps, Nobody
<1>38. ASSUME NEW p \in Pid, StopKillFails(p) PROVE Holder'
  BY <1>38 DEF StopKillFails, Nobody
<1>39. ASSUME NEW p \in Pid, ShutdownListFails(p) PROVE Holder'
  BY <1>39 DEF ShutdownListFails
<1>40. ASSUME NEW p \in Pid, NEW q \in Pid, ShutdownKillFails(p, q) PROVE Holder'
  BY <1>40 DEF ShutdownKillFails
<1> QED
  BY <1>1, <1>2, <1>3, <1>4, <1>5, <1>6, <1>7, <1>8, <1>9, <1>10, <1>11, <1>12, <1>13,
     <1>14, <1>15, <1>16, <1>17, <1>18, <1>19, <1>20, <1>21, <1>22, <1>23, <1>24,
     <1>25, <1>26, <1>27, <1>28, <1>29, <1>30, <1>31, <1>32, <1>33, <1>34, <1>35,
     <1>36, <1>37, <1>38, <1>39, <1>40 DEF Next, Advance

LEMMA LockingStep ==
  Base /\ [Next]_vars => Locking'
<1> SUFFICES ASSUME Base, [Next]_vars PROVE Locking'
  OBVIOUS
<1> USE DaemonAssumption DEF Base, Goto, Step, Gone, Servers, Bound, TypeOK, Stages,
   Locking, AllCommands
<1>1. ASSUME NEW p \in Pid, NEW cmd \in AllCommands, Launch(p, cmd) PROVE Locking'
  BY <1>1 DEF Launch
<1>2. ASSUME NEW p \in Pid, StartCheck(p) PROVE Locking'
  BY <1>2 DEF StartCheck, Exit, EndAll
<1>3. ASSUME NEW p \in Pid, StartGate(p) PROVE Locking'
  BY <1>3 DEF StartGate, MissingDistro, Exit, EndAll
<1>4. ASSUME NEW p \in Pid, StartRefuse(p) PROVE Locking'
  BY <1>4 DEF StartRefuse, Exit, EndAll
<1>5. ASSUME NEW p \in Pid, NEW c \in Pid, StartSpawn(p, c) PROVE Locking'
  BY <1>5 DEF StartSpawn
<1>6. ASSUME NEW p \in Pid, StartSave(p) PROVE Locking'
  BY <1>6 DEF StartSave, Exit, EndAll
<1>7. ASSUME NEW p \in Pid, StartWait(p) PROVE Locking'
  BY <1>7 DEF StartWait
<1>8. ASSUME NEW p \in Pid, StartClear(p) PROVE Locking'
  BY <1>8 DEF StartClear, Exit, EndAll, Nobody
<1>9. ASSUME NEW p \in Pid, StartWarm(p) PROVE Locking'
  BY <1>9 DEF StartWarm, Exit, EndAll
<1>10. ASSUME NEW p \in Pid, StartSick(p) PROVE Locking'
  BY <1>10 DEF StartSick, EndAll, FreedBy, FreePipe, Nobody
<1>11. ASSUME NEW p \in Pid, StopNothing(p) PROVE Locking'
  BY <1>11, StopNothingDoes DEF LeavesStop, Exit, EndAll
<1>12. ASSUME NEW p \in Pid, StopKill(p) PROVE Locking'
  BY <1>12 DEF StopKill, FreedBy, FreePipe, Nobody
<1>13. ASSUME NEW p \in Pid, StopSelf(p) PROVE Locking'
  BY <1>13 DEF StopSelf, Exit, EndAll
<1>14. ASSUME NEW p \in Pid, StopWait(p) PROVE Locking'
  BY <1>14 DEF StopWait, Leave, AfterStop, Exit, EndAll
<1>15. ASSUME NEW p \in Pid, ShutdownList(p) PROVE Locking'
  BY <1>15 DEF ShutdownList
<1>16. ASSUME NEW p \in Pid, NEW q \in Pid, ShutdownKill(p, q) PROVE Locking'
  BY <1>16 DEF ShutdownKill, EndAll, FreedBy, FreePipe
<1>17. ASSUME NEW p \in Pid, ShutdownEnd(p) PROVE Locking'
  BY <1>17 DEF ShutdownEnd, Exit, EndAll
<1>18. ASSUME NEW p \in Pid, DoctorRead(p) PROVE Locking'
  BY <1>18 DEF DoctorRead
<1>19. ASSUME NEW p \in Pid, DoctorProbe(p) PROVE Locking'
  BY <1>19 DEF DoctorProbe
<1>20. ASSUME NEW p \in Pid, DoctorClear(p) PROVE Locking'
  BY <1>20 DEF DoctorClear, Nobody
<1>21. ASSUME NEW p \in Pid, DoctorInstall(p) PROVE Locking'
  BY <1>21 DEF DoctorInstall, MissingDistro, Exit, EndAll
<1>22. ASSUME NEW p \in Pid, ForeGate(p) PROVE Locking'
  BY <1>22 DEF ForeGate, MissingDistro, Exit, EndAll
<1>23. ASSUME NEW p \in Pid, ServeBoot(p) PROVE Locking'
  BY <1>23 DEF ServeBoot, MissingDistro, Exit, EndAll
<1>24. ASSUME NEW p \in Pid, Listen(p) PROVE Locking'
  BY <1>24 DEF Listen, FreePipe
<1>25. ASSUME NEW p \in Pid, ListenFails(p) PROVE Locking'
  BY <1>25 DEF ListenFails, Exit, EndAll
<1>26. ASSUME NEW p \in Pid, Callback(p) PROVE Locking'
  BY <1>26 DEF Callback
<1>27. ASSUME NEW p \in Pid, RecordMirror(p) PROVE Locking'
  BY <1>27 DEF RecordMirror
<1>28. ASSUME NEW p \in Pid, Accept(p) PROVE Locking'
  BY <1>28 DEF Accept
<1>29. ASSUME NEW p \in Pid, ListenTcp(p) PROVE Locking'
  BY <1>29 DEF ListenTcp, Exit, EndAll, FreePipe
<1>30. ASSUME NEW p \in Pid, ForeStop(p) PROVE Locking'
  BY <1>30 DEF ForeStop, Exit, EndAll, FreePipe
<1>31. ASSUME NEW p \in Pid, GiveUp(p) PROVE Locking'
  BY <1>31, GiveUpDoes DEF LeavesStop, Exit, EndAll
<1>32. CASE ExpireLock
  BY <1>32 DEF ExpireLock
<1>33. CASE Crash
  BY <1>33 DEF Crash, EndAll, FreedBy, FreePipe
<1>34. CASE Reuse
  BY <1>34 DEF Reuse
<1>35. CASE Unregister
  BY <1>35 DEF Unregister
<1>36. CASE UNCHANGED vars
  BY <1>36 DEF vars
<1>37. ASSUME NEW p \in Pid, StartSickKeeps(p) PROVE Locking'
  BY <1>37 DEF StartSickKeeps, Nobody
<1>38. ASSUME NEW p \in Pid, StopKillFails(p) PROVE Locking'
  BY <1>38 DEF StopKillFails, Nobody
<1>39. ASSUME NEW p \in Pid, ShutdownListFails(p) PROVE Locking'
  BY <1>39 DEF ShutdownListFails
<1>40. ASSUME NEW p \in Pid, NEW q \in Pid, ShutdownKillFails(p, q) PROVE Locking'
  BY <1>40 DEF ShutdownKillFails
<1> QED
  BY <1>1, <1>2, <1>3, <1>4, <1>5, <1>6, <1>7, <1>8, <1>9, <1>10, <1>11, <1>12, <1>13,
     <1>14, <1>15, <1>16, <1>17, <1>18, <1>19, <1>20, <1>21, <1>22, <1>23, <1>24,
     <1>25, <1>26, <1>27, <1>28, <1>29, <1>30, <1>31, <1>32, <1>33, <1>34, <1>35,
     <1>36, <1>37, <1>38, <1>39, <1>40 DEF Next, Advance

LEMMA EnvironmentStep ==
  Base /\ [Next]_vars => Environment'
<1> SUFFICES ASSUME Base, [Next]_vars PROVE Environment'
  OBVIOUS
<1> USE DaemonAssumption DEF Base, Goto, Step, Gone, Servers, Bound, TypeOK, Stages,
   Environment, AllCommands, May, Run
<1>1. ASSUME NEW p \in Pid, NEW cmd \in AllCommands, Launch(p, cmd) PROVE Environment'
  BY <1>1 DEF Launch
<1>2. ASSUME NEW p \in Pid, StartCheck(p) PROVE Environment'
  BY <1>2 DEF StartCheck, Exit, EndAll
<1>3. ASSUME NEW p \in Pid, StartGate(p) PROVE Environment'
  BY <1>3 DEF StartGate, MissingDistro, Exit, EndAll
<1>4. ASSUME NEW p \in Pid, StartRefuse(p) PROVE Environment'
  BY <1>4 DEF StartRefuse, Exit, EndAll
<1>5. ASSUME NEW p \in Pid, NEW c \in Pid, StartSpawn(p, c) PROVE Environment'
  BY <1>5 DEF StartSpawn
<1>6. ASSUME NEW p \in Pid, StartSave(p) PROVE Environment'
  BY <1>6 DEF StartSave, Exit, EndAll
<1>7. ASSUME NEW p \in Pid, StartWait(p) PROVE Environment'
  BY <1>7 DEF StartWait
<1>8. ASSUME NEW p \in Pid, StartClear(p) PROVE Environment'
  BY <1>8 DEF StartClear, Exit, EndAll, Nobody
<1>9. ASSUME NEW p \in Pid, StartWarm(p) PROVE Environment'
  BY <1>9 DEF StartWarm, Exit, EndAll
<1>10. ASSUME NEW p \in Pid, StartSick(p) PROVE Environment'
  BY <1>10 DEF StartSick, EndAll, FreedBy, FreePipe, Nobody
<1>11. ASSUME NEW p \in Pid, StopNothing(p) PROVE Environment'
  BY <1>11, StopNothingDoes DEF LeavesStop, Exit, EndAll
<1>12. ASSUME NEW p \in Pid, StopKill(p) PROVE Environment'
  BY <1>12 DEF StopKill, FreedBy, FreePipe, Nobody
<1>13. ASSUME NEW p \in Pid, StopSelf(p) PROVE Environment'
  BY <1>13 DEF StopSelf, Exit, EndAll
<1>14. ASSUME NEW p \in Pid, StopWait(p) PROVE Environment'
  BY <1>14 DEF StopWait, Leave, AfterStop, Exit, EndAll
<1>15. ASSUME NEW p \in Pid, ShutdownList(p) PROVE Environment'
  BY <1>15 DEF ShutdownList
<1>16. ASSUME NEW p \in Pid, NEW q \in Pid, ShutdownKill(p, q) PROVE Environment'
  BY <1>16 DEF ShutdownKill, EndAll, FreedBy, FreePipe
<1>17. ASSUME NEW p \in Pid, ShutdownEnd(p) PROVE Environment'
  BY <1>17 DEF ShutdownEnd, Exit, EndAll
<1>18. ASSUME NEW p \in Pid, DoctorRead(p) PROVE Environment'
  BY <1>18 DEF DoctorRead
<1>19. ASSUME NEW p \in Pid, DoctorProbe(p) PROVE Environment'
  BY <1>19 DEF DoctorProbe
<1>20. ASSUME NEW p \in Pid, DoctorClear(p) PROVE Environment'
  BY <1>20 DEF DoctorClear, Nobody
<1>21. ASSUME NEW p \in Pid, DoctorInstall(p) PROVE Environment'
  BY <1>21 DEF DoctorInstall, MissingDistro, Exit, EndAll
<1>22. ASSUME NEW p \in Pid, ForeGate(p) PROVE Environment'
  BY <1>22 DEF ForeGate, MissingDistro, Exit, EndAll
<1>23. ASSUME NEW p \in Pid, ServeBoot(p) PROVE Environment'
  BY <1>23 DEF ServeBoot, MissingDistro, Exit, EndAll
<1>24. ASSUME NEW p \in Pid, Listen(p) PROVE Environment'
  BY <1>24 DEF Listen, FreePipe
<1>25. ASSUME NEW p \in Pid, ListenFails(p) PROVE Environment'
  BY <1>25 DEF ListenFails, Exit, EndAll
<1>26. ASSUME NEW p \in Pid, Callback(p) PROVE Environment'
  BY <1>26 DEF Callback
<1>27. ASSUME NEW p \in Pid, RecordMirror(p) PROVE Environment'
  BY <1>27 DEF RecordMirror
<1>28. ASSUME NEW p \in Pid, Accept(p) PROVE Environment'
  BY <1>28 DEF Accept
<1>29. ASSUME NEW p \in Pid, ListenTcp(p) PROVE Environment'
  BY <1>29 DEF ListenTcp, Exit, EndAll, FreePipe
<1>30. ASSUME NEW p \in Pid, ForeStop(p) PROVE Environment'
  BY <1>30 DEF ForeStop, Exit, EndAll, FreePipe
<1>31. ASSUME NEW p \in Pid, GiveUp(p) PROVE Environment'
  BY <1>31, GiveUpDoes DEF LeavesStop, Exit, EndAll
<1>32. CASE ExpireLock
  BY <1>32 DEF ExpireLock
<1>33. CASE Crash
  BY <1>33 DEF Crash, EndAll, FreedBy, FreePipe
<1>34. CASE Reuse
  BY <1>34 DEF Reuse
<1>35. CASE Unregister
  BY <1>35 DEF Unregister
<1>36. CASE UNCHANGED vars
  BY <1>36 DEF vars
<1>37. ASSUME NEW p \in Pid, StartSickKeeps(p) PROVE Environment'
  BY <1>37 DEF StartSickKeeps, Nobody
<1>38. ASSUME NEW p \in Pid, StopKillFails(p) PROVE Environment'
  BY <1>38 DEF StopKillFails, Nobody
<1>39. ASSUME NEW p \in Pid, ShutdownListFails(p) PROVE Environment'
  BY <1>39 DEF ShutdownListFails
<1>40. ASSUME NEW p \in Pid, NEW q \in Pid, ShutdownKillFails(p, q) PROVE Environment'
  BY <1>40 DEF ShutdownKillFails
<1> QED
  BY <1>1, <1>2, <1>3, <1>4, <1>5, <1>6, <1>7, <1>8, <1>9, <1>10, <1>11, <1>12, <1>13,
     <1>14, <1>15, <1>16, <1>17, <1>18, <1>19, <1>20, <1>21, <1>22, <1>23, <1>24,
     <1>25, <1>26, <1>27, <1>28, <1>29, <1>30, <1>31, <1>32, <1>33, <1>34, <1>35,
     <1>36, <1>37, <1>38, <1>39, <1>40 DEF Next, Advance

LEMMA MirrorsMeans ==
  ASSUME MirrorsReset
  PROVE  /\ ~May("saveFails") /\ ~May("crash")
         /\ Run("shutdown") => ~May("overlap")
BY DEF MirrorsReset, Never, May

LEMMA RecordedMeans ==
  ASSUME Recorded
  PROVE  /\ ~May("overlap") /\ ~May("slowBoot") /\ ~May("saveFails") /\ ~May("crash")
         /\ Run("fore") => ~RecordOutlives
BY DEF Recorded, Never, May

LEMMA NoneOutlives ==
  ASSUME ~RecordOutlives
  PROVE  ~May("reboot") /\ ~May("tcpBusy") /\ ~May("crash")
BY DEF RecordOutlives, Never, May

LEMMA RebootEndsAll ==
  ASSUME Base, ~May("crash"), Crash
  PROVE  /\ May("reboot")
         /\ \A q \in Pid : kind'[q] \in Gone /\ pc'[q] = "none"
         /\ pipe' = FreePipe
         /\ lock' = IF lock \in Pid THEN Dead ELSE lock
         /\ missed' = {}
         /\ UNCHANGED <<seen, mirror, rec, installed, registered, said, shot, launches, world>>
<1>1. PICK Q \in SUBSET {q \in Pid : ProcessAlive(q)} :
        /\ May("reboot") /\ Q = {q \in Pid : ProcessAlive(q)}
        /\ EndAll(Q)
        /\ pipe' = FreedBy(Q)
        /\ lock' = IF lock \in Q THEN Dead ELSE lock
  BY DEF Crash
<1>2. \A q \in Pid : kind'[q] \in Gone /\ pc'[q] = "none"
  BY <1>1 DEF EndAll, ProcessAlive, Base, TypeOK, Stages, Gone
<1>3. pipe' = FreePipe
  <2>1. pipe.owner \in Pid => pipe.owner \in Q
    BY <1>1 DEF ProcessAlive, Base, TypeOK, Stages, Holder, Bound, Gone, Servers
  <2>2. pipe.owner = None => pipe = FreePipe
    BY DaemonAssumption DEF Base, TypeOK, Stages, Holder, Bound, Answering, FreePipe
  <2> QED
    BY <1>1, <2>1, <2>2 DEF FreedBy, Base, TypeOK
<1>4. lock' = IF lock \in Pid THEN Dead ELSE lock
  BY <1>1 DEF ProcessAlive, Base, TypeOK, Stages, Locking, Gone
<1>5. missed' = {}
  BY <1>1 DEF EndAll, Base, TypeOK
<1>6. UNCHANGED <<seen, mirror, rec, installed, registered, said, shot, launches, world>>
  BY DEF Crash
<1> QED
  BY <1>1, <1>2, <1>3, <1>4, <1>5, <1>6

LEMMA WaitSeesChild ==
  ASSUME Base, Calm, NEW p \in Pid, StartWait(p), AliveOn
  PROVE  /\ Goto(p, "warm") /\ UNCHANGED <<seen, mirror, rec, lock, pipe>>
         /\ rec.pid \in Children /\ pc[rec.pid] \in Answering /\ pipe.owner = rec.pid
         /\ \A c \in Children : c = rec.pid
<1>1. pc[p] = "wait" /\ Goto(p, "warm") /\ UNCHANGED <<seen, mirror, rec, lock, pipe>>
  BY DEF StartWait
<1>2. lock \notin Pid
  <2> SUFFICES ASSUME lock \in Pid PROVE FALSE
    OBVIOUS
  <2>1. lock = p
    BY <1>1 DEF Base, TypeOK, Stages, Locking, Calm, Alone, InProgress, Gone
  <2> QED
    BY <1>1, <2>1 DEF Base, Locking
<1>3. PICK s \in Pid : pc[s] \in Answering
  BY DEF AliveOn, Base, Holder
<1>4. pipe.owner = s /\ s \in Children
  BY <1>1, <1>3 DEF Base, Stages, Holder, Answering, Bound, Servers, Calm, Starting, Children
<1>5. \A c \in Children : rec.pid = c
  BY <1>1, <1>2 DEF Calm, Recording, Starting
<1> QED
  BY <1>1, <1>3, <1>4, <1>5

LEMMA AloneStep ==
  ASSUME Base, ~May("overlap"), Alone, [Next]_vars
  PROVE  Alone'
<1> USE DaemonAssumption DEF Base, Goto, Step, Gone, Servers, Bound, TypeOK, Stages,
   AllCommands, Alone, InProgress
<1>1. ASSUME NEW p \in Pid, NEW cmd \in AllCommands, Launch(p, cmd) PROVE Alone'
  BY <1>1 DEF Launch
<1>2. ASSUME NEW p \in Pid, StartCheck(p) PROVE Alone'
  BY <1>2 DEF StartCheck, Exit, EndAll
<1>3. ASSUME NEW p \in Pid, StartGate(p) PROVE Alone'
  BY <1>3 DEF StartGate, MissingDistro, Exit, EndAll
<1>4. ASSUME NEW p \in Pid, StartRefuse(p) PROVE Alone'
  BY <1>4 DEF StartRefuse, Exit, EndAll
<1>5. ASSUME NEW p \in Pid, NEW c \in Pid, StartSpawn(p, c) PROVE Alone'
  BY <1>5 DEF StartSpawn
<1>6. ASSUME NEW p \in Pid, StartSave(p) PROVE Alone'
  BY <1>6 DEF StartSave, Exit, EndAll
<1>7. ASSUME NEW p \in Pid, StartWait(p) PROVE Alone'
  BY <1>7 DEF StartWait
<1>8. ASSUME NEW p \in Pid, StartClear(p) PROVE Alone'
  BY <1>8 DEF StartClear, Exit, EndAll, Nobody
<1>9. ASSUME NEW p \in Pid, StartWarm(p) PROVE Alone'
  BY <1>9 DEF StartWarm, Exit, EndAll
<1>10. ASSUME NEW p \in Pid, StartSick(p) PROVE Alone'
  BY <1>10 DEF StartSick, EndAll, FreedBy, FreePipe, Nobody
<1>11. ASSUME NEW p \in Pid, StopNothing(p) PROVE Alone'
  BY <1>11, StopNothingDoes DEF LeavesStop, Exit, EndAll
<1>12. ASSUME NEW p \in Pid, StopKill(p) PROVE Alone'
  BY <1>12 DEF StopKill, FreedBy, FreePipe, Nobody
<1>13. ASSUME NEW p \in Pid, StopSelf(p) PROVE Alone'
  BY <1>13 DEF StopSelf, Exit, EndAll
<1>14. ASSUME NEW p \in Pid, StopWait(p) PROVE Alone'
  BY <1>14 DEF StopWait, Leave, AfterStop, Exit, EndAll
<1>15. ASSUME NEW p \in Pid, ShutdownList(p) PROVE Alone'
  BY <1>15 DEF ShutdownList
<1>16. ASSUME NEW p \in Pid, NEW q \in Pid, ShutdownKill(p, q) PROVE Alone'
  BY <1>16 DEF ShutdownKill, EndAll, FreedBy, FreePipe
<1>17. ASSUME NEW p \in Pid, ShutdownEnd(p) PROVE Alone'
  BY <1>17 DEF ShutdownEnd, Exit, EndAll
<1>18. ASSUME NEW p \in Pid, DoctorRead(p) PROVE Alone'
  BY <1>18 DEF DoctorRead
<1>19. ASSUME NEW p \in Pid, DoctorProbe(p) PROVE Alone'
  BY <1>19 DEF DoctorProbe
<1>20. ASSUME NEW p \in Pid, DoctorClear(p) PROVE Alone'
  BY <1>20 DEF DoctorClear, Nobody
<1>21. ASSUME NEW p \in Pid, DoctorInstall(p) PROVE Alone'
  BY <1>21 DEF DoctorInstall, MissingDistro, Exit, EndAll
<1>22. ASSUME NEW p \in Pid, ForeGate(p) PROVE Alone'
  BY <1>22 DEF ForeGate, MissingDistro, Exit, EndAll
<1>23. ASSUME NEW p \in Pid, ServeBoot(p) PROVE Alone'
  BY <1>23 DEF ServeBoot, MissingDistro, Exit, EndAll
<1>24. ASSUME NEW p \in Pid, Listen(p) PROVE Alone'
  BY <1>24 DEF Listen, FreePipe
<1>25. ASSUME NEW p \in Pid, ListenFails(p) PROVE Alone'
  BY <1>25 DEF ListenFails, Exit, EndAll
<1>26. ASSUME NEW p \in Pid, Callback(p) PROVE Alone'
  BY <1>26 DEF Callback
<1>27. ASSUME NEW p \in Pid, RecordMirror(p) PROVE Alone'
  BY <1>27 DEF RecordMirror
<1>28. ASSUME NEW p \in Pid, Accept(p) PROVE Alone'
  BY <1>28 DEF Accept
<1>29. ASSUME NEW p \in Pid, ListenTcp(p) PROVE Alone'
  BY <1>29 DEF ListenTcp, Exit, EndAll, FreePipe
<1>30. ASSUME NEW p \in Pid, ForeStop(p) PROVE Alone'
  BY <1>30 DEF ForeStop, Exit, EndAll, FreePipe
<1>31. ASSUME NEW p \in Pid, GiveUp(p) PROVE Alone'
  BY <1>31, GiveUpDoes DEF LeavesStop, Exit, EndAll
<1>32. CASE ExpireLock
  BY <1>32 DEF ExpireLock
<1>33. CASE Crash
  BY <1>33 DEF Crash, EndAll, FreedBy, FreePipe
<1>34. CASE Reuse
  BY <1>34 DEF Reuse
<1>35. CASE Unregister
  BY <1>35 DEF Unregister
<1>36. CASE UNCHANGED vars
  BY <1>36 DEF vars
<1>37. ASSUME NEW p \in Pid, StartSickKeeps(p) PROVE Alone'
  BY <1>37 DEF StartSickKeeps, Nobody
<1>38. ASSUME NEW p \in Pid, StopKillFails(p) PROVE Alone'
  BY <1>38 DEF StopKillFails, Nobody
<1>39. ASSUME NEW p \in Pid, ShutdownListFails(p) PROVE Alone'
  BY <1>39 DEF ShutdownListFails
<1>40. ASSUME NEW p \in Pid, NEW q \in Pid, ShutdownKillFails(p, q) PROVE Alone'
  BY <1>40 DEF ShutdownKillFails
<1> QED
  BY <1>1, <1>2, <1>3, <1>4, <1>5, <1>6, <1>7, <1>8, <1>9, <1>10, <1>11, <1>12, <1>13,
     <1>14, <1>15, <1>16, <1>17, <1>18, <1>19, <1>20, <1>21, <1>22, <1>23, <1>24,
     <1>25, <1>26, <1>27, <1>28, <1>29, <1>30, <1>31, <1>32, <1>33, <1>34, <1>35,
     <1>36, <1>37, <1>38, <1>39, <1>40 DEF Next, Advance

LEMMA ShutdownSeesStep ==
  ASSUME Base, ~May("overlap"), Alone, ShutdownSees, [Next]_vars
  PROVE  ShutdownSees'
<1> USE DaemonAssumption DEF Base, Goto, Step, Gone, Servers, Bound, TypeOK, Stages,
   AllCommands, Alone, InProgress, ShutdownSees, ProcessAlive
<1>1. ASSUME NEW p \in Pid, NEW cmd \in AllCommands, Launch(p, cmd) PROVE ShutdownSees'
  BY <1>1 DEF Launch
<1>2. ASSUME NEW p \in Pid, StartCheck(p) PROVE ShutdownSees'
  BY <1>2 DEF StartCheck, Exit, EndAll
<1>3. ASSUME NEW p \in Pid, StartGate(p) PROVE ShutdownSees'
  BY <1>3 DEF StartGate, MissingDistro, Exit, EndAll
<1>4. ASSUME NEW p \in Pid, StartRefuse(p) PROVE ShutdownSees'
  BY <1>4 DEF StartRefuse, Exit, EndAll
<1>5. ASSUME NEW p \in Pid, NEW c \in Pid, StartSpawn(p, c) PROVE ShutdownSees'
  BY <1>5 DEF StartSpawn
<1>6. ASSUME NEW p \in Pid, StartSave(p) PROVE ShutdownSees'
  BY <1>6 DEF StartSave, Exit, EndAll
<1>7. ASSUME NEW p \in Pid, StartWait(p) PROVE ShutdownSees'
  BY <1>7 DEF StartWait
<1>8. ASSUME NEW p \in Pid, StartClear(p) PROVE ShutdownSees'
  BY <1>8 DEF StartClear, Exit, EndAll, Nobody
<1>9. ASSUME NEW p \in Pid, StartWarm(p) PROVE ShutdownSees'
  BY <1>9 DEF StartWarm, Exit, EndAll
<1>10. ASSUME NEW p \in Pid, StartSick(p) PROVE ShutdownSees'
  BY <1>10 DEF StartSick, EndAll, FreedBy, FreePipe, Nobody
<1>11. ASSUME NEW p \in Pid, StopNothing(p) PROVE ShutdownSees'
  BY <1>11, StopNothingDoes DEF LeavesStop, Exit, EndAll
<1>12. ASSUME NEW p \in Pid, StopKill(p) PROVE ShutdownSees'
  BY <1>12 DEF StopKill, FreedBy, FreePipe, Nobody
<1>13. ASSUME NEW p \in Pid, StopSelf(p) PROVE ShutdownSees'
  BY <1>13 DEF StopSelf, Exit, EndAll
<1>14. ASSUME NEW p \in Pid, StopWait(p) PROVE ShutdownSees'
  BY <1>14 DEF StopWait, Leave, AfterStop, Exit, EndAll
<1>15. ASSUME NEW p \in Pid, ShutdownList(p) PROVE ShutdownSees'
  BY <1>15 DEF ShutdownList
<1>16. ASSUME NEW p \in Pid, NEW q \in Pid, ShutdownKill(p, q) PROVE ShutdownSees'
  BY <1>16 DEF ShutdownKill, EndAll, FreedBy, FreePipe
<1>17. ASSUME NEW p \in Pid, ShutdownEnd(p) PROVE ShutdownSees'
  BY <1>17 DEF ShutdownEnd, Exit, EndAll
<1>18. ASSUME NEW p \in Pid, DoctorRead(p) PROVE ShutdownSees'
  BY <1>18 DEF DoctorRead
<1>19. ASSUME NEW p \in Pid, DoctorProbe(p) PROVE ShutdownSees'
  BY <1>19 DEF DoctorProbe
<1>20. ASSUME NEW p \in Pid, DoctorClear(p) PROVE ShutdownSees'
  BY <1>20 DEF DoctorClear, Nobody
<1>21. ASSUME NEW p \in Pid, DoctorInstall(p) PROVE ShutdownSees'
  BY <1>21 DEF DoctorInstall, MissingDistro, Exit, EndAll
<1>22. ASSUME NEW p \in Pid, ForeGate(p) PROVE ShutdownSees'
  BY <1>22 DEF ForeGate, MissingDistro, Exit, EndAll
<1>23. ASSUME NEW p \in Pid, ServeBoot(p) PROVE ShutdownSees'
  BY <1>23 DEF ServeBoot, MissingDistro, Exit, EndAll
<1>24. ASSUME NEW p \in Pid, Listen(p) PROVE ShutdownSees'
  BY <1>24 DEF Listen, FreePipe
<1>25. ASSUME NEW p \in Pid, ListenFails(p) PROVE ShutdownSees'
  BY <1>25 DEF ListenFails, Exit, EndAll
<1>26. ASSUME NEW p \in Pid, Callback(p) PROVE ShutdownSees'
  BY <1>26 DEF Callback
<1>27. ASSUME NEW p \in Pid, RecordMirror(p) PROVE ShutdownSees'
  BY <1>27 DEF RecordMirror
<1>28. ASSUME NEW p \in Pid, Accept(p) PROVE ShutdownSees'
  BY <1>28 DEF Accept
<1>29. ASSUME NEW p \in Pid, ListenTcp(p) PROVE ShutdownSees'
  BY <1>29 DEF ListenTcp, Exit, EndAll, FreePipe
<1>30. ASSUME NEW p \in Pid, ForeStop(p) PROVE ShutdownSees'
  BY <1>30 DEF ForeStop, Exit, EndAll, FreePipe
<1>31. ASSUME NEW p \in Pid, GiveUp(p) PROVE ShutdownSees'
  BY <1>31, GiveUpDoes DEF LeavesStop, Exit, EndAll
<1>32. CASE ExpireLock
  BY <1>32 DEF ExpireLock
<1>33. CASE Crash
  BY <1>33 DEF Crash, EndAll, FreedBy, FreePipe
<1>34. CASE Reuse
  BY <1>34 DEF Reuse
<1>35. CASE Unregister
  BY <1>35 DEF Unregister
<1>36. CASE UNCHANGED vars
  BY <1>36 DEF vars
<1>37. ASSUME NEW p \in Pid, StartSickKeeps(p) PROVE ShutdownSees'
  BY <1>37 DEF StartSickKeeps, Nobody
<1>38. ASSUME NEW p \in Pid, StopKillFails(p) PROVE ShutdownSees'
  BY <1>38 DEF StopKillFails, Nobody
<1>39. ASSUME NEW p \in Pid, ShutdownListFails(p) PROVE ShutdownSees'
  BY <1>39 DEF ShutdownListFails
<1>40. ASSUME NEW p \in Pid, NEW q \in Pid, ShutdownKillFails(p, q) PROVE ShutdownSees'
  BY <1>40 DEF ShutdownKillFails
<1> QED
  BY <1>1, <1>2, <1>3, <1>4, <1>5, <1>6, <1>7, <1>8, <1>9, <1>10, <1>11, <1>12, <1>13,
     <1>14, <1>15, <1>16, <1>17, <1>18, <1>19, <1>20, <1>21, <1>22, <1>23, <1>24,
     <1>25, <1>26, <1>27, <1>28, <1>29, <1>30, <1>31, <1>32, <1>33, <1>34, <1>35,
     <1>36, <1>37, <1>38, <1>39, <1>40 DEF Next, Advance

LEMMA RecordingStep ==
  ASSUME Base, Recorded, Calm, [Next]_vars
  PROVE  Recording'
<1> USE DaemonAssumption DEF Base, Goto, Step, Gone, Servers, Bound, TypeOK, Stages,
   AllCommands, Calm, Alone, InProgress, Children, Recording, Locking
<1>1. ASSUME NEW p \in Pid, NEW cmd \in AllCommands, Launch(p, cmd) PROVE Recording'
  BY <1>1, RecordedMeans DEF Launch
<1>2. ASSUME NEW p \in Pid, StartCheck(p) PROVE Recording'
  BY <1>2, RecordedMeans DEF StartCheck, Exit, EndAll
<1>3. ASSUME NEW p \in Pid, StartGate(p) PROVE Recording'
  BY <1>3, RecordedMeans DEF StartGate, MissingDistro, Exit, EndAll
<1>4. ASSUME NEW p \in Pid, StartRefuse(p) PROVE Recording'
  BY <1>4, RecordedMeans DEF StartRefuse, Exit, EndAll
<1>5. ASSUME NEW p \in Pid, NEW c \in Pid, StartSpawn(p, c) PROVE Recording'
  BY <1>5, RecordedMeans DEF StartSpawn, MayStart, ProcessAlive
<1>6. ASSUME NEW p \in Pid, StartSave(p) PROVE Recording'
  <2>1. Children \subseteq seen[p] /\ lock = p /\ pc[p] = "spawned" /\ \E c \in Pid : seen[p] = {c}
    BY <1>6 DEF StartSave, Starting, Locking
  <2>2. \E c \in seen[p] : rec' = [pid |-> c, mirror |-> FALSE] /\ Goto(p, "wait")
    BY <1>6, RecordedMeans DEF StartSave
  <2> QED
    BY <2>1, <2>2
<1>7. ASSUME NEW p \in Pid, StartWait(p) PROVE Recording'
  BY <1>7, RecordedMeans DEF StartWait
<1>8. ASSUME NEW p \in Pid, StartClear(p) PROVE Recording'
  BY <1>8, RecordedMeans DEF StartClear, Exit, EndAll, Nobody, Starting
<1>9. ASSUME NEW p \in Pid, StartWarm(p) PROVE Recording'
  BY <1>9, RecordedMeans DEF StartWarm, Exit, EndAll
<1>10. ASSUME NEW p \in Pid, StartSick(p) PROVE Recording'
  BY <1>10, RecordedMeans DEF StartSick, EndAll, FreedBy, FreePipe, Nobody, Locking
<1>11. ASSUME NEW p \in Pid, StopNothing(p) PROVE Recording'
  BY <1>11, StopNothingDoes, RecordedMeans DEF LeavesStop, Exit, EndAll
<1>12. ASSUME NEW p \in Pid, StopKill(p) PROVE Recording'
  BY <1>12, RecordedMeans DEF StopKill, FreedBy, FreePipe, Nobody, ProcessAlive
<1>13. ASSUME NEW p \in Pid, StopSelf(p) PROVE Recording'
  BY <1>13, RecordedMeans DEF StopSelf, Exit, EndAll
<1>14. ASSUME NEW p \in Pid, StopWait(p) PROVE Recording'
  BY <1>14, RecordedMeans DEF StopWait, Leave, AfterStop, Exit, EndAll
<1>15. ASSUME NEW p \in Pid, ShutdownList(p) PROVE Recording'
  BY <1>15, RecordedMeans DEF ShutdownList
<1>16. ASSUME NEW p \in Pid, NEW q \in Pid, ShutdownKill(p, q) PROVE Recording'
  BY <1>16, RecordedMeans DEF ShutdownKill, EndAll, FreedBy, FreePipe
<1>17. ASSUME NEW p \in Pid, ShutdownEnd(p) PROVE Recording'
  BY <1>17, RecordedMeans DEF ShutdownEnd, Exit, EndAll
<1>18. ASSUME NEW p \in Pid, DoctorRead(p) PROVE Recording'
  BY <1>18, RecordedMeans DEF DoctorRead
<1>19. ASSUME NEW p \in Pid, DoctorProbe(p) PROVE Recording'
  BY <1>19, RecordedMeans DEF DoctorProbe
<1>20. ASSUME NEW p \in Pid, DoctorClear(p) PROVE Recording'
  BY <1>20, RecordedMeans DEF DoctorClear, Nobody, Judged
<1>21. ASSUME NEW p \in Pid, DoctorInstall(p) PROVE Recording'
  BY <1>21, RecordedMeans DEF DoctorInstall, MissingDistro, Exit, EndAll
<1>22. ASSUME NEW p \in Pid, ForeGate(p) PROVE Recording'
  BY <1>22, RecordedMeans DEF ForeGate, MissingDistro, Exit, EndAll
<1>23. ASSUME NEW p \in Pid, ServeBoot(p) PROVE Recording'
  BY <1>23, RecordedMeans DEF ServeBoot, MissingDistro, Exit, EndAll
<1>24. ASSUME NEW p \in Pid, Listen(p) PROVE Recording'
  BY <1>24, RecordedMeans DEF Listen, FreePipe
<1>25. ASSUME NEW p \in Pid, ListenFails(p) PROVE Recording'
  BY <1>25, RecordedMeans DEF ListenFails, Exit, EndAll
<1>26. ASSUME NEW p \in Pid, Callback(p) PROVE Recording'
  BY <1>26, RecordedMeans DEF Callback
<1>27. ASSUME NEW p \in Pid, RecordMirror(p) PROVE Recording'
  BY <1>27, RecordedMeans DEF RecordMirror
<1>28. ASSUME NEW p \in Pid, Accept(p) PROVE Recording'
  BY <1>28, RecordedMeans DEF Accept
<1>29. ASSUME NEW p \in Pid, ListenTcp(p) PROVE Recording'
  BY <1>29, RecordedMeans DEF ListenTcp, Exit, EndAll, FreePipe
<1>30. ASSUME NEW p \in Pid, ForeStop(p) PROVE Recording'
  BY <1>30, RecordedMeans DEF ForeStop, Exit, EndAll, FreePipe
<1>31. ASSUME NEW p \in Pid, GiveUp(p) PROVE Recording'
  BY <1>31, GiveUpDoes, RecordedMeans DEF LeavesStop, Exit, EndAll
<1>32. CASE ExpireLock
  BY <1>32, RecordedMeans DEF ExpireLock
<1>33. CASE Crash
  BY <1>33, RebootEndsAll, RecordedMeans
<1>34. CASE Reuse
  BY <1>34, RecordedMeans DEF Reuse
<1>35. CASE Unregister
  BY <1>35, RecordedMeans DEF Unregister
<1>36. CASE UNCHANGED vars
  BY <1>36 DEF vars
<1>37. ASSUME NEW p \in Pid, StartSickKeeps(p) PROVE Recording'
  BY <1>37, RecordedMeans DEF StartSickKeeps, Nobody, ProcessAlive
<1>38. ASSUME NEW p \in Pid, StopKillFails(p) PROVE Recording'
  BY <1>38, RecordedMeans DEF StopKillFails, Nobody
<1>39. ASSUME NEW p \in Pid, ShutdownListFails(p) PROVE Recording'
  BY <1>39, RecordedMeans DEF ShutdownListFails
<1>40. ASSUME NEW p \in Pid, NEW q \in Pid, ShutdownKillFails(p, q) PROVE Recording'
  BY <1>40, RecordedMeans DEF ShutdownKillFails
<1> QED
  BY <1>1, <1>2, <1>3, <1>4, <1>5, <1>6, <1>7, <1>8, <1>9, <1>10, <1>11, <1>12, <1>13,
     <1>14, <1>15, <1>16, <1>17, <1>18, <1>19, <1>20, <1>21, <1>22, <1>23, <1>24,
     <1>25, <1>26, <1>27, <1>28, <1>29, <1>30, <1>31, <1>32, <1>33, <1>34, <1>35,
     <1>36, <1>37, <1>38, <1>39, <1>40 DEF Next, Advance

LEMMA EscapedStep ==
  ASSUME Base, Recorded, Calm, [Next]_vars
  PROVE  Escaped'
<1> USE DaemonAssumption DEF Base, Goto, Step, Gone, Servers, Bound, TypeOK, Stages,
   AllCommands, Calm, Alone, InProgress, Children, Escaped, Locking
<1>1. ASSUME NEW p \in Pid, NEW cmd \in AllCommands, Launch(p, cmd) PROVE Escaped'
  BY <1>1, RecordedMeans DEF Launch
<1>2. ASSUME NEW p \in Pid, StartCheck(p) PROVE Escaped'
  BY <1>2, RecordedMeans DEF StartCheck, Exit, EndAll
<1>3. ASSUME NEW p \in Pid, StartGate(p) PROVE Escaped'
  BY <1>3, RecordedMeans DEF StartGate, MissingDistro, Exit, EndAll
<1>4. ASSUME NEW p \in Pid, StartRefuse(p) PROVE Escaped'
  BY <1>4, RecordedMeans DEF StartRefuse, Exit, EndAll
<1>5. ASSUME NEW p \in Pid, NEW c \in Pid, StartSpawn(p, c) PROVE Escaped'
  BY <1>5, RecordedMeans DEF StartSpawn, MayStart, ProcessAlive
<1>6. ASSUME NEW p \in Pid, StartSave(p) PROVE Escaped'
  <2>1. Children \subseteq seen[p] /\ seen[p] \cap missed = {}
    BY <1>6 DEF StartSave, Starting
  <2>2. Goto(p, "wait")
    BY <1>6, RecordedMeans DEF StartSave
  <2> QED
    BY <2>1, <2>2
<1>7. ASSUME NEW p \in Pid, StartWait(p) PROVE Escaped'
  BY <1>7, RecordedMeans DEF StartWait
<1>8. ASSUME NEW p \in Pid, StartClear(p) PROVE Escaped'
  BY <1>8, RecordedMeans DEF StartClear, Exit, EndAll, Nobody, Starting
<1>9. ASSUME NEW p \in Pid, StartWarm(p) PROVE Escaped'
  BY <1>9, RecordedMeans DEF StartWarm, Exit, EndAll
<1>10. ASSUME NEW p \in Pid, StartSick(p) PROVE Escaped'
  BY <1>10, RecordedMeans DEF StartSick, EndAll, FreedBy, FreePipe, Nobody, Locking
<1>11. ASSUME NEW p \in Pid, StopNothing(p) PROVE Escaped'
  BY <1>11, StopNothingDoes, RecordedMeans DEF LeavesStop, Exit, EndAll
<1>12. ASSUME NEW p \in Pid, StopKill(p) PROVE Escaped'
  BY <1>12, RecordedMeans DEF StopKill, FreedBy, FreePipe, Nobody, ProcessAlive
<1>13. ASSUME NEW p \in Pid, StopSelf(p) PROVE Escaped'
  BY <1>13, RecordedMeans DEF StopSelf, Exit, EndAll
<1>14. ASSUME NEW p \in Pid, StopWait(p) PROVE Escaped'
  BY <1>14, RecordedMeans DEF StopWait, Leave, AfterStop, Exit, EndAll
<1>15. ASSUME NEW p \in Pid, ShutdownList(p) PROVE Escaped'
  BY <1>15, RecordedMeans DEF ShutdownList
<1>16. ASSUME NEW p \in Pid, NEW q \in Pid, ShutdownKill(p, q) PROVE Escaped'
  BY <1>16, RecordedMeans DEF ShutdownKill, EndAll, FreedBy, FreePipe
<1>17. ASSUME NEW p \in Pid, ShutdownEnd(p) PROVE Escaped'
  BY <1>17, RecordedMeans DEF ShutdownEnd, Exit, EndAll
<1>18. ASSUME NEW p \in Pid, DoctorRead(p) PROVE Escaped'
  BY <1>18, RecordedMeans DEF DoctorRead
<1>19. ASSUME NEW p \in Pid, DoctorProbe(p) PROVE Escaped'
  BY <1>19, RecordedMeans DEF DoctorProbe
<1>20. ASSUME NEW p \in Pid, DoctorClear(p) PROVE Escaped'
  BY <1>20, RecordedMeans DEF DoctorClear, Nobody, Judged
<1>21. ASSUME NEW p \in Pid, DoctorInstall(p) PROVE Escaped'
  BY <1>21, RecordedMeans DEF DoctorInstall, MissingDistro, Exit, EndAll
<1>22. ASSUME NEW p \in Pid, ForeGate(p) PROVE Escaped'
  BY <1>22, RecordedMeans DEF ForeGate, MissingDistro, Exit, EndAll
<1>23. ASSUME NEW p \in Pid, ServeBoot(p) PROVE Escaped'
  BY <1>23, RecordedMeans DEF ServeBoot, MissingDistro, Exit, EndAll
<1>24. ASSUME NEW p \in Pid, Listen(p) PROVE Escaped'
  BY <1>24, RecordedMeans DEF Listen, FreePipe
<1>25. ASSUME NEW p \in Pid, ListenFails(p) PROVE Escaped'
  BY <1>25, RecordedMeans DEF ListenFails, Exit, EndAll
<1>26. ASSUME NEW p \in Pid, Callback(p) PROVE Escaped'
  BY <1>26, RecordedMeans DEF Callback
<1>27. ASSUME NEW p \in Pid, RecordMirror(p) PROVE Escaped'
  BY <1>27, RecordedMeans DEF RecordMirror
<1>28. ASSUME NEW p \in Pid, Accept(p) PROVE Escaped'
  BY <1>28, RecordedMeans DEF Accept
<1>29. ASSUME NEW p \in Pid, ListenTcp(p) PROVE Escaped'
  BY <1>29, RecordedMeans DEF ListenTcp, Exit, EndAll, FreePipe
<1>30. ASSUME NEW p \in Pid, ForeStop(p) PROVE Escaped'
  BY <1>30, RecordedMeans DEF ForeStop, Exit, EndAll, FreePipe
<1>31. ASSUME NEW p \in Pid, GiveUp(p) PROVE Escaped'
  BY <1>31, GiveUpDoes, RecordedMeans DEF LeavesStop, Exit, EndAll
<1>32. CASE ExpireLock
  BY <1>32, RecordedMeans DEF ExpireLock
<1>33. CASE Crash
  BY <1>33, RebootEndsAll, RecordedMeans
<1>34. CASE Reuse
  BY <1>34, RecordedMeans DEF Reuse
<1>35. CASE Unregister
  BY <1>35, RecordedMeans DEF Unregister
<1>36. CASE UNCHANGED vars
  BY <1>36 DEF vars
<1>37. ASSUME NEW p \in Pid, StartSickKeeps(p) PROVE Escaped'
  BY <1>37, RecordedMeans DEF StartSickKeeps, Nobody
<1>38. ASSUME NEW p \in Pid, StopKillFails(p) PROVE Escaped'
  BY <1>38, RecordedMeans DEF StopKillFails, Nobody
<1>39. ASSUME NEW p \in Pid, ShutdownListFails(p) PROVE Escaped'
  BY <1>39, RecordedMeans DEF ShutdownListFails, Judged
<1>40. ASSUME NEW p \in Pid, NEW q \in Pid, ShutdownKillFails(p, q) PROVE Escaped'
  BY <1>40, RecordedMeans DEF ShutdownKillFails, Judged
<1> QED
  BY <1>1, <1>2, <1>3, <1>4, <1>5, <1>6, <1>7, <1>8, <1>9, <1>10, <1>11, <1>12, <1>13,
     <1>14, <1>15, <1>16, <1>17, <1>18, <1>19, <1>20, <1>21, <1>22, <1>23, <1>24,
     <1>25, <1>26, <1>27, <1>28, <1>29, <1>30, <1>31, <1>32, <1>33, <1>34, <1>35,
     <1>36, <1>37, <1>38, <1>39, <1>40 DEF Next, Advance

LEMMA StartingStep ==
  ASSUME Base, Recorded, Calm, ~RecordOutlives => Fresh, [Next]_vars
  PROVE  Starting'
<1> USE DaemonAssumption DEF Base, Goto, Step, Gone, Servers, Bound, TypeOK, Stages,
   AllCommands, Calm, Alone, InProgress, Children, Starting, Locking
<1>1. ASSUME NEW p \in Pid, NEW cmd \in AllCommands, Launch(p, cmd) PROVE Starting'
  BY <1>1, RecordedMeans DEF Launch
<1>2. ASSUME NEW p \in Pid, StartCheck(p) PROVE Starting'
  BY <1>2, RecordedMeans DEF StartCheck, Exit, EndAll
<1>3. ASSUME NEW p \in Pid, StartGate(p) PROVE Starting'
  BY <1>3, RecordedMeans DEF StartGate, MissingDistro, Exit, EndAll
<1>4. ASSUME NEW p \in Pid, StartRefuse(p) PROVE Starting'
  BY <1>4, RecordedMeans DEF StartRefuse, Exit, EndAll
<1>5. ASSUME NEW p \in Pid, NEW c \in Pid, StartSpawn(p, c) PROVE Starting'
  <2>1. pc[p] = "want" /\ lock = None /\ ~ProcessAlive(rec.pid) /\ kind[c] = "none"
        /\ ~(AliveOn /\ rec.pid = None)
    BY <1>5 DEF StartSpawn, MayStart
  <2>2. Children = {}
    <3>1. ASSUME NEW x \in Children, x \in missed PROVE FALSE
      <4>1. ~AliveOn
        BY <2>1, <3>1 DEF Escaped
      <4>2. pc[x] \in Answering
        BY <2>1, <3>1 DEF Settled
      <4> QED
        BY <3>1, <4>1, <4>2 DEF AliveOn, Holder
    <3> QED
      BY <2>1, <3>1 DEF Recording, ProcessAlive
  <2>3. ASSUME NEW q \in Pid, kind[q] = "fore" PROVE FALSE
    <3>1. pc[q] = "serving"
      BY <2>1, <2>3
    <3>2. AliveOn
      BY <3>1 DEF AliveOn, Holder, Answering
    <3>3. Run("fore")
      BY <2>3 DEF Environment
    <3>4. Fresh
      BY <3>3, RecordedMeans
    <3>5. rec.pid = None
      BY <2>1, <2>2, <3>4 DEF Fresh
    <3> QED
      BY <2>1, <3>2, <3>5
  <2> QED
    BY <1>5, <2>1, <2>2, <2>3 DEF StartSpawn, ProcessAlive
<1>6. ASSUME NEW p \in Pid, StartSave(p) PROVE Starting'
  BY <1>6, RecordedMeans DEF StartSave, Exit, EndAll
<1>7. ASSUME NEW p \in Pid, StartWait(p) PROVE Starting'
  BY <1>7, RecordedMeans DEF StartWait
<1>8. ASSUME NEW p \in Pid, StartClear(p) PROVE Starting'
  BY <1>8, RecordedMeans DEF StartClear, Exit, EndAll, Nobody
<1>9. ASSUME NEW p \in Pid, StartWarm(p) PROVE Starting'
  BY <1>9, RecordedMeans DEF StartWarm, Exit, EndAll
<1>10. ASSUME NEW p \in Pid, StartSick(p) PROVE Starting'
  BY <1>10, RecordedMeans DEF StartSick, EndAll, FreedBy, FreePipe, Nobody
<1>11. ASSUME NEW p \in Pid, StopNothing(p) PROVE Starting'
  BY <1>11, StopNothingDoes, RecordedMeans DEF LeavesStop, Exit, EndAll
<1>12. ASSUME NEW p \in Pid, StopKill(p) PROVE Starting'
  BY <1>12, RecordedMeans DEF StopKill, FreedBy, FreePipe, Nobody
<1>13. ASSUME NEW p \in Pid, StopSelf(p) PROVE Starting'
  BY <1>13, RecordedMeans DEF StopSelf, Exit, EndAll
<1>14. ASSUME NEW p \in Pid, StopWait(p) PROVE Starting'
  BY <1>14, RecordedMeans DEF StopWait, Leave, AfterStop, Exit, EndAll
<1>15. ASSUME NEW p \in Pid, ShutdownList(p) PROVE Starting'
  BY <1>15, RecordedMeans DEF ShutdownList
<1>16. ASSUME NEW p \in Pid, NEW q \in Pid, ShutdownKill(p, q) PROVE Starting'
  BY <1>16, RecordedMeans DEF ShutdownKill, EndAll, FreedBy, FreePipe
<1>17. ASSUME NEW p \in Pid, ShutdownEnd(p) PROVE Starting'
  BY <1>17, RecordedMeans DEF ShutdownEnd, Exit, EndAll
<1>18. ASSUME NEW p \in Pid, DoctorRead(p) PROVE Starting'
  BY <1>18, RecordedMeans DEF DoctorRead
<1>19. ASSUME NEW p \in Pid, DoctorProbe(p) PROVE Starting'
  BY <1>19, RecordedMeans DEF DoctorProbe
<1>20. ASSUME NEW p \in Pid, DoctorClear(p) PROVE Starting'
  BY <1>20, RecordedMeans DEF DoctorClear, Nobody
<1>21. ASSUME NEW p \in Pid, DoctorInstall(p) PROVE Starting'
  BY <1>21, RecordedMeans DEF DoctorInstall, MissingDistro, Exit, EndAll
<1>22. ASSUME NEW p \in Pid, ForeGate(p) PROVE Starting'
  BY <1>22, RecordedMeans DEF ForeGate, MissingDistro, Exit, EndAll
<1>23. ASSUME NEW p \in Pid, ServeBoot(p) PROVE Starting'
  BY <1>23, RecordedMeans DEF ServeBoot, MissingDistro, Exit, EndAll
<1>24. ASSUME NEW p \in Pid, Listen(p) PROVE Starting'
  BY <1>24, RecordedMeans DEF Listen, FreePipe
<1>25. ASSUME NEW p \in Pid, ListenFails(p) PROVE Starting'
  BY <1>25, RecordedMeans DEF ListenFails, Exit, EndAll
<1>26. ASSUME NEW p \in Pid, Callback(p) PROVE Starting'
  BY <1>26, RecordedMeans DEF Callback
<1>27. ASSUME NEW p \in Pid, RecordMirror(p) PROVE Starting'
  BY <1>27, RecordedMeans DEF RecordMirror
<1>28. ASSUME NEW p \in Pid, Accept(p) PROVE Starting'
  BY <1>28, RecordedMeans DEF Accept
<1>29. ASSUME NEW p \in Pid, ListenTcp(p) PROVE Starting'
  BY <1>29, RecordedMeans DEF ListenTcp, Exit, EndAll, FreePipe
<1>30. ASSUME NEW p \in Pid, ForeStop(p) PROVE Starting'
  BY <1>30, RecordedMeans DEF ForeStop, Exit, EndAll, FreePipe
<1>31. ASSUME NEW p \in Pid, GiveUp(p) PROVE Starting'
  BY <1>31, GiveUpDoes, RecordedMeans DEF LeavesStop, Exit, EndAll
<1>32. CASE ExpireLock
  BY <1>32, RecordedMeans DEF ExpireLock
<1>33. CASE Crash
  BY <1>33, RebootEndsAll, RecordedMeans
<1>34. CASE Reuse
  BY <1>34, RecordedMeans DEF Reuse
<1>35. CASE Unregister
  BY <1>35, RecordedMeans DEF Unregister
<1>36. CASE UNCHANGED vars
  BY <1>36 DEF vars
<1>37. ASSUME NEW p \in Pid, StartSickKeeps(p) PROVE Starting'
  BY <1>37, RecordedMeans DEF StartSickKeeps, Nobody
<1>38. ASSUME NEW p \in Pid, StopKillFails(p) PROVE Starting'
  BY <1>38, RecordedMeans DEF StopKillFails, Nobody
<1>39. ASSUME NEW p \in Pid, ShutdownListFails(p) PROVE Starting'
  BY <1>39, RecordedMeans DEF ShutdownListFails
<1>40. ASSUME NEW p \in Pid, NEW q \in Pid, ShutdownKillFails(p, q) PROVE Starting'
  BY <1>40, RecordedMeans DEF ShutdownKillFails
<1> QED
  BY <1>1, <1>2, <1>3, <1>4, <1>5, <1>6, <1>7, <1>8, <1>9, <1>10, <1>11, <1>12, <1>13,
     <1>14, <1>15, <1>16, <1>17, <1>18, <1>19, <1>20, <1>21, <1>22, <1>23, <1>24,
     <1>25, <1>26, <1>27, <1>28, <1>29, <1>30, <1>31, <1>32, <1>33, <1>34, <1>35,
     <1>36, <1>37, <1>38, <1>39, <1>40 DEF Next, Advance

LEMMA SettledStep ==
  ASSUME Base, Recorded, Calm, [Next]_vars
  PROVE  Settled'
<1> USE DaemonAssumption DEF Base, Goto, Step, Gone, Servers, Bound, TypeOK, Stages,
   AllCommands, Calm, Alone, InProgress, Children, Settled, Answering
<1>1. ASSUME NEW p \in Pid, NEW cmd \in AllCommands, Launch(p, cmd) PROVE Settled'
  BY <1>1, RecordedMeans DEF Launch
<1>2. ASSUME NEW p \in Pid, StartCheck(p) PROVE Settled'
  BY <1>2, RecordedMeans DEF StartCheck, Exit, EndAll
<1>3. ASSUME NEW p \in Pid, StartGate(p) PROVE Settled'
  BY <1>3, RecordedMeans DEF StartGate, MissingDistro, Exit, EndAll
<1>4. ASSUME NEW p \in Pid, StartRefuse(p) PROVE Settled'
  BY <1>4, RecordedMeans DEF StartRefuse, Exit, EndAll
<1>5. ASSUME NEW p \in Pid, NEW c \in Pid, StartSpawn(p, c) PROVE Settled'
  BY <1>5, RecordedMeans DEF StartSpawn
<1>6. ASSUME NEW p \in Pid, StartSave(p) PROVE Settled'
  BY <1>6, RecordedMeans DEF StartSave, Exit, EndAll
<1>7. ASSUME NEW p \in Pid, StartWait(p) PROVE Settled'
  <2>1. CASE ~AliveOn
    BY <1>7, <2>1, RecordedMeans DEF StartWait, Starting
  <2>2. CASE AliveOn
    <3>1. pc[p] = "wait"
      BY <1>7 DEF StartWait
    <3> QED
      BY <1>7, <2>2, <3>1, WaitSeesChild
  <2> QED
    BY <2>1, <2>2
<1>8. ASSUME NEW p \in Pid, StartClear(p) PROVE Settled'
  BY <1>8, RecordedMeans DEF StartClear, Exit, EndAll, Nobody
<1>9. ASSUME NEW p \in Pid, StartWarm(p) PROVE Settled'
  BY <1>9, RecordedMeans DEF StartWarm, Exit, EndAll
<1>10. ASSUME NEW p \in Pid, StartSick(p) PROVE Settled'
  BY <1>10, RecordedMeans DEF StartSick, EndAll, FreedBy, FreePipe, Nobody
<1>11. ASSUME NEW p \in Pid, StopNothing(p) PROVE Settled'
  BY <1>11, StopNothingDoes, RecordedMeans DEF LeavesStop, Exit, EndAll
<1>12. ASSUME NEW p \in Pid, StopKill(p) PROVE Settled'
  BY <1>12, RecordedMeans DEF StopKill, FreedBy, FreePipe, Nobody
<1>13. ASSUME NEW p \in Pid, StopSelf(p) PROVE Settled'
  BY <1>13, RecordedMeans DEF StopSelf, Exit, EndAll
<1>14. ASSUME NEW p \in Pid, StopWait(p) PROVE Settled'
  BY <1>14, RecordedMeans DEF StopWait, Leave, AfterStop, Exit, EndAll
<1>15. ASSUME NEW p \in Pid, ShutdownList(p) PROVE Settled'
  BY <1>15, RecordedMeans DEF ShutdownList
<1>16. ASSUME NEW p \in Pid, NEW q \in Pid, ShutdownKill(p, q) PROVE Settled'
  BY <1>16, RecordedMeans DEF ShutdownKill, EndAll, FreedBy, FreePipe
<1>17. ASSUME NEW p \in Pid, ShutdownEnd(p) PROVE Settled'
  BY <1>17, RecordedMeans DEF ShutdownEnd, Exit, EndAll
<1>18. ASSUME NEW p \in Pid, DoctorRead(p) PROVE Settled'
  BY <1>18, RecordedMeans DEF DoctorRead
<1>19. ASSUME NEW p \in Pid, DoctorProbe(p) PROVE Settled'
  BY <1>19, RecordedMeans DEF DoctorProbe
<1>20. ASSUME NEW p \in Pid, DoctorClear(p) PROVE Settled'
  BY <1>20, RecordedMeans DEF DoctorClear, Nobody
<1>21. ASSUME NEW p \in Pid, DoctorInstall(p) PROVE Settled'
  BY <1>21, RecordedMeans DEF DoctorInstall, MissingDistro, Exit, EndAll
<1>22. ASSUME NEW p \in Pid, ForeGate(p) PROVE Settled'
  BY <1>22, RecordedMeans DEF ForeGate, MissingDistro, Exit, EndAll
<1>23. ASSUME NEW p \in Pid, ServeBoot(p) PROVE Settled'
  BY <1>23, RecordedMeans DEF ServeBoot, MissingDistro, Exit, EndAll
<1>24. ASSUME NEW p \in Pid, Listen(p) PROVE Settled'
  BY <1>24, RecordedMeans DEF Listen, FreePipe
<1>25. ASSUME NEW p \in Pid, ListenFails(p) PROVE Settled'
  BY <1>25, RecordedMeans DEF ListenFails, Exit, EndAll
<1>26. ASSUME NEW p \in Pid, Callback(p) PROVE Settled'
  BY <1>26, RecordedMeans DEF Callback
<1>27. ASSUME NEW p \in Pid, RecordMirror(p) PROVE Settled'
  BY <1>27, RecordedMeans DEF RecordMirror
<1>28. ASSUME NEW p \in Pid, Accept(p) PROVE Settled'
  BY <1>28, RecordedMeans DEF Accept
<1>29. ASSUME NEW p \in Pid, ListenTcp(p) PROVE Settled'
  BY <1>29, RecordedMeans DEF ListenTcp, Exit, EndAll, FreePipe
<1>30. ASSUME NEW p \in Pid, ForeStop(p) PROVE Settled'
  BY <1>30, RecordedMeans DEF ForeStop, Exit, EndAll, FreePipe
<1>31. ASSUME NEW p \in Pid, GiveUp(p) PROVE Settled'
  BY <1>31, GiveUpDoes, RecordedMeans DEF LeavesStop, Exit, EndAll
<1>32. CASE ExpireLock
  BY <1>32, RecordedMeans DEF ExpireLock
<1>33. CASE Crash
  BY <1>33, RebootEndsAll, RecordedMeans
<1>34. CASE Reuse
  BY <1>34, RecordedMeans DEF Reuse
<1>35. CASE Unregister
  BY <1>35, RecordedMeans DEF Unregister
<1>36. CASE UNCHANGED vars
  BY <1>36 DEF vars
<1>37. ASSUME NEW p \in Pid, StartSickKeeps(p) PROVE Settled'
  BY <1>37, RecordedMeans DEF StartSickKeeps, Nobody
<1>38. ASSUME NEW p \in Pid, StopKillFails(p) PROVE Settled'
  BY <1>38, RecordedMeans DEF StopKillFails, Nobody
<1>39. ASSUME NEW p \in Pid, ShutdownListFails(p) PROVE Settled'
  BY <1>39, RecordedMeans DEF ShutdownListFails
<1>40. ASSUME NEW p \in Pid, NEW q \in Pid, ShutdownKillFails(p, q) PROVE Settled'
  BY <1>40, RecordedMeans DEF ShutdownKillFails
<1> QED
  BY <1>1, <1>2, <1>3, <1>4, <1>5, <1>6, <1>7, <1>8, <1>9, <1>10, <1>11, <1>12, <1>13,
     <1>14, <1>15, <1>16, <1>17, <1>18, <1>19, <1>20, <1>21, <1>22, <1>23, <1>24,
     <1>25, <1>26, <1>27, <1>28, <1>29, <1>30, <1>31, <1>32, <1>33, <1>34, <1>35,
     <1>36, <1>37, <1>38, <1>39, <1>40 DEF Next, Advance

LEMMA StaleMeansNoChild ==
  ASSUME Base, Calm, lock = None, ~ProcessAlive(rec.pid)
  PROVE  rec.pid = None \/ Children = {}
BY DaemonAssumption DEF Base, TypeOK, Calm, Recording, Escaped, Children, ProcessAlive, Gone

LEMMA JudgedStep ==
  ASSUME Base, Recorded, Calm, [Next]_vars
  PROVE  Judged'
<1> USE DaemonAssumption DEF Base, Goto, Step, Gone, Servers, Bound, TypeOK, Stages,
   AllCommands, Calm, Alone, InProgress, Children, Judged, FreePipe
<1>1. ASSUME NEW p \in Pid, NEW cmd \in AllCommands, Launch(p, cmd) PROVE Judged'
  BY <1>1, RecordedMeans DEF Launch
<1>2. ASSUME NEW p \in Pid, StartCheck(p) PROVE Judged'
  BY <1>2, RecordedMeans DEF StartCheck, Exit, EndAll
<1>3. ASSUME NEW p \in Pid, StartGate(p) PROVE Judged'
  BY <1>3, RecordedMeans DEF StartGate, MissingDistro, Exit, EndAll
<1>4. ASSUME NEW p \in Pid, StartRefuse(p) PROVE Judged'
  BY <1>4, RecordedMeans DEF StartRefuse, Exit, EndAll
<1>5. ASSUME NEW p \in Pid, NEW c \in Pid, StartSpawn(p, c) PROVE Judged'
  BY <1>5, RecordedMeans DEF StartSpawn
<1>6. ASSUME NEW p \in Pid, StartSave(p) PROVE Judged'
  BY <1>6, RecordedMeans DEF StartSave, Exit, EndAll
<1>7. ASSUME NEW p \in Pid, StartWait(p) PROVE Judged'
  BY <1>7, RecordedMeans DEF StartWait
<1>8. ASSUME NEW p \in Pid, StartClear(p) PROVE Judged'
  BY <1>8, RecordedMeans DEF StartClear, Exit, EndAll, Nobody
<1>9. ASSUME NEW p \in Pid, StartWarm(p) PROVE Judged'
  BY <1>9, RecordedMeans DEF StartWarm, Exit, EndAll
<1>10. ASSUME NEW p \in Pid, StartSick(p) PROVE Judged'
  BY <1>10, RecordedMeans DEF StartSick, EndAll, FreedBy, FreePipe, Nobody
<1>11. ASSUME NEW p \in Pid, StopNothing(p) PROVE Judged'
  BY <1>11, StopNothingDoes, RecordedMeans, StaleMeansNoChild DEF LeavesStop, Exit, EndAll
<1>12. ASSUME NEW p \in Pid, StopKill(p) PROVE Judged'
  BY <1>12, RecordedMeans DEF StopKill, FreedBy, FreePipe, Nobody, Recording
<1>13. ASSUME NEW p \in Pid, StopSelf(p) PROVE Judged'
  BY <1>13, RecordedMeans DEF StopSelf, Exit, EndAll, Recording, Escaped
<1>14. ASSUME NEW p \in Pid, StopWait(p) PROVE Judged'
  BY <1>14, RecordedMeans DEF StopWait, Leave, AfterStop, Exit, EndAll
<1>15. ASSUME NEW p \in Pid, ShutdownList(p) PROVE Judged'
  BY <1>15, RecordedMeans DEF ShutdownList
<1>16. ASSUME NEW p \in Pid, NEW q \in Pid, ShutdownKill(p, q) PROVE Judged'
  BY <1>16, RecordedMeans DEF ShutdownKill, EndAll, FreedBy, FreePipe, Locking
<1>17. ASSUME NEW p \in Pid, ShutdownEnd(p) PROVE Judged'
  <2>1. Exit(p) /\ UNCHANGED <<rec, lock, pipe>>
    BY <1>17 DEF ShutdownEnd
  <2> QED
    BY <2>1, RecordedMeans DEF Exit, EndAll
<1>18. ASSUME NEW p \in Pid, DoctorRead(p) PROVE Judged'
  BY <1>18, RecordedMeans DEF DoctorRead
<1>19. ASSUME NEW p \in Pid, DoctorProbe(p) PROVE Judged'
  BY <1>19, RecordedMeans DEF DoctorProbe, Settled, Answering, AliveOn, Holder
<1>20. ASSUME NEW p \in Pid, DoctorClear(p) PROVE Judged'
  BY <1>20, RecordedMeans DEF DoctorClear, Nobody
<1>21. ASSUME NEW p \in Pid, DoctorInstall(p) PROVE Judged'
  BY <1>21, RecordedMeans DEF DoctorInstall, MissingDistro, Exit, EndAll
<1>22. ASSUME NEW p \in Pid, ForeGate(p) PROVE Judged'
  BY <1>22, RecordedMeans DEF ForeGate, MissingDistro, Exit, EndAll, Settled,
     Answering, AliveOn, Holder, ForeRefuses, ProcessAlive, Recording
<1>23. ASSUME NEW p \in Pid, ServeBoot(p) PROVE Judged'
  BY <1>23, RecordedMeans DEF ServeBoot, MissingDistro, Exit, EndAll
<1>24. ASSUME NEW p \in Pid, Listen(p) PROVE Judged'
  BY <1>24, RecordedMeans DEF Listen, FreePipe, Settled, Answering
<1>25. ASSUME NEW p \in Pid, ListenFails(p) PROVE Judged'
  BY <1>25, RecordedMeans DEF ListenFails, Exit, EndAll
<1>26. ASSUME NEW p \in Pid, Callback(p) PROVE Judged'
  BY <1>26, RecordedMeans DEF Callback
<1>27. ASSUME NEW p \in Pid, RecordMirror(p) PROVE Judged'
  BY <1>27, RecordedMeans DEF RecordMirror
<1>28. ASSUME NEW p \in Pid, Accept(p) PROVE Judged'
  BY <1>28, RecordedMeans DEF Accept, Holder
<1>29. ASSUME NEW p \in Pid, ListenTcp(p) PROVE Judged'
  BY <1>29, RecordedMeans DEF ListenTcp, Exit, EndAll, FreePipe
<1>30. ASSUME NEW p \in Pid, ForeStop(p) PROVE Judged'
  BY <1>30, RecordedMeans DEF ForeStop, Exit, EndAll, FreePipe
<1>31. ASSUME NEW p \in Pid, GiveUp(p) PROVE Judged'
  <2>1. lock # None /\ pc[p] \in WantsLock
    BY <1>31, GiveUpDoes DEF WantsLock
  <2>2. ASSUME lock \in Pid, pc[p] # "record" PROVE FALSE
    <3>1. pc[lock] = "spawned"
      BY <2>2 DEF Locking
    <3> QED
      BY <2>1, <2>2, <3>1 DEF WantsLock
  <2>3. pc[p] # "record" => lock = Dead /\ Children = {}
    BY <2>1, <2>2
  <2> QED
    BY <1>31, <2>3, GiveUpDoes, RecordedMeans DEF LeavesStop, Exit, EndAll
<1>32. CASE ExpireLock
  BY <1>32, RecordedMeans DEF ExpireLock
<1>33. CASE Crash
  BY <1>33, RebootEndsAll, RecordedMeans
<1>34. CASE Reuse
  BY <1>34, RecordedMeans DEF Reuse
<1>35. CASE Unregister
  BY <1>35, RecordedMeans DEF Unregister
<1>36. CASE UNCHANGED vars
  BY <1>36 DEF vars
<1>37. ASSUME NEW p \in Pid, StartSickKeeps(p) PROVE Judged'
  BY <1>37, RecordedMeans DEF StartSickKeeps, Nobody
<1>38. ASSUME NEW p \in Pid, StopKillFails(p) PROVE Judged'
  BY <1>38, RecordedMeans DEF StopKillFails, Nobody, Recording
<1>39. ASSUME NEW p \in Pid, ShutdownListFails(p) PROVE Judged'
  BY <1>39, RecordedMeans DEF ShutdownListFails
<1>40. ASSUME NEW p \in Pid, NEW q \in Pid, ShutdownKillFails(p, q) PROVE Judged'
  BY <1>40, RecordedMeans DEF ShutdownKillFails
<1> HIDE DEF Base, Goto, Step, Gone, Servers, Bound, TypeOK, Stages, AllCommands, Calm,
   Alone, InProgress, Children, Judged, FreePipe
<1> QED
  BY <1>1, <1>2, <1>3, <1>4, <1>5, <1>6, <1>7, <1>8, <1>9, <1>10, <1>11, <1>12, <1>13,
     <1>14, <1>15, <1>16, <1>17, <1>18, <1>19, <1>20, <1>21, <1>22, <1>23, <1>24,
     <1>25, <1>26, <1>27, <1>28, <1>29, <1>30, <1>31, <1>32, <1>33, <1>34, <1>35,
     <1>36, <1>37, <1>38, <1>39, <1>40 DEF Next, Advance

LEMMA FreshStep ==
  ASSUME Base, Recorded, ~RecordOutlives, Calm, Fresh, [Next]_vars
  PROVE  Fresh'
<1> USE DaemonAssumption DEF Base, Goto, Step, Gone, Servers, Bound, TypeOK, Stages,
   AllCommands, Calm, Alone, InProgress, Children, Fresh, Locking
<1>1. ASSUME NEW p \in Pid, NEW cmd \in AllCommands, Launch(p, cmd) PROVE Fresh'
  BY <1>1, RecordedMeans, NoneOutlives DEF Launch
<1>2. ASSUME NEW p \in Pid, StartCheck(p) PROVE Fresh'
  BY <1>2, RecordedMeans, NoneOutlives DEF StartCheck, Exit, EndAll
<1>3. ASSUME NEW p \in Pid, StartGate(p) PROVE Fresh'
  BY <1>3, RecordedMeans, NoneOutlives DEF StartGate, MissingDistro, Exit, EndAll
<1>4. ASSUME NEW p \in Pid, StartRefuse(p) PROVE Fresh'
  BY <1>4, RecordedMeans, NoneOutlives DEF StartRefuse, Exit, EndAll
<1>5. ASSUME NEW p \in Pid, NEW c \in Pid, StartSpawn(p, c) PROVE Fresh'
  BY <1>5, RecordedMeans, NoneOutlives DEF StartSpawn, MayStart, ProcessAlive,
     Recording
<1>6. ASSUME NEW p \in Pid, StartSave(p) PROVE Fresh'
  BY <1>6, RecordedMeans, NoneOutlives DEF StartSave, Exit, EndAll
<1>7. ASSUME NEW p \in Pid, StartWait(p) PROVE Fresh'
  <2>1. CASE ~AliveOn
    BY <1>7, <2>1 DEF StartWait
  <2>2. CASE AliveOn
    BY <1>7, <2>2, WaitSeesChild
  <2> QED
    BY <2>1, <2>2
<1>8. ASSUME NEW p \in Pid, StartClear(p) PROVE Fresh'
  BY <1>8, RecordedMeans, NoneOutlives DEF StartClear, Exit, EndAll, Nobody
<1>9. ASSUME NEW p \in Pid, StartWarm(p) PROVE Fresh'
  BY <1>9, RecordedMeans, NoneOutlives DEF StartWarm, Exit, EndAll
<1>10. ASSUME NEW p \in Pid, StartSick(p) PROVE Fresh'
  BY <1>10, RecordedMeans, NoneOutlives DEF StartSick, EndAll, FreedBy, FreePipe,
     Nobody
<1>11. ASSUME NEW p \in Pid, StopNothing(p) PROVE Fresh'
  BY <1>11, StopNothingDoes DEF LeavesStop, Exit, EndAll, ProcessAlive
<1>12. ASSUME NEW p \in Pid, StopKill(p) PROVE Fresh'
  BY <1>12, RecordedMeans, NoneOutlives DEF StopKill, FreedBy, FreePipe, Nobody,
     ProcessAlive
<1>13. ASSUME NEW p \in Pid, StopSelf(p) PROVE Fresh'
  BY <1>13, RecordedMeans, NoneOutlives DEF StopSelf, Exit, EndAll
<1>14. ASSUME NEW p \in Pid, StopWait(p) PROVE Fresh'
  BY <1>14, RecordedMeans, NoneOutlives DEF StopWait, Leave, AfterStop, Exit, EndAll,
     Judged
<1>15. ASSUME NEW p \in Pid, ShutdownList(p) PROVE Fresh'
  BY <1>15, RecordedMeans, NoneOutlives DEF ShutdownList
<1>16. ASSUME NEW p \in Pid, NEW q \in Pid, ShutdownKill(p, q) PROVE Fresh'
  BY <1>16, RecordedMeans, NoneOutlives DEF ShutdownKill, EndAll, FreedBy, FreePipe
<1>17. ASSUME NEW p \in Pid, ShutdownEnd(p) PROVE Fresh'
  BY <1>17, RecordedMeans, NoneOutlives DEF ShutdownEnd, Exit, EndAll
<1>18. ASSUME NEW p \in Pid, DoctorRead(p) PROVE Fresh'
  BY <1>18, RecordedMeans, NoneOutlives DEF DoctorRead
<1>19. ASSUME NEW p \in Pid, DoctorProbe(p) PROVE Fresh'
  BY <1>19, RecordedMeans, NoneOutlives DEF DoctorProbe
<1>20. ASSUME NEW p \in Pid, DoctorClear(p) PROVE Fresh'
  BY <1>20, RecordedMeans, NoneOutlives DEF DoctorClear, Nobody
<1>21. ASSUME NEW p \in Pid, DoctorInstall(p) PROVE Fresh'
  BY <1>21, RecordedMeans, NoneOutlives DEF DoctorInstall, MissingDistro, Exit, EndAll
<1>22. ASSUME NEW p \in Pid, ForeGate(p) PROVE Fresh'
  BY <1>22, RecordedMeans, NoneOutlives DEF ForeGate, MissingDistro, Exit, EndAll
<1>23. ASSUME NEW p \in Pid, ServeBoot(p) PROVE Fresh'
  BY <1>23, RecordedMeans, NoneOutlives DEF ServeBoot, MissingDistro, Exit, EndAll,
     Settled, Answering
<1>24. ASSUME NEW p \in Pid, Listen(p) PROVE Fresh'
  BY <1>24, RecordedMeans, NoneOutlives DEF Listen, FreePipe
<1>25. ASSUME NEW p \in Pid, ListenFails(p) PROVE Fresh'
  BY <1>25, RecordedMeans, NoneOutlives DEF ListenFails, Exit, EndAll, Settled,
     Answering
<1>26. ASSUME NEW p \in Pid, Callback(p) PROVE Fresh'
  BY <1>26, RecordedMeans, NoneOutlives DEF Callback
<1>27. ASSUME NEW p \in Pid, RecordMirror(p) PROVE Fresh'
  BY <1>27, RecordedMeans, NoneOutlives DEF RecordMirror
<1>28. ASSUME NEW p \in Pid, Accept(p) PROVE Fresh'
  BY <1>28, RecordedMeans, NoneOutlives DEF Accept
<1>29. ASSUME NEW p \in Pid, ListenTcp(p) PROVE Fresh'
  BY <1>29, RecordedMeans, NoneOutlives DEF ListenTcp, Exit, EndAll, FreePipe
<1>30. ASSUME NEW p \in Pid, ForeStop(p) PROVE Fresh'
  BY <1>30, RecordedMeans, NoneOutlives DEF ForeStop, Exit, EndAll, FreePipe
<1>31. ASSUME NEW p \in Pid, GiveUp(p) PROVE Fresh'
  BY <1>31, GiveUpDoes, RecordedMeans, NoneOutlives DEF LeavesStop, Exit, EndAll
<1>32. CASE ExpireLock
  BY <1>32, RecordedMeans, NoneOutlives DEF ExpireLock
<1>33. CASE Crash
  BY <1>33, RebootEndsAll, RecordedMeans, NoneOutlives
<1>34. CASE Reuse
  BY <1>34, RecordedMeans, NoneOutlives DEF Reuse
<1>35. CASE Unregister
  BY <1>35, RecordedMeans, NoneOutlives DEF Unregister
<1>36. CASE UNCHANGED vars
  BY <1>36 DEF vars
<1>37. ASSUME NEW p \in Pid, StartSickKeeps(p) PROVE Fresh'
  BY <1>37, RecordedMeans, NoneOutlives DEF StartSickKeeps, Nobody
<1>38. ASSUME NEW p \in Pid, StopKillFails(p) PROVE Fresh'
  BY <1>38, RecordedMeans, NoneOutlives DEF StopKillFails, Nobody
<1>39. ASSUME NEW p \in Pid, ShutdownListFails(p) PROVE Fresh'
  BY <1>39, RecordedMeans, NoneOutlives DEF ShutdownListFails
<1>40. ASSUME NEW p \in Pid, NEW q \in Pid, ShutdownKillFails(p, q) PROVE Fresh'
  BY <1>40, RecordedMeans, NoneOutlives DEF ShutdownKillFails
<1> QED
  BY <1>1, <1>2, <1>3, <1>4, <1>5, <1>6, <1>7, <1>8, <1>9, <1>10, <1>11, <1>12, <1>13,
     <1>14, <1>15, <1>16, <1>17, <1>18, <1>19, <1>20, <1>21, <1>22, <1>23, <1>24,
     <1>25, <1>26, <1>27, <1>28, <1>29, <1>30, <1>31, <1>32, <1>33, <1>34, <1>35,
     <1>36, <1>37, <1>38, <1>39, <1>40 DEF Next, Advance

LEMMA AnsweredStep ==
  ASSUME Base, Recorded, ~May("tcpBusy"), Calm, Answered, [Next]_vars
  PROVE  Answered'
<1> USE DaemonAssumption DEF Base, Goto, Step, Gone, Servers, Bound, TypeOK, Stages,
   AllCommands, Calm, Alone, InProgress, Children, Answered, Answering, Holder
<1>1. ASSUME NEW p \in Pid, NEW cmd \in AllCommands, Launch(p, cmd) PROVE Answered'
  BY <1>1, RecordedMeans DEF Launch
<1>2. ASSUME NEW p \in Pid, StartCheck(p) PROVE Answered'
  BY <1>2, RecordedMeans DEF StartCheck, Exit, EndAll
<1>3. ASSUME NEW p \in Pid, StartGate(p) PROVE Answered'
  BY <1>3, RecordedMeans DEF StartGate, MissingDistro, Exit, EndAll
<1>4. ASSUME NEW p \in Pid, StartRefuse(p) PROVE Answered'
  BY <1>4, RecordedMeans DEF StartRefuse, Exit, EndAll
<1>5. ASSUME NEW p \in Pid, NEW c \in Pid, StartSpawn(p, c) PROVE Answered'
  BY <1>5, RecordedMeans DEF StartSpawn
<1>6. ASSUME NEW p \in Pid, StartSave(p) PROVE Answered'
  BY <1>6, RecordedMeans DEF StartSave, Exit, EndAll
<1>7. ASSUME NEW p \in Pid, StartWait(p) PROVE Answered'
  <2>1. CASE ~AliveOn
    BY <1>7, <2>1 DEF StartWait
  <2>2. CASE AliveOn
    BY <1>7, <2>2, WaitSeesChild
  <2> QED
    BY <2>1, <2>2
<1>8. ASSUME NEW p \in Pid, StartClear(p) PROVE Answered'
  BY <1>8, RecordedMeans DEF StartClear, Exit, EndAll, Nobody
<1>9. ASSUME NEW p \in Pid, StartWarm(p) PROVE Answered'
  BY <1>9, RecordedMeans DEF StartWarm, Exit, EndAll
<1>10. ASSUME NEW p \in Pid, StartSick(p) PROVE Answered'
  BY <1>10, RecordedMeans DEF StartSick, EndAll, FreedBy, FreePipe, Nobody
<1>11. ASSUME NEW p \in Pid, StopNothing(p) PROVE Answered'
  BY <1>11, StopNothingDoes, RecordedMeans DEF LeavesStop, Exit, EndAll
<1>12. ASSUME NEW p \in Pid, StopKill(p) PROVE Answered'
  BY <1>12, RecordedMeans DEF StopKill, FreedBy, FreePipe, Nobody
<1>13. ASSUME NEW p \in Pid, StopSelf(p) PROVE Answered'
  BY <1>13, RecordedMeans DEF StopSelf, Exit, EndAll
<1>14. ASSUME NEW p \in Pid, StopWait(p) PROVE Answered'
  BY <1>14, RecordedMeans DEF StopWait, Leave, AfterStop, Exit, EndAll
<1>15. ASSUME NEW p \in Pid, ShutdownList(p) PROVE Answered'
  BY <1>15, RecordedMeans DEF ShutdownList
<1>16. ASSUME NEW p \in Pid, NEW q \in Pid, ShutdownKill(p, q) PROVE Answered'
  BY <1>16, RecordedMeans DEF ShutdownKill, EndAll, FreedBy, FreePipe
<1>17. ASSUME NEW p \in Pid, ShutdownEnd(p) PROVE Answered'
  BY <1>17, RecordedMeans DEF ShutdownEnd, Exit, EndAll
<1>18. ASSUME NEW p \in Pid, DoctorRead(p) PROVE Answered'
  BY <1>18, RecordedMeans DEF DoctorRead
<1>19. ASSUME NEW p \in Pid, DoctorProbe(p) PROVE Answered'
  BY <1>19, RecordedMeans DEF DoctorProbe
<1>20. ASSUME NEW p \in Pid, DoctorClear(p) PROVE Answered'
  BY <1>20, RecordedMeans DEF DoctorClear, Nobody
<1>21. ASSUME NEW p \in Pid, DoctorInstall(p) PROVE Answered'
  BY <1>21, RecordedMeans DEF DoctorInstall, MissingDistro, Exit, EndAll
<1>22. ASSUME NEW p \in Pid, ForeGate(p) PROVE Answered'
  BY <1>22, RecordedMeans DEF ForeGate, MissingDistro, Exit, EndAll
<1>23. ASSUME NEW p \in Pid, ServeBoot(p) PROVE Answered'
  BY <1>23, RecordedMeans DEF ServeBoot, MissingDistro, Exit, EndAll
<1>24. ASSUME NEW p \in Pid, Listen(p) PROVE Answered'
  BY <1>24, RecordedMeans DEF Listen, FreePipe
<1>25. ASSUME NEW p \in Pid, ListenFails(p) PROVE Answered'
  BY <1>25, RecordedMeans DEF ListenFails, Exit, EndAll
<1>26. ASSUME NEW p \in Pid, Callback(p) PROVE Answered'
  BY <1>26, RecordedMeans DEF Callback
<1>27. ASSUME NEW p \in Pid, RecordMirror(p) PROVE Answered'
  BY <1>27, RecordedMeans DEF RecordMirror
<1>28. ASSUME NEW p \in Pid, Accept(p) PROVE Answered'
  BY <1>28, RecordedMeans DEF Accept
<1>29. ASSUME NEW p \in Pid, ListenTcp(p) PROVE Answered'
  BY <1>29, RecordedMeans DEF ListenTcp, Exit, EndAll, FreePipe
<1>30. ASSUME NEW p \in Pid, ForeStop(p) PROVE Answered'
  BY <1>30, RecordedMeans DEF ForeStop, Exit, EndAll, FreePipe
<1>31. ASSUME NEW p \in Pid, GiveUp(p) PROVE Answered'
  BY <1>31, GiveUpDoes, RecordedMeans DEF LeavesStop, Exit, EndAll
<1>32. CASE ExpireLock
  BY <1>32, RecordedMeans DEF ExpireLock
<1>33. CASE Crash
  BY <1>33, RebootEndsAll, RecordedMeans
<1>34. CASE Reuse
  BY <1>34, RecordedMeans DEF Reuse
<1>35. CASE Unregister
  BY <1>35, RecordedMeans DEF Unregister
<1>36. CASE UNCHANGED vars
  BY <1>36 DEF vars
<1>37. ASSUME NEW p \in Pid, StartSickKeeps(p) PROVE Answered'
  BY <1>37, RecordedMeans DEF StartSickKeeps, Nobody
<1>38. ASSUME NEW p \in Pid, StopKillFails(p) PROVE Answered'
  BY <1>38, RecordedMeans DEF StopKillFails, Nobody
<1>39. ASSUME NEW p \in Pid, ShutdownListFails(p) PROVE Answered'
  BY <1>39, RecordedMeans DEF ShutdownListFails
<1>40. ASSUME NEW p \in Pid, NEW q \in Pid, ShutdownKillFails(p, q) PROVE Answered'
  BY <1>40, RecordedMeans DEF ShutdownKillFails
<1> QED
  BY <1>1, <1>2, <1>3, <1>4, <1>5, <1>6, <1>7, <1>8, <1>9, <1>10, <1>11, <1>12, <1>13,
     <1>14, <1>15, <1>16, <1>17, <1>18, <1>19, <1>20, <1>21, <1>22, <1>23, <1>24,
     <1>25, <1>26, <1>27, <1>28, <1>29, <1>30, <1>31, <1>32, <1>33, <1>34, <1>35,
     <1>36, <1>37, <1>38, <1>39, <1>40 DEF Next, Advance

LEMMA ListedStep ==
  ASSUME Base, Recorded, ~May("tcpBusy"), ~Run("fore"), Calm, Listed, [Next]_vars
  PROVE  Listed'
<1> USE DaemonAssumption DEF Base, Goto, Step, Gone, Servers, Bound, TypeOK, Stages,
   AllCommands, Calm, Alone, InProgress, Children, Listed, Answering, Settled,
   Environment
<1>1. ASSUME NEW p \in Pid, NEW cmd \in AllCommands, Launch(p, cmd) PROVE Listed'
  BY <1>1, RecordedMeans DEF Launch
<1>2. ASSUME NEW p \in Pid, StartCheck(p) PROVE Listed'
  BY <1>2, RecordedMeans DEF StartCheck, Exit, EndAll
<1>3. ASSUME NEW p \in Pid, StartGate(p) PROVE Listed'
  BY <1>3, RecordedMeans DEF StartGate, MissingDistro, Exit, EndAll
<1>4. ASSUME NEW p \in Pid, StartRefuse(p) PROVE Listed'
  BY <1>4, RecordedMeans DEF StartRefuse, Exit, EndAll
<1>5. ASSUME NEW p \in Pid, NEW c \in Pid, StartSpawn(p, c) PROVE Listed'
  BY <1>5, RecordedMeans DEF StartSpawn
<1>6. ASSUME NEW p \in Pid, StartSave(p) PROVE Listed'
  BY <1>6, RecordedMeans DEF StartSave, Exit, EndAll
<1>7. ASSUME NEW p \in Pid, StartWait(p) PROVE Listed'
  BY <1>7, RecordedMeans DEF StartWait
<1>8. ASSUME NEW p \in Pid, StartClear(p) PROVE Listed'
  BY <1>8, RecordedMeans DEF StartClear, Exit, EndAll, Nobody
<1>9. ASSUME NEW p \in Pid, StartWarm(p) PROVE Listed'
  BY <1>9, RecordedMeans DEF StartWarm, Exit, EndAll
<1>10. ASSUME NEW p \in Pid, StartSick(p) PROVE Listed'
  BY <1>10, RecordedMeans DEF StartSick, EndAll, FreedBy, FreePipe, Nobody
<1>11. ASSUME NEW p \in Pid, StopNothing(p) PROVE Listed'
  BY <1>11, StopNothingDoes, RecordedMeans DEF LeavesStop, Exit, EndAll
<1>12. ASSUME NEW p \in Pid, StopKill(p) PROVE Listed'
  BY <1>12, RecordedMeans DEF StopKill, FreedBy, FreePipe, Nobody
<1>13. ASSUME NEW p \in Pid, StopSelf(p) PROVE Listed'
  BY <1>13, RecordedMeans DEF StopSelf, Exit, EndAll
<1>14. ASSUME NEW p \in Pid, StopWait(p) PROVE Listed'
  BY <1>14, RecordedMeans DEF StopWait, Leave, AfterStop, Exit, EndAll
<1>15. ASSUME NEW p \in Pid, ShutdownList(p) PROVE Listed'
  BY <1>15, RecordedMeans DEF ShutdownList, ProcessAlive
<1>16. ASSUME NEW p \in Pid, NEW q \in Pid, ShutdownKill(p, q) PROVE Listed'
  BY <1>16, RecordedMeans DEF ShutdownKill, EndAll, FreedBy, FreePipe
<1>17. ASSUME NEW p \in Pid, ShutdownEnd(p) PROVE Listed'
  BY <1>17, RecordedMeans DEF ShutdownEnd, Exit, EndAll
<1>18. ASSUME NEW p \in Pid, DoctorRead(p) PROVE Listed'
  BY <1>18, RecordedMeans DEF DoctorRead
<1>19. ASSUME NEW p \in Pid, DoctorProbe(p) PROVE Listed'
  BY <1>19, RecordedMeans DEF DoctorProbe
<1>20. ASSUME NEW p \in Pid, DoctorClear(p) PROVE Listed'
  BY <1>20, RecordedMeans DEF DoctorClear, Nobody
<1>21. ASSUME NEW p \in Pid, DoctorInstall(p) PROVE Listed'
  BY <1>21, RecordedMeans DEF DoctorInstall, MissingDistro, Exit, EndAll
<1>22. ASSUME NEW p \in Pid, ForeGate(p) PROVE Listed'
  BY <1>22, RecordedMeans DEF ForeGate, MissingDistro, Exit, EndAll
<1>23. ASSUME NEW p \in Pid, ServeBoot(p) PROVE Listed'
  BY <1>23, RecordedMeans DEF ServeBoot, MissingDistro, Exit, EndAll
<1>24. ASSUME NEW p \in Pid, Listen(p) PROVE Listed'
  BY <1>24, RecordedMeans DEF Listen, FreePipe
<1>25. ASSUME NEW p \in Pid, ListenFails(p) PROVE Listed'
  BY <1>25, RecordedMeans DEF ListenFails, Exit, EndAll
<1>26. ASSUME NEW p \in Pid, Callback(p) PROVE Listed'
  BY <1>26, RecordedMeans DEF Callback
<1>27. ASSUME NEW p \in Pid, RecordMirror(p) PROVE Listed'
  BY <1>27, RecordedMeans DEF RecordMirror
<1>28. ASSUME NEW p \in Pid, Accept(p) PROVE Listed'
  BY <1>28, RecordedMeans DEF Accept
<1>29. ASSUME NEW p \in Pid, ListenTcp(p) PROVE Listed'
  BY <1>29, RecordedMeans DEF ListenTcp, Exit, EndAll, FreePipe
<1>30. ASSUME NEW p \in Pid, ForeStop(p) PROVE Listed'
  BY <1>30, RecordedMeans DEF ForeStop, Exit, EndAll, FreePipe
<1>31. ASSUME NEW p \in Pid, GiveUp(p) PROVE Listed'
  BY <1>31, GiveUpDoes, RecordedMeans DEF LeavesStop, Exit, EndAll
<1>32. CASE ExpireLock
  BY <1>32, RecordedMeans DEF ExpireLock
<1>33. CASE Crash
  BY <1>33, RebootEndsAll, RecordedMeans
<1>34. CASE Reuse
  BY <1>34, RecordedMeans DEF Reuse
<1>35. CASE Unregister
  BY <1>35, RecordedMeans DEF Unregister
<1>36. CASE UNCHANGED vars
  BY <1>36 DEF vars
<1>37. ASSUME NEW p \in Pid, StartSickKeeps(p) PROVE Listed'
  BY <1>37, RecordedMeans DEF StartSickKeeps, Nobody
<1>38. ASSUME NEW p \in Pid, StopKillFails(p) PROVE Listed'
  BY <1>38, RecordedMeans DEF StopKillFails, Nobody
<1>39. ASSUME NEW p \in Pid, ShutdownListFails(p) PROVE Listed'
  BY <1>39, RecordedMeans DEF ShutdownListFails
<1>40. ASSUME NEW p \in Pid, NEW q \in Pid, ShutdownKillFails(p, q) PROVE Listed'
  BY <1>40, RecordedMeans DEF ShutdownKillFails
<1> QED
  BY <1>1, <1>2, <1>3, <1>4, <1>5, <1>6, <1>7, <1>8, <1>9, <1>10, <1>11, <1>12, <1>13,
     <1>14, <1>15, <1>16, <1>17, <1>18, <1>19, <1>20, <1>21, <1>22, <1>23, <1>24,
     <1>25, <1>26, <1>27, <1>28, <1>29, <1>30, <1>31, <1>32, <1>33, <1>34, <1>35,
     <1>36, <1>37, <1>38, <1>39, <1>40 DEF Next, Advance

LEMMA MirroredStep ==
  ASSUME Base, MirrorsReset, ~May("overlap") => Alone, Mirrored, [Next]_vars
  PROVE  Mirrored'
<1> USE DaemonAssumption DEF Base, Goto, Step, Gone, Servers, Bound, TypeOK, Stages,
   AllCommands, Children, Mirrored, Answering, Locking, Environment, Alone, InProgress
<1>1. ASSUME NEW p \in Pid, NEW cmd \in AllCommands, Launch(p, cmd) PROVE Mirrored'
  BY <1>1, MirrorsMeans DEF Launch
<1>2. ASSUME NEW p \in Pid, StartCheck(p) PROVE Mirrored'
  BY <1>2, MirrorsMeans DEF StartCheck, Exit, EndAll
<1>3. ASSUME NEW p \in Pid, StartGate(p) PROVE Mirrored'
  BY <1>3, MirrorsMeans DEF StartGate, MissingDistro, Exit, EndAll
<1>4. ASSUME NEW p \in Pid, StartRefuse(p) PROVE Mirrored'
  BY <1>4, MirrorsMeans DEF StartRefuse, Exit, EndAll
<1>5. ASSUME NEW p \in Pid, NEW c \in Pid, StartSpawn(p, c) PROVE Mirrored'
  BY <1>5, MirrorsMeans DEF StartSpawn
<1>6. ASSUME NEW p \in Pid, StartSave(p) PROVE Mirrored'
  BY <1>6, MirrorsMeans DEF StartSave, Exit, EndAll
<1>7. ASSUME NEW p \in Pid, StartWait(p) PROVE Mirrored'
  BY <1>7, MirrorsMeans DEF StartWait
<1>8. ASSUME NEW p \in Pid, StartClear(p) PROVE Mirrored'
  BY <1>8, MirrorsMeans DEF StartClear, Exit, EndAll, Nobody
<1>9. ASSUME NEW p \in Pid, StartWarm(p) PROVE Mirrored'
  BY <1>9, MirrorsMeans DEF StartWarm, Exit, EndAll
<1>10. ASSUME NEW p \in Pid, StartSick(p) PROVE Mirrored'
  BY <1>10, MirrorsMeans DEF StartSick, EndAll, FreedBy, FreePipe, Nobody
<1>11. ASSUME NEW p \in Pid, StopNothing(p) PROVE Mirrored'
  BY <1>11, StopNothingDoes, MirrorsMeans DEF LeavesStop, Exit, EndAll
<1>12. ASSUME NEW p \in Pid, StopKill(p) PROVE Mirrored'
  BY <1>12, MirrorsMeans DEF StopKill, FreedBy, FreePipe, Nobody
<1>13. ASSUME NEW p \in Pid, StopSelf(p) PROVE Mirrored'
  BY <1>13, MirrorsMeans DEF StopSelf, Exit, EndAll
<1>14. ASSUME NEW p \in Pid, StopWait(p) PROVE Mirrored'
  BY <1>14, MirrorsMeans DEF StopWait, Leave, AfterStop, Exit, EndAll
<1>15. ASSUME NEW p \in Pid, ShutdownList(p) PROVE Mirrored'
  BY <1>15, MirrorsMeans DEF ShutdownList
<1>16. ASSUME NEW p \in Pid, NEW q \in Pid, ShutdownKill(p, q) PROVE Mirrored'
  BY <1>16, MirrorsMeans DEF ShutdownKill, EndAll, FreedBy, FreePipe
<1>17. ASSUME NEW p \in Pid, ShutdownEnd(p) PROVE Mirrored'
  BY <1>17, MirrorsMeans DEF ShutdownEnd, Exit, EndAll
<1>18. ASSUME NEW p \in Pid, DoctorRead(p) PROVE Mirrored'
  BY <1>18, MirrorsMeans DEF DoctorRead
<1>19. ASSUME NEW p \in Pid, DoctorProbe(p) PROVE Mirrored'
  BY <1>19, MirrorsMeans DEF DoctorProbe
<1>20. ASSUME NEW p \in Pid, DoctorClear(p) PROVE Mirrored'
  BY <1>20, MirrorsMeans DEF DoctorClear, Nobody
<1>21. ASSUME NEW p \in Pid, DoctorInstall(p) PROVE Mirrored'
  BY <1>21, MirrorsMeans DEF DoctorInstall, MissingDistro, Exit, EndAll
<1>22. ASSUME NEW p \in Pid, ForeGate(p) PROVE Mirrored'
  BY <1>22, MirrorsMeans DEF ForeGate, MissingDistro, Exit, EndAll
<1>23. ASSUME NEW p \in Pid, ServeBoot(p) PROVE Mirrored'
  BY <1>23, MirrorsMeans DEF ServeBoot, MissingDistro, Exit, EndAll
<1>24. ASSUME NEW p \in Pid, Listen(p) PROVE Mirrored'
  BY <1>24, MirrorsMeans DEF Listen, FreePipe
<1>25. ASSUME NEW p \in Pid, ListenFails(p) PROVE Mirrored'
  BY <1>25, MirrorsMeans DEF ListenFails, Exit, EndAll
<1>26. ASSUME NEW p \in Pid, Callback(p) PROVE Mirrored'
  BY <1>26, MirrorsMeans DEF Callback
<1>27. ASSUME NEW p \in Pid, RecordMirror(p) PROVE Mirrored'
  BY <1>27, MirrorsMeans DEF RecordMirror
<1>28. ASSUME NEW p \in Pid, Accept(p) PROVE Mirrored'
  BY <1>28, MirrorsMeans DEF Accept
<1>29. ASSUME NEW p \in Pid, ListenTcp(p) PROVE Mirrored'
  BY <1>29, MirrorsMeans DEF ListenTcp, Exit, EndAll, FreePipe
<1>30. ASSUME NEW p \in Pid, ForeStop(p) PROVE Mirrored'
  BY <1>30, MirrorsMeans DEF ForeStop, Exit, EndAll, FreePipe
<1>31. ASSUME NEW p \in Pid, GiveUp(p) PROVE Mirrored'
  BY <1>31, GiveUpDoes, MirrorsMeans DEF LeavesStop, Exit, EndAll
<1>32. CASE ExpireLock
  BY <1>32, MirrorsMeans DEF ExpireLock
<1>33. CASE Crash
  BY <1>33, RebootEndsAll, MirrorsMeans
<1>34. CASE Reuse
  BY <1>34, MirrorsMeans DEF Reuse
<1>35. CASE Unregister
  BY <1>35, MirrorsMeans DEF Unregister
<1>36. CASE UNCHANGED vars
  BY <1>36 DEF vars
<1>37. ASSUME NEW p \in Pid, StartSickKeeps(p) PROVE Mirrored'
  BY <1>37, MirrorsMeans DEF StartSickKeeps, Nobody
<1>38. ASSUME NEW p \in Pid, StopKillFails(p) PROVE Mirrored'
  BY <1>38, MirrorsMeans DEF StopKillFails, Nobody
<1>39. ASSUME NEW p \in Pid, ShutdownListFails(p) PROVE Mirrored'
  BY <1>39, MirrorsMeans DEF ShutdownListFails
<1>40. ASSUME NEW p \in Pid, NEW q \in Pid, ShutdownKillFails(p, q) PROVE Mirrored'
  BY <1>40, MirrorsMeans DEF ShutdownKillFails
<1> QED
  BY <1>1, <1>2, <1>3, <1>4, <1>5, <1>6, <1>7, <1>8, <1>9, <1>10, <1>11, <1>12, <1>13,
     <1>14, <1>15, <1>16, <1>17, <1>18, <1>19, <1>20, <1>21, <1>22, <1>23, <1>24,
     <1>25, <1>26, <1>27, <1>28, <1>29, <1>30, <1>31, <1>32, <1>33, <1>34, <1>35,
     <1>36, <1>37, <1>38, <1>39, <1>40 DEF Next, Advance

\* Which steps report what the promises speak of, spawn, write the record, and kill.
Authors ==
  /\ Reports("started") => \E p \in Pid : StartWarm(p)
  /\ Reports("up") => \E p \in Pid : ListenFails(p) \/ ListenTcp(p)
  /\ Reports("stopped") => \E p \in Pid : StopWait(p) \/ ForeStop(p)
  /\ Reports("complete") => \E p \in Pid : ShutdownEnd(p)
  /\ \A p \in Pid : pc[p] = "want" /\ pc'[p] = "spawned" => \E c \in Pid : StartSpawn(p, c)
  /\ rec' # rec => \E p \in Pid : \/ StartSave(p) \/ StartClear(p) \/ StartSick(p)
                                  \/ StartSickKeeps(p) \/ StopKill(p)
                                  \/ StopKillFails(p) \/ DoctorClear(p) \/ RecordMirror(p)
  /\ shot' # shot => \E p \in Pid : \/ StartSick(p) \/ StopKill(p)
                                    \/ \E q \in Pid : ShutdownKill(p, q)

LEMMA AuthorsStep ==
  ASSUME Base, [Next]_vars
  PROVE  Authors
<1> USE DaemonAssumption DEF Base, Goto, Step, Gone, Servers, Bound, TypeOK, Stages,
   AllCommands, Authors, Reports, Successes
<1>1. ASSUME NEW p \in Pid, NEW cmd \in AllCommands, Launch(p, cmd) PROVE Authors
  BY <1>1 DEF Launch
<1>2. ASSUME NEW p \in Pid, StartCheck(p) PROVE Authors
  BY <1>2 DEF StartCheck, Exit, EndAll, Say
<1>3. ASSUME NEW p \in Pid, StartGate(p) PROVE Authors
  BY <1>3 DEF StartGate, MissingDistro, Exit, EndAll, Say
<1>4. ASSUME NEW p \in Pid, StartRefuse(p) PROVE Authors
  BY <1>4 DEF StartRefuse, Exit, EndAll, Say
<1>5. ASSUME NEW p \in Pid, NEW c \in Pid, StartSpawn(p, c) PROVE Authors
  BY <1>5 DEF StartSpawn
<1>6. ASSUME NEW p \in Pid, StartSave(p) PROVE Authors
  BY <1>6 DEF StartSave, Exit, EndAll, Say
<1>7. ASSUME NEW p \in Pid, StartWait(p) PROVE Authors
  BY <1>7 DEF StartWait
<1>8. ASSUME NEW p \in Pid, StartClear(p) PROVE Authors
  BY <1>8 DEF StartClear, Exit, EndAll, Nobody, Say
<1>9. ASSUME NEW p \in Pid, StartWarm(p) PROVE Authors
  BY <1>9 DEF StartWarm, Exit, EndAll, Say
<1>10. ASSUME NEW p \in Pid, StartSick(p) PROVE Authors
  BY <1>10 DEF StartSick, EndAll, FreedBy, FreePipe, Nobody, Say
<1>11. ASSUME NEW p \in Pid, StopNothing(p) PROVE Authors
  BY <1>11, StopNothingDoes DEF LeavesStop, Exit, EndAll
<1>12. ASSUME NEW p \in Pid, StopKill(p) PROVE Authors
  BY <1>12 DEF StopKill, FreedBy, FreePipe, Nobody
<1>13. ASSUME NEW p \in Pid, StopSelf(p) PROVE Authors
  BY <1>13 DEF StopSelf, Exit, EndAll
<1>14. ASSUME NEW p \in Pid, StopWait(p) PROVE Authors
  BY <1>14 DEF StopWait, Leave, AfterStop, Exit, EndAll, Say
<1>15. ASSUME NEW p \in Pid, ShutdownList(p) PROVE Authors
  BY <1>15 DEF ShutdownList
<1>16. ASSUME NEW p \in Pid, NEW q \in Pid, ShutdownKill(p, q) PROVE Authors
  BY <1>16 DEF ShutdownKill, EndAll, FreedBy, FreePipe
<1>17. ASSUME NEW p \in Pid, ShutdownEnd(p) PROVE Authors
  <2>1. Exit(p) /\ UNCHANGED <<rec, shot>> /\ said'[1] \in {"still held", "complete"}
    BY <1>17 DEF ShutdownEnd, Say
  <2> QED
    BY <1>17, <2>1 DEF Exit, EndAll
<1>18. ASSUME NEW p \in Pid, DoctorRead(p) PROVE Authors
  BY <1>18 DEF DoctorRead
<1>19. ASSUME NEW p \in Pid, DoctorProbe(p) PROVE Authors
  BY <1>19 DEF DoctorProbe
<1>20. ASSUME NEW p \in Pid, DoctorClear(p) PROVE Authors
  BY <1>20 DEF DoctorClear, Nobody
<1>21. ASSUME NEW p \in Pid, DoctorInstall(p) PROVE Authors
  BY <1>21 DEF DoctorInstall, MissingDistro, Exit, EndAll, Say
<1>22. ASSUME NEW p \in Pid, ForeGate(p) PROVE Authors
  BY <1>22 DEF ForeGate, MissingDistro, Exit, EndAll, Say
<1>23. ASSUME NEW p \in Pid, ServeBoot(p) PROVE Authors
  BY <1>23 DEF ServeBoot, MissingDistro, Exit, EndAll, Say
<1>24. ASSUME NEW p \in Pid, Listen(p) PROVE Authors
  BY <1>24 DEF Listen, FreePipe
<1>25. ASSUME NEW p \in Pid, ListenFails(p) PROVE Authors
  BY <1>25 DEF ListenFails, Exit, EndAll, Say
<1>26. ASSUME NEW p \in Pid, Callback(p) PROVE Authors
  BY <1>26 DEF Callback
<1>27. ASSUME NEW p \in Pid, RecordMirror(p) PROVE Authors
  BY <1>27 DEF RecordMirror
<1>28. ASSUME NEW p \in Pid, Accept(p) PROVE Authors
  BY <1>28 DEF Accept
<1>29. ASSUME NEW p \in Pid, ListenTcp(p) PROVE Authors
  BY <1>29 DEF ListenTcp, Exit, EndAll, FreePipe, Say
<1>30. ASSUME NEW p \in Pid, ForeStop(p) PROVE Authors
  BY <1>30 DEF ForeStop, Exit, EndAll, FreePipe, Say
<1>31. ASSUME NEW p \in Pid, GiveUp(p) PROVE Authors
  BY <1>31, GiveUpDoes DEF LeavesStop, Exit, EndAll
<1>32. CASE ExpireLock
  BY <1>32 DEF ExpireLock
<1>33. CASE Crash
  BY <1>33 DEF Crash, EndAll, FreedBy, FreePipe
<1>34. CASE Reuse
  BY <1>34 DEF Reuse
<1>35. CASE Unregister
  BY <1>35 DEF Unregister
<1>36. CASE UNCHANGED vars
  BY <1>36 DEF vars
<1>37. ASSUME NEW p \in Pid, StartSickKeeps(p) PROVE Authors
  BY <1>37 DEF StartSickKeeps, Nobody, Say
<1>38. ASSUME NEW p \in Pid, StopKillFails(p) PROVE Authors
  BY <1>38 DEF StopKillFails, Nobody
<1>39. ASSUME NEW p \in Pid, ShutdownListFails(p) PROVE Authors
  BY <1>39 DEF ShutdownListFails
<1>40. ASSUME NEW p \in Pid, NEW q \in Pid, ShutdownKillFails(p, q) PROVE Authors
  BY <1>40 DEF ShutdownKillFails
<1> HIDE DEF Base, Goto, Step, Gone, Servers, Bound, TypeOK, Stages, AllCommands, Authors,
   Reports, Successes
<1> QED
  BY <1>1, <1>2, <1>3, <1>4, <1>5, <1>6, <1>7, <1>8, <1>9, <1>10, <1>11, <1>12, <1>13,
     <1>14, <1>15, <1>16, <1>17, <1>18, <1>19, <1>20, <1>21, <1>22, <1>23, <1>24,
     <1>25, <1>26, <1>27, <1>28, <1>29, <1>30, <1>31, <1>32, <1>33, <1>34, <1>35,
     <1>36, <1>37, <1>38, <1>39, <1>40 DEF Next, Advance

LEMMA ShotStep ==
  ASSUME DInv, [Next]_vars, Authors, world' = world
  PROVE  NeverShootsForeign'
<1> USE DEF DInv, Base
<1>1. Recorded' = Recorded
  BY DEF Recorded, RecordOutlives, Never, Run, May
<1>2. CASE shot' = shot
  BY <1>1, <1>2 DEF NeverShootsForeign, May, Run
<1>3. ASSUME NEW p \in Pid, StartSick(p), shot' # shot
      PROVE  NeverShootsForeign'
  <2>1. pc[p] = "sick" /\ kind[rec.pid] = "foreign" /\ rec.pid \in Pid
    BY <1>3 DEF StartSick, Shoots, TypeOK
  <2>2. May("sick") \/ May("unregister")
    BY <2>1 DEF Environment
  <2>3. Recorded => May("tcpBusy")
    BY <2>1 DEF Answered, Children
  <2> QED
    BY <1>1, <2>2, <2>3 DEF NeverShootsForeign, May, Run
<1>4. ASSUME NEW p \in Pid, StopKill(p), shot' # shot
      PROVE  FALSE
  BY <1>4 DEF StopKill, Shoots, ProcessAlive, Gone, TypeOK
<1>5. ASSUME NEW p \in Pid, NEW q \in Pid, ShutdownKill(p, q), shot' # shot
      PROVE  NeverShootsForeign'
  <2>1. pc[p] = "kill" /\ q \in seen[p] /\ kind[q] = "foreign"
    BY <1>5 DEF ShutdownKill, Shoots, TypeOK
  <2>2. Run("shutdown")
    BY <2>1 DEF Stages, Environment, AllCommands
  <2>3. Recorded => May("tcpBusy") \/ Run("fore")
    BY <2>1 DEF Listed, Children
  <2> QED
    BY <1>1, <2>2, <2>3 DEF NeverShootsForeign, May, Run
<1> QED
  BY <1>2, <1>3, <1>4, <1>5 DEF Authors

LEMMA WorldStays ==
  ASSUME [Next]_vars
  PROVE  world' = world
<1>1. ASSUME NEW p \in Pid, Advance(p) PROVE world' = world
  BY <1>1, Zenon
     DEF Advance, StartCheck, StartGate, StartRefuse, StartSpawn, StartSave, StartWait,
       StartClear, StartWarm, StartSick, StartSickKeeps, StopNothing, StopKill,
       StopKillFails, StopSelf, StopWait, ShutdownList, ShutdownListFails, ShutdownKill,
       ShutdownKillFails, ShutdownEnd, DoctorRead, DoctorProbe, DoctorClear,
       DoctorInstall, ForeGate, ServeBoot, Listen, ListenFails, Callback, RecordMirror,
       Accept, ListenTcp, GiveUp
<1>2. ASSUME ~ \E p \in Pid : Advance(p) PROVE world' = world
  BY <1>2, Zenon DEF Next, Launch, ForeStop, ExpireLock, Crash, Reuse, Unregister, vars
<1> QED
  BY <1>1, <1>2

LEMMA InitHolds == Init => DInv
<1> SUFFICES ASSUME Init PROVE DInv
  OBVIOUS
<1> USE DaemonAssumption DEF Init, Nobody, FreePipe, Gone
<1>1. TypeOK
  <2>1. /\ kind \in [Pid -> AllCommands \cup Gone \cup {"serve"}]
        /\ pc \in [Pid -> {"none"}]
        /\ seen \in [Pid -> SUBSET Pid]
        /\ mirror \in [Pid -> BOOLEAN]
    OBVIOUS
  <2>2. said[2] \in Pid \cup {None}
    OBVIOUS
  <2>3. launches \in 0..world.launches
    OBVIOUS
  <2> QED
    BY <2>1, <2>2, <2>3 DEF TypeOK
<1>2. Stages /\ Holder /\ Locking /\ Environment
  BY DEF Stages, Holder, Locking, Environment, Bound, Answering, AllCommands
<1>3. Alone /\ ShutdownSees
  BY DEF Alone, ShutdownSees, InProgress, ProcessAlive
<1>4. Calm /\ Fresh /\ Answered /\ Listed /\ Mirrored
  BY <1>3 DEF Calm, Recording, Escaped, Starting, Settled, Judged, Fresh, Answered, Listed,
     Mirrored, Children
<1>5. NeverShootsForeign
  BY DEF NeverShootsForeign
<1> QED
  BY <1>1, <1>2, <1>3, <1>4, <1>5 DEF DInv, Base

LEMMA NextHolds == DInv /\ [Next]_vars => DInv'
<1> SUFFICES ASSUME DInv, [Next]_vars PROVE DInv'
  OBVIOUS
<1>1. Base /\ Base'
  BY TypeStep, StagesStep, HolderStep, LockingStep, EnvironmentStep DEF DInv, Base
<1>2. world' = world
  BY WorldStays
<1>3. /\ Recorded' = Recorded /\ RecordOutlives' = RecordOutlives
      /\ MirrorsReset' = MirrorsReset
      /\ Never({"overlap"})' = Never({"overlap"})
      /\ May("tcpBusy")' = May("tcpBusy") /\ Run("fore")' = Run("fore")
  BY <1>2 DEF Recorded, RecordOutlives, MirrorsReset, Never, May, Run
<1>4. Never({"overlap"}) <=> ~May("overlap")
  BY DEF Never, May
<1>5. (Never({"overlap"}) => Alone /\ ShutdownSees)'
  BY <1>1, <1>3, <1>4, AloneStep, ShutdownSeesStep DEF DInv
<1>6. (Recorded => Calm)'
  <2>1. SUFFICES ASSUME Recorded PROVE Calm'
    BY <1>3
  <2>2. Calm /\ (~RecordOutlives => Fresh) /\ ~May("overlap")
    BY <2>1, RecordedMeans DEF DInv
  <2> QED
    BY <1>1, <2>1, <2>2, AloneStep, RecordingStep, StartingStep, SettledStep, JudgedStep,
       EscapedStep DEF Calm
<1>7. (Recorded /\ ~RecordOutlives => Fresh)'
  BY <1>1, <1>3, FreshStep DEF DInv
<1>8. (Recorded /\ ~May("tcpBusy") => Answered)'
  BY <1>1, <1>3, AnsweredStep DEF DInv
<1>9. (Recorded /\ ~May("tcpBusy") /\ ~Run("fore") => Listed)'
  BY <1>1, <1>3, ListedStep DEF DInv
<1>10. (MirrorsReset => Mirrored)'
  BY <1>1, <1>3, <1>4, MirroredStep DEF DInv
<1>11. NeverShootsForeign'
  BY <1>1, <1>2, AuthorsStep, ShotStep
<1> QED
  BY <1>1, <1>5, <1>6, <1>7, <1>8, <1>9, <1>10, <1>11 DEF DInv

LEMMA Inductive == Spec => []DInv
BY InitHolds, NextHolds, PTL DEF Spec

(* Every variable keeps its type, whatever happens around dockup. *)
THEOREM TypeCorrect == Spec => []TypeOK
<1>1. DInv => TypeOK
  BY DEF DInv, Base
<1> QED
  BY <1>1, Inductive, PTL

(* No process of another program is killed, but for the two kills by number where
   something else may end meanwhile. *)
THEOREM NoForeignKill == Spec => []NeverShootsForeign
<1>1. DInv => NeverShootsForeign
  BY DEF DInv
<1> QED
  BY <1>1, Inductive, PTL

LEMMA TrackedHolds == DInv => Tracked
<1> SUFFICES ASSUME DInv, Recorded, NEW c \in Children \ missed, rec.pid # c
             PROVE  \E p \in Pid : pc[p] = "spawned" /\ seen[p] = {c}
  BY DEF Tracked
<1>1. lock \in Pid /\ seen[lock] = {c}
  BY DEF DInv, Calm, Recording
<1> QED
  BY <1>1 DEF DInv, Base, Locking

LEMMA StatusHolds == DInv => StatusTruthful
<1> SUFFICES ASSUME DInv, Recorded, ~RecordOutlives, Quiet
             PROVE  /\ Status = "running daemon" =>
                         kind[pipe.owner] = "serve" /\ rec.pid = pipe.owner
                    /\ Status = "running foreground" =>
                         kind[pipe.owner] = "fore" \/ pipe.owner \in missed
  BY DEF StatusTruthful
<1>1. \A p \in Pid : pc[p] \notin {"wait", "clear", "spawned"}
  BY DEF Quiet, InProgress, DInv, Base, Stages, Gone
<1>2. rec.pid # None => rec.pid \in Children
  BY <1>1 DEF DInv, Fresh
<1>3. \A c \in Children : pc[c] \in Answering /\ pipe.owner = c
  BY <1>1 DEF DInv, Base, Calm, Settled, Holder, Bound, Answering, Children
<1>4. AliveOn => pipe.owner \in Pid /\ kind[pipe.owner] \in Servers
  BY DEF AliveOn, DInv, Base, Holder, Stages, Bound, Answering
<1>5. ASSUME Status = "running daemon"
      PROVE  kind[pipe.owner] = "serve" /\ rec.pid = pipe.owner
  <2>1. ProcessAlive(rec.pid)
    BY <1>5, Zenon DEF Status
  <2> QED
    BY <1>2, <1>3, <2>1, DaemonAssumption DEF ProcessAlive, Children
<1>6. ASSUME Status = "running foreground"
      PROVE  kind[pipe.owner] = "fore" \/ pipe.owner \in missed
  <2>1. AliveOn /\ rec.pid = None
    BY <1>6, Zenon DEF Status
  <2>2. lock \notin Pid
    BY <1>1 DEF DInv, Base, Locking
  <2>3. pipe.owner \notin Children \ missed
    BY <2>1, <2>2, DaemonAssumption DEF DInv, Calm, Recording, Children
  <2> QED
    BY <1>4, <2>1, <2>3 DEF Servers, Children
<1> QED
  BY <1>5, <1>6

LEMMA MirrorHolds == DInv => MirrorHonest
<1> SUFFICES ASSUME DInv, MirrorsReset, lock = None, rec.mirror
             PROVE  /\ rec.pid # None
                    /\ rec.pid \in Children /\ pc[rec.pid] \in {"accept", "tcp", "serving"}
                         => mirror[rec.pid]
  BY DEF MirrorHonest, MirrorsReset
<1>1. \A p \in Pid : pc[p] # "spawned"
  BY DaemonAssumption DEF DInv, Base, Locking
<1> QED
  BY <1>1 DEF DInv, Mirrored

(* What state.json says of the daemon, and status of it, is so: a live child is
   recorded unless it outlived a kill, its mirror flag is its own, and status names
   the holder of the pipe. *)
THEOREM RecordIsHonest == Spec => []RecordHonest
<1>1. DInv => RecordHonest
  BY TrackedHolds, StatusHolds, MirrorHolds DEF RecordHonest
<1> QED
  BY <1>1, Inductive, PTL

LEMMA ReportsStep ==
  ASSUME DInv, Authors, [Next]_vars
  PROVE  /\ Recorded /\ ~May("tcpBusy") /\ Reports("started") =>
              pipe'.accepting /\ pipe'.owner = rec'.pid /\ kind'[rec'.pid] = "serve"
         /\ Recorded /\ Reports("up") => pipe'.accepting /\ pipe'.owner = said'[2]
         /\ Recorded /\ Reports("stopped") /\ kind[said'[2]] = "stop" =>
              rec'.pid = None /\ \A c \in Pid : kind'[c] = "serve" => c \in missed'
         /\ Never({"overlap"}) /\ Reports("complete") =>
              \A q \in Pid : kind'[q] \in Gone \/ q \in missed'
<1> USE DEF DInv, Base, TypeOK, Stages, Reports
<1>1. ASSUME Recorded, ~May("tcpBusy"), Reports("started")
      PROVE  pipe'.accepting /\ pipe'.owner = rec'.pid /\ kind'[rec'.pid] = "serve"
  <2>1. PICK p \in Pid : StartWarm(p)
    BY <1>1 DEF Authors
  <2>2. pc[p] = "warm" /\ kind[p] # "serve" /\ UNCHANGED <<pipe, rec>>
    BY <2>1 DEF StartWarm
  <2>3. rec.pid \in Children /\ pipe.accepting /\ pipe.owner = rec.pid
    BY <1>1, <2>2 DEF Answered
  <2> QED
    BY <2>1, <2>2, <2>3 DEF StartWarm, Exit, EndAll, Goto, Step, Children
<1>2. ASSUME Recorded, Reports("up")
      PROVE  pipe'.accepting /\ pipe'.owner = said'[2]
  <2>1. ASSUME NEW p \in Pid, ListenFails(p) PROVE FALSE
    <3>1. pc[p] = "listen" /\ kind[p] = "fore" /\ pipe # FreePipe
      BY <1>2, <2>1 DEF ListenFails, Say
    <3> QED
      BY <1>2, <3>1 DEF Calm, Judged
  <2>2. ASSUME NEW p \in Pid, ListenTcp(p)
        PROVE  pipe'.accepting /\ pipe'.owner = said'[2]
    <3>1. pc[p] = "tcp" /\ pipe' = pipe /\ said'[2] = p
      BY <1>2, <2>2 DEF ListenTcp, Say
    <3> QED
      BY <3>1 DEF Holder, Bound, Answering
  <2> QED
    BY <1>2, <2>1, <2>2 DEF Authors
<1>3. ASSUME Recorded, Reports("stopped"), kind[said'[2]] = "stop"
      PROVE  rec'.pid = None /\ \A c \in Pid : kind'[c] = "serve" => c \in missed'
  <2>1. ASSUME NEW p \in Pid, ForeStop(p) PROVE FALSE
    BY <1>3, <2>1 DEF ForeStop, Say
  <2>2. ASSUME NEW p \in Pid, StopWait(p)
        PROVE  rec'.pid = None /\ \A c \in Pid : kind'[c] = "serve" => c \in missed'
    <3>1. pc[p] = "stopWait" /\ rec' = rec /\ LeavesStop(p)
      BY <2>2, LeaveLeaves DEF StopWait
    <3>2. rec.pid = None /\ Children \subseteq missed
      BY <1>3, <3>1 DEF Calm, Judged
    <3> QED
      BY <3>1, <3>2 DEF LeavesStop, Exit, EndAll, Goto, Step, Children
  <2> QED
    BY <1>3, <2>1, <2>2 DEF Authors
<1>4. ASSUME Never({"overlap"}), Reports("complete")
      PROVE  \A q \in Pid : kind'[q] \in Gone \/ q \in missed'
  <2>1. PICK p \in Pid : ShutdownEnd(p)
    BY <1>4 DEF Authors
  <2>2. pc[p] = "kill" /\ seen[p] = {} /\ Exit(p)
    BY <2>1 DEF ShutdownEnd
  <2>3. \A q \in Pid : ProcessAlive(q) => q = p \/ q \in missed
    BY <1>4, <2>2 DEF ShutdownSees
  <2> QED
    BY <2>2, <2>3 DEF Exit, EndAll, ProcessAlive, Gone
<1> QED
  BY <1>1, <1>2, <1>3, <1>4

(* What a command reports when it ends well is so: started, up, stopped, complete,
   but for a process that outlived its kill or was not listed. *)
THEOREM ReportsAreTrue == Spec => ReportsTrue
<1> DEFINE Started == Recorded /\ ~May("tcpBusy") =>
             (Reports("started") =>
                pipe'.accepting /\ pipe'.owner = rec'.pid /\ kind'[rec'.pid] = "serve")
           Up == Recorded /\ Reports("up") => pipe'.accepting /\ pipe'.owner = said'[2]
           Stopped == Recorded /\ Reports("stopped") /\ kind[said'[2]] = "stop" =>
             rec'.pid = None /\ \A c \in Pid : kind'[c] = "serve" => c \in missed'
           Complete == Never({"overlap"}) /\ Reports("complete") =>
             \A q \in Pid : kind'[q] \in Gone \/ q \in missed'
<1>1. DInv /\ [Next]_vars => Started /\ Up /\ Stopped /\ Complete
  BY AuthorsStep, ReportsStep DEF DInv
<1>2. Spec => [][Started]_vars /\ [][Up]_vars /\ [][Stopped]_vars /\ [][Complete]_vars
  <2> HIDE DEF Started, Up, Stopped, Complete
  <2> QED
    BY <1>1, Inductive, PTL DEF Spec
<1> QED
  BY <1>2 DEF ReportsTrue, StartedMeansServing, UpMeansMine, StoppedMeansGone,
     ShutdownMeansAlone

LEMMA SparesStep ==
  ASSUME DInv, Authors, [Next]_vars
  PROVE  /\ Recorded =>
              \A p \in Pid : pc[p] = "want" /\ pc'[p] = "spawned" => ~AliveOn
         /\ \A p \in Pid : Recorded /\ pc[p] = "dclear" /\ rec' # rec => kind[rec.pid] # "serve"
<1> USE DEF DInv, Base, TypeOK, Stages
<1>1. ASSUME Recorded, NEW p \in Pid, pc[p] = "want", pc'[p] = "spawned", AliveOn
      PROVE  FALSE
  <2>1. lock = None /\ ~ProcessAlive(rec.pid) /\ rec.pid # None
    BY <1>1 DEF Authors, StartSpawn, MayStart
  <2>2. PICK s \in Pid : pc[s] \in Answering /\ kind[s] \in Servers
    BY <1>1 DEF AliveOn, Holder, Answering, Bound
  <2>3. CASE kind[s] = "fore"
    <3>1. ~RecordOutlives
      BY <1>1, <2>3, RecordedMeans DEF Environment, AllCommands
    <3>2. \A q \in Pid : pc[q] \notin {"wait", "clear"}
      BY <1>1 DEF Calm, Alone, InProgress, Gone
    <3> QED
      BY <1>1, <2>1, <3>1, <3>2 DEF Fresh, ProcessAlive, Children, Gone
  <2>4. CASE kind[s] = "serve"
    BY <1>1, <2>1, <2>4, DaemonAssumption
       DEF Calm, Escaped, Recording, Children, ProcessAlive, Gone
  <2> QED
    BY <2>2, <2>3, <2>4 DEF Servers
<1>2. ASSUME NEW p \in Pid, Recorded, pc[p] = "dclear", rec' # rec
      PROVE  kind[rec.pid] # "serve"
  <2>1. Children = {}
    BY <1>2 DEF Calm, Judged
  <2>2. \A q \in Pid : pc[q] \notin {"spawned", "clear", "sick", "stop"}
    BY <1>2 DEF Calm, Alone, InProgress, Gone
  <2>3. PICK q \in Pid : DoctorClear(q) \/ RecordMirror(q)
    BY <1>2, <2>2 DEF Authors, StartSave, StartClear, StartSick, StartSickKeeps,
         StopKill, StopKillFails
  <2>4. rec.pid \in Pid
    BY <1>2, <2>3 DEF DoctorClear, RecordMirror
  <2> QED
    BY <2>1, <2>4 DEF Children
<1> QED
  BY <1>1, <1>2

(* A living holder of the pipe is not overlooked: Start spawns no second one, and
   doctor does not clear its record, also where the record is stale or the holder
   outlived a kill. *)
THEOREM TheLivingAreSpared == Spec => SparesTheLiving
<1> DEFINE Second == Recorded =>
             \A p \in Pid : pc[p] = "want" /\ pc'[p] = "spawned" => ~AliveOn
           Clears == \A p \in Pid : Recorded /\ pc[p] = "dclear" /\ rec' # rec
                                       => kind[rec.pid] # "serve"
<1>1. DInv /\ [Next]_vars => Second /\ Clears
  BY AuthorsStep, SparesStep DEF DInv
<1>2. Spec => [][Second]_vars /\ [][Clears]_vars
  <2> HIDE DEF Second, Clears
  <2> QED
    BY <1>1, Inductive, PTL DEF Spec
<1> QED
  BY <1>2 DEF SparesTheLiving, SecondStarterRefuses, ClearsOnlyStale

-----------------------------------------------------------------------------
(* Who waits for whom                                                       *)

\* For the lock, which its holder gives back, and for a child to answer.
AwaitsLock(p, q)  == pc[p] \in WantsLock /\ lock = q
AwaitsChild(p, c) == pc[p] = "wait" /\ ~AliveOn /\ c \in seen[p] /\ kind[c] = "serve"
Awaits(p, q)      == AwaitsLock(p, q) \/ AwaitsChild(p, q)

NoCircle ==
  /\ \A p, q, r, s \in Pid : ~(Awaits(p, q) /\ Awaits(q, r) /\ Awaits(r, s))
  /\ \A p, c \in Pid :
       AwaitsChild(p, c) => pc[c] \in {"boot", "listen", "callback", "record", "accept"}

LEMMA HolderWaitsForNobody ==
  ASSUME Base, NEW p \in Pid, NEW q \in Pid, AwaitsLock(p, q), NEW r \in Pid
  PROVE  ~Awaits(q, r)
<1>1. pc[q] = "spawned"
  BY DEF Base, Locking, AwaitsLock
<1> QED
  BY <1>1 DEF Awaits, AwaitsLock, AwaitsChild, WantsLock

LEMMA ChildWaitsForTheLock ==
  ASSUME Base, NEW p \in Pid, NEW q \in Pid, AwaitsChild(p, q), NEW r \in Pid, Awaits(q, r)
  PROVE  AwaitsLock(q, r)
<1>1. pc[q] # "wait"
  BY DEF Base, Stages, AwaitsChild
<1> QED
  BY <1>1 DEF Awaits, AwaitsChild

LEMMA ChildComesUp ==
  ASSUME Base, NEW p \in Pid, NEW c \in Pid, AwaitsChild(p, c)
  PROVE  pc[c] \in {"boot", "listen", "callback", "record", "accept"}
<1>1. kind[c] = "serve" /\ pc[c] \notin Answering
  BY DEF Base, Holder, AwaitsChild, AliveOn
<1>2. pc[c] # "none"
  BY <1>1 DEF Base, Stages, Gone
<1> QED
  BY <1>1, <1>2 DEF Base, TypeOK, Stages, Answering, WantsLock

(* No dockup process waits for another in a circle, in any environment: Start waits for  *)
(* its child outside the lock that the child needs for its mirror record, the lock is    *)
(* held only by a Start that is about to save, and a child that was waited for answers   *)
(* or still comes up.                                                                    *)
THEOREM WaitingIsNoCircle == Spec => []NoCircle
<1>1. Base => NoCircle
  <2> SUFFICES ASSUME Base PROVE NoCircle
    OBVIOUS
  <2>1. ASSUME NEW p \in Pid, NEW q \in Pid, NEW r \in Pid, NEW s \in Pid,
               Awaits(p, q), Awaits(q, r), Awaits(r, s)
        PROVE  FALSE
    <3>1. AwaitsChild(p, q)
      BY <2>1, HolderWaitsForNobody DEF Awaits
    <3>2. AwaitsLock(q, r)
      BY <2>1, <3>1, ChildWaitsForTheLock
    <3> QED
      BY <2>1, <3>2, HolderWaitsForNobody
  <2> QED
    BY <2>1, ChildComesUp DEF NoCircle
<1> QED
  BY <1>1, Inductive, PTL DEF DInv
=============================================================================
