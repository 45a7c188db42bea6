------------------------------ MODULE EngineProofs ------------------------------
(* Proofs about Engine, for any number of processes, commands and edits. *)
EXTENDS Engine, TLAPS

\* Steps that belong to some commands only, and an attempt that runs is counted.
Stages ==
  \A p \in Procs :
    /\ pc[p] = "probe" => task[p] = "fix"
    /\ pc[p] \in {"import", "pid1"} => task[p] = "setup"
    /\ pc[p] = "configure" => task[p] \in {"fix", "setup"}
    /\ pc[p] = "terminate" => task[p] \in {"fix", "setup", "shutdown"}
    /\ pc[p] = "kill" => task[p] = "shutdown"
    /\ pc[p] \in {"install", "apt", "wait"} => task[p] # "shutdown"
    /\ pc[p] = "apt" => tries[p] > 0

\* systemd and an apt run need a distro that is up.
Running == systemd \/ apt # NoProc => up

\* Commands that run side by side know they meet.
Meets == \A p, q \in Procs : p # q /\ pc[p] # "idle" /\ pc[q] # "idle" => hit

\* A repair that nothing met and that is past its configuration.
Restored ==
  \A p \in Procs :
    ~hit /\ task[p] \in {"fix", "setup"} /\ pc[p] \in {"terminate", "pid1", "wait"} => Starts

\* A fix that nothing met so far.
Healing ==
  \A p \in Procs :
    ~hit /\ task[p] = "fix" =>
      /\ pc[p] \in {"probe", "install"} => tries[p] = 0 /\ ~cut /\ apt = NoProc
      /\ pc[p] = "apt" => apt = p
      /\ pc[p] = "configure" => "docker" \in packages
      /\ pc[p] = "wait" /\ up => dockerd # "down"

SInv ==
  /\ TypeOK
  /\ Stages
  /\ Running
  /\ Meets
  /\ Restored
  /\ Healing
  /\ StaysRepaired

\* Where a command goes on after the distro was stopped, and where it goes when it fails.
LEMMA AfterStopSteps ==
  ASSUME NEW p \in Procs, task[p] \in {"fix", "setup", "shutdown"}, AfterStop(p)
  PROVE  \/ task[p] = "fix" /\ pc' = [pc EXCEPT ![p] = "wait"] /\ said' = said
         \/ task[p] = "setup" /\ pc' = [pc EXCEPT ![p] = "pid1"] /\ said' = said
         \/ task[p] = "shutdown" /\ pc' = [pc EXCEPT ![p] = "idle"] /\ said' = "ok"
  BY DEF AfterStop, End, Goto

LEMMA FailSteps ==
  ASSUME NEW p \in Procs, Fail(p)
  PROVE  \/ task[p] = "setup" /\ tries[p] = 0 /\ pc' = [pc EXCEPT ![p] = "install"] /\ said' = said
         \/ ~(task[p] = "setup" /\ tries[p] = 0) /\ pc' = [pc EXCEPT ![p] = "idle"] /\ said' = "failed"
  BY DEF Fail, End, Goto

LEMMA InitHolds == Init => SInv
<1> SUFFICES ASSUME Init PROVE SInv
  OBVIOUS
<1> USE EngineAssumption DEF Init
<1>1. TypeOK
  <2>1. faults \in SUBSET AllFaults
    OBVIOUS
  <2>2. /\ task \in [Procs -> Tasks] /\ pc \in [Procs -> Steps]
        /\ tries \in [Procs -> Nat] /\ \A p \in Procs : tries[p] <= Tries(task[p])
    BY DEF Tasks, Steps, Tries
  <2>3. started \in 0 .. MaxCommands /\ edits \in 0 .. MaxEdits
    OBVIOUS
  <2> QED
    BY <2>1, <2>2, <2>3 DEF TypeOK, Packages
<1>2. Stages /\ Running /\ Meets /\ Restored /\ Healing
  BY DEF Stages, Running, Meets, Restored, Healing
<1> QED
  BY <1>1, <1>2 DEF SInv, StaysRepaired

LEMMA TypeStep == SInv /\ [Next]_vars => TypeOK'
<1> SUFFICES ASSUME SInv, [Next]_vars PROVE TypeOK'
  OBVIOUS
<1> USE EngineAssumption DEF SInv, TypeOK, Goto, distro, Running, Stages, Packages, Tasks,
      Steps, Tries, Starts
<1>1. ASSUME NEW p \in Procs, Begin(p) PROVE TypeOK'
  BY <1>1 DEF Begin, First, Quiet
<1>2. ASSUME NEW p \in Procs, Attempt(p) PROVE TypeOK'
  BY <1>2 DEF Attempt, Try
<1>3. ASSUME NEW p \in Procs, Exhausted(p) PROVE TypeOK'
  BY <1>3 DEF Exhausted, End
<1>4. ASSUME NEW p \in Procs, Fetched(p) PROVE TypeOK'
  BY <1>4 DEF Fetched, Installed
<1>5. ASSUME NEW p \in Procs, FetchFails(p) PROVE TypeOK'
  BY <1>5 DEF FetchFails
<1>6. ASSUME NEW p \in Procs, FetchDies(p) PROVE TypeOK'
  BY <1>6 DEF FetchDies
<1>7. ASSUME NEW p \in Procs, Probe(p) PROVE TypeOK'
  BY <1>7 DEF Probe
<1>8. ASSUME NEW p \in Procs, Import(p) PROVE TypeOK'
  BY <1>8 DEF Import
<1>9. ASSUME NEW p \in Procs, Configure(p) PROVE TypeOK'
  <2>1. CASE "docker" \in packages
    BY <1>9, <2>1 DEF Configure, Started
  <2>2. CASE "docker" \notin packages
    BY <1>9, <2>2, FailSteps DEF Configure
  <2> QED
    BY <2>1, <2>2
<1>10. ASSUME NEW p \in Procs, Terminate(p) PROVE TypeOK'
  BY <1>10 DEF Terminate, Stop, AfterStop, End
<1>11. ASSUME NEW p \in Procs, Pid1(p) PROVE TypeOK'
  BY <1>11 DEF Pid1, Fail, End, Started
<1>12. ASSUME NEW p \in Procs, Answers(p) PROVE TypeOK'
  BY <1>12 DEF Answers, End
<1>13. ASSUME NEW p \in Procs, Gives(p) PROVE TypeOK'
  BY <1>13 DEF Gives, Fail, End
<1>14. ASSUME NEW p \in Procs, CallFails(p) PROVE TypeOK'
  <2>1. CASE pc[p] = "probe"
    BY <1>14, <2>1 DEF CallFails
  <2>2. CASE pc[p] = "pid1"
    BY <1>14, <2>2 DEF CallFails
  <2>3. CASE pc[p] = "configure"
    <3>1. Fail(p) /\ hit' = TRUE
      BY <1>14, <2>3 DEF CallFails
    <3>2. pc' \in [Procs -> Steps] /\ said' \in {"none", "ok", "failed"}
      BY <3>1, FailSteps
    <3>3. conf' \in BOOLEAN /\ units' \in BOOLEAN
      BY <1>14, <2>3 DEF CallFails
    <3>4. UNCHANGED <<faults, up, systemd, packages, cut, dockerd, apt, task, tries, sound,
                      started, edits>>
      BY <1>14 DEF CallFails
    <3> QED
      BY <3>1, <3>2, <3>3, <3>4
  <2>4. CASE pc[p] = "terminate"
    BY <1>14, <2>4, AfterStopSteps DEF CallFails
  <2>5. CASE pc[p] = "wait"
    BY <1>14, <2>5, FailSteps DEF CallFails
  <2>6. CASE pc[p] = "install"
    BY <1>14, <2>6 DEF CallFails, End
  <2> QED
    BY <1>14, <2>1, <2>2, <2>3, <2>4, <2>5, <2>6 DEF CallFails
<1>15. ASSUME NEW p \in Procs, Kill(p) PROVE TypeOK'
  BY <1>15 DEF Kill
<1>16. CASE Wake
  BY <1>16 DEF Wake, Boot
<1>17. CASE Serve
  BY <1>17 DEF Serve
<1>18. CASE OrphanEnds
  BY <1>18 DEF OrphanEnds, Installed
<1>19. CASE Reboot
  <2>1. hit' \in BOOLEAN /\ sound' \in BOOLEAN /\ cut' \in BOOLEAN
    BY <1>19 DEF Reboot, User, Quiet, Stop
  <2>2. edits' \in 0 .. MaxEdits
    BY <1>19 DEF Reboot, User
  <2>3. pc' \in [Procs -> Steps] /\ tries' = tries /\ task' = task
    BY <1>19 DEF Reboot, User
  <2>4. /\ up' \in BOOLEAN /\ systemd' \in BOOLEAN /\ conf' \in BOOLEAN /\ units' \in BOOLEAN
        /\ packages' = packages /\ dockerd' = "down" /\ apt' = NoProc
    BY <1>19 DEF Reboot, Stop
  <2> QED
    BY <1>19, <2>1, <2>2, <2>3, <2>4 DEF Reboot, User
<1>20. CASE UserLooks
  BY <1>20 DEF UserLooks, User, Quiet, Boot
<1>21. CASE UserBreaks
  <2>1. hit' \in BOOLEAN /\ edits' \in 0 .. MaxEdits
    BY <1>21 DEF UserBreaks, User, Quiet
  <2>2. /\ packages' \subseteq packages /\ conf' \in BOOLEAN /\ units' \in BOOLEAN
        /\ dockerd' \in {dockerd, "down"}
        /\ dockerd' # "down" /\ "docker" \in packages => "docker" \in packages'
    BY <1>21 DEF UserBreaks
  <2> QED
    BY <1>21, <2>1, <2>2 DEF UserBreaks, User
<1>22. CASE UNCHANGED vars
  BY <1>22 DEF vars
<1> QED
  BY <1>1, <1>2, <1>3, <1>4, <1>5, <1>6, <1>7, <1>8, <1>9, <1>10, <1>11,
     <1>12, <1>13, <1>14, <1>15, <1>16, <1>17, <1>18, <1>19, <1>20, <1>21, <1>22 DEF Next

LEMMA StagesStep == SInv /\ [Next]_vars => Stages'
<1> SUFFICES ASSUME SInv, [Next]_vars PROVE Stages'
  OBVIOUS
<1> USE EngineAssumption DEF SInv, TypeOK, Goto, distro, Stages, Tasks
<1>1. ASSUME NEW p \in Procs, Begin(p) PROVE Stages'
  BY <1>1 DEF Begin, First, Quiet
<1>2. ASSUME NEW p \in Procs, Attempt(p) PROVE Stages'
  BY <1>2 DEF Attempt, Try
<1>3. ASSUME NEW p \in Procs, Exhausted(p) PROVE Stages'
  BY <1>3 DEF Exhausted, End
<1>4. ASSUME NEW p \in Procs, Fetched(p) PROVE Stages'
  BY <1>4 DEF Fetched, Installed
<1>5. ASSUME NEW p \in Procs, FetchFails(p) PROVE Stages'
  BY <1>5 DEF FetchFails
<1>6. ASSUME NEW p \in Procs, FetchDies(p) PROVE Stages'
  BY <1>6 DEF FetchDies
<1>7. ASSUME NEW p \in Procs, Probe(p) PROVE Stages'
  BY <1>7 DEF Probe
<1>8. ASSUME NEW p \in Procs, Import(p) PROVE Stages'
  BY <1>8 DEF Import
<1>9. ASSUME NEW p \in Procs, Configure(p) PROVE Stages'
  BY <1>9 DEF Configure, Fail, End, Started
<1>10. ASSUME NEW p \in Procs, Terminate(p) PROVE Stages'
  BY <1>10, AfterStopSteps DEF Terminate
<1>11. ASSUME NEW p \in Procs, Pid1(p) PROVE Stages'
  BY <1>11 DEF Pid1, Fail, End, Started
<1>12. ASSUME NEW p \in Procs, Answers(p) PROVE Stages'
  BY <1>12 DEF Answers, End
<1>13. ASSUME NEW p \in Procs, Gives(p) PROVE Stages'
  BY <1>13 DEF Gives, Fail, End
<1>14. ASSUME NEW p \in Procs, CallFails(p) PROVE Stages'
  <2>1. CASE pc[p] \in {"probe", "install", "pid1"}
    BY <1>14, <2>1 DEF CallFails, End
  <2>2. CASE pc[p] \in {"configure", "wait"}
    BY <1>14, <2>2, FailSteps DEF CallFails
  <2>3. CASE pc[p] = "terminate"
    BY <1>14, <2>3, AfterStopSteps DEF CallFails
  <2> QED
    BY <1>14, <2>1, <2>2, <2>3 DEF CallFails
<1>15. ASSUME NEW p \in Procs, Kill(p) PROVE Stages'
  <2>1. pc'[p] = "terminate" /\ \A q \in Procs \ {p} : pc'[q] = "idle"
    BY <1>15 DEF Kill
  <2> QED
    BY <1>15, <2>1 DEF Kill
<1>16. CASE Wake
  BY <1>16 DEF Wake, Boot
<1>17. CASE Serve
  BY <1>17 DEF Serve
<1>18. CASE OrphanEnds
  BY <1>18 DEF OrphanEnds, Installed
<1>19. CASE Reboot
  BY <1>19 DEF Reboot, User, Stop, Quiet
<1>20. CASE UserLooks
  BY <1>20 DEF UserLooks, User, Quiet, Boot
<1>21. CASE UserBreaks
  BY <1>21 DEF UserBreaks, User, Quiet
<1>22. CASE UNCHANGED vars
  BY <1>22 DEF vars
<1> QED
  BY <1>1, <1>2, <1>3, <1>4, <1>5, <1>6, <1>7, <1>8, <1>9, <1>10, <1>11,
     <1>12, <1>13, <1>14, <1>15, <1>16, <1>17, <1>18, <1>19, <1>20, <1>21, <1>22 DEF Next

LEMMA RunningStep == SInv /\ [Next]_vars => Running'
<1> SUFFICES ASSUME SInv, [Next]_vars PROVE Running'
  OBVIOUS
<1> USE EngineAssumption DEF SInv, TypeOK, Goto, distro, Running, Starts
<1>1. ASSUME NEW p \in Procs, Begin(p) PROVE Running'
  BY <1>1 DEF Begin, First, Quiet
<1>2. ASSUME NEW p \in Procs, Attempt(p) PROVE Running'
  BY <1>2 DEF Attempt, Try
<1>3. ASSUME NEW p \in Procs, Exhausted(p) PROVE Running'
  BY <1>3 DEF Exhausted, End
<1>4. ASSUME NEW p \in Procs, Fetched(p) PROVE Running'
  BY <1>4 DEF Fetched, Installed
<1>5. ASSUME NEW p \in Procs, FetchFails(p) PROVE Running'
  BY <1>5 DEF FetchFails
<1>6. ASSUME NEW p \in Procs, FetchDies(p) PROVE Running'
  BY <1>6 DEF FetchDies
<1>7. ASSUME NEW p \in Procs, Probe(p) PROVE Running'
  BY <1>7 DEF Probe
<1>8. ASSUME NEW p \in Procs, Import(p) PROVE Running'
  BY <1>8 DEF Import
<1>9. ASSUME NEW p \in Procs, Configure(p) PROVE Running'
  BY <1>9 DEF Configure, Fail, End, Started
<1>10. ASSUME NEW p \in Procs, Terminate(p) PROVE Running'
  BY <1>10 DEF Terminate, Stop, AfterStop, End
<1>11. ASSUME NEW p \in Procs, Pid1(p) PROVE Running'
  BY <1>11 DEF Pid1, Fail, End, Started
<1>12. ASSUME NEW p \in Procs, Answers(p) PROVE Running'
  BY <1>12 DEF Answers, End
<1>13. ASSUME NEW p \in Procs, Gives(p) PROVE Running'
  BY <1>13 DEF Gives, Fail, End
<1>14. ASSUME NEW p \in Procs, CallFails(p) PROVE Running'
  BY <1>14 DEF CallFails, Fail, End, AfterStop
<1>15. ASSUME NEW p \in Procs, Kill(p) PROVE Running'
  BY <1>15 DEF Kill
<1>16. CASE Wake
  BY <1>16 DEF Wake, Boot
<1>17. CASE Serve
  BY <1>17 DEF Serve
<1>18. CASE OrphanEnds
  BY <1>18 DEF OrphanEnds, Installed
<1>19. CASE Reboot
  BY <1>19 DEF Reboot, User, Stop, Quiet
<1>20. CASE UserLooks
  BY <1>20 DEF UserLooks, User, Quiet, Boot
<1>21. CASE UserBreaks
  BY <1>21 DEF UserBreaks, User, Quiet
<1>22. CASE UNCHANGED vars
  BY <1>22 DEF vars
<1> QED
  BY <1>1, <1>2, <1>3, <1>4, <1>5, <1>6, <1>7, <1>8, <1>9, <1>10, <1>11,
     <1>12, <1>13, <1>14, <1>15, <1>16, <1>17, <1>18, <1>19, <1>20, <1>21, <1>22 DEF Next

LEMMA MeetsStep == SInv /\ [Next]_vars => Meets'
<1> SUFFICES ASSUME SInv, [Next]_vars PROVE Meets'
  OBVIOUS
<1> USE EngineAssumption DEF SInv, TypeOK, Goto, distro, Stages, Meets
<1>1. ASSUME NEW p \in Procs, Begin(p) PROVE Meets'
  <2>1. hit' <=> ~Quiet \/ cut \/ apt # NoProc
    BY <1>1 DEF Begin
  <2>2. \A q \in Procs \ {p} : pc'[q] = pc[q]
    BY <1>1 DEF Begin
  <2>3. Quiet => \A q \in Procs : pc[q] = "idle"
    BY DEF Quiet
  <2> QED
    BY <2>1, <2>2, <2>3
<1>2. ASSUME NEW p \in Procs, Attempt(p) PROVE Meets'
  BY <1>2 DEF Attempt, Try
<1>3. ASSUME NEW p \in Procs, Exhausted(p) PROVE Meets'
  BY <1>3 DEF Exhausted, End
<1>4. ASSUME NEW p \in Procs, Fetched(p) PROVE Meets'
  BY <1>4 DEF Fetched, Installed
<1>5. ASSUME NEW p \in Procs, FetchFails(p) PROVE Meets'
  BY <1>5 DEF FetchFails
<1>6. ASSUME NEW p \in Procs, FetchDies(p) PROVE Meets'
  BY <1>6 DEF FetchDies
<1>7. ASSUME NEW p \in Procs, Probe(p) PROVE Meets'
  BY <1>7 DEF Probe
<1>8. ASSUME NEW p \in Procs, Import(p) PROVE Meets'
  BY <1>8 DEF Import
<1>9. ASSUME NEW p \in Procs, Configure(p) PROVE Meets'
  BY <1>9 DEF Configure, Fail, End, Started
<1>10. ASSUME NEW p \in Procs, Terminate(p) PROVE Meets'
  <2>1. hit => hit'
    BY <1>10 DEF Terminate
  <2>2. \A q \in Procs : pc[q] = "idle" => pc'[q] = "idle"
    BY <1>10 DEF Terminate, AfterStop, End
  <2> QED
    BY <2>1, <2>2
<1>11. ASSUME NEW p \in Procs, Pid1(p) PROVE Meets'
  BY <1>11 DEF Pid1, Fail, End, Started
<1>12. ASSUME NEW p \in Procs, Answers(p) PROVE Meets'
  BY <1>12 DEF Answers, End
<1>13. ASSUME NEW p \in Procs, Gives(p) PROVE Meets'
  BY <1>13 DEF Gives, Fail, End
<1>14. ASSUME NEW p \in Procs, CallFails(p) PROVE Meets'
  BY <1>14 DEF CallFails, Fail, End, AfterStop
<1>15. ASSUME NEW p \in Procs, Kill(p) PROVE Meets'
  BY <1>15 DEF Kill
<1>16. CASE Wake
  BY <1>16 DEF Wake, Boot
<1>17. CASE Serve
  BY <1>17 DEF Serve
<1>18. CASE OrphanEnds
  BY <1>18 DEF OrphanEnds, Installed
<1>19. CASE Reboot
  BY <1>19 DEF Reboot, User, Stop, Quiet
<1>20. CASE UserLooks
  BY <1>20 DEF UserLooks, User, Quiet, Boot
<1>21. CASE UserBreaks
  BY <1>21 DEF UserBreaks, User, Quiet
<1>22. CASE UNCHANGED vars
  BY <1>22 DEF vars
<1> QED
  BY <1>1, <1>2, <1>3, <1>4, <1>5, <1>6, <1>7, <1>8, <1>9, <1>10, <1>11,
     <1>12, <1>13, <1>14, <1>15, <1>16, <1>17, <1>18, <1>19, <1>20, <1>21, <1>22 DEF Next

LEMMA RestoredStep == SInv /\ [Next]_vars => Restored'
<1> SUFFICES ASSUME SInv, [Next]_vars PROVE Restored'
  OBVIOUS
<1> USE EngineAssumption DEF SInv, TypeOK, Goto, distro, Stages, Meets, Restored, Starts,
      Packages
<1>1. ASSUME NEW p \in Procs, Begin(p) PROVE Restored'
  BY <1>1 DEF Begin, First, Quiet
<1>2. ASSUME NEW p \in Procs, Attempt(p) PROVE Restored'
  BY <1>2 DEF Attempt, Try
<1>3. ASSUME NEW p \in Procs, Exhausted(p) PROVE Restored'
  BY <1>3 DEF Exhausted, End
<1>4. ASSUME NEW p \in Procs, Fetched(p) PROVE Restored'
  BY <1>4 DEF Fetched, Installed
<1>5. ASSUME NEW p \in Procs, FetchFails(p) PROVE Restored'
  BY <1>5 DEF FetchFails
<1>6. ASSUME NEW p \in Procs, FetchDies(p) PROVE Restored'
  BY <1>6 DEF FetchDies
<1>7. ASSUME NEW p \in Procs, Probe(p) PROVE Restored'
  BY <1>7 DEF Probe
<1>8. ASSUME NEW p \in Procs, Import(p) PROVE Restored'
  BY <1>8 DEF Import
<1>9. ASSUME NEW p \in Procs, Configure(p) PROVE Restored'
  BY <1>9 DEF Configure, Fail, End, Started
<1>10. ASSUME NEW p \in Procs, Terminate(p) PROVE Restored'
  BY <1>10 DEF Terminate, Stop, AfterStop, End
<1>11. ASSUME NEW p \in Procs, Pid1(p) PROVE Restored'
  BY <1>11 DEF Pid1, Fail, End, Started
<1>12. ASSUME NEW p \in Procs, Answers(p) PROVE Restored'
  BY <1>12 DEF Answers, End
<1>13. ASSUME NEW p \in Procs, Gives(p) PROVE Restored'
  BY <1>13 DEF Gives, Fail, End
<1>14. ASSUME NEW p \in Procs, CallFails(p) PROVE Restored'
  BY <1>14 DEF CallFails, Fail, End, AfterStop
<1>15. ASSUME NEW p \in Procs, Kill(p) PROVE Restored'
  <2>1. pc'[p] = "terminate" /\ \A q \in Procs \ {p} : pc'[q] = "idle"
    BY <1>15 DEF Kill
  <2> QED
    BY <1>15, <2>1 DEF Kill
<1>16. CASE Wake
  BY <1>16 DEF Wake, Boot
<1>17. CASE Serve
  BY <1>17 DEF Serve
<1>18. CASE OrphanEnds
  BY <1>18 DEF OrphanEnds, Installed
<1>19. CASE Reboot
  BY <1>19 DEF Reboot, User, Stop, Quiet
<1>20. CASE UserLooks
  BY <1>20 DEF UserLooks, User, Quiet, Boot
<1>21. CASE UserBreaks
  <2>1. CASE UNCHANGED packages
    BY <1>21, <2>1 DEF UserBreaks, User, Quiet
  <2>2. ASSUME NEW k \in packages, packages' = packages \ {k},
               dockerd' = IF k = "docker" THEN "down" ELSE dockerd, UNCHANGED <<conf, units>>
        PROVE  Restored'
    BY <1>21, <2>2 DEF UserBreaks, User, Quiet
  <2> QED
    BY <1>21, <2>1, <2>2 DEF UserBreaks
<1>22. CASE UNCHANGED vars
  BY <1>22 DEF vars
<1> QED
  BY <1>1, <1>2, <1>3, <1>4, <1>5, <1>6, <1>7, <1>8, <1>9, <1>10, <1>11,
     <1>12, <1>13, <1>14, <1>15, <1>16, <1>17, <1>18, <1>19, <1>20, <1>21, <1>22 DEF Next

LEMMA HealingStep == SInv /\ [Next]_vars => Healing'
<1> SUFFICES ASSUME SInv, [Next]_vars PROVE Healing'
  OBVIOUS
<1> USE EngineAssumption DEF SInv, TypeOK, Goto, distro, Stages, Running, Meets, Restored,
      Healing, Starts, Packages, Tasks, Tries
<1>1. ASSUME NEW p \in Procs, Begin(p) PROVE Healing'
  BY <1>1 DEF Begin, First, Quiet
<1>2. ASSUME NEW p \in Procs, Attempt(p) PROVE Healing'
  BY <1>2 DEF Attempt, Try
<1>3. ASSUME NEW p \in Procs, Exhausted(p) PROVE Healing'
  BY <1>3 DEF Exhausted, End
<1>4. ASSUME NEW p \in Procs, Fetched(p) PROVE Healing'
  BY <1>4 DEF Fetched, Installed
<1>5. ASSUME NEW p \in Procs, FetchFails(p) PROVE Healing'
  BY <1>5 DEF FetchFails
<1>6. ASSUME NEW p \in Procs, FetchDies(p) PROVE Healing'
  BY <1>6 DEF FetchDies
<1>7. ASSUME NEW p \in Procs, Probe(p) PROVE Healing'
  BY <1>7 DEF Probe
<1>8. ASSUME NEW p \in Procs, Import(p) PROVE Healing'
  BY <1>8 DEF Import
<1>9. ASSUME NEW p \in Procs, Configure(p) PROVE Healing'
  BY <1>9 DEF Configure, Fail, End, Started
<1>10. ASSUME NEW p \in Procs, Terminate(p) PROVE Healing'
  <2>1. /\ up' = FALSE /\ apt' = NoProc /\ cut' \in {cut, cut \/ apt # NoProc}
        /\ hit' <=> hit \/ apt # NoProc
        /\ UNCHANGED <<task, tries, packages>>
    BY <1>10 DEF Terminate, Stop
  <2>2. \A q \in Procs \ {p} : pc'[q] = pc[q] /\ (~hit => pc[q] = "idle")
    BY <1>10, AfterStopSteps DEF Terminate
  <2>3. pc'[p] \in {"wait", "pid1", "idle"}
    BY <1>10, AfterStopSteps DEF Terminate
  <2> QED
    BY <2>1, <2>2, <2>3
<1>11. ASSUME NEW p \in Procs, Pid1(p) PROVE Healing'
  BY <1>11 DEF Pid1, Fail, End, Started
<1>12. ASSUME NEW p \in Procs, Answers(p) PROVE Healing'
  BY <1>12 DEF Answers, End
<1>13. ASSUME NEW p \in Procs, Gives(p) PROVE Healing'
  BY <1>13 DEF Gives, Fail, End
<1>14. ASSUME NEW p \in Procs, CallFails(p) PROVE Healing'
  BY <1>14 DEF CallFails, Fail, End, AfterStop
<1>15. ASSUME NEW p \in Procs, Kill(p) PROVE Healing'
  BY <1>15 DEF Kill
<1>16. CASE Wake
  BY <1>16 DEF Wake, Boot
<1>17. CASE Serve
  BY <1>17 DEF Serve
<1>18. CASE OrphanEnds
  BY <1>18 DEF OrphanEnds, Installed
<1>19. CASE Reboot
  BY <1>19 DEF Reboot, User, Stop, Quiet
<1>20. CASE UserLooks
  BY <1>20 DEF UserLooks, User, Quiet, Boot
<1>21. CASE UserBreaks
  <2>1. CASE UNCHANGED packages
    BY <1>21, <2>1 DEF UserBreaks, User, Quiet
  <2>2. ASSUME NEW k \in packages, packages' = packages \ {k},
               dockerd' = IF k = "docker" THEN "down" ELSE dockerd, UNCHANGED <<conf, units>>
        PROVE  Healing'
    BY <1>21, <2>2 DEF UserBreaks, User, Quiet
  <2> QED
    BY <1>21, <2>1, <2>2 DEF UserBreaks
<1>22. CASE UNCHANGED vars
  BY <1>22 DEF vars
<1> QED
  BY <1>1, <1>2, <1>3, <1>4, <1>5, <1>6, <1>7, <1>8, <1>9, <1>10, <1>11,
     <1>12, <1>13, <1>14, <1>15, <1>16, <1>17, <1>18, <1>19, <1>20, <1>21, <1>22 DEF Next

LEMMA RepairedStep == SInv /\ [Next]_vars => StaysRepaired'
<1> SUFFICES ASSUME SInv, [Next]_vars PROVE StaysRepaired'
  OBVIOUS
<1> USE EngineAssumption DEF SInv, TypeOK, Goto, distro, Stages, Running, Meets, Restored,
      Healing, StaysRepaired, Starts, Packages
<1>1. ASSUME NEW p \in Procs, Begin(p) PROVE StaysRepaired'
  BY <1>1 DEF Begin, First, Quiet
<1>2. ASSUME NEW p \in Procs, Attempt(p) PROVE StaysRepaired'
  BY <1>2 DEF Attempt, Try
<1>3. ASSUME NEW p \in Procs, Exhausted(p) PROVE StaysRepaired'
  BY <1>3 DEF Exhausted, End
<1>4. ASSUME NEW p \in Procs, Fetched(p) PROVE StaysRepaired'
  BY <1>4 DEF Fetched, Installed
<1>5. ASSUME NEW p \in Procs, FetchFails(p) PROVE StaysRepaired'
  BY <1>5 DEF FetchFails
<1>6. ASSUME NEW p \in Procs, FetchDies(p) PROVE StaysRepaired'
  BY <1>6 DEF FetchDies
<1>7. ASSUME NEW p \in Procs, Probe(p) PROVE StaysRepaired'
  BY <1>7 DEF Probe
<1>8. ASSUME NEW p \in Procs, Import(p) PROVE StaysRepaired'
  BY <1>8 DEF Import
<1>9. ASSUME NEW p \in Procs, Configure(p) PROVE StaysRepaired'
  BY <1>9 DEF Configure, Fail, End, Started
<1>10. ASSUME NEW p \in Procs, Terminate(p) PROVE StaysRepaired'
  BY <1>10 DEF Terminate, Stop, AfterStop, End
<1>11. ASSUME NEW p \in Procs, Pid1(p) PROVE StaysRepaired'
  BY <1>11 DEF Pid1, Fail, End, Started
<1>12. ASSUME NEW p \in Procs, Answers(p) PROVE StaysRepaired'
  BY <1>12 DEF Answers, End
<1>13. ASSUME NEW p \in Procs, Gives(p) PROVE StaysRepaired'
  BY <1>13 DEF Gives, Fail, End
<1>14. ASSUME NEW p \in Procs, CallFails(p) PROVE StaysRepaired'
  <2>1. CASE pc[p] = "probe"
    BY <1>14, <2>1 DEF CallFails
  <2>2. CASE pc[p] = "pid1"
    BY <1>14, <2>2 DEF CallFails
  <2>3. CASE pc[p] = "configure"
    <3>1. (conf => conf') /\ (units => units')
      BY <1>14, <2>3 DEF CallFails
    <3> QED
      BY <1>14, <3>1 DEF CallFails
  <2>4. CASE pc[p] = "terminate"
    BY <1>14, <2>4 DEF CallFails, AfterStop, End
  <2>5. CASE pc[p] = "wait"
    BY <1>14, <2>5, FailSteps DEF CallFails
  <2>6. CASE pc[p] = "install"
    BY <1>14, <2>6 DEF CallFails, End
  <2> QED
    BY <1>14, <2>1, <2>2, <2>3, <2>4, <2>5, <2>6 DEF CallFails
<1>15. ASSUME NEW p \in Procs, Kill(p) PROVE StaysRepaired'
  BY <1>15 DEF Kill
<1>16. CASE Wake
  BY <1>16 DEF Wake, Boot
<1>17. CASE Serve
  BY <1>17 DEF Serve
<1>18. CASE OrphanEnds
  BY <1>18 DEF OrphanEnds, Installed
<1>19. CASE Reboot
  BY <1>19 DEF Reboot, User, Stop, Quiet
<1>20. CASE UserLooks
  BY <1>20 DEF UserLooks, User, Quiet, Boot
<1>21. CASE UserBreaks
  BY <1>21 DEF UserBreaks, User, Quiet
<1>22. CASE UNCHANGED vars
  BY <1>22 DEF vars
<1> QED
  BY <1>1, <1>2, <1>3, <1>4, <1>5, <1>6, <1>7, <1>8, <1>9, <1>10, <1>11,
     <1>12, <1>13, <1>14, <1>15, <1>16, <1>17, <1>18, <1>19, <1>20, <1>21, <1>22 DEF Next

THEOREM Inductive == Spec => []SInv
<1>1. SInv /\ [Next]_vars => SInv'
  BY TypeStep, StagesStep, RunningStep, MeetsStep, RestoredStep, HealingStep,
      RepairedStep DEF SInv
<1> QED
  BY InitHolds, <1>1, PTL DEF Spec

(* Every variable of the engine and its commands stays in its range. *)
THEOREM TypeCorrect == Spec => []TypeOK
<1>1. SInv => TypeOK
  BY DEF SInv
<1> QED
  BY Inductive, <1>1, PTL

(* What a repair that nothing met reported stays repaired, whatever commands, *)
(* failed calls and reboots follow, until somebody breaks it.                 *)
THEOREM Repaired == Spec => []StaysRepaired
<1>1. SInv => StaysRepaired
  BY DEF SInv
<1> QED
  BY Inductive, <1>1, PTL

Heals ==
  \A p \in Procs :
    task[p] = "fix" /\ pc[p] # "idle" /\ pc'[p] = "idle" /\ ~hit' => said' = "ok"

LEMMA HealsStep == SInv /\ [Next]_vars => Heals
<1> SUFFICES ASSUME SInv, [Next]_vars PROVE Heals
  OBVIOUS
<1> USE EngineAssumption DEF SInv, TypeOK, Goto, distro, Stages, Running, Meets, Restored,
      Healing, Starts, Packages, Tasks, Tries, Heals
<1>1. ASSUME NEW p \in Procs, Begin(p) PROVE Heals
  BY <1>1 DEF Begin, First, Quiet
<1>2. ASSUME NEW p \in Procs, Attempt(p) PROVE Heals
  BY <1>2 DEF Attempt, Try
<1>3. ASSUME NEW p \in Procs, Exhausted(p) PROVE Heals
  BY <1>3 DEF Exhausted, End
<1>4. ASSUME NEW p \in Procs, Fetched(p) PROVE Heals
  BY <1>4 DEF Fetched, Installed
<1>5. ASSUME NEW p \in Procs, FetchFails(p) PROVE Heals
  BY <1>5 DEF FetchFails
<1>6. ASSUME NEW p \in Procs, FetchDies(p) PROVE Heals
  BY <1>6 DEF FetchDies
<1>7. ASSUME NEW p \in Procs, Probe(p) PROVE Heals
  BY <1>7 DEF Probe
<1>8. ASSUME NEW p \in Procs, Import(p) PROVE Heals
  BY <1>8 DEF Import
<1>9. ASSUME NEW p \in Procs, Configure(p) PROVE Heals
  BY <1>9 DEF Configure, Fail, End, Started
<1>10. ASSUME NEW p \in Procs, Terminate(p) PROVE Heals
  BY <1>10 DEF Terminate, Stop, AfterStop, End
<1>11. ASSUME NEW p \in Procs, Pid1(p) PROVE Heals
  BY <1>11 DEF Pid1, Fail, End, Started
<1>12. ASSUME NEW p \in Procs, Answers(p) PROVE Heals
  BY <1>12 DEF Answers, End
<1>13. ASSUME NEW p \in Procs, Gives(p) PROVE Heals
  BY <1>13 DEF Gives, Fail, End
<1>14. ASSUME NEW p \in Procs, CallFails(p) PROVE Heals
  BY <1>14 DEF CallFails, Fail, End, AfterStop
<1>15. ASSUME NEW p \in Procs, Kill(p) PROVE Heals
  BY <1>15 DEF Kill
<1>16. CASE Wake
  BY <1>16 DEF Wake, Boot
<1>17. CASE Serve
  BY <1>17 DEF Serve
<1>18. CASE OrphanEnds
  BY <1>18 DEF OrphanEnds, Installed
<1>19. CASE Reboot
  BY <1>19 DEF Reboot, User, Stop, Quiet
<1>20. CASE UserLooks
  BY <1>20 DEF UserLooks, User, Quiet, Boot
<1>21. CASE UserBreaks
  BY <1>21 DEF UserBreaks, User, Quiet
<1>22. CASE UNCHANGED vars
  BY <1>22 DEF vars
<1> QED
  BY <1>1, <1>2, <1>3, <1>4, <1>5, <1>6, <1>7, <1>8, <1>9, <1>10, <1>11,
     <1>12, <1>13, <1>14, <1>15, <1>16, <1>17, <1>18, <1>19, <1>20, <1>21, <1>22 DEF Next

(* doctor --fix that no fault and no other command meets ends well. *)
THEOREM FixAlwaysHeals == Spec => FixHeals
<1>1. SInv /\ [Next]_vars => [Heals]_vars
  BY HealsStep
<1>2. Spec => [][Heals]_vars
  BY Inductive, <1>1, PTL DEF Spec
<1> QED
  BY <1>2 DEF FixHeals, Heals

-----------------------------------------------------------------------------
(* How long a command can be                                                *)

\* Attempts of RunRetry that are left.
Rest(p) == Tries(task[p]) - tries[p]

\* What an engine from the image that does not come up costs a setup: an install.
Reinstall(p) == IF task[p] = "setup" /\ tries[p] = 0 THEN 11 ELSE 0

\* An upper bound of the steps that are left to p: an attempt takes two, and what
\* follows the last attempt five at most.
Rank(p) ==
  CASE pc[p] = "idle"      -> 0
    [] pc[p] = "wait"      -> 1 + Reinstall(p)
    [] pc[p] = "pid1"      -> 2 + Reinstall(p)
    [] pc[p] = "terminate" -> 3 + Reinstall(p)
    [] pc[p] = "configure" -> 4 + Reinstall(p)
    [] pc[p] = "kill"      -> 4
    [] pc[p] = "install"   -> 5 + 2 * Rest(p)
    [] pc[p] = "apt"       -> 6 + 2 * Rest(p)
    [] pc[p] = "probe"     -> 10
    [] pc[p] = "import"    -> 16

\* What p does once it runs, its failures included.
Own(p) == Proceeds(p) \/ FetchFails(p) \/ CallFails(p)

Nears(p) ==
  pc[p] # "idle" => /\ Rank(p)' <= Rank(p)
                    /\ Own(p) => Rank(p)' < Rank(p)

LEMMA RankRange ==
  ASSUME TypeOK, NEW p \in Procs
  PROVE  /\ Rank(p) \in 0 .. 16
         /\ pc[p] # "idle" => Rank(p) > 0
<1>1. Rest(p) \in 0 .. 3
  BY DEF TypeOK, Rest, Tries
<1>2. Reinstall(p) \in {0, 11}
  BY DEF Reinstall
<1>3. pc[p] \in Steps
  BY DEF TypeOK
<1>4. pc[p] = "apt" \/ pc[p] = "install" => Rank(p) \in 5 .. 12
  BY <1>1 DEF Rank
<1> QED
  BY <1>2, <1>3, <1>4 DEF Rank, Steps

\* The same of the state after a step.
LEMMA RankNext ==
  ASSUME NEW p \in Procs, TypeOK'
  PROVE  Rank(p)' \in Nat
<1>1. Rest(p)' \in Nat /\ Reinstall(p)' \in Nat
  BY DEF TypeOK, Rest, Reinstall, Tries
<1>2. pc'[p] \in Steps
  BY DEF TypeOK
<1> QED
  BY <1>1, <1>2 DEF Rank, Steps

LEMMA FailFalls ==
  ASSUME SInv, NEW p \in Procs, Fail(p), pc[p] \in {"configure", "pid1", "wait"},
         task' = task, tries' = tries
  PROVE  Rank(p)' < Rank(p)
<1>1. Reinstall(p) \in {0, 11}
  BY DEF Reinstall
<1>2. Rank(p) \in Nat /\ Rank(p) >= 1 + Reinstall(p)
  BY <1>1 DEF Rank
<1>3. CASE task[p] = "setup" /\ tries[p] = 0
  <2>1. pc'[p] = "install"
    BY <1>3 DEF Fail, Goto, SInv, TypeOK
  <2>2. Rank(p)' = 11
    BY <1>3, <2>1 DEF Rank, Rest, Tries
  <2> QED
    BY <1>1, <1>2, <1>3, <2>2 DEF Reinstall
<1>4. CASE ~(task[p] = "setup" /\ tries[p] = 0)
  <2>1. pc'[p] = "idle"
    BY <1>4 DEF Fail, End, Goto, SInv, TypeOK
  <2>2. Rank(p)' = 0
    BY <2>1 DEF Rank
  <2> QED
    BY <1>1, <1>2, <2>2, RankRange DEF SInv
<1> QED
  BY <1>3, <1>4

\* A command that ends has nothing left.
LEMMA EndFalls ==
  ASSUME SInv, NEW p \in Procs, pc[p] # "idle", pc'[p] = "idle"
  PROVE  Rank(p)' < Rank(p)
<1>1. Rank(p)' = 0
  BY DEF Rank
<1> QED
  BY <1>1, RankRange DEF SInv

LEMMA OwnFalls ==
  ASSUME SInv, NEW p \in Procs, Own(p)
  PROVE  Rank(p)' < Rank(p)
<1>0. TypeOK /\ Stages
  BY DEF SInv
<1>1. tries[p] \in Nat /\ tries[p] <= Tries(task[p]) /\ Tries(task[p]) \in {2, 3}
  BY <1>0 DEF TypeOK, Tries
<1>2. Rest(p) \in Nat /\ Reinstall(p) \in {0, 11}
  BY <1>1 DEF Rest, Reinstall
<1>3. CASE Attempt(p)
  <2>1. /\ pc[p] = "install" /\ pc'[p] \in {"install", "apt"} /\ task' = task
        /\ tries'[p] = tries[p] + 1
    BY <1>3, <1>0 DEF Attempt, Try, Goto, TypeOK
  <2>2. Rest(p)' = Rest(p) - 1
    BY <1>1, <2>1 DEF Rest, Tries
  <2>3. Rank(p) = 5 + 2 * Rest(p)
    BY <2>1 DEF Rank
  <2>4. Rank(p)' \in {5 + 2 * Rest(p)', 6 + 2 * Rest(p)'}
    BY <2>1 DEF Rank
  <2> QED
    BY <1>2, <2>2, <2>3, <2>4
<1>4. CASE Exhausted(p)
  BY <1>4, <1>0, EndFalls DEF Exhausted, End, Goto, TypeOK
<1>5. CASE Fetched(p) \/ FetchFails(p) \/ FetchDies(p)
  <2>1. /\ pc[p] = "apt" /\ task' = task /\ tries' = tries
        /\ pc'[p] \in {"install", "configure", "wait"}
    BY <1>5, <1>0 DEF Fetched, FetchFails, FetchDies, Goto, TypeOK
  <2>2. Rank(p) = 6 + 2 * Rest(p)
    BY <2>1 DEF Rank
  <2>3. Rest(p)' = Rest(p) /\ Reinstall(p)' = 0
    BY <1>0, <2>1 DEF Rest, Reinstall, Stages
  <2>4. Rank(p)' \in {1, 4, 5 + 2 * Rest(p)}
    BY <2>1, <2>3 DEF Rank
  <2> QED
    BY <1>2, <2>2, <2>4
<1>6. CASE Probe(p)
  <2>1. /\ pc[p] = "probe" /\ task[p] = "fix" /\ task' = task /\ tries' = tries
        /\ pc'[p] \in {"install", "configure"}
    BY <1>6, <1>0 DEF Probe, Goto, TypeOK, Stages
  <2>2. Rank(p) = 10 /\ Rest(p)' \in 0 .. 2 /\ Reinstall(p)' = 0
    BY <1>1, <2>1 DEF Rank, Rest, Reinstall, Tries
  <2>3. Rank(p)' \in {4, 5 + 2 * Rest(p)'}
    BY <2>1, <2>2 DEF Rank
  <2> QED
    BY <2>2, <2>3
<1>7. CASE Import(p)
  <2>1. pc[p] = "import" /\ pc'[p] \in {"install", "configure"} /\ task' = task /\ tries' = tries
    BY <1>7, <1>0 DEF Import, Goto, TypeOK
  <2>2. Rank(p) = 16 /\ Rest(p)' \in 0 .. 3 /\ Reinstall(p)' \in {0, 11}
    BY <1>1, <2>1 DEF Rank, Rest, Reinstall, Tries
  <2>3. Rank(p)' \in {4 + Reinstall(p)', 5 + 2 * Rest(p)'}
    BY <2>1, <2>2 DEF Rank
  <2> QED
    BY <2>2, <2>3
<1>8. CASE Configure(p)
  <2>1. pc[p] = "configure" /\ task' = task /\ tries' = tries
    BY <1>8 DEF Configure
  <2>2. CASE Goto(p, "terminate")
    <3>1. pc'[p] = "terminate" /\ Reinstall(p)' = Reinstall(p)
      BY <1>0, <2>1, <2>2 DEF Goto, TypeOK, Reinstall
    <3> QED
      BY <1>2, <2>1, <3>1 DEF Rank
  <2> QED
    BY <1>8, <2>1, <2>2, FailFalls DEF Configure
<1>9. CASE pc[p] = "terminate" /\ AfterStop(p) /\ task' = task /\ tries' = tries
  <2>1. task[p] \in {"fix", "setup", "shutdown"} /\ Reinstall(p)' = Reinstall(p)
    BY <1>9, <1>0 DEF Stages, Reinstall
  <2>2. pc'[p] \in {"wait", "pid1", "idle"}
    BY <1>9, <1>0, <2>1, AfterStopSteps DEF TypeOK
  <2> QED
    BY <1>2, <1>9, <2>1, <2>2 DEF Rank
<1>10. CASE Pid1(p)
  <2>1. pc[p] = "pid1" /\ task' = task /\ tries' = tries
    BY <1>10 DEF Pid1
  <2>2. CASE Goto(p, "wait")
    <3>1. pc'[p] = "wait" /\ Reinstall(p)' = Reinstall(p)
      BY <1>0, <2>1, <2>2 DEF Goto, TypeOK, Reinstall
    <3> QED
      BY <1>2, <2>1, <3>1 DEF Rank
  <2> QED
    BY <1>10, <2>1, <2>2, FailFalls DEF Pid1
<1>11. CASE Answers(p)
  BY <1>11, <1>0, EndFalls DEF Answers, End, Goto, TypeOK
<1>12. CASE Gives(p)
  BY <1>12, FailFalls DEF Gives
<1>13. CASE Kill(p)
  <2>1. /\ pc[p] = "kill" /\ pc'[p] = "terminate" /\ task[p] = "shutdown" /\ task' = task
    BY <1>13, <1>0 DEF Kill, Stages
  <2>2. Reinstall(p)' = 0
    BY <2>1 DEF Reinstall
  <2> QED
    BY <2>1, <2>2 DEF Rank
<1>14. CASE CallFails(p)
  <2>1. task' = task /\ tries' = tries
    BY <1>14 DEF CallFails
  <2>2. CASE pc[p] = "probe"
    <3>1. pc'[p] = "install" /\ task[p] = "fix"
      BY <1>14, <1>0, <2>2 DEF CallFails, Goto, TypeOK, Stages
    <3>2. Rest(p)' \in 0 .. 2
      BY <1>1, <2>1, <3>1 DEF Rest, Tries
    <3> QED
      BY <2>2, <3>1, <3>2 DEF Rank
  <2>3. CASE pc[p] = "install"
    BY <1>14, <1>0, <2>3, EndFalls DEF CallFails, End, Goto, TypeOK
  <2>4. CASE pc[p] = "pid1"
    <3>1. pc'[p] = "wait" /\ Reinstall(p)' = Reinstall(p)
      BY <1>14, <1>0, <2>1, <2>4 DEF CallFails, Goto, TypeOK, Reinstall
    <3> QED
      BY <1>2, <2>4, <3>1 DEF Rank
  <2>5. CASE pc[p] \in {"configure", "wait"}
    BY <1>14, <2>1, <2>5, FailFalls DEF CallFails
  <2>6. CASE pc[p] = "terminate"
    BY <1>14, <1>9, <2>1, <2>6 DEF CallFails
  <2> QED
    BY <1>14, <2>2, <2>3, <2>4, <2>5, <2>6 DEF CallFails
<1>15. CASE Terminate(p)
  BY <1>9, <1>15 DEF Terminate
<1> QED
  BY <1>3, <1>4, <1>5, <1>6, <1>7, <1>8, <1>10, <1>11, <1>12, <1>13, <1>14, <1>15
     DEF Own, Proceeds

\* What another process or the world does leaves p where it is, or ends it.
LEMMA OthersSpare ==
  ASSUME SInv, [Next]_vars, NEW p \in Procs, pc[p] # "idle"
  PROVE  \/ Own(p)
         \/ pc'[p] = "idle"
         \/ pc'[p] = pc[p] /\ task'[p] = task[p] /\ tries'[p] = tries[p]
<1>0. TypeOK
  BY DEF SInv
<1>1. ASSUME NEW q \in Procs, Begin(q)
      PROVE  pc'[p] = pc[p] /\ task'[p] = task[p] /\ tries'[p] = tries[p]
  <2>1. q # p
    BY <1>1 DEF Begin
  <2> QED
    BY <1>0, <1>1, <2>1 DEF Begin, Goto, TypeOK
<1>2. ASSUME NEW q \in Procs \ {p}, Attempt(q)
      PROVE  pc'[p] = pc[p] /\ task'[p] = task[p] /\ tries'[p] = tries[p]
  BY <1>0, <1>2 DEF Attempt, Try, Goto, TypeOK
<1>3. ASSUME NEW q \in Procs \ {p}, Fetched(q) \/ FetchFails(q) \/ FetchDies(q) \/ Probe(q) \/ Import(q)
      PROVE  pc'[p] = pc[p] /\ task'[p] = task[p] /\ tries'[p] = tries[p]
  BY <1>0, <1>3 DEF Fetched, FetchFails, FetchDies, Probe, Import, Goto, TypeOK
<1>4. ASSUME NEW q \in Procs \ {p}, Fail(q)
      PROVE  pc'[p] = pc[p]
  BY <1>0, <1>4 DEF Fail, End, Goto, TypeOK
<1>5. ASSUME NEW q \in Procs \ {p}, AfterStop(q), pc[q] = "terminate"
      PROVE  pc'[p] = pc[p]
  <2>1. task[q] \in {"fix", "setup", "shutdown"}
    BY <1>5 DEF SInv, Stages
  <2> QED
    BY <1>0, <1>5, <2>1, AfterStopSteps DEF TypeOK
<1>6. ASSUME NEW q \in Procs \ {p}, Exhausted(q) \/ Answers(q)
      PROVE  pc'[p] = pc[p] /\ task'[p] = task[p] /\ tries'[p] = tries[p]
  BY <1>0, <1>6 DEF Exhausted, Answers, End, Goto, TypeOK
<1>7. ASSUME NEW q \in Procs \ {p}, Configure(q) \/ Terminate(q) \/ Pid1(q) \/ Gives(q)
      PROVE  pc'[p] = pc[p] /\ task'[p] = task[p] /\ tries'[p] = tries[p]
  BY <1>0, <1>4, <1>5, <1>7 DEF Configure, Terminate, Pid1, Gives, Goto, TypeOK
<1>8. ASSUME NEW q \in Procs \ {p}, CallFails(q)
      PROVE  pc'[p] = pc[p] /\ task'[p] = task[p] /\ tries'[p] = tries[p]
  BY <1>0, <1>4, <1>5, <1>8 DEF CallFails, End, Goto, TypeOK
<1>9. ASSUME NEW q \in Procs \ {p}, Kill(q) PROVE pc'[p] = "idle"
  BY <1>9 DEF Kill
<1>10. CASE Wake \/ Serve \/ OrphanEnds
  BY <1>10 DEF Wake, Serve, OrphanEnds
<1>11. CASE Reboot
  BY <1>11 DEF Reboot
<1>12. CASE UserLooks \/ UserBreaks
  BY <1>12 DEF UserLooks, UserBreaks, User
<1>13. CASE UNCHANGED vars
  BY <1>13 DEF vars
<1> QED
  BY <1>1, <1>2, <1>3, <1>6, <1>7, <1>8, <1>9, <1>10, <1>11, <1>12, <1>13
     DEF Next, Own, Proceeds

LEMMA NearsStep == SInv /\ [Next]_vars => \A p \in Procs : Nears(p)
<1> SUFFICES ASSUME SInv, [Next]_vars, NEW p \in Procs, pc[p] # "idle"
             PROVE  /\ Rank(p)' <= Rank(p)
                    /\ Own(p) => Rank(p)' < Rank(p)
  BY DEF Nears
<1>1. Rank(p) \in Nat
  BY RankRange DEF SInv
<1>2. CASE Own(p)
  <2>1. Rank(p)' < Rank(p)
    BY <1>2, OwnFalls
  <2>2. Rank(p)' \in Nat
    BY TypeStep, RankNext
  <2> QED
    BY <1>1, <2>1, <2>2
<1>3. CASE pc'[p] = "idle"
  <2>1. Rank(p)' = 0
    BY <1>3 DEF Rank
  <2> QED
    BY <1>1, <1>3, <2>1, EndFalls
<1>4. CASE pc'[p] = pc[p] /\ task'[p] = task[p] /\ tries'[p] = tries[p] /\ ~Own(p)
  <2>1. Rest(p)' = Rest(p) /\ Reinstall(p)' = Reinstall(p)
    BY <1>4 DEF Rest, Reinstall
  <2>2. Rank(p)' = Rank(p)
    BY <1>4, <2>1 DEF Rank
  <2> QED
    BY <1>1, <1>4, <2>2
<1> QED
  BY <1>2, <1>3, <1>4, OthersSpare

(* A command runs for sixteen steps of its own at most, whatever fails and whoever *)
(* works beside it: RunRetry gives up, an engine from the image is installed again *)
(* once, and neither loop starts the other anew.                                   *)
THEOREM CommandsAreShort ==
  Spec => /\ [](\A p \in Procs : Rank(p) \in 0 .. 16)
          /\ [][\A p \in Procs : Nears(p)]_vars
<1>1. SInv => \A p \in Procs : Rank(p) \in 0 .. 16
  BY RankRange DEF SInv
<1>2. SInv /\ [Next]_vars => [\A p \in Procs : Nears(p)]_vars
  BY NearsStep
<1> QED
  BY Inductive, <1>1, <1>2, PTL DEF Spec
=============================================================================
