------------------------------ MODULE SetupProofs ------------------------------
(* Proofs about Setup, for any number of processes, directories and commands. *)
EXTENDS Setup, TLAPS

\* The distro that an import leaves, and the one that setup then tests.
LEMMA DistroType ==
  /\ NoDistro \in Distro
  /\ \A d \in Paths : [path |-> d, ready |-> FALSE] \in Distro
  BY DEF Distro

LEMMA ReadyType ==
  ASSUME distro \in Distro, distro # NoDistro
  PROVE  /\ [distro EXCEPT !.ready = TRUE] \in Distro
         /\ [distro EXCEPT !.ready = TRUE].ready
  BY DEF Distro

LEMMA TypeStep == TypeOK /\ [Next]_vars => TypeOK'
<1> SUFFICES ASSUME TypeOK, [Next]_vars PROVE TypeOK'
  OBVIOUS
<1> USE SetupAssumption DEF TypeOK, Config, SetupAt, UninstallAt, RepairAt,
        Goto, End, Fail, Forget, SaveFlag, SaveConfig, Without, Registered,
        disk, local, events, counts
<1>1. ASSUME NEW p \in Procs, Begin(p) PROVE TypeOK'
  BY <1>1 DEF Begin
<1>2. ASSUME NEW p \in Procs, Look(p) PROVE TypeOK'
  BY <1>2 DEF Look, Saw
<1>3. ASSUME NEW p \in Procs, Decline(p) PROVE TypeOK'
  BY <1>3 DEF Decline
<1>4. ASSUME NEW p \in Procs, Unregister(p) PROVE TypeOK'
  BY <1>4, DistroType DEF Unregister
<1>5. ASSUME NEW p \in Procs, Reset(p) PROVE TypeOK'
  BY <1>5 DEF Reset
<1>6. ASSUME NEW p \in Procs, ChoosePath(p) PROVE TypeOK'
  BY <1>6 DEF ChoosePath
<1>7. ASSUME NEW p \in Procs, Fetch(p) PROVE TypeOK'
  BY <1>7 DEF Fetch
<1>8. ASSUME NEW p \in Procs, Import(p) PROVE TypeOK'
  BY <1>8, DistroType DEF Import, Imported
<1>9. ASSUME NEW p \in Procs, Test(p) PROVE TypeOK'
  <2>1. CASE RetryOrFail(p)
    BY <1>9, <2>1 DEF Test, RetryOrFail
  <2>2. CASE ~RetryOrFail(p)
    BY <1>9, <2>2 DEF Test
  <2> QED
    BY <2>1, <2>2
<1>10. ASSUME NEW p \in Procs, Engine(p) PROVE TypeOK'
  <2>1. CASE Registered /\ distro' = [distro EXCEPT !.ready = TRUE]
    <3>1. distro' \in Distro
      BY <2>1, ReadyType
    <3> QED
      BY <1>10, <2>1, <3>1 DEF Engine, RetryOrFail
  <2>2. CASE RetryOrFail(p)
    BY <1>10, <2>2 DEF Engine, RetryOrFail
  <2> QED
    BY <1>10, <2>1, <2>2 DEF Engine
<1>11. ASSUME NEW p \in Procs, Record(p) PROVE TypeOK'
  BY <1>11 DEF Record
<1>12. ASSUME NEW p \in Procs, Remember(p) PROVE TypeOK'
  <2>1. mem' \in [Procs -> Config] /\ config' \in Config
    BY <1>12 DEF Remember
  <2>2. pc' \in [Procs -> {"idle"} \cup SetupAt \cup UninstallAt \cup RepairAt]
    BY <1>12 DEF Remember
  <2> QED
    BY <1>12, <2>1, <2>2 DEF Remember
<1>13. ASSUME NEW p \in Procs, Interrupt(p) PROVE TypeOK'
  BY <1>13 DEF Interrupt
<1>14. ASSUME NEW p \in Procs, Exit(p) PROVE TypeOK'
  BY <1>14, DistroType DEF Exit, Orphaned, Imported
<1>15. ASSUME NEW p \in Procs, Gone(p) PROVE TypeOK'
  BY <1>15, DistroType DEF Gone, Saw
<1>16. ASSUME NEW p \in Procs, Erase(p) PROVE TypeOK'
  BY <1>16 DEF Erase
<1>17. ASSUME NEW p \in Procs, ForgetPath(p) PROVE TypeOK'
  BY <1>17 DEF ForgetPath
<1>18. ASSUME NEW p \in Procs, Check(p) PROVE TypeOK'
  BY <1>18 DEF Check, Saw
<1>19. ASSUME NEW p \in Procs, ClearPath(p) PROVE TypeOK'
  BY <1>19 DEF ClearPath
<1>20. ASSUME NEW p \in Procs, ClearFlag(p) PROVE TypeOK'
  BY <1>20 DEF ClearFlag
<1>21. ASSUME NEW p \in Procs, Crash(p) PROVE TypeOK'
  BY <1>21, DistroType DEF Crash, Orphaned, Imported
<1>22. CASE External
  BY <1>22, DistroType DEF External
<1>23. CASE UNCHANGED vars
  BY <1>23 DEF vars
<1> QED
  BY <1>1, <1>2, <1>3, <1>4, <1>5, <1>6, <1>7, <1>8, <1>9, <1>10, <1>11, <1>12, <1>13, <1>14,
     <1>15, <1>16, <1>17, <1>18, <1>19, <1>20, <1>21, <1>22, <1>23
     DEF Next, RunEx, Uninstall, ReconcileDistro

LEMMA TypeInit == Init => TypeOK
<1> SUFFICES ASSUME Init PROVE TypeOK
  OBVIOUS
<1>1. config \in Config /\ config.dflt \in Paths
  BY DEF Init, Config
<1>2. distro \in Distro
  BY DEF Init, Distro
<1>3. mem \in [Procs -> Config] /\ dir \in [Procs -> Paths]
  BY <1>1 DEF Init
<1>4. pc \in [Procs -> {"idle"} \cup SetupAt \cup UninstallAt \cup RepairAt]
  BY DEF Init
<1>5. started \in 0..MaxCommands /\ accidents \in 0..MaxAccidents
  BY SetupAssumption DEF Init
<1>6. faults \in Worlds /\ installed \in BOOLEAN /\ stale \in BOOLEAN
       /\ missed \in BOOLEAN /\ spoilt \in BOOLEAN
       /\ caught \in [Procs -> BOOLEAN] /\ said = "none"
  BY DEF Init
<1> QED
  BY <1>1, <1>2, <1>3, <1>4, <1>5, <1>6 DEF TypeOK

\* Every variable of setup, uninstall and repair stays in its range.
THEOREM TypeCorrect == Spec => []TypeOK
  BY TypeInit, TypeStep, PTL DEF Spec

-----------------------------------------------------------------------------
\* Without overlap one command runs at a time.
Alone ==
  Without({"overlap"}) =>
    \A p, q \in Procs : pc[p] # "idle" /\ pc[q] # "idle" => p = q

\* A setup that is about to import, and until it records the result, finds no flag.
Unflagged ==
  Without({"overlap", "saves"}) /\ ~stale =>
    \A p \in Procs : pc[p] \in {"path", "fetch", "import", "test", "engine"} => ~installed

\* It records a distro whose engine has answered.
Proven ==
  Without({"overlap"}) =>
    \A p \in Procs : pc[p] = "record" /\ Registered => distro.ready

EarnedInv == TypeOK /\ Alone /\ Unflagged /\ Proven /\ InstalledIsEarned

LEMMA AloneStep == TypeOK /\ Alone /\ [Next]_vars => Alone'
<1> SUFFICES ASSUME TypeOK /\ Alone, [Next]_vars PROVE Alone'
  OBVIOUS
<1> USE SetupAssumption DEF TypeOK, Alone, Quiet,
        Goto, End, Fail, Forget, SaveFlag, SaveConfig, Without, Registered,
        disk, local, events, counts
<1>1. ASSUME NEW p \in Procs, Begin(p) PROVE Alone'
  BY <1>1 DEF Begin
<1>2. ASSUME NEW p \in Procs, Look(p) PROVE Alone'
  BY <1>2 DEF Look, Saw
<1>3. ASSUME NEW p \in Procs, Decline(p) PROVE Alone'
  BY <1>3 DEF Decline
<1>4. ASSUME NEW p \in Procs, Unregister(p) PROVE Alone'
  BY <1>4 DEF Unregister
<1>5. ASSUME NEW p \in Procs, Reset(p) PROVE Alone'
  BY <1>5 DEF Reset
<1>6. ASSUME NEW p \in Procs, ChoosePath(p) PROVE Alone'
  BY <1>6 DEF ChoosePath
<1>7. ASSUME NEW p \in Procs, Fetch(p) PROVE Alone'
  BY <1>7 DEF Fetch
<1>8. ASSUME NEW p \in Procs, Import(p) PROVE Alone'
  BY <1>8 DEF Import, Imported
<1>9. ASSUME NEW p \in Procs, Test(p) PROVE Alone'
  BY <1>9 DEF Test, RetryOrFail
<1>10. ASSUME NEW p \in Procs, Engine(p) PROVE Alone'
  BY <1>10 DEF Engine, RetryOrFail
<1>11. ASSUME NEW p \in Procs, Record(p) PROVE Alone'
  BY <1>11 DEF Record
<1>12. ASSUME NEW p \in Procs, Remember(p) PROVE Alone'
  BY <1>12 DEF Remember
<1>13. ASSUME NEW p \in Procs, Interrupt(p) PROVE Alone'
  BY <1>13 DEF Interrupt
<1>14. ASSUME NEW p \in Procs, Exit(p) PROVE Alone'
  BY <1>14 DEF Exit, Orphaned, Imported
<1>15. ASSUME NEW p \in Procs, Gone(p) PROVE Alone'
  BY <1>15 DEF Gone, Saw
<1>16. ASSUME NEW p \in Procs, Erase(p) PROVE Alone'
  BY <1>16 DEF Erase
<1>17. ASSUME NEW p \in Procs, ForgetPath(p) PROVE Alone'
  BY <1>17 DEF ForgetPath
<1>18. ASSUME NEW p \in Procs, Check(p) PROVE Alone'
  BY <1>18 DEF Check, Saw
<1>19. ASSUME NEW p \in Procs, ClearPath(p) PROVE Alone'
  BY <1>19 DEF ClearPath
<1>20. ASSUME NEW p \in Procs, ClearFlag(p) PROVE Alone'
  BY <1>20 DEF ClearFlag
<1>21. ASSUME NEW p \in Procs, Crash(p) PROVE Alone'
  BY <1>21 DEF Crash, Orphaned, Imported
<1>22. CASE External
  BY <1>22 DEF External
<1>23. CASE UNCHANGED vars
  BY <1>23 DEF vars
<1> QED
  BY <1>1, <1>2, <1>3, <1>4, <1>5, <1>6, <1>7, <1>8, <1>9, <1>10, <1>11, <1>12, <1>13, <1>14,
     <1>15, <1>16, <1>17, <1>18, <1>19, <1>20, <1>21, <1>22, <1>23
     DEF Next, RunEx, Uninstall, ReconcileDistro

LEMMA UnflaggedStep == EarnedInv /\ [Next]_vars => Unflagged'
<1> SUFFICES ASSUME EarnedInv, [Next]_vars PROVE Unflagged'
  OBVIOUS
<1> USE SetupAssumption DEF EarnedInv, TypeOK, Alone, Unflagged, Quiet,
        Goto, End, Fail, Forget, SaveFlag, SaveConfig, Without, Registered,
        disk, local, events, counts
<1>1. ASSUME NEW p \in Procs, Begin(p) PROVE Unflagged'
  BY <1>1 DEF Begin
<1>2. ASSUME NEW p \in Procs, Look(p) PROVE Unflagged'
  BY <1>2 DEF Look, Saw
<1>3. ASSUME NEW p \in Procs, Decline(p) PROVE Unflagged'
  BY <1>3 DEF Decline
<1>4. ASSUME NEW p \in Procs, Unregister(p) PROVE Unflagged'
  BY <1>4 DEF Unregister
<1>5. ASSUME NEW p \in Procs, Reset(p) PROVE Unflagged'
  BY <1>5 DEF Reset
<1>6. ASSUME NEW p \in Procs, ChoosePath(p) PROVE Unflagged'
  BY <1>6 DEF ChoosePath
<1>7. ASSUME NEW p \in Procs, Fetch(p) PROVE Unflagged'
  BY <1>7 DEF Fetch
<1>8. ASSUME NEW p \in Procs, Import(p) PROVE Unflagged'
  BY <1>8 DEF Import, Imported
<1>9. ASSUME NEW p \in Procs, Test(p) PROVE Unflagged'
  BY <1>9 DEF Test, RetryOrFail
<1>10. ASSUME NEW p \in Procs, Engine(p) PROVE Unflagged'
  BY <1>10 DEF Engine, RetryOrFail
<1>11. ASSUME NEW p \in Procs, Record(p) PROVE Unflagged'
  BY <1>11 DEF Record
<1>12. ASSUME NEW p \in Procs, Remember(p) PROVE Unflagged'
  BY <1>12 DEF Remember
<1>13. ASSUME NEW p \in Procs, Interrupt(p) PROVE Unflagged'
  BY <1>13 DEF Interrupt
<1>14. ASSUME NEW p \in Procs, Exit(p) PROVE Unflagged'
  BY <1>14 DEF Exit, Orphaned, Imported
<1>15. ASSUME NEW p \in Procs, Gone(p) PROVE Unflagged'
  BY <1>15 DEF Gone, Saw
<1>16. ASSUME NEW p \in Procs, Erase(p) PROVE Unflagged'
  BY <1>16 DEF Erase
<1>17. ASSUME NEW p \in Procs, ForgetPath(p) PROVE Unflagged'
  BY <1>17 DEF ForgetPath
<1>18. ASSUME NEW p \in Procs, Check(p) PROVE Unflagged'
  BY <1>18 DEF Check, Saw
<1>19. ASSUME NEW p \in Procs, ClearPath(p) PROVE Unflagged'
  BY <1>19 DEF ClearPath
<1>20. ASSUME NEW p \in Procs, ClearFlag(p) PROVE Unflagged'
  BY <1>20 DEF ClearFlag
<1>21. ASSUME NEW p \in Procs, Crash(p) PROVE Unflagged'
  BY <1>21 DEF Crash, Orphaned, Imported
<1>22. CASE External
  BY <1>22 DEF External
<1>23. CASE UNCHANGED vars
  BY <1>23 DEF vars
<1> QED
  BY <1>1, <1>2, <1>3, <1>4, <1>5, <1>6, <1>7, <1>8, <1>9, <1>10, <1>11, <1>12, <1>13, <1>14,
     <1>15, <1>16, <1>17, <1>18, <1>19, <1>20, <1>21, <1>22, <1>23
     DEF Next, RunEx, Uninstall, ReconcileDistro

LEMMA ProvenStep == EarnedInv /\ [Next]_vars => Proven'
<1> SUFFICES ASSUME EarnedInv, [Next]_vars PROVE Proven'
  OBVIOUS
<1> USE SetupAssumption DEF EarnedInv, TypeOK, Alone, Proven, Quiet,
        Goto, End, Fail, Forget, SaveFlag, SaveConfig, Without, Registered,
        disk, local, events, counts
<1>1. ASSUME NEW p \in Procs, Begin(p) PROVE Proven'
  BY <1>1 DEF Begin
<1>2. ASSUME NEW p \in Procs, Look(p) PROVE Proven'
  BY <1>2 DEF Look, Saw
<1>3. ASSUME NEW p \in Procs, Decline(p) PROVE Proven'
  BY <1>3 DEF Decline
<1>4. ASSUME NEW p \in Procs, Unregister(p) PROVE Proven'
  BY <1>4 DEF Unregister
<1>5. ASSUME NEW p \in Procs, Reset(p) PROVE Proven'
  BY <1>5 DEF Reset
<1>6. ASSUME NEW p \in Procs, ChoosePath(p) PROVE Proven'
  BY <1>6 DEF ChoosePath
<1>7. ASSUME NEW p \in Procs, Fetch(p) PROVE Proven'
  BY <1>7 DEF Fetch
<1>8. ASSUME NEW p \in Procs, Import(p) PROVE Proven'
  BY <1>8 DEF Import, Imported
<1>9. ASSUME NEW p \in Procs, Test(p) PROVE Proven'
  BY <1>9 DEF Test, RetryOrFail
<1>10. ASSUME NEW p \in Procs, Engine(p) PROVE Proven'
  BY <1>10, ReadyType DEF Engine, RetryOrFail
<1>11. ASSUME NEW p \in Procs, Record(p) PROVE Proven'
  BY <1>11 DEF Record
<1>12. ASSUME NEW p \in Procs, Remember(p) PROVE Proven'
  BY <1>12 DEF Remember
<1>13. ASSUME NEW p \in Procs, Interrupt(p) PROVE Proven'
  BY <1>13 DEF Interrupt
<1>14. ASSUME NEW p \in Procs, Exit(p) PROVE Proven'
  BY <1>14 DEF Exit, Orphaned, Imported
<1>15. ASSUME NEW p \in Procs, Gone(p) PROVE Proven'
  BY <1>15 DEF Gone, Saw
<1>16. ASSUME NEW p \in Procs, Erase(p) PROVE Proven'
  BY <1>16 DEF Erase
<1>17. ASSUME NEW p \in Procs, ForgetPath(p) PROVE Proven'
  BY <1>17 DEF ForgetPath
<1>18. ASSUME NEW p \in Procs, Check(p) PROVE Proven'
  BY <1>18 DEF Check, Saw
<1>19. ASSUME NEW p \in Procs, ClearPath(p) PROVE Proven'
  BY <1>19 DEF ClearPath
<1>20. ASSUME NEW p \in Procs, ClearFlag(p) PROVE Proven'
  BY <1>20 DEF ClearFlag
<1>21. ASSUME NEW p \in Procs, Crash(p) PROVE Proven'
  BY <1>21 DEF Crash, Orphaned, Imported
<1>22. CASE External
  BY <1>22 DEF External
<1>23. CASE UNCHANGED vars
  BY <1>23 DEF vars
<1> QED
  BY <1>1, <1>2, <1>3, <1>4, <1>5, <1>6, <1>7, <1>8, <1>9, <1>10, <1>11, <1>12, <1>13, <1>14,
     <1>15, <1>16, <1>17, <1>18, <1>19, <1>20, <1>21, <1>22, <1>23
     DEF Next, RunEx, Uninstall, ReconcileDistro

LEMMA EarnedStep == EarnedInv /\ [Next]_vars => InstalledIsEarned'
<1> SUFFICES ASSUME EarnedInv, [Next]_vars PROVE InstalledIsEarned'
  OBVIOUS
<1> USE SetupAssumption DEF EarnedInv, TypeOK, Alone, Unflagged, Proven,
        InstalledIsEarned, Quiet, Goto, End, Fail, Forget, SaveFlag, SaveConfig, Without, Registered,
        disk, local, events, counts
<1>1. ASSUME NEW p \in Procs, Begin(p) PROVE InstalledIsEarned'
  BY <1>1 DEF Begin
<1>2. ASSUME NEW p \in Procs, Look(p) PROVE InstalledIsEarned'
  BY <1>2 DEF Look, Saw
<1>3. ASSUME NEW p \in Procs, Decline(p) PROVE InstalledIsEarned'
  BY <1>3 DEF Decline
<1>4. ASSUME NEW p \in Procs, Unregister(p) PROVE InstalledIsEarned'
  BY <1>4 DEF Unregister
<1>5. ASSUME NEW p \in Procs, Reset(p) PROVE InstalledIsEarned'
  BY <1>5 DEF Reset
<1>6. ASSUME NEW p \in Procs, ChoosePath(p) PROVE InstalledIsEarned'
  BY <1>6 DEF ChoosePath
<1>7. ASSUME NEW p \in Procs, Fetch(p) PROVE InstalledIsEarned'
  BY <1>7 DEF Fetch
<1>8. ASSUME NEW p \in Procs, Import(p) PROVE InstalledIsEarned'
  BY <1>8 DEF Import, Imported
<1>9. ASSUME NEW p \in Procs, Test(p) PROVE InstalledIsEarned'
  BY <1>9 DEF Test, RetryOrFail
<1>10. ASSUME NEW p \in Procs, Engine(p) PROVE InstalledIsEarned'
  BY <1>10, ReadyType DEF Engine, RetryOrFail
<1>11. ASSUME NEW p \in Procs, Record(p) PROVE InstalledIsEarned'
  BY <1>11 DEF Record
<1>12. ASSUME NEW p \in Procs, Remember(p) PROVE InstalledIsEarned'
  BY <1>12 DEF Remember
<1>13. ASSUME NEW p \in Procs, Interrupt(p) PROVE InstalledIsEarned'
  BY <1>13 DEF Interrupt
<1>14. ASSUME NEW p \in Procs, Exit(p) PROVE InstalledIsEarned'
  BY <1>14 DEF Exit, Orphaned, Imported
<1>15. ASSUME NEW p \in Procs, Gone(p) PROVE InstalledIsEarned'
  BY <1>15 DEF Gone, Saw
<1>16. ASSUME NEW p \in Procs, Erase(p) PROVE InstalledIsEarned'
  BY <1>16 DEF Erase
<1>17. ASSUME NEW p \in Procs, ForgetPath(p) PROVE InstalledIsEarned'
  BY <1>17 DEF ForgetPath
<1>18. ASSUME NEW p \in Procs, Check(p) PROVE InstalledIsEarned'
  BY <1>18 DEF Check, Saw
<1>19. ASSUME NEW p \in Procs, ClearPath(p) PROVE InstalledIsEarned'
  BY <1>19 DEF ClearPath
<1>20. ASSUME NEW p \in Procs, ClearFlag(p) PROVE InstalledIsEarned'
  BY <1>20 DEF ClearFlag
<1>21. ASSUME NEW p \in Procs, Crash(p) PROVE InstalledIsEarned'
  BY <1>21 DEF Crash, Orphaned, Imported
<1>22. CASE External
  BY <1>22 DEF External
<1>23. CASE UNCHANGED vars
  BY <1>23 DEF vars
<1> QED
  BY <1>1, <1>2, <1>3, <1>4, <1>5, <1>6, <1>7, <1>8, <1>9, <1>10, <1>11, <1>12, <1>13, <1>14,
     <1>15, <1>16, <1>17, <1>18, <1>19, <1>20, <1>21, <1>22, <1>23
     DEF Next, RunEx, Uninstall, ReconcileDistro

LEMMA SetupInit == Init => TypeOK /\ Alone /\ Unflagged /\ Proven /\ InstalledIsEarned
  BY TypeInit DEF Init, Registered, Alone, Unflagged, Proven, InstalledIsEarned

\* The install flag never stands for a distro whose engine has not answered.
THEOREM Earned == Spec => []InstalledIsEarned
<1>1. Init => EarnedInv
  BY SetupInit DEF EarnedInv
<1>2. EarnedInv /\ [Next]_vars => EarnedInv'
  BY TypeStep, AloneStep, UnflaggedStep, ProvenStep, EarnedStep DEF EarnedInv
<1>3. EarnedInv => InstalledIsEarned
  BY DEF EarnedInv
<1> QED
  BY <1>1, <1>2, <1>3, PTL DEF Spec

-----------------------------------------------------------------------------
\* Between its import and the answer of its engine a setup has the distro it imported.
Sited ==
  Without({"overlap"}) =>
    \A p \in Procs : Registered =>
      /\ pc[p] \in {"test", "engine"} => ~distro.ready
      /\ pc[p] \in {"test", "engine", "record", "remember"} => distro.path = dir[p]

\* An interrupted setup has spoilt the record and, until it remembers another path,
\* forgotten it.
Caught ==
  \A p \in Procs : caught[p] =>
    /\ "interrupt" \in faults
    /\ Without({"overlap"}) /\ pc[p] \in SetupAt => spoilt
    /\ Without({"overlap", "saves"}) /\ pc[p] \in SetupAt => config.cur = NoPath

\* A setup has a distro whose engine answered, and has still to remember its path.
Remembering == \E p \in Procs : pc[p] \in {"record", "remember"}

\* The recorded path is that of the distro, or none.
Named ==
  Without({"overlap", "crash", "saves"}) /\ Registered /\ distro.ready =>
    Remembering \/ config.cur \in {distro.path, NoPath}

\* Who clears a record or imports a distro knows that there is none, unless a look
\* missed it or WSL did not obey.
Cleared ==
  Without({"overlap"}) /\ ~spoilt =>
    \A p \in Procs :
      pc[p] \in {"reset", "path", "fetch", "import", "erase", "forget", "clearPath", "clearFlag"}
        => ~Registered

\* A setup that is about to remember its path has set the flag.
Flagged ==
  Without({"overlap", "saves"}) => \A p \in Procs : pc[p] = "remember" => installed

\* The flag of a completed distro stands, and its path is recorded, unless a setup is
\* about to.
Kept ==
  Without({"overlap", "saves"}) /\ ~spoilt /\ Registered /\ distro.ready =>
    Remembering \/ (installed /\ config.cur = distro.path)

\* An uninstall takes the distro, unless it misses it, then the flag, then the path.
Erased ==
  Without({"overlap", "saves"}) =>
    /\ \A p \in Procs : pc[p] \in {"erase", "forget"} => (Registered => missed)
    /\ \A p \in Procs : pc[p] = "forget" => ~installed
    /\ said = "uninstalled" =>
         Quiet /\ (Registered => missed) /\ ~installed /\ config.cur = NoPath

\* A new distro, and one whose engine answers, keep their path.
LEMMA ImportedPath ==
  ASSUME NEW d \in Paths
  PROVE  /\ [path |-> d, ready |-> FALSE].path = d
         /\ ~[path |-> d, ready |-> FALSE].ready
         /\ [path |-> d, ready |-> FALSE] # NoDistro
<1>1. [path |-> d, ready |-> FALSE] \in [path : Paths, ready : BOOLEAN]
  OBVIOUS
<1> QED
  BY <1>1, SetupAssumption

LEMMA ReadyPath ==
  ASSUME distro \in Distro, distro # NoDistro
  PROVE  [distro EXCEPT !.ready = TRUE].path = distro.path
  BY DEF Distro

\* A record of config.json without its path, or with another one.
LEMMA ForgottenPath ==
  ASSUME NEW c \in Config
  PROVE  [c EXCEPT !.cur = NoPath].cur = NoPath
  BY DEF Config

LEMMA SitedStep == TypeOK /\ Alone /\ Sited /\ [Next]_vars => Sited'
<1> SUFFICES ASSUME TypeOK /\ Alone /\ Sited, [Next]_vars PROVE Sited'
  OBVIOUS
<1> USE SetupAssumption DEF TypeOK, Alone, Sited, Quiet, Goto, End, Fail, Forget,
        SaveFlag, SaveConfig, Without, Registered, disk, local, events, counts
<1>1. ASSUME NEW p \in Procs, Begin(p) PROVE Sited'
  BY <1>1 DEF Begin
<1>2. ASSUME NEW p \in Procs, Look(p) PROVE Sited'
  BY <1>2 DEF Look, Saw
<1>3. ASSUME NEW p \in Procs, Decline(p) PROVE Sited'
  BY <1>3 DEF Decline
<1>4. ASSUME NEW p \in Procs, Unregister(p) PROVE Sited'
  BY <1>4 DEF Unregister
<1>5. ASSUME NEW p \in Procs, Reset(p) PROVE Sited'
  BY <1>5 DEF Reset
<1>6. ASSUME NEW p \in Procs, ChoosePath(p) PROVE Sited'
  BY <1>6 DEF ChoosePath
<1>7. ASSUME NEW p \in Procs, Fetch(p) PROVE Sited'
  BY <1>7 DEF Fetch
<1>8. ASSUME NEW p \in Procs, Import(p) PROVE Sited'
  BY <1>8, ImportedPath DEF Import, Imported
<1>9. ASSUME NEW p \in Procs, Test(p) PROVE Sited'
  BY <1>9 DEF Test, RetryOrFail
<1>10. ASSUME NEW p \in Procs, Engine(p) PROVE Sited'
  BY <1>10, ReadyType, ReadyPath DEF Engine, RetryOrFail
<1>11. ASSUME NEW p \in Procs, Record(p) PROVE Sited'
  BY <1>11 DEF Record
<1>12. ASSUME NEW p \in Procs, Remember(p) PROVE Sited'
  BY <1>12 DEF Remember
<1>13. ASSUME NEW p \in Procs, Interrupt(p) PROVE Sited'
  BY <1>13 DEF Interrupt
<1>14. ASSUME NEW p \in Procs, Exit(p) PROVE Sited'
  BY <1>14, ImportedPath DEF Exit, Orphaned, Imported
<1>15. ASSUME NEW p \in Procs, Gone(p) PROVE Sited'
  <2>1. /\ distro' \in {distro, NoDistro} /\ UNCHANGED <<faults, dir>>
        /\ pc' \in {[pc EXCEPT ![p] = "erase"], [pc EXCEPT ![p] = "idle"]}
    BY <1>15 DEF Gone, Saw
  <2> QED
    BY <2>1
<1>16. ASSUME NEW p \in Procs, Erase(p) PROVE Sited'
  BY <1>16 DEF Erase
<1>17. ASSUME NEW p \in Procs, ForgetPath(p) PROVE Sited'
  BY <1>17 DEF ForgetPath
<1>18. ASSUME NEW p \in Procs, Check(p) PROVE Sited'
  BY <1>18 DEF Check, Saw
<1>19. ASSUME NEW p \in Procs, ClearPath(p) PROVE Sited'
  BY <1>19 DEF ClearPath
<1>20. ASSUME NEW p \in Procs, ClearFlag(p) PROVE Sited'
  BY <1>20 DEF ClearFlag
<1>21. ASSUME NEW p \in Procs, Crash(p) PROVE Sited'
  BY <1>21, ImportedPath DEF Crash, Orphaned, Imported
<1>22. CASE External
  BY <1>22 DEF External
<1>23. CASE UNCHANGED vars
  BY <1>23 DEF vars
<1> QED
  BY <1>1, <1>2, <1>3, <1>4, <1>5, <1>6, <1>7, <1>8, <1>9, <1>10, <1>11, <1>12, <1>13,
     <1>14, <1>15, <1>16, <1>17, <1>18, <1>19, <1>20, <1>21, <1>22, <1>23
     DEF Next, RunEx, Uninstall, ReconcileDistro

LEMMA CaughtStep == TypeOK /\ Alone /\ Caught /\ [Next]_vars => Caught'
<1> SUFFICES ASSUME TypeOK /\ Alone /\ Caught, [Next]_vars PROVE Caught'
  OBVIOUS
<1> USE SetupAssumption DEF TypeOK, Alone, Caught, SetupAt, Config, Quiet, Goto, End,
        Fail, Forget, SaveFlag, SaveConfig, Without, Registered, disk, local, events, counts
<1>1. ASSUME NEW p \in Procs, Begin(p) PROVE Caught'
  BY <1>1 DEF Begin
<1>2. ASSUME NEW p \in Procs, Look(p) PROVE Caught'
  BY <1>2 DEF Look, Saw
<1>3. ASSUME NEW p \in Procs, Decline(p) PROVE Caught'
  BY <1>3 DEF Decline
<1>4. ASSUME NEW p \in Procs, Unregister(p) PROVE Caught'
  BY <1>4 DEF Unregister
<1>5. ASSUME NEW p \in Procs, Reset(p) PROVE Caught'
  BY <1>5 DEF Reset
<1>6. ASSUME NEW p \in Procs, ChoosePath(p) PROVE Caught'
  BY <1>6 DEF ChoosePath
<1>7. ASSUME NEW p \in Procs, Fetch(p) PROVE Caught'
  BY <1>7 DEF Fetch
<1>8. ASSUME NEW p \in Procs, Import(p) PROVE Caught'
  BY <1>8 DEF Import, Imported
<1>9. ASSUME NEW p \in Procs, Test(p) PROVE Caught'
  BY <1>9 DEF Test, RetryOrFail
<1>10. ASSUME NEW p \in Procs, Engine(p) PROVE Caught'
  BY <1>10 DEF Engine, RetryOrFail
<1>11. ASSUME NEW p \in Procs, Record(p) PROVE Caught'
  BY <1>11 DEF Record
<1>12. ASSUME NEW p \in Procs, Remember(p) PROVE Caught'
  BY <1>12 DEF Remember
<1>13. ASSUME NEW p \in Procs, Interrupt(p) PROVE Caught'
  BY <1>13 DEF Interrupt
<1>14. ASSUME NEW p \in Procs, Exit(p) PROVE Caught'
  BY <1>14 DEF Exit, Orphaned, Imported
<1>15. ASSUME NEW p \in Procs, Gone(p) PROVE Caught'
  <2>1. /\ UNCHANGED <<faults, caught, config>> /\ (spoilt => spoilt')
        /\ pc' \in {[pc EXCEPT ![p] = "erase"], [pc EXCEPT ![p] = "idle"]}
    BY <1>15 DEF Gone, Saw
  <2> QED
    BY <2>1
<1>16. ASSUME NEW p \in Procs, Erase(p) PROVE Caught'
  BY <1>16 DEF Erase
<1>17. ASSUME NEW p \in Procs, ForgetPath(p) PROVE Caught'
  BY <1>17 DEF ForgetPath
<1>18. ASSUME NEW p \in Procs, Check(p) PROVE Caught'
  BY <1>18 DEF Check, Saw
<1>19. ASSUME NEW p \in Procs, ClearPath(p) PROVE Caught'
  BY <1>19 DEF ClearPath
<1>20. ASSUME NEW p \in Procs, ClearFlag(p) PROVE Caught'
  BY <1>20 DEF ClearFlag
<1>21. ASSUME NEW p \in Procs, Crash(p) PROVE Caught'
  BY <1>21 DEF Crash, Orphaned, Imported
<1>22. CASE External
  BY <1>22 DEF External
<1>23. CASE UNCHANGED vars
  BY <1>23 DEF vars
<1> QED
  BY <1>1, <1>2, <1>3, <1>4, <1>5, <1>6, <1>7, <1>8, <1>9, <1>10, <1>11, <1>12, <1>13,
     <1>14, <1>15, <1>16, <1>17, <1>18, <1>19, <1>20, <1>21, <1>22, <1>23
     DEF Next, RunEx, Uninstall, ReconcileDistro

LEMMA NamedStep == TypeOK /\ Alone /\ Sited /\ Caught /\ Named /\ [Next]_vars => Named'
<1> SUFFICES ASSUME TypeOK /\ Alone /\ Sited /\ Caught /\ Named, [Next]_vars PROVE Named'
  OBVIOUS
<1> USE SetupAssumption DEF TypeOK, Alone, Sited, Caught, Named, Remembering, SetupAt,
        Config, Quiet, Goto, End, Fail, Forget, SaveFlag, SaveConfig, Without,
        Registered, disk, local, events, counts
<1>1. ASSUME NEW p \in Procs, Begin(p) PROVE Named'
  BY <1>1 DEF Begin
<1>2. ASSUME NEW p \in Procs, Look(p) PROVE Named'
  BY <1>2 DEF Look, Saw
<1>3. ASSUME NEW p \in Procs, Decline(p) PROVE Named'
  BY <1>3 DEF Decline
<1>4. ASSUME NEW p \in Procs, Unregister(p) PROVE Named'
  BY <1>4 DEF Unregister
<1>5. ASSUME NEW p \in Procs, Reset(p) PROVE Named'
  BY <1>5 DEF Reset
<1>6. ASSUME NEW p \in Procs, ChoosePath(p) PROVE Named'
  BY <1>6 DEF ChoosePath
<1>7. ASSUME NEW p \in Procs, Fetch(p) PROVE Named'
  BY <1>7 DEF Fetch
<1>8. ASSUME NEW p \in Procs, Import(p) PROVE Named'
  BY <1>8, ImportedPath DEF Import, Imported
<1>9. ASSUME NEW p \in Procs, Test(p) PROVE Named'
  BY <1>9 DEF Test, RetryOrFail
<1>10. ASSUME NEW p \in Procs, Engine(p) PROVE Named'
  BY <1>10, ReadyType, ReadyPath DEF Engine, RetryOrFail
<1>11. ASSUME NEW p \in Procs, Record(p) PROVE Named'
  BY <1>11 DEF Record
<1>12. ASSUME NEW p \in Procs, Remember(p) PROVE Named'
  BY <1>12 DEF Remember
<1>13. ASSUME NEW p \in Procs, Interrupt(p) PROVE Named'
  BY <1>13 DEF Interrupt
<1>14. ASSUME NEW p \in Procs, Exit(p) PROVE Named'
  BY <1>14, ImportedPath DEF Exit, Orphaned, Imported
<1>15. ASSUME NEW p \in Procs, Gone(p) PROVE Named'
  BY <1>15 DEF Gone, Saw
<1>16. ASSUME NEW p \in Procs, Erase(p) PROVE Named'
  BY <1>16 DEF Erase
<1>17. ASSUME NEW p \in Procs, ForgetPath(p) PROVE Named'
  BY <1>17 DEF ForgetPath
<1>18. ASSUME NEW p \in Procs, Check(p) PROVE Named'
  BY <1>18 DEF Check, Saw
<1>19. ASSUME NEW p \in Procs, ClearPath(p) PROVE Named'
  BY <1>19 DEF ClearPath
<1>20. ASSUME NEW p \in Procs, ClearFlag(p) PROVE Named'
  BY <1>20 DEF ClearFlag
<1>21. ASSUME NEW p \in Procs, Crash(p) PROVE Named'
  BY <1>21, ImportedPath DEF Crash, Orphaned, Imported
<1>22. CASE External
  BY <1>22 DEF External
<1>23. CASE UNCHANGED vars
  BY <1>23 DEF vars
<1> QED
  BY <1>1, <1>2, <1>3, <1>4, <1>5, <1>6, <1>7, <1>8, <1>9, <1>10, <1>11, <1>12, <1>13,
     <1>14, <1>15, <1>16, <1>17, <1>18, <1>19, <1>20, <1>21, <1>22, <1>23
     DEF Next, RunEx, Uninstall, ReconcileDistro

LEMMA ClearedStep == TypeOK /\ Alone /\ Cleared /\ [Next]_vars => Cleared'
<1> SUFFICES ASSUME TypeOK /\ Alone /\ Cleared, [Next]_vars PROVE Cleared'
  OBVIOUS
<1> USE SetupAssumption DEF TypeOK, Alone, Cleared, Quiet, Goto, End, Fail, Forget,
        SaveFlag, SaveConfig, Without, Registered, disk, local, events, counts
<1>1. ASSUME NEW p \in Procs, Begin(p) PROVE Cleared'
  BY <1>1 DEF Begin
<1>2. ASSUME NEW p \in Procs, Look(p) PROVE Cleared'
  BY <1>2 DEF Look, Saw
<1>3. ASSUME NEW p \in Procs, Decline(p) PROVE Cleared'
  BY <1>3 DEF Decline
<1>4. ASSUME NEW p \in Procs, Unregister(p) PROVE Cleared'
  BY <1>4 DEF Unregister
<1>5. ASSUME NEW p \in Procs, Reset(p) PROVE Cleared'
  BY <1>5 DEF Reset
<1>6. ASSUME NEW p \in Procs, ChoosePath(p) PROVE Cleared'
  BY <1>6 DEF ChoosePath
<1>7. ASSUME NEW p \in Procs, Fetch(p) PROVE Cleared'
  BY <1>7 DEF Fetch
<1>8. ASSUME NEW p \in Procs, Import(p) PROVE Cleared'
  BY <1>8 DEF Import, Imported
<1>9. ASSUME NEW p \in Procs, Test(p) PROVE Cleared'
  BY <1>9 DEF Test, RetryOrFail
<1>10. ASSUME NEW p \in Procs, Engine(p) PROVE Cleared'
  BY <1>10 DEF Engine, RetryOrFail
<1>11. ASSUME NEW p \in Procs, Record(p) PROVE Cleared'
  BY <1>11 DEF Record
<1>12. ASSUME NEW p \in Procs, Remember(p) PROVE Cleared'
  BY <1>12 DEF Remember
<1>13. ASSUME NEW p \in Procs, Interrupt(p) PROVE Cleared'
  BY <1>13 DEF Interrupt
<1>14. ASSUME NEW p \in Procs, Exit(p) PROVE Cleared'
  BY <1>14 DEF Exit, Orphaned, Imported
<1>15. ASSUME NEW p \in Procs, Gone(p) PROVE Cleared'
  <2>1. CASE spoilt'
    BY <2>1
  <2>2. CASE ~spoilt'
    <3>1. ~spoilt /\ (distro' = NoDistro \/ pc' = [pc EXCEPT ![p] = "idle"])
      BY <1>15, <2>2 DEF Gone, Saw
    <3>2. /\ pc[p] = "gone" /\ UNCHANGED faults /\ distro' \in {distro, NoDistro}
          /\ pc' \in {[pc EXCEPT ![p] = "erase"], [pc EXCEPT ![p] = "idle"]}
      BY <1>15 DEF Gone
    <3> QED
      BY <3>1, <3>2
  <2> QED
    BY <2>1, <2>2
<1>16. ASSUME NEW p \in Procs, Erase(p) PROVE Cleared'
  BY <1>16 DEF Erase
<1>17. ASSUME NEW p \in Procs, ForgetPath(p) PROVE Cleared'
  BY <1>17 DEF ForgetPath
<1>18. ASSUME NEW p \in Procs, Check(p) PROVE Cleared'
  <2>1. CASE spoilt'
    BY <2>1
  <2>2. CASE ~spoilt'
    <3>1. /\ ~spoilt /\ pc[p] = "check" /\ UNCHANGED <<faults, distro>>
          /\ \/ ~Registered /\ pc' = [pc EXCEPT ![p] = "clearPath"]
             \/ pc' = [pc EXCEPT ![p] = "idle"]
      BY <1>18, <2>2 DEF Check, Saw
    <3> QED
      BY <3>1
  <2> QED
    BY <2>1, <2>2
<1>19. ASSUME NEW p \in Procs, ClearPath(p) PROVE Cleared'
  BY <1>19 DEF ClearPath
<1>20. ASSUME NEW p \in Procs, ClearFlag(p) PROVE Cleared'
  BY <1>20 DEF ClearFlag
<1>21. ASSUME NEW p \in Procs, Crash(p) PROVE Cleared'
  BY <1>21 DEF Crash, Orphaned, Imported
<1>22. CASE External
  BY <1>22 DEF External
<1>23. CASE UNCHANGED vars
  BY <1>23 DEF vars
<1> QED
  BY <1>1, <1>2, <1>3, <1>4, <1>5, <1>6, <1>7, <1>8, <1>9, <1>10, <1>11, <1>12, <1>13,
     <1>14, <1>15, <1>16, <1>17, <1>18, <1>19, <1>20, <1>21, <1>22, <1>23
     DEF Next, RunEx, Uninstall, ReconcileDistro

LEMMA FlaggedStep == TypeOK /\ Alone /\ Flagged /\ [Next]_vars => Flagged'
<1> SUFFICES ASSUME TypeOK /\ Alone /\ Flagged, [Next]_vars PROVE Flagged'
  OBVIOUS
<1> USE SetupAssumption DEF TypeOK, Alone, Flagged, Quiet, Goto, End, Fail, Forget,
        SaveFlag, SaveConfig, Without, Registered, disk, local, events, counts
<1>1. ASSUME NEW p \in Procs, Begin(p) PROVE Flagged'
  BY <1>1 DEF Begin
<1>2. ASSUME NEW p \in Procs, Look(p) PROVE Flagged'
  BY <1>2 DEF Look, Saw
<1>3. ASSUME NEW p \in Procs, Decline(p) PROVE Flagged'
  BY <1>3 DEF Decline
<1>4. ASSUME NEW p \in Procs, Unregister(p) PROVE Flagged'
  BY <1>4 DEF Unregister
<1>5. ASSUME NEW p \in Procs, Reset(p) PROVE Flagged'
  BY <1>5 DEF Reset
<1>6. ASSUME NEW p \in Procs, ChoosePath(p) PROVE Flagged'
  BY <1>6 DEF ChoosePath
<1>7. ASSUME NEW p \in Procs, Fetch(p) PROVE Flagged'
  BY <1>7 DEF Fetch
<1>8. ASSUME NEW p \in Procs, Import(p) PROVE Flagged'
  BY <1>8 DEF Import, Imported
<1>9. ASSUME NEW p \in Procs, Test(p) PROVE Flagged'
  BY <1>9 DEF Test, RetryOrFail
<1>10. ASSUME NEW p \in Procs, Engine(p) PROVE Flagged'
  BY <1>10 DEF Engine, RetryOrFail
<1>11. ASSUME NEW p \in Procs, Record(p) PROVE Flagged'
  BY <1>11 DEF Record
<1>12. ASSUME NEW p \in Procs, Remember(p) PROVE Flagged'
  BY <1>12 DEF Remember
<1>13. ASSUME NEW p \in Procs, Interrupt(p) PROVE Flagged'
  BY <1>13 DEF Interrupt
<1>14. ASSUME NEW p \in Procs, Exit(p) PROVE Flagged'
  BY <1>14 DEF Exit, Orphaned, Imported
<1>15. ASSUME NEW p \in Procs, Gone(p) PROVE Flagged'
  BY <1>15 DEF Gone, Saw
<1>16. ASSUME NEW p \in Procs, Erase(p) PROVE Flagged'
  BY <1>16 DEF Erase
<1>17. ASSUME NEW p \in Procs, ForgetPath(p) PROVE Flagged'
  BY <1>17 DEF ForgetPath
<1>18. ASSUME NEW p \in Procs, Check(p) PROVE Flagged'
  BY <1>18 DEF Check, Saw
<1>19. ASSUME NEW p \in Procs, ClearPath(p) PROVE Flagged'
  BY <1>19 DEF ClearPath
<1>20. ASSUME NEW p \in Procs, ClearFlag(p) PROVE Flagged'
  BY <1>20 DEF ClearFlag
<1>21. ASSUME NEW p \in Procs, Crash(p) PROVE Flagged'
  BY <1>21 DEF Crash, Orphaned, Imported
<1>22. CASE External
  BY <1>22 DEF External
<1>23. CASE UNCHANGED vars
  BY <1>23 DEF vars
<1> QED
  BY <1>1, <1>2, <1>3, <1>4, <1>5, <1>6, <1>7, <1>8, <1>9, <1>10, <1>11, <1>12, <1>13,
     <1>14, <1>15, <1>16, <1>17, <1>18, <1>19, <1>20, <1>21, <1>22, <1>23
     DEF Next, RunEx, Uninstall, ReconcileDistro

LEMMA KeptStep == TypeOK /\ Alone /\ Sited /\ Caught /\ Cleared /\ Flagged /\ Kept /\ [Next]_vars => Kept'
<1> SUFFICES ASSUME TypeOK /\ Alone /\ Sited /\ Caught /\ Cleared /\ Flagged /\ Kept, [Next]_vars PROVE Kept'
  OBVIOUS
<1> USE SetupAssumption DEF TypeOK, Alone, Sited, Caught, Cleared, Flagged, Kept, Remembering,
        SetupAt, Config, Quiet, Goto, End, Fail, Forget, SaveFlag, SaveConfig, Without,
        Registered, disk, local, events, counts
<1>1. ASSUME NEW p \in Procs, Begin(p) PROVE Kept'
  BY <1>1 DEF Begin
<1>2. ASSUME NEW p \in Procs, Look(p) PROVE Kept'
  BY <1>2 DEF Look, Saw
<1>3. ASSUME NEW p \in Procs, Decline(p) PROVE Kept'
  BY <1>3 DEF Decline
<1>4. ASSUME NEW p \in Procs, Unregister(p) PROVE Kept'
  BY <1>4 DEF Unregister
<1>5. ASSUME NEW p \in Procs, Reset(p) PROVE Kept'
  BY <1>5 DEF Reset
<1>6. ASSUME NEW p \in Procs, ChoosePath(p) PROVE Kept'
  BY <1>6 DEF ChoosePath
<1>7. ASSUME NEW p \in Procs, Fetch(p) PROVE Kept'
  BY <1>7 DEF Fetch
<1>8. ASSUME NEW p \in Procs, Import(p) PROVE Kept'
  BY <1>8, ImportedPath DEF Import, Imported
<1>9. ASSUME NEW p \in Procs, Test(p) PROVE Kept'
  BY <1>9 DEF Test, RetryOrFail
<1>10. ASSUME NEW p \in Procs, Engine(p) PROVE Kept'
  BY <1>10, ReadyType, ReadyPath DEF Engine, RetryOrFail
<1>11. ASSUME NEW p \in Procs, Record(p) PROVE Kept'
  BY <1>11 DEF Record
<1>12. ASSUME NEW p \in Procs, Remember(p) PROVE Kept'
  BY <1>12 DEF Remember
<1>13. ASSUME NEW p \in Procs, Interrupt(p) PROVE Kept'
  BY <1>13 DEF Interrupt
<1>14. ASSUME NEW p \in Procs, Exit(p) PROVE Kept'
  BY <1>14, ImportedPath DEF Exit, Orphaned, Imported
<1>15. ASSUME NEW p \in Procs, Gone(p) PROVE Kept'
  BY <1>15 DEF Gone, Saw
<1>16. ASSUME NEW p \in Procs, Erase(p) PROVE Kept'
  BY <1>16 DEF Erase
<1>17. ASSUME NEW p \in Procs, ForgetPath(p) PROVE Kept'
  BY <1>17 DEF ForgetPath
<1>18. ASSUME NEW p \in Procs, Check(p) PROVE Kept'
  BY <1>18 DEF Check, Saw
<1>19. ASSUME NEW p \in Procs, ClearPath(p) PROVE Kept'
  BY <1>19 DEF ClearPath
<1>20. ASSUME NEW p \in Procs, ClearFlag(p) PROVE Kept'
  BY <1>20 DEF ClearFlag
<1>21. ASSUME NEW p \in Procs, Crash(p) PROVE Kept'
  BY <1>21, ImportedPath DEF Crash, Orphaned, Imported
<1>22. CASE External
  BY <1>22 DEF External
<1>23. CASE UNCHANGED vars
  BY <1>23 DEF vars
<1> QED
  BY <1>1, <1>2, <1>3, <1>4, <1>5, <1>6, <1>7, <1>8, <1>9, <1>10, <1>11, <1>12, <1>13,
     <1>14, <1>15, <1>16, <1>17, <1>18, <1>19, <1>20, <1>21, <1>22, <1>23
     DEF Next, RunEx, Uninstall, ReconcileDistro

LEMMA ErasedStep == TypeOK /\ Alone /\ Erased /\ [Next]_vars => Erased'
<1> SUFFICES ASSUME TypeOK /\ Alone /\ Erased, [Next]_vars PROVE Erased'
  OBVIOUS
<1> USE SetupAssumption DEF TypeOK, Alone, Erased, Config, SetupAt, Quiet, Goto, End,
        Fail, Forget, SaveFlag, SaveConfig, Without, Registered, disk, local, events, counts
<1>1. ASSUME NEW p \in Procs, Begin(p) PROVE Erased'
  BY <1>1 DEF Begin
<1>2. ASSUME NEW p \in Procs, Look(p) PROVE Erased'
  BY <1>2 DEF Look, Saw
<1>3. ASSUME NEW p \in Procs, Decline(p) PROVE Erased'
  BY <1>3 DEF Decline
<1>4. ASSUME NEW p \in Procs, Unregister(p) PROVE Erased'
  BY <1>4 DEF Unregister
<1>5. ASSUME NEW p \in Procs, Reset(p) PROVE Erased'
  BY <1>5 DEF Reset
<1>6. ASSUME NEW p \in Procs, ChoosePath(p) PROVE Erased'
  BY <1>6 DEF ChoosePath
<1>7. ASSUME NEW p \in Procs, Fetch(p) PROVE Erased'
  BY <1>7 DEF Fetch
<1>8. ASSUME NEW p \in Procs, Import(p) PROVE Erased'
  <2>1. pc[p] = "import" /\ pc' \in {[pc EXCEPT ![p] = "test"], [pc EXCEPT ![p] = "idle"]}
    BY <1>8 DEF Import
  <2>2. said' \in {said, "failed"} /\ UNCHANGED <<faults, installed, missed>>
    BY <1>8 DEF Import
  <2> QED
    BY <2>1, <2>2
<1>9. ASSUME NEW p \in Procs, Test(p) PROVE Erased'
  BY <1>9 DEF Test, RetryOrFail
<1>10. ASSUME NEW p \in Procs, Engine(p) PROVE Erased'
  BY <1>10 DEF Engine, RetryOrFail
<1>11. ASSUME NEW p \in Procs, Record(p) PROVE Erased'
  BY <1>11 DEF Record
<1>12. ASSUME NEW p \in Procs, Remember(p) PROVE Erased'
  BY <1>12 DEF Remember
<1>13. ASSUME NEW p \in Procs, Interrupt(p) PROVE Erased'
  BY <1>13 DEF Interrupt
<1>14. ASSUME NEW p \in Procs, Exit(p) PROVE Erased'
  BY <1>14 DEF Exit, Orphaned, Imported
<1>15. ASSUME NEW p \in Procs, Gone(p) PROVE Erased'
  <2>1. pc[p] = "gone" /\ UNCHANGED <<faults, installed, config>>
    BY <1>15 DEF Gone
  <2> SUFFICES ASSUME Without({"overlap", "saves"}) PROVE Erased'
    BY <2>1
  <2>2. said # "uninstalled" /\ \A q \in Procs \ {p} : pc[q] = "idle"
    BY <2>1
  <2>3. CASE distro' = NoDistro /\ pc' = [pc EXCEPT ![p] = "erase"] /\ UNCHANGED said
    BY <2>2, <2>3
  <2>4. CASE Saw(FALSE) /\ UNCHANGED <<distro, said>> /\ pc' = [pc EXCEPT ![p] = "erase"]
    BY <2>2, <2>4 DEF Saw
  <2>5. CASE UNCHANGED distro /\ pc' = [pc EXCEPT ![p] = "idle"] /\ said' = "failed"
    BY <2>2, <2>5
  <2> QED
    BY <1>15, <2>3, <2>4, <2>5 DEF Gone, Exists
<1>16. ASSUME NEW p \in Procs, Erase(p) PROVE Erased'
  BY <1>16 DEF Erase
<1>17. ASSUME NEW p \in Procs, ForgetPath(p) PROVE Erased'
  BY <1>17 DEF ForgetPath
<1>18. ASSUME NEW p \in Procs, Check(p) PROVE Erased'
  BY <1>18 DEF Check, Saw
<1>19. ASSUME NEW p \in Procs, ClearPath(p) PROVE Erased'
  BY <1>19 DEF ClearPath
<1>20. ASSUME NEW p \in Procs, ClearFlag(p) PROVE Erased'
  BY <1>20 DEF ClearFlag
<1>21. ASSUME NEW p \in Procs, Crash(p) PROVE Erased'
  BY <1>21 DEF Crash, Orphaned, Imported
<1>22. CASE External
  BY <1>22 DEF External
<1>23. CASE UNCHANGED vars
  BY <1>23 DEF vars
<1> QED
  BY <1>1, <1>2, <1>3, <1>4, <1>5, <1>6, <1>7, <1>8, <1>9, <1>10, <1>11, <1>12, <1>13,
     <1>14, <1>15, <1>16, <1>17, <1>18, <1>19, <1>20, <1>21, <1>22, <1>23
     DEF Next, RunEx, Uninstall, ReconcileDistro

RecordInv == TypeOK /\ Alone /\ Sited /\ Caught /\ Named /\ Cleared /\ Flagged /\ Kept /\ Erased

LEMMA RecordStart == Init => RecordInv
  BY SetupInit DEF Init, RecordInv, Registered, Sited, Caught, Named, Cleared, Flagged, Kept, Erased

LEMMA RecordAlways == Spec => []RecordInv
<1>1. RecordInv /\ [Next]_vars => RecordInv'
  BY TypeStep, AloneStep, SitedStep, CaughtStep, NamedStep, ClearedStep, FlaggedStep, KeptStep,
     ErasedStep DEF RecordInv
<1> QED
  BY RecordStart, <1>1, PTL DEF Spec

\* Between commands a completed distro is recorded with its path, unless since it was
\* completed a look at WSL missed it, WSL refused to remove it, or a command was cut
\* off; and never with the path of another directory, unless a command died.
THEOREM RecordMatches == Spec => []RecordMatchesDistro
<1>1. RecordInv => RecordMatchesDistro
  <2> SUFFICES ASSUME RecordInv, Quiet, Registered, distro.ready,
                      Without({"overlap", "saves"})
               PROVE  /\ ~spoilt => installed /\ config.cur = distro.path
                      /\ Without({"crash"}) => config.cur \in {distro.path, NoPath}
    BY DEF RecordMatchesDistro
  <2>1. ~Remembering
    BY DEF Quiet, Remembering
  <2>2. ASSUME ~spoilt PROVE installed /\ config.cur = distro.path
    BY <2>1, <2>2 DEF RecordInv, Kept
  <2>3. ASSUME Without({"crash"}) PROVE config.cur \in {distro.path, NoPath}
    <3>1. Without({"overlap", "crash", "saves"})
      BY <2>3 DEF Without
    <3> QED
      BY <2>1, <3>1 DEF RecordInv, Named
  <2> QED
    BY <2>2, <2>3
<1> QED
  BY <1>1, RecordAlways, PTL

\* A successful uninstall leaves no record, and no distro that its look did not miss.
THEOREM Uninstalled == Spec => []UninstallComplete
<1>1. RecordInv => UninstallComplete
  BY DEF RecordInv, Erased, UninstallComplete
<1> QED
  BY <1>1, RecordAlways, PTL
=============================================================================
