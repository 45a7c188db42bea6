--------------------------- MODULE StateLockProofs ---------------------------
(* Proofs about StateLock, for any number of processes and any bounds. *)
EXTENDS StateLock, TLAPS

LEMMA InitIInv == Init => IInv
<1> SUFFICES ASSUME Init PROVE IInv
  OBVIOUS
<1> USE DEF Init
<1>1. TypeOK
  <2>1. file \in Content /\ tmp \in Content
    BY DEF Content, Truncated
  <2>2. calls \in [Proc -> 0..MaxCalls] /\ age \in 0..(StaleAge + 1) /\ misses \in 0..MaxMisses
        /\ waited \in [Proc -> 0..(Deadline + 1)]
    BY ConstantsAssumption
  <2>3. snap \in [Proc -> SUBSET Update] /\ acked \in SUBSET Update
    OBVIOUS
  <2> QED
    BY <2>1, <2>2, <2>3 DEF TypeOK
<1>2. Numbered
  BY DEF Numbered, Pending, Waiting
<1>3. Owner
  BY DEF Owner, InCS, Critical, AlwaysParses, NoLostUpdate
<1>4. Fresh
  BY DEF Fresh, Pending, Waiting
<1> QED
  BY <1>1, <1>2, <1>3, <1>4 DEF IInv

\* Every action keeps every variable in its range.
LEMMA TypeStep == TypeOK /\ Numbered /\ [Next]_vars => TypeOK'
<1> SUFFICES ASSUME TypeOK, Numbered, [Next]_vars PROVE TypeOK'
  OBVIOUS
<1> USE ConstantsAssumption DEF TypeOK, Waiting, Critical, Content, Truncated
<1>1. ASSUME NEW p \in Proc, Begin(p) PROVE TypeOK'
  BY <1>1 DEF Begin, Goto
<1>2. ASSUME NEW p \in Proc, Open(p) PROVE TypeOK'
  BY <1>2 DEF Open, Goto
<1>3. ASSUME NEW p \in Proc, Stat(p) PROVE TypeOK'
  BY <1>3 DEF Stat, Goto
<1>4. ASSUME NEW p \in Proc, RemoveStale(p) PROVE TypeOK'
  BY <1>4 DEF RemoveStale, Removed, Goto
<1>5. ASSUME NEW p \in Proc, LoadState(p) PROVE TypeOK'
  BY <1>5 DEF LoadState, Goto, Mine, Update, Numbered
<1>6. ASSUME NEW p \in Proc, CreateTmp(p) PROVE TypeOK'
  BY <1>6 DEF CreateTmp, Goto
<1>7. ASSUME NEW p \in Proc, WriteTmp(p) PROVE TypeOK'
  <2>1. PICK w \in BOOLEAN : tmp' = [ups |-> snap[p], whole |-> w]
    BY <1>7 DEF WriteTmp
  <2>2. tmp' \in Content
    BY <2>1
  <2> QED
    BY <1>7, <2>2 DEF WriteTmp, Goto
<1>8. ASSUME NEW p \in Proc, RenameTmp(p) PROVE TypeOK'
  BY <1>8 DEF RenameTmp, Goto
<1>9. ASSUME NEW p \in Proc, Abandon(p) PROVE TypeOK'
  BY <1>9 DEF Abandon, Goto
<1>10. ASSUME NEW p \in Proc, Unlock(p) PROVE TypeOK'
  BY <1>10 DEF Unlock, Removed, Goto, Mine, Update, Numbered
<1>11. ASSUME NEW p \in Proc, Crash(p) PROVE TypeOK'
  BY <1>11 DEF Crash, Goto
<1>12. CASE Tick
  BY <1>12 DEF Tick
<1>13. CASE UNCHANGED vars
  BY <1>13 DEF vars
<1> QED
  BY <1>1, <1>2, <1>3, <1>4, <1>5, <1>6, <1>7, <1>8, <1>9, <1>10, <1>11,
     <1>12, <1>13 DEF Next

LEMMA NumberedStep == TypeOK /\ Numbered /\ [Next]_vars => Numbered'
<1> SUFFICES ASSUME TypeOK, Numbered, [Next]_vars PROVE Numbered'
  OBVIOUS
<1> USE ConstantsAssumption DEF TypeOK, Numbered, Waiting, Critical, Pending
<1>1. ASSUME NEW p \in Proc, Begin(p) PROVE Numbered'
  BY <1>1 DEF Begin, Goto
<1>2. ASSUME NEW p \in Proc, Open(p) PROVE Numbered'
  BY <1>2 DEF Open, Goto
<1>3. ASSUME NEW p \in Proc, Stat(p) PROVE Numbered'
  BY <1>3 DEF Stat, Goto
<1>4. ASSUME NEW p \in Proc, RemoveStale(p) PROVE Numbered'
  BY <1>4 DEF RemoveStale, Removed, Goto
<1>5. ASSUME NEW p \in Proc, LoadState(p) PROVE Numbered'
  BY <1>5 DEF LoadState, Goto
<1>6. ASSUME NEW p \in Proc, CreateTmp(p) PROVE Numbered'
  BY <1>6 DEF CreateTmp, Goto
<1>7. ASSUME NEW p \in Proc, WriteTmp(p) PROVE Numbered'
  BY <1>7 DEF WriteTmp, Goto
<1>8. ASSUME NEW p \in Proc, RenameTmp(p) PROVE Numbered'
  BY <1>8 DEF RenameTmp, Goto
<1>9. ASSUME NEW p \in Proc, Abandon(p) PROVE Numbered'
  BY <1>9 DEF Abandon, Goto
<1>10. ASSUME NEW p \in Proc, Unlock(p) PROVE Numbered'
  BY <1>10 DEF Unlock, Removed, Goto
<1>11. ASSUME NEW p \in Proc, Crash(p) PROVE Numbered'
  BY <1>11 DEF Crash, Goto
<1>12. CASE Tick
  BY <1>12 DEF Tick
<1>13. CASE UNCHANGED vars
  BY <1>13 DEF vars
<1> QED
  BY <1>1, <1>2, <1>3, <1>4, <1>5, <1>6, <1>7, <1>8, <1>9, <1>10, <1>11,
     <1>12, <1>13 DEF Next

\* A theft is never forgotten.
LEMMA StolenStays == TypeOK /\ [Next]_vars /\ ~stolen' => ~stolen
  BY DEF TypeOK, Next, vars, Begin, Open, Stat, RemoveStale, Removed, LoadState, CreateTmp,
         WriteTmp, RenameTmp, Abandon, Unlock, Crash, Tick

LEMMA OwnerStep == IInv /\ [Next]_vars => Owner'
<1> SUFFICES ASSUME IInv, [Next]_vars, ~stolen' PROVE Owner'
  BY DEF Owner
<1>0. ~stolen
  BY StolenStays DEF IInv
<1> USE <1>0, ConstantsAssumption
    DEF IInv, TypeOK, Numbered, Owner, InCS, Critical, Pending, Waiting, Mine,
        AlwaysParses, NoLostUpdate, Content
<1>1. ASSUME NEW p \in Proc, Begin(p) PROVE Owner'
  BY <1>1 DEF Begin, Goto
<1>2. ASSUME NEW p \in Proc, Open(p) PROVE Owner'
  BY <1>2 DEF Open, Goto
<1>3. ASSUME NEW p \in Proc, Stat(p) PROVE Owner'
  BY <1>3 DEF Stat, Goto
<1>4. ASSUME NEW p \in Proc, RemoveStale(p) PROVE Owner'
  BY <1>4 DEF RemoveStale, Removed, Goto
<1>5. ASSUME NEW p \in Proc, LoadState(p) PROVE Owner'
  BY <1>5 DEF LoadState, Goto
<1>6. ASSUME NEW p \in Proc, CreateTmp(p) PROVE Owner'
  BY <1>6 DEF CreateTmp, Goto
<1>7. ASSUME NEW p \in Proc, WriteTmp(p) PROVE Owner'
  BY <1>7 DEF WriteTmp, Goto
<1>8. ASSUME NEW p \in Proc, RenameTmp(p) PROVE Owner'
  BY <1>8 DEF RenameTmp, Goto
<1>9. ASSUME NEW p \in Proc, Abandon(p) PROVE Owner'
  BY <1>9 DEF Abandon, Goto
<1>10. ASSUME NEW p \in Proc, Unlock(p) PROVE Owner'
  BY <1>10 DEF Unlock, Removed, Goto
<1>11. ASSUME NEW p \in Proc, Crash(p) PROVE Owner'
  BY <1>11 DEF Crash, Goto
<1>12. CASE Tick
  BY <1>12 DEF Tick
<1>13. CASE UNCHANGED vars
  BY <1>13 DEF vars
<1> QED
  BY <1>1, <1>2, <1>3, <1>4, <1>5, <1>6, <1>7, <1>8, <1>9, <1>10, <1>11,
     <1>12, <1>13 DEF Next

LEMMA FreshStep == IInv /\ [Next]_vars => Fresh'
<1> SUFFICES ASSUME IInv, [Next]_vars, ~stolen' PROVE Fresh'
  BY DEF Fresh
<1>0. ~stolen
  BY StolenStays DEF IInv
<1> USE <1>0, ConstantsAssumption
    DEF IInv, TypeOK, Numbered, Fresh, Waiting, Critical, Pending, Mine, Content
<1>1. ASSUME NEW p \in Proc, Begin(p) PROVE Fresh'
  BY <1>1 DEF Begin, Goto
<1>2. ASSUME NEW p \in Proc, Open(p) PROVE Fresh'
  BY <1>2 DEF Open, Goto
<1>3. ASSUME NEW p \in Proc, Stat(p) PROVE Fresh'
  BY <1>3 DEF Stat, Goto
<1>4. ASSUME NEW p \in Proc, RemoveStale(p) PROVE Fresh'
  BY <1>4 DEF RemoveStale, Removed, Goto
<1>5. ASSUME NEW p \in Proc, LoadState(p) PROVE Fresh'
  BY <1>5 DEF LoadState, Goto
<1>6. ASSUME NEW p \in Proc, CreateTmp(p) PROVE Fresh'
  BY <1>6 DEF CreateTmp, Goto
<1>7. ASSUME NEW p \in Proc, WriteTmp(p) PROVE Fresh'
  BY <1>7 DEF WriteTmp, Goto
<1>8. ASSUME NEW p \in Proc, RenameTmp(p) PROVE Fresh'
  BY <1>8 DEF RenameTmp, Goto, Owner, InCS
<1>9. ASSUME NEW p \in Proc, Abandon(p) PROVE Fresh'
  BY <1>9 DEF Abandon, Goto
<1>10. ASSUME NEW p \in Proc, Unlock(p) PROVE Fresh'
  BY <1>10 DEF Unlock, Removed, Goto
<1>11. ASSUME NEW p \in Proc, Crash(p) PROVE Fresh'
  BY <1>11 DEF Crash, Goto
<1>12. CASE Tick
  BY <1>12 DEF Tick
<1>13. CASE UNCHANGED vars
  BY <1>13 DEF vars
<1> QED
  BY <1>1, <1>2, <1>3, <1>4, <1>5, <1>6, <1>7, <1>8, <1>9, <1>10, <1>11,
     <1>12, <1>13 DEF Next

\* IInv is inductive.
LEMMA IInvStep == IInv /\ [Next]_vars => IInv'
  BY TypeStep, NumberedStep, OwnerStep, FreshStep DEF IInv

THEOREM Inductive == Spec => []IInv
<1>1. Init => IInv
  BY InitIInv
<1>2. IInv /\ [Next]_vars => IInv'
  BY IInvStep
<1> QED
  BY <1>1, <1>2, PTL DEF Spec

-----------------------------------------------------------------------------
\* Every variable stays in its range: WithLock as coded for any number of
\* processes, calls and ticks.
THEOREM TypeCorrect == Spec => []TypeOK
<1>1. IInv => TypeOK
  BY DEF IInv
<1> QED
  BY <1>1, Inductive, PTL

\* WithLock: unless a lock file is removed under its live creator (stale
\* expiry of a slow or just replaced lock), at most one process is in its
\* critical section, no acknowledged update is lost, state.json parses.
THEOREM Safe == Spec => []SafeUnlessStolen
<1>1. IInv => SafeUnlessStolen
  BY DEF IInv, Owner, SafeUnlessStolen, Mutex
<1> QED
  BY <1>1, Inductive, PTL

-----------------------------------------------------------------------------
LEMMA InitRefines == Init => Store!Init
  BY DEF Init, Store!Init

\* A step that leaves the lock alone is a step of the abstract cell: the
\* rename applies the update, the return acknowledges it.
LEMMA StepRefines ==
  IInv /\ ~stolen /\ [Next]_vars => [Store!Next]_<<file.ups, acked>>
<1> SUFFICES ASSUME IInv, ~stolen, [Next]_vars
             PROVE  [Store!Next]_<<file.ups, acked>>
  OBVIOUS
<1> USE DEF Store!Next
<1>1. ASSUME NEW p \in Proc, RenameTmp(p) PROVE [Store!Next]_<<file.ups, acked>>
  <2>1. Mine(p) \in Update /\ Mine(p) \notin file.ups
    BY <1>1 DEF IInv, Numbered, Fresh, Pending, RenameTmp, Mine, Update
  <2>2. file'.ups = file.ups \cup {Mine(p)}
    BY <1>1 DEF IInv, Owner, RenameTmp
  <2>3. acked' = acked
    BY <1>1 DEF RenameTmp
  <2> QED
    BY <2>1, <2>2, <2>3 DEF Store!Apply
<1>2. ASSUME NEW p \in Proc, Unlock(p) PROVE [Store!Next]_<<file.ups, acked>>
  <2>1. CASE ret[p]
    <3>1. Mine(p) \in Update /\ Mine(p) \in file.ups
      BY <1>2, <2>1 DEF IInv, Numbered, Owner, Unlock, Mine, Update
    <3> QED
      BY <1>2, <2>1, <3>1 DEF Unlock, Store!Acknowledge
  <2>2. CASE ~ret[p]
    BY <1>2, <2>2 DEF Unlock
  <2> QED
    BY <2>1, <2>2
<1>3. CASE UNCHANGED <<file, acked>>
  BY <1>3
<1> QED
  BY <1>1, <1>2, <1>3
  DEF Next, vars, Begin, Open, Stat, RemoveStale, LoadState, CreateTmp,
      WriteTmp, Abandon, Crash, Tick

\* Until a lock is stolen, every step that changes state.json or acknowledges a call
\* is a step of the abstract cell.
THEOREM StepsImplement == Spec => StoreSteps
<1>1. IInv /\ [Next]_vars => [~stolen => Store!Next]_<<file.ups, acked>>
  BY StepRefines
<1> QED
  BY <1>1, Inductive, PTL DEF Spec, StoreSteps

\* Behaviours in which no lock is stolen implement the abstract cell: every
\* WithLock call is one atomic read-modify-write.
THEOREM Implements == Spec /\ []~stolen => StoreSpec
<1>1. Init => Store!Init
  BY InitRefines
<1>2. IInv /\ ~stolen /\ [Next]_vars => [Store!Next]_<<file.ups, acked>>
  BY StepRefines
<1> QED
  BY <1>1, <1>2, Inductive, PTL DEF Spec, StoreSpec, Store!Spec
=============================================================================
