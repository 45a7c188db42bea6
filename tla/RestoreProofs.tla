----------------------------- MODULE RestoreProofs -----------------------------
(* Proofs about Restore, for any sets of packages and any number of edits. *)
EXTENDS Restore, TLAPS

\* What restore removes is planned, and a plan never names the engine.
PlanSpares == plan \cap Engine = {}

LEMMA TypeStep == TypeOK /\ [Next]_vars => TypeOK'
<1> SUFFICES ASSUME TypeOK, [Next]_vars PROVE TypeOK'
  OBVIOUS
<1> USE RestoreAssumption DEF TypeOK, Package, Listed, RemovalList, Fail, Apt
<1>1. CASE UserInstalls
  BY <1>1 DEF UserInstalls, Edit
<1>2. CASE UserRemoves
  BY <1>2 DEF UserRemoves, Edit
<1>3. CASE UserConfigures
  BY <1>3 DEF UserConfigures, Edit
<1>4. CASE Begin
  BY <1>4 DEF Begin
<1>5. CASE Decline
  BY <1>5 DEF Decline
<1>6. CASE Remove
  BY <1>6 DEF Remove
<1>7. CASE Install
  BY <1>7 DEF Install
<1>8. CASE Repair
  BY <1>8 DEF Repair, Restarted
<1>9. CASE Boot
  BY <1>9 DEF Boot
<1>10. CASE Test
  BY <1>10 DEF Test
<1>11. CASE Rescue
  BY <1>11 DEF Rescue, Copied, Restarted
<1>12. CASE Await
  BY <1>12 DEF Await
<1>13. CASE Finish
  BY <1>13 DEF Finish
<1>14. CASE UNCHANGED vars
  BY <1>14 DEF vars
<1> QED
  BY <1>1, <1>2, <1>3, <1>4, <1>5, <1>6, <1>7, <1>8, <1>9, <1>10, <1>11, <1>12,
     <1>13, <1>14 DEF Next

\* Every variable of a restore stays in its range.
THEOREM TypeCorrect == Spec => []TypeOK
<1>1. Init => TypeOK
  BY RestoreAssumption DEF Init, TypeOK, Package, Setup, Listed
<1> QED
  BY <1>1, TypeStep, PTL DEF Spec

-----------------------------------------------------------------------------
\* A removal takes what is planned and, when the engine depends on none of it,
\* nothing else.
LEMMA RemovedWasPlanned ==
  [Next]_vars /\ pc = "remove" /\ plan \cap Needed = {} => manual \ manual' \subseteq plan
  BY DEF Next, UserInstalls, UserRemoves, UserConfigures, Edit, Begin, Decline, Remove,
         Apt, Install, Repair, Boot, Test, Rescue, Await, Finish, vars

LEMMA PlanStep == PlanSpares /\ [Next]_vars => PlanSpares'
  BY DEF PlanSpares, Next, vars, UserInstalls, UserRemoves, UserConfigures, Edit, Begin,
         Decline, Remove, Install, Repair, Boot, Test, Rescue, Await, Finish,
         RemovalList, Fail, Apt

\* Restore never removes an engine package, with any snapshot, with none, and after
\* any failure; only apt does, when a package that the engine depends on is planned.
THEOREM EngineSpared == Spec => SparesEngine
<1>1. Init => PlanSpares
  BY DEF Init, PlanSpares
<1>2. PlanSpares /\ [Next]_vars
        => [pc = "remove" /\ plan \cap Needed = {} => Lost \cap Engine = {}]_vars
  BY RemovedWasPlanned DEF PlanSpares, Lost
<1> QED
  BY <1>1, <1>2, PlanStep, PTL DEF Spec, SparesEngine

-----------------------------------------------------------------------------
\* The package list and state.json can always be read.
Readable == faults \cap {"list", "state"} = {}

Reinstalled == {"repair", "test", "rescue", "await", "verify"}

EngineBack == pc \in Reinstalled => Engine \subseteq manual

\* What setup shipped and the user kept is in the snapshot, so it is in no plan, and
\* it is installed, unless apt took the engine along with one of its dependencies.
ShippedKept ==
  Readable =>
    /\ shipped \subseteq manual \cup Engine
    /\ shipped \subseteq snapshot
    /\ pc = "remove" => plan \cap shipped = {}

\* The snapshot holds nothing a user added, so that the plan holds all of it, and
\* none of it is left when the engine is installed again.
AddedPlanned ==
  Readable =>
    /\ snapshot \cap Extra = {}
    /\ pc = "remove" => manual \cap Extra \subseteq plan
    /\ pc \in Reinstalled \cup {"install", "reinstall"} => manual \cap Extra = {}

RestoreInv == EngineBack /\ ShippedKept /\ AddedPlanned

LEMMA RestoreInit == Init => RestoreInv
  BY RestoreAssumption DEF Init, RestoreInv, EngineBack, ShippedKept, AddedPlanned,
       Readable, Reinstalled, Listed, Setup

LEMMA RestoreStep == RestoreInv /\ [Next]_vars => RestoreInv'
<1> SUFFICES ASSUME RestoreInv, [Next]_vars
             PROVE  RestoreInv'
  OBVIOUS
<1> USE DEF RestoreInv, EngineBack, ShippedKept, AddedPlanned, Readable, Reinstalled
<1>1. CASE UserInstalls
  BY <1>1 DEF UserInstalls, Edit
<1>2. CASE UserRemoves
  BY <1>2 DEF UserRemoves, Edit
<1>3. CASE UserConfigures
  BY <1>3 DEF UserConfigures, Edit
<1>4. CASE Begin
  BY <1>4, RestoreAssumption DEF Begin, RemovalList, Fail
<1>5. CASE Remove
  BY <1>5 DEF Remove, Fail, Apt
<1>6. CASE Finish
  BY <1>6 DEF Finish, Listed, Fail
<1>7. CASE Install
  BY <1>7, RestoreAssumption DEF Install, Fail
<1>8. CASE Decline \/ Repair \/ Boot \/ Test \/ Rescue \/ Await
  BY <1>8 DEF Decline, Repair, Boot, Test, Rescue, Await, Fail
<1>9. CASE UNCHANGED vars
  BY <1>9 DEF vars
<1> QED
  BY <1>1, <1>2, <1>3, <1>4, <1>5, <1>6, <1>7, <1>8, <1>9 DEF Next

\* When the package list and state.json can be read, restore never removes a package
\* that setup installed and the user left alone, over any number of restores, aborted
\* ones and failed ones.
THEOREM ShippedSpared == Spec => SparesShipped
<1>1. RestoreInv /\ [Next]_vars
        => [pc = "remove" /\ faults \cap {"list", "state"} = {} /\ plan \cap Needed = {} =>
              Lost \cap shipped = {}]_vars
  BY RemovedWasPlanned DEF RestoreInv, ShippedKept, Readable, Lost
<1> QED
  BY <1>1, RestoreInit, RestoreStep, PTL DEF Spec, SparesShipped

\* Both: restore removes what a user added, and nothing else.
THEOREM RestSpared == Spec => SparesTheRest
  BY EngineSpared, ShippedSpared DEF SparesTheRest

\* A restore that reports success leaves the engine installed and answering and, when
\* the package list and state.json can be read, nothing that a user added.
THEOREM CompleteClean == Spec => CompleteIsClean
<1> DEFINE Clean ==
      said # "complete" /\ said' = "complete" =>
        /\ faults \cap {"list", "state"} = {} => manual' \cap Extra = {}
        /\ Engine \subseteq manual'
        /\ engine' = "up"
<1>1. ASSUME RestoreInv, Next, said # "complete", said' = "complete"
      PROVE  Finish /\ pc = "verify" /\ engine = "up" /\ UNCHANGED <<manual, engine>>
  BY <1>1 DEF Next, UserInstalls, UserRemoves, UserConfigures, Edit, Begin, Decline,
       Remove, Install, Repair, Boot, Test, Rescue, Await, Finish, Fail
<1>2. RestoreInv /\ [Next]_vars => [Clean]_vars
  BY <1>1 DEF RestoreInv, EngineBack, AddedPlanned, Readable, Reinstalled
<1> QED
  BY <1>2, RestoreInit, RestoreStep, PTL DEF Spec, CompleteIsClean

-----------------------------------------------------------------------------
\* daemon.json is only reset when it is there.
Rescuing == pc = "rescue" => json # NoFile

KeepsInv == Rescuing /\ KeepsYours

LEMMA KeepsStep == KeepsInv /\ [Next]_vars => KeepsInv'
<1> SUFFICES ASSUME KeepsInv, [Next]_vars
             PROVE  KeepsInv'
  OBVIOUS
<1> USE DEF KeepsInv, Rescuing, KeepsYours
<1>1. CASE UserInstalls \/ UserRemoves
  BY <1>1 DEF UserInstalls, UserRemoves, Edit
<1>2. CASE UserConfigures
  BY <1>2 DEF UserConfigures, Edit
<1>3. CASE Begin \/ Decline \/ Remove \/ Install \/ Repair \/ Boot
  BY <1>3 DEF Begin, Decline, Remove, Install, Repair, Boot, Fail
<1>4. CASE Test
  BY <1>4 DEF Test
<1>5. CASE Rescue
  <2>1. json = yours /\ pc' = "await" /\ UNCHANGED yours
    BY <1>5 DEF Rescue
  <2>2. CASE Copied(TRUE) /\ json' = NoFile
    BY <2>1, <2>2 DEF Copied
  <2>3. CASE UNCHANGED json
    BY <2>1, <2>3
  <2> QED
    BY <1>5, <2>2, <2>3 DEF Rescue
<1>6. CASE Await \/ Finish
  BY <1>6 DEF Await, Finish, Fail
<1>7. CASE UNCHANGED vars
  BY <1>7 DEF vars
<1> QED
  BY <1>1, <1>2, <1>3, <1>4, <1>5, <1>6, <1>7 DEF Next

\* Restore loses no daemon.json, however a test of dockerd fails and wherever a reset
\* is cut off: the last one the user wrote is in place or in daemon.json.bak.
THEOREM YoursKept == Spec => []KeepsYours
<1>1. Init => KeepsInv
  BY DEF Init, KeepsInv, Rescuing, KeepsYours
<1>2. KeepsInv => KeepsYours
  BY DEF KeepsInv
<1> QED
  BY <1>1, <1>2, KeepsStep, PTL DEF Spec
=============================================================================
