----------------------------- MODULE ContextsProofs -----------------------------
(* Proofs about Contexts, for any number of processes, contexts, pipes and commands. *)
EXTENDS Contexts, TLAPS

\* Steps that belong to some commands only.
Stages ==
  \A p \in Procs :
    /\ pc[p] \in {"load", "check", "drop", "unlink"} => task[p] = "uninstall"
    /\ pc[p] = "shortcut" => task[p] \in {"enable", "disable"}
    /\ pc[p] \in {"show", "switch", "pick", "back"} => task[p] \in {"use", "off"}
    /\ pc[p] \in {"inspect", "rm", "create"} => task[p] \in {"use", "setup"}

\* config.json is torn exactly while a command that knows it is writing.
Writers ==
  /\ file = Torn => \E p \in Procs : pc[p] = "write" /\ fresh[p]
  /\ \A p \in Procs : fresh[p] => (file = Torn <=> pc[p] = "write")

\* What the copy of a command says of autostart.
Copies ==
  \A p \in Procs :
    /\ fresh[p] /\ file # Torn /\ pc[p] # "idle" /\ task[p] \in {"use", "off", "setup"} =>
         mem[p].auto = file.auto
    /\ task[p] = "uninstall" /\ pc[p] \in {"truncate", "write", "check", "drop", "unlink"} =>
         ~mem[p].auto
    /\ task[p] = "uninstall" /\ pc[p] \in {"check", "drop", "unlink"} /\ fresh[p] =>
         ~file.auto

\* The command has set the shortcut and not saved its flag yet.
Changes(p) == task[p] \in {"enable", "disable"} /\ pc[p] \in {"truncate", "write"}

\* The uninstall has still to remove the shortcut.
Leaves(p) == task[p] = "uninstall" /\ pc[p] \in {"write", "check", "drop", "unlink"}

\* The next step of the command on the file or the shortcut counts.
Risky(p) ==
  \/ pc[p] \in {"truncate", "write"}
  \/ task[p] = "uninstall" /\ pc[p] \in {"check", "drop", "unlink"}

\* It will be a stale one.
Doomed(p) == ~fresh[p] /\ Risky(p)

\* The shortcut is what the last one that changes it made it, or goes, or agrees.
Settled ==
  \/ \E p \in Procs : Doomed(p)
  \/ \E p \in Procs : Changes(p) /\ shortcut = mem[p].auto
  \/ /\ \A p \in Procs : ~Changes(p)
     /\ \/ \E p \in Procs : Leaves(p)
        \/ \E p \in Procs : pc[p] = "write" /\ fresh[p] /\ shortcut = mem[p].auto
        \/ file # Torn /\ shortcut = file.auto

Careful == Without({"saves", "crash", "shortcut"})

SInv ==
  /\ TypeOK
  /\ Stages
  /\ Careful /\ ~stale => Writers /\ Copies /\ Settled

\* Copies of config.json stay of their type.
LEMMA PipeEdit ==
  ASSUME NEW s \in Setting, NEW n \in Pipes
  PROVE  WithPipe(s, n) \in Setting /\ WithPipe(s, n).auto = s.auto /\ WithPipe(s, n) # Torn
  BY ContextsAssumption DEF Setting, WithPipe

LEMMA PrevEdit ==
  ASSUME NEW s \in Setting, NEW c \in Prevs
  PROVE  WithPrev(s, c) \in Setting /\ WithPrev(s, c).auto = s.auto
  BY DEF Setting, WithPrev

LEMMA AutoEdit ==
  ASSUME NEW s \in Setting, NEW b \in BOOLEAN
  PROVE  WithAuto(s, b) \in Setting /\ WithAuto(s, b).auto = b
  BY DEF Setting, WithAuto

LEMMA CopyType == \A s \in Setting : s.auto \in BOOLEAN /\ s # Torn
  BY ContextsAssumption DEF Setting

LEMMA SaveType == \A t \in Tasks : AfterSave(t) \subseteq {"check", "inspect", "idle"}
  BY DEF Tasks, AfterSave

LEMMA DefaultsType == Defaults \in Setting /\ Defaults.auto = FALSE
  BY ContextsAssumption DEF Defaults, Setting, Prevs

LEMMA LoadedType == TypeOK => Loaded \in Setting
  BY ContextsAssumption DEF TypeOK, Loaded, Defaults, Setting, Prevs

LEMMA TypeStep == SInv /\ [Next]_vars => TypeOK'
<1> SUFFICES ASSUME SInv, [Next]_vars PROVE TypeOK'
  OBVIOUS
<1> USE ContextsAssumption DEF SInv, TypeOK, Names, Tasks, Steps, Existing, Goto, docker, disk, local, hist
<1>1. ASSUME NEW p \in Procs, Begin(p) PROVE TypeOK'
  BY <1>1, LoadedType DEF Begin, First, Quiet
<1>2. ASSUME NEW p \in Procs, Truncate(p) PROVE TypeOK'
  <2>1. pc' \in [Procs -> Steps]
    BY <1>2, SaveType DEF Truncate
  <2>2. fresh' \in [Procs -> BOOLEAN] /\ stale' \in BOOLEAN
    BY <1>2 DEF Truncate, Known
  <2>3. file' \in Setting \cup {Torn}
    BY <1>2 DEF Truncate
  <2> QED
    BY <1>2, <2>1, <2>2, <2>3 DEF Truncate
<1>3. ASSUME NEW p \in Procs, Write(p) PROVE TypeOK'
  BY <1>3, SaveType DEF Write, Known
<1>4. ASSUME NEW p \in Procs, Show(p) PROVE TypeOK'
  BY <1>4 DEF Show
<1>5. ASSUME NEW p \in Procs, Inspect(p) PROVE TypeOK'
  BY <1>5 DEF Inspect, Ensured
<1>6. ASSUME NEW p \in Procs, Rm(p) PROVE TypeOK'
  BY <1>6 DEF Rm, Removed
<1>7. ASSUME NEW p \in Procs, Create(p) PROVE TypeOK'
  <2>1. host' \in Pipes \cup {Foreign, NoHost}
    BY <1>7, CopyType DEF Create, Setting
  <2>2. current' \in Existing'
    BY <1>7 DEF Create
  <2> QED
    BY <1>7, <2>1, <2>2 DEF Create, Ensured
<1>8. ASSUME NEW p \in Procs, Switch(p) PROVE TypeOK'
  <2>1. CASE Remembers(p) /\ mem' = [mem EXCEPT ![p] = WithPrev(mem[p], seen[p])]
    <3>1. WithPrev(mem[p], seen[p]) \in Setting
      BY <2>1, PrevEdit DEF Remembers, Prevs
    <3> QED
      BY <1>8, <2>1, <3>1 DEF Switch, Remembers, Prevs
  <2>2. CASE UNCHANGED mem
    BY <1>8, <2>2 DEF Switch, Remembers, Prevs
  <2> QED
    BY <1>8, <2>1, <2>2 DEF Switch
<1>9. ASSUME NEW p \in Procs, Pick(p) PROVE TypeOK'
  BY <1>9 DEF Pick
<1>10. ASSUME NEW p \in Procs, Back(p) PROVE TypeOK'
  <2>1. WithPrev(mem[p], NoName) \in Setting
    BY PrevEdit DEF Prevs
  <2> QED
    BY <1>10, <2>1 DEF Back, Prevs
<1>11. ASSUME NEW p \in Procs, SetEnabled(p) PROVE TypeOK'
  <2>1. WithAuto(mem[p], task[p] = "enable") \in Setting
    BY AutoEdit
  <2>2. mem' \in [Procs -> Setting]
    BY <1>11, <2>1 DEF SetEnabled
  <2>3. pc' \in [Procs -> Steps] /\ shortcut' \in BOOLEAN
    BY <1>11 DEF SetEnabled
  <2> QED
    BY <1>11, <2>2, <2>3 DEF SetEnabled
<1>12. ASSUME NEW p \in Procs, Load(p) PROVE TypeOK'
  <2>1. WithAuto(WithPrev(Loaded, NoName), FALSE) \in Setting
    BY LoadedType, PrevEdit, AutoEdit DEF Prevs
  <2> QED
    BY <1>12, <2>1 DEF Load, Prevs
<1>13. ASSUME NEW p \in Procs, Remove(p) PROVE TypeOK'
  BY <1>13 DEF Remove
<1>14. ASSUME NEW p \in Procs, Drop(p) PROVE TypeOK'
  BY <1>14 DEF Drop, Removed
<1>15. ASSUME NEW p \in Procs, Unlink(p) PROVE TypeOK'
  BY <1>15 DEF Unlink, Crosses
<1>16. ASSUME NEW p \in Procs, Crash(p) PROVE TypeOK'
  BY <1>16 DEF Crash
<1>17. CASE UserSwitches
  BY <1>17 DEF UserSwitches, User
<1>18. CASE UserCreates
  BY <1>18 DEF UserCreates, User
<1>19. CASE UserRemoves
  BY <1>19 DEF UserRemoves, User
<1>20. CASE UserConfigures
  <2>1. PICK n \in Pipes : file' = WithPipe(Loaded, n)
    BY <1>20 DEF UserConfigures
  <2>2. file' \in Setting
    BY <2>1, LoadedType, PipeEdit
  <2> QED
    BY <1>20, <2>2 DEF UserConfigures, User, Known
<1>21. CASE UNCHANGED vars
  BY <1>21 DEF vars
<1> QED
  BY <1>1, <1>2, <1>3, <1>4, <1>5, <1>6, <1>7, <1>8, <1>9, <1>10, <1>11,
     <1>12, <1>13, <1>14, <1>15, <1>16, <1>17, <1>18, <1>19, <1>20, <1>21 DEF Next

LEMMA Grows == SInv /\ [Next]_vars => faults' = faults /\ (stale => stale')
<1> SUFFICES ASSUME SInv, [Next]_vars PROVE faults' = faults /\ (stale => stale')
  OBVIOUS
<1> USE ContextsAssumption DEF SInv, Goto, docker, disk, local, hist
<1>1. ASSUME NEW p \in Procs, Begin(p) PROVE faults' = faults /\ (stale => stale')
  BY <1>1 DEF Begin, First, Loaded, Quiet
<1>2. ASSUME NEW p \in Procs, Truncate(p) PROVE faults' = faults /\ (stale => stale')
  BY <1>2 DEF Truncate, AfterSave, Known
<1>3. ASSUME NEW p \in Procs, Write(p) PROVE faults' = faults /\ (stale => stale')
  BY <1>3 DEF Write, AfterSave, Known
<1>4. ASSUME NEW p \in Procs, Show(p) PROVE faults' = faults /\ (stale => stale')
  BY <1>4 DEF Show
<1>5. ASSUME NEW p \in Procs, Inspect(p) PROVE faults' = faults /\ (stale => stale')
  BY <1>5 DEF Inspect, Ensured
<1>6. ASSUME NEW p \in Procs, Rm(p) PROVE faults' = faults /\ (stale => stale')
  BY <1>6 DEF Rm, Removed
<1>7. ASSUME NEW p \in Procs, Create(p) PROVE faults' = faults /\ (stale => stale')
  BY <1>7 DEF Create, Ensured
<1>8. ASSUME NEW p \in Procs, Switch(p) PROVE faults' = faults /\ (stale => stale')
  BY <1>8 DEF Switch, Remembers
<1>9. ASSUME NEW p \in Procs, Pick(p) PROVE faults' = faults /\ (stale => stale')
  BY <1>9 DEF Pick
<1>10. ASSUME NEW p \in Procs, Back(p) PROVE faults' = faults /\ (stale => stale')
  BY <1>10 DEF Back
<1>11. ASSUME NEW p \in Procs, SetEnabled(p) PROVE faults' = faults /\ (stale => stale')
  BY <1>11 DEF SetEnabled
<1>12. ASSUME NEW p \in Procs, Load(p) PROVE faults' = faults /\ (stale => stale')
  BY <1>12 DEF Load, Loaded
<1>13. ASSUME NEW p \in Procs, Remove(p) PROVE faults' = faults /\ (stale => stale')
  BY <1>13 DEF Remove
<1>14. ASSUME NEW p \in Procs, Drop(p) PROVE faults' = faults /\ (stale => stale')
  BY <1>14 DEF Drop, Removed
<1>15. ASSUME NEW p \in Procs, Unlink(p) PROVE faults' = faults /\ (stale => stale')
  BY <1>15 DEF Unlink, Crosses
<1>16. ASSUME NEW p \in Procs, Crash(p) PROVE faults' = faults /\ (stale => stale')
  BY <1>16 DEF Crash
<1>17. CASE UserSwitches
  BY <1>17 DEF UserSwitches, User
<1>18. CASE UserCreates
  BY <1>18 DEF UserCreates, User
<1>19. CASE UserRemoves
  BY <1>19 DEF UserRemoves, User
<1>20. CASE UserConfigures
  BY <1>20 DEF UserConfigures, User, Known, Loaded
<1>21. CASE UNCHANGED vars
  BY <1>21 DEF vars
<1> QED
  BY <1>1, <1>2, <1>3, <1>4, <1>5, <1>6, <1>7, <1>8, <1>9, <1>10, <1>11,
     <1>12, <1>13, <1>14, <1>15, <1>16, <1>17, <1>18, <1>19, <1>20, <1>21 DEF Next

LEMMA StagesStep == SInv /\ [Next]_vars => Stages'
<1> SUFFICES ASSUME SInv, [Next]_vars PROVE Stages'
  OBVIOUS
<1> USE ContextsAssumption DEF SInv, TypeOK, Stages, Goto, docker, disk, local, hist
<1>1. ASSUME NEW p \in Procs, Begin(p) PROVE Stages'
  <2>1. PICK t \in Tasks : task'[p] = t /\ pc'[p] = First(t) /\ \A q \in Procs \ {p} : task'[q] = task[q] /\ pc'[q] = pc[q]
    BY <1>1 DEF Begin
  <2> QED
    BY <2>1 DEF First, Tasks
<1>2. ASSUME NEW p \in Procs, Truncate(p) PROVE Stages'
  BY <1>2 DEF Truncate, AfterSave, Known
<1>3. ASSUME NEW p \in Procs, Write(p) PROVE Stages'
  BY <1>3 DEF Write, AfterSave, Known
<1>4. ASSUME NEW p \in Procs, Show(p) PROVE Stages'
  BY <1>4 DEF Show
<1>5. ASSUME NEW p \in Procs, Inspect(p) PROVE Stages'
  BY <1>5 DEF Inspect, Ensured
<1>6. ASSUME NEW p \in Procs, Rm(p) PROVE Stages'
  BY <1>6 DEF Rm, Removed
<1>7. ASSUME NEW p \in Procs, Create(p) PROVE Stages'
  BY <1>7 DEF Create, Ensured
<1>8. ASSUME NEW p \in Procs, Switch(p) PROVE Stages'
  BY <1>8 DEF Switch, Remembers
<1>9. ASSUME NEW p \in Procs, Pick(p) PROVE Stages'
  BY <1>9 DEF Pick
<1>10. ASSUME NEW p \in Procs, Back(p) PROVE Stages'
  BY <1>10 DEF Back
<1>11. ASSUME NEW p \in Procs, SetEnabled(p) PROVE Stages'
  BY <1>11 DEF SetEnabled
<1>12. ASSUME NEW p \in Procs, Load(p) PROVE Stages'
  BY <1>12 DEF Load, Loaded
<1>13. ASSUME NEW p \in Procs, Remove(p) PROVE Stages'
  BY <1>13 DEF Remove
<1>14. ASSUME NEW p \in Procs, Drop(p) PROVE Stages'
  BY <1>14 DEF Drop, Removed
<1>15. ASSUME NEW p \in Procs, Unlink(p) PROVE Stages'
  BY <1>15 DEF Unlink, Crosses
<1>16. ASSUME NEW p \in Procs, Crash(p) PROVE Stages'
  BY <1>16 DEF Crash
<1>17. CASE UserSwitches
  BY <1>17 DEF UserSwitches, User
<1>18. CASE UserCreates
  BY <1>18 DEF UserCreates, User
<1>19. CASE UserRemoves
  BY <1>19 DEF UserRemoves, User
<1>20. CASE UserConfigures
  BY <1>20 DEF UserConfigures, User, Known, Loaded
<1>21. CASE UNCHANGED vars
  BY <1>21 DEF vars
<1> QED
  BY <1>1, <1>2, <1>3, <1>4, <1>5, <1>6, <1>7, <1>8, <1>9, <1>10, <1>11,
     <1>12, <1>13, <1>14, <1>15, <1>16, <1>17, <1>18, <1>19, <1>20, <1>21 DEF Next

LEMMA WritersStep == SInv /\ [Next]_vars /\ Careful' /\ ~stale' => Writers'
<1> SUFFICES ASSUME SInv, [Next]_vars, Careful', ~stale' PROVE Writers'
  OBVIOUS
<1> USE DEF TypeOK, Stages, Writers, Goto, docker, disk, local, hist, Careful, Without, Fails
<1>0. /\ Careful /\ ~stale /\ TypeOK /\ Stages
      /\ Writers /\ Copies /\ Settled
  BY Grows DEF SInv, Careful, Without
<1>1. ASSUME NEW p \in Procs, Begin(p) PROVE Writers'
  <2>1. pc[p] = "idle" /\ pc'[p] # "write" /\ fresh'[p] = (file # Torn)
    BY <1>1, <1>0 DEF Begin, First, Tasks
  <2>2. file' = file /\ \A q \in Procs \ {p} : pc'[q] = pc[q] /\ fresh'[q] = fresh[q]
    BY <1>1, <1>0 DEF Begin
  <2> QED
    BY <1>0, <2>1, <2>2
<1>2. ASSUME NEW p \in Procs, Truncate(p) PROVE Writers'
  BY <1>2, <1>0 DEF Truncate, AfterSave, Known
<1>3. ASSUME NEW p \in Procs, Write(p) PROVE Writers'
  <2>1. fresh[p] /\ file' = mem[p] /\ file' # Torn
    BY <1>3, <1>0, CopyType DEF Write
  <2> QED
    BY <1>3, <1>0, <2>1, SaveType DEF Write, Known
<1>4. ASSUME NEW p \in Procs, Show(p) PROVE Writers'
  BY <1>4, <1>0 DEF Show
<1>5. ASSUME NEW p \in Procs, Inspect(p) PROVE Writers'
  BY <1>5, <1>0 DEF Inspect, Ensured
<1>6. ASSUME NEW p \in Procs, Rm(p) PROVE Writers'
  BY <1>6, <1>0 DEF Rm, Removed
<1>7. ASSUME NEW p \in Procs, Create(p) PROVE Writers'
  BY <1>7, <1>0 DEF Create, Ensured
<1>8. ASSUME NEW p \in Procs, Switch(p) PROVE Writers'
  BY <1>8, <1>0 DEF Switch, Remembers
<1>9. ASSUME NEW p \in Procs, Pick(p) PROVE Writers'
  BY <1>9, <1>0 DEF Pick
<1>10. ASSUME NEW p \in Procs, Back(p) PROVE Writers'
  BY <1>10, <1>0 DEF Back
<1>11. ASSUME NEW p \in Procs, SetEnabled(p) PROVE Writers'
  BY <1>11, <1>0 DEF SetEnabled
<1>12. ASSUME NEW p \in Procs, Load(p) PROVE Writers'
  BY <1>12, <1>0 DEF Load, Loaded
<1>13. ASSUME NEW p \in Procs, Remove(p) PROVE Writers'
  BY <1>13, <1>0 DEF Remove
<1>14. ASSUME NEW p \in Procs, Drop(p) PROVE Writers'
  BY <1>14, <1>0 DEF Drop, Removed
<1>15. ASSUME NEW p \in Procs, Unlink(p) PROVE Writers'
  BY <1>15, <1>0 DEF Unlink, Crosses
<1>16. ASSUME NEW p \in Procs, Crash(p) PROVE Writers'
  BY <1>16, <1>0 DEF Crash
<1>17. CASE UserSwitches
  BY <1>17, <1>0 DEF UserSwitches, User
<1>18. CASE UserCreates
  BY <1>18, <1>0 DEF UserCreates, User
<1>19. CASE UserRemoves
  BY <1>19, <1>0 DEF UserRemoves, User
<1>20. CASE UserConfigures
  <2>1. file' # Torn
    BY <1>20, <1>0, LoadedType, PipeEdit DEF UserConfigures
  <2> QED
    BY <1>20, <1>0, <2>1 DEF UserConfigures, User, Known
<1>21. CASE UNCHANGED vars
  BY <1>21, <1>0 DEF vars
<1> QED
  BY <1>1, <1>2, <1>3, <1>4, <1>5, <1>6, <1>7, <1>8, <1>9, <1>10, <1>11,
     <1>12, <1>13, <1>14, <1>15, <1>16, <1>17, <1>18, <1>19, <1>20, <1>21 DEF Next

LEMMA CopiesStep == SInv /\ [Next]_vars /\ Careful' /\ ~stale' => Copies'
<1> SUFFICES ASSUME SInv, [Next]_vars, Careful', ~stale' PROVE Copies'
  OBVIOUS
<1> USE DEF TypeOK, Stages, Writers, Copies, Goto, docker, disk, local, hist, Careful, Without, Fails
<1>0. /\ Careful /\ ~stale /\ TypeOK /\ Stages
      /\ Writers /\ Copies /\ Settled
  BY Grows DEF SInv, Careful, Without
<1>1. ASSUME NEW p \in Procs, Begin(p) PROVE Copies'
  BY <1>1, <1>0 DEF Begin, First, Loaded, Quiet
<1>2. ASSUME NEW p \in Procs, Truncate(p) PROVE Copies'
  BY <1>2, <1>0 DEF Truncate, AfterSave, Known
<1>3. ASSUME NEW p \in Procs, Write(p) PROVE Copies'
  BY <1>3, <1>0 DEF Write, AfterSave, Known
<1>4. ASSUME NEW p \in Procs, Show(p) PROVE Copies'
  BY <1>4, <1>0 DEF Show
<1>5. ASSUME NEW p \in Procs, Inspect(p) PROVE Copies'
  BY <1>5, <1>0 DEF Inspect, Ensured
<1>6. ASSUME NEW p \in Procs, Rm(p) PROVE Copies'
  BY <1>6, <1>0 DEF Rm, Removed
<1>7. ASSUME NEW p \in Procs, Create(p) PROVE Copies'
  BY <1>7, <1>0 DEF Create, Ensured
<1>8. ASSUME NEW p \in Procs, Switch(p) PROVE Copies'
  <2>1. mem'[p].auto = mem[p].auto
    <3>1. CASE Remembers(p) /\ mem' = [mem EXCEPT ![p] = WithPrev(mem[p], seen[p])]
      BY <1>0, <3>1, PrevEdit DEF Remembers, Prevs, Names
    <3>2. CASE UNCHANGED mem
      BY <3>2
    <3> QED
      BY <1>8, <3>1, <3>2 DEF Switch
  <2>2. \A q \in Procs \ {p} : mem'[q] = mem[q]
    BY <1>8, <1>0 DEF Switch
  <2> QED
    BY <1>8, <1>0, <2>1, <2>2 DEF Switch
<1>9. ASSUME NEW p \in Procs, Pick(p) PROVE Copies'
  BY <1>9, <1>0 DEF Pick
<1>10. ASSUME NEW p \in Procs, Back(p) PROVE Copies'
  <2>1. WithPrev(mem[p], NoName).auto = mem[p].auto
    BY <1>0, PrevEdit DEF Prevs
  <2> QED
    BY <1>10, <1>0, <2>1 DEF Back
<1>11. ASSUME NEW p \in Procs, SetEnabled(p) PROVE Copies'
  BY <1>11, <1>0 DEF SetEnabled
<1>12. ASSUME NEW p \in Procs, Load(p) PROVE Copies'
  <2>1. ~WithAuto(WithPrev(Loaded, NoName), FALSE).auto
    BY <1>0, LoadedType, PrevEdit, AutoEdit DEF Prevs
  <2> QED
    BY <1>12, <1>0, <2>1 DEF Load
<1>13. ASSUME NEW p \in Procs, Remove(p) PROVE Copies'
  BY <1>13, <1>0 DEF Remove
<1>14. ASSUME NEW p \in Procs, Drop(p) PROVE Copies'
  BY <1>14, <1>0 DEF Drop, Removed
<1>15. ASSUME NEW p \in Procs, Unlink(p) PROVE Copies'
  BY <1>15, <1>0 DEF Unlink, Crosses
<1>16. ASSUME NEW p \in Procs, Crash(p) PROVE Copies'
  BY <1>16, <1>0 DEF Crash
<1>17. CASE UserSwitches
  BY <1>17, <1>0 DEF UserSwitches, User
<1>18. CASE UserCreates
  BY <1>18, <1>0 DEF UserCreates, User
<1>19. CASE UserRemoves
  BY <1>19, <1>0 DEF UserRemoves, User
<1>20. CASE UserConfigures
  BY <1>20, <1>0 DEF UserConfigures, User, Known, Loaded
<1>21. CASE UNCHANGED vars
  BY <1>21, <1>0 DEF vars
<1> QED
  BY <1>1, <1>2, <1>3, <1>4, <1>5, <1>6, <1>7, <1>8, <1>9, <1>10, <1>11,
     <1>12, <1>13, <1>14, <1>15, <1>16, <1>17, <1>18, <1>19, <1>20, <1>21 DEF Next

LEMMA SettledStep == SInv /\ [Next]_vars /\ Careful' /\ ~stale' => Settled'
<1> SUFFICES ASSUME SInv, [Next]_vars, Careful', ~stale' PROVE Settled'
  OBVIOUS
<1> USE DEF TypeOK, Stages, Writers, Copies, Settled, Changes, Leaves, Doomed, Risky, Goto, docker, disk, local, hist, Careful, Without, Fails
<1>0. /\ Careful /\ ~stale /\ TypeOK /\ Stages
      /\ Writers /\ Copies /\ Settled
  BY Grows DEF SInv, Careful, Without
<1>1. ASSUME NEW p \in Procs, Begin(p) PROVE Settled'
  BY <1>1, <1>0 DEF Begin, First, Loaded, Quiet
<1>2. ASSUME NEW p \in Procs, Truncate(p) PROVE Settled'
  <2>1. fresh[p] /\ pc[p] = "truncate" /\ file # Torn /\ file' = Torn /\ pc'[p] = "write"
    BY <1>2, <1>0 DEF Truncate
  <2>2. /\ \A q \in Procs \ {p} : pc'[q] = pc[q] /\ ~fresh'[q]
        /\ fresh'[p]
        /\ task' = task /\ mem' = mem /\ shortcut' = shortcut
    BY <1>2, <1>0, <2>1 DEF Truncate, Known
  <2>3. CASE \E q \in Procs \ {p} : Risky(q)
    BY <1>0, <2>1, <2>2, <2>3
  <2> SUFFICES ASSUME \A q \in Procs \ {p} : ~Risky(q) PROVE Settled'
    BY <2>3
  <2>4. CASE Changes(p)
    BY <1>0, <2>1, <2>2, <2>4
  <2>5. CASE task[p] = "uninstall"
    BY <1>0, <2>1, <2>2, <2>5
  <2>6. CASE task[p] \in {"use", "off", "setup"}
    <3>1. shortcut = file.auto /\ mem[p].auto = file.auto
      BY <1>0, <2>1, <2>6
    <3> QED
      BY <1>0, <2>1, <2>2, <2>6, <3>1
  <2> QED
    BY <1>0, <2>1, <2>4, <2>5, <2>6 DEF Tasks
<1>3. ASSUME NEW p \in Procs, Write(p) PROVE Settled'
  <2>1. fresh[p] /\ pc[p] = "write" /\ file = Torn /\ file' = mem[p] /\ file' # Torn
    <3>1. fresh[p] /\ pc[p] = "write" /\ ~Fails("saves")
      BY <1>3, <1>0 DEF Write
    <3>2. file = Torn
      BY <1>0, <3>1
    <3>3. file' = mem[p]
      BY <1>3, <3>1, <3>2 DEF Write
    <3> QED
      BY <1>0, <3>1, <3>2, <3>3, CopyType
  <2>2. /\ \A q \in Procs \ {p} : pc'[q] = pc[q] /\ ~fresh'[q]
        /\ fresh'[p]
        /\ task' = task /\ mem' = mem /\ shortcut' = shortcut
        /\ pc'[p] \in AfterSave(task[p])
    BY <1>3, <1>0, <2>1 DEF Write, Known, AfterSave
  <2>3. CASE \E q \in Procs \ {p} : Risky(q)
    BY <1>0, <2>1, <2>2, <2>3
  <2> SUFFICES ASSUME \A q \in Procs \ {p} : ~Risky(q) PROVE Settled'
    BY <2>3
  <2>4. CASE task[p] = "uninstall"
    <3>1. pc'[p] = "check"
      BY <2>2, <2>4 DEF AfterSave
    <3> QED
      BY <1>0, <2>1, <2>2, <2>4, <3>1
  <2>5. CASE task[p] # "uninstall"
    <3>1. shortcut = mem[p].auto
      BY <1>0, <2>1, <2>5
    <3>2. pc'[p] \in {"check", "inspect", "idle"}
      BY <1>0, <2>2, SaveType
    <3> QED
      BY <1>0, <2>1, <2>2, <2>5, <3>1, <3>2
  <2> QED
    BY <2>4, <2>5
<1>4. ASSUME NEW p \in Procs, Show(p) PROVE Settled'
  BY <1>4, <1>0 DEF Show
<1>5. ASSUME NEW p \in Procs, Inspect(p) PROVE Settled'
  BY <1>5, <1>0 DEF Inspect, Ensured
<1>6. ASSUME NEW p \in Procs, Rm(p) PROVE Settled'
  BY <1>6, <1>0 DEF Rm, Removed
<1>7. ASSUME NEW p \in Procs, Create(p) PROVE Settled'
  BY <1>7, <1>0 DEF Create, Ensured
<1>8. ASSUME NEW p \in Procs, Switch(p) PROVE Settled'
  BY <1>8, <1>0 DEF Switch, Remembers
<1>9. ASSUME NEW p \in Procs, Pick(p) PROVE Settled'
  BY <1>9, <1>0 DEF Pick
<1>10. ASSUME NEW p \in Procs, Back(p) PROVE Settled'
  BY <1>10, <1>0 DEF Back
<1>11. ASSUME NEW p \in Procs, SetEnabled(p) PROVE Settled'
  <2>1. shortcut' = WithAuto(mem[p], task[p] = "enable").auto
    BY <1>11, <1>0, AutoEdit DEF SetEnabled
  <2>2. mem'[p] = WithAuto(mem[p], task[p] = "enable") /\ pc'[p] = "truncate" /\ task' = task
    BY <1>11, <1>0 DEF SetEnabled
  <2> QED
    BY <1>11, <1>0, <2>1, <2>2 DEF SetEnabled
<1>12. ASSUME NEW p \in Procs, Load(p) PROVE Settled'
  BY <1>12, <1>0 DEF Load, Loaded
<1>13. ASSUME NEW p \in Procs, Remove(p) PROVE Settled'
  BY <1>13, <1>0 DEF Remove
<1>14. ASSUME NEW p \in Procs, Drop(p) PROVE Settled'
  BY <1>14, <1>0 DEF Drop, Removed
<1>15. ASSUME NEW p \in Procs, Unlink(p) PROVE Settled'
  <2>1. fresh[p] /\ pc[p] = "unlink" /\ task[p] = "uninstall" /\ ~Crosses(p)
    BY <1>15, <1>0 DEF Unlink
  <2>2. file' # Torn /\ file'.auto = FALSE /\ shortcut' = FALSE
    BY <1>15, <1>0, <2>1, CopyType DEF Unlink
  <2>3. \A q \in Procs : ~Changes(q)'
    BY <1>15, <1>0, <2>1 DEF Unlink, Crosses
  <2> QED
    BY <2>2, <2>3
<1>16. ASSUME NEW p \in Procs, Crash(p) PROVE Settled'
  BY <1>16, <1>0 DEF Crash
<1>17. CASE UserSwitches
  BY <1>17, <1>0 DEF UserSwitches, User
<1>18. CASE UserCreates
  BY <1>18, <1>0 DEF UserCreates, User
<1>19. CASE UserRemoves
  BY <1>19, <1>0 DEF UserRemoves, User
<1>20. CASE UserConfigures
  <2>1. /\ \A q \in Procs : ~fresh'[q]
        /\ UNCHANGED <<pc, task, mem, shortcut>>
    BY <1>20, <1>0 DEF UserConfigures, User, Known
  <2>2. CASE \E q \in Procs : Risky(q)
    BY <2>1, <2>2
  <2>3. CASE \A q \in Procs : ~Risky(q)
    <3>1. file # Torn /\ shortcut = file.auto
      BY <1>0, <2>3
    <3>2. PICK n \in Pipes : file' = WithPipe(file, n)
      BY <1>20, <3>1 DEF UserConfigures, Loaded
    <3>3. file' # Torn /\ file'.auto = file.auto
      BY <1>0, <3>1, <3>2, PipeEdit
    <3> QED
      BY <1>0, <2>1, <2>3, <3>1, <3>3
  <2> QED
    BY <2>2, <2>3
<1>21. CASE UNCHANGED vars
  BY <1>21, <1>0 DEF vars
<1> QED
  BY <1>1, <1>2, <1>3, <1>4, <1>5, <1>6, <1>7, <1>8, <1>9, <1>10, <1>11,
     <1>12, <1>13, <1>14, <1>15, <1>16, <1>17, <1>18, <1>19, <1>20, <1>21 DEF Next

LEMMA Start == Init => SInv
<1> SUFFICES ASSUME Init PROVE SInv
  OBVIOUS
<1> USE ContextsAssumption DEF Init
<1>1. Defaults \in Setting /\ Defaults # Torn /\ Defaults.auto = FALSE
  BY DefaultsType, CopyType
<1>2. current \in Existing /\ host \in Pipes \cup {Foreign, NoHost} /\ NoName \in Prevs
  BY DEF Existing, Prevs
<1>3. /\ task \in [Procs -> Tasks] /\ pc \in [Procs -> Steps]
      /\ mem \in [Procs -> Setting] /\ seen \in [Procs -> Names \cup {NoName}]
  BY <1>1 DEF Tasks, Steps
<1>4. started \in 0 .. MaxCommands /\ edits \in 0 .. MaxEdits /\ faults \in SUBSET AllFaults
  OBVIOUS
<1>5. TypeOK
  BY <1>1, <1>2, <1>3, <1>4 DEF TypeOK
<1>6. Stages
  BY DEF Stages
<1>7. Writers /\ Copies /\ Settled
  BY <1>1 DEF Writers, Copies, Settled, Changes
<1> QED
  BY <1>5, <1>6, <1>7 DEF SInv

LEMMA Inductive == SInv /\ [Next]_vars => SInv'
  BY TypeStep, StagesStep, WritersStep, CopiesStep, SettledStep DEF SInv

LEMMA Always == Spec => []SInv
  BY Start, Inductive, PTL DEF Spec

\* Every variable stays in its range, for any number of processes, contexts and pipes.
THEOREM TypeCorrect == Spec => []TypeOK
<1>1. SInv => TypeOK
  BY DEF SInv
<1> QED
  BY <1>1, Always, PTL

\* Between commands the shortcut and the flag agree, until one acts on a stale copy,
\* overlapping commands or not.
THEOREM Agrees == Spec => []AutostartAgrees
<1>1. SInv => AutostartAgrees
  BY DEF SInv, AutostartAgrees, Settled, Writers, Changes, Leaves, Doomed, Risky, Quiet, Careful
<1> QED
  BY <1>1, Always, PTL

-----------------------------------------------------------------------------
\* Without overlap one command runs at a time.
Alone ==
  Without({"overlap"}) =>
    \A p, q \in Procs : pc[p] # "idle" /\ pc[q] # "idle" => p = q

Faultless == Without({"overlap", "saves", "crash", "docker"})

\* Where context off leads to.
Origin == IF home \in Existing THEN home ELSE "default"

\* The context of before the last use is what config.json remembers, or the command
\* under way is about to save it.
Remembered ==
  Faultless =>
    /\ \A p \in Procs : pc[p] # "idle" => mem[p].prev = home
    /\ file = Torn <=> \E p \in Procs : pc[p] = "write"
    /\ file # Torn => file.prev = home \/ \E p \in Procs : pc[p] = "truncate"

\* What a use has established, step by step, and what an off has chosen.
Leads ==
  Faultless =>
    \A p \in Procs :
      /\ pc[p] = "switch" => task[p] = "use"
      /\ pc[p] \in {"pick", "back"} => task[p] = "off"
      /\ task[p] = "use" /\ pc[p] \in {"inspect", "rm", "create", "switch"} => seen[p] # NoName
      /\ pc[p] = "create" /\ task[p] = "use" => host = NoHost
      /\ pc[p] = "switch" => host = mem[p].pipe
      /\ pc[p] \in {"truncate", "write"} /\ task[p] = "use" =>
           current = "dockup" /\ host = mem[p].pipe
      /\ pc[p] = "back" => seen[p] = Origin

\* An uninstall drops a context of dockup's only ...
Drops ==
  Without({"overlap"}) => \A p \in Procs : pc[p] = "drop" => host = mem[p].pipe

\* ... and comes to its end with the file it saved, and no context for its pipe.
Uninstalling ==
  Faultless =>
    \A p \in Procs :
      /\ task[p] = "uninstall" /\ pc[p] \in {"truncate", "write", "check", "drop", "unlink"} =>
           ~mem[p].auto /\ mem[p].prev = NoName
      /\ pc[p] \in {"check", "drop", "unlink"} => file = mem[p]
      /\ pc[p] = "unlink" => host # mem[p].pipe

\* What a change of one field of config.json leaves alone.
LEMMA PrevKeeps ==
  ASSUME NEW s \in Setting, NEW c \in Prevs
  PROVE  WithPrev(s, c).prev = c /\ WithPrev(s, c).pipe = s.pipe
  BY DEF Setting, WithPrev

LEMMA AutoKeeps ==
  ASSUME NEW s \in Setting, NEW b \in BOOLEAN
  PROVE  WithAuto(s, b).prev = s.prev /\ WithAuto(s, b).pipe = s.pipe
  BY DEF Setting, WithAuto

LEMMA PipeKeeps ==
  ASSUME NEW s \in Setting, NEW n \in Pipes
  PROVE  WithPipe(s, n).prev = s.prev
  BY DEF Setting, WithPipe

LEMMA SettingParts ==
  ASSUME NEW s \in Setting
  PROVE  s.pipe \in Pipes /\ s.prev \in Prevs /\ s.auto \in BOOLEAN /\ s # Torn /\ s.pipe # NoHost
         /\ s.pipe # Foreign
  BY ContextsAssumption DEF Setting

\* The names of contexts, and the file that a command loads.
LEMMA NamesDiffer ==
  ASSUME TypeOK
  PROVE  /\ NoName # "default" /\ NoName # "dockup" /\ NoName \notin Existing
         /\ NoName \in Prevs /\ "default" \in Existing
         /\ current # NoName
<1>1. NoName \notin Own /\ NoName # "default" /\ NoName # "dockup"
  BY ContextsAssumption DEF Names
<1>2. own \subseteq Own /\ current \in Existing
  BY DEF TypeOK
<1>3. NoName \notin Existing
  BY <1>1, <1>2 DEF Existing
<1> QED
  BY <1>1, <1>2, <1>3 DEF Existing, Prevs

LEMMA FirstOf ==
  ASSUME NEW t \in Tasks
  PROVE  /\ First(t) \in {"show", "shortcut", "truncate", "load"}
         /\ t = "use" => First(t) = "show"
         /\ t = "uninstall" => First(t) = "load"
  BY DEF Tasks, First

\* A command that begins, where one runs at a time.
LEMMA BeginAlone ==
  ASSUME SInv, NEW p \in Procs, Begin(p), "overlap" \notin faults
  PROVE  /\ \A q \in Procs : pc[q] = "idle"
         /\ \E t \in Tasks : task' = [task EXCEPT ![p] = t] /\ pc' = [pc EXCEPT ![p] = First(t)]
         /\ mem' = [mem EXCEPT ![p] = Loaded] /\ pc'[p] # "idle"
         /\ UNCHANGED <<docker, disk, hist>>
<1>1. PICK t \in Tasks : task' = [task EXCEPT ![p] = t] /\ pc' = [pc EXCEPT ![p] = First(t)]
  BY DEF Begin, Goto
<1>2. pc'[p] # "idle"
  BY <1>1, FirstOf DEF SInv, TypeOK
<1> QED
  BY <1>1, <1>2 DEF Begin, Quiet, Fails

LEMMA AloneStep == SInv /\ Alone /\ [Next]_vars => Alone'
<1> SUFFICES ASSUME SInv /\ Alone, [Next]_vars PROVE Alone'
  OBVIOUS
<1> USE ContextsAssumption DEF TypeOK, Stages, Fails, Goto, docker, disk, local, hist,
        Alone, Without, Quiet
<1>0. TypeOK /\ Stages /\ faults' = faults
  BY Grows DEF SInv
<1>1. ASSUME NEW p \in Procs, Begin(p) PROVE Alone'
  BY <1>1, <1>0 DEF Begin, Loaded, Quiet, First
<1>2. ASSUME NEW p \in Procs, Truncate(p) PROVE Alone'
  BY <1>2, <1>0, SaveType DEF Truncate, AfterSave, Known
<1>3. ASSUME NEW p \in Procs, Write(p) PROVE Alone'
  BY <1>3, <1>0, SaveType DEF Write, AfterSave, Known
<1>4. ASSUME NEW p \in Procs, Show(p) PROVE Alone'
  BY <1>4, <1>0 DEF Show
<1>5. ASSUME NEW p \in Procs, Inspect(p) PROVE Alone'
  BY <1>5, <1>0 DEF Inspect, Ensured
<1>6. ASSUME NEW p \in Procs, Rm(p) PROVE Alone'
  BY <1>6, <1>0 DEF Rm, Removed
<1>7. ASSUME NEW p \in Procs, Create(p) PROVE Alone'
  BY <1>7, <1>0 DEF Create, Ensured
<1>8. ASSUME NEW p \in Procs, Switch(p) PROVE Alone'
  BY <1>8, <1>0 DEF Switch, Remembers
<1>9. ASSUME NEW p \in Procs, Pick(p) PROVE Alone'
  BY <1>9, <1>0 DEF Pick
<1>10. ASSUME NEW p \in Procs, Back(p) PROVE Alone'
  BY <1>10, <1>0 DEF Back
<1>11. ASSUME NEW p \in Procs, SetEnabled(p) PROVE Alone'
  BY <1>11, <1>0 DEF SetEnabled
<1>12. ASSUME NEW p \in Procs, Load(p) PROVE Alone'
  BY <1>12, <1>0 DEF Load, Loaded
<1>13. ASSUME NEW p \in Procs, Remove(p) PROVE Alone'
  BY <1>13, <1>0 DEF Remove
<1>14. ASSUME NEW p \in Procs, Drop(p) PROVE Alone'
  BY <1>14, <1>0 DEF Drop, Removed
<1>15. ASSUME NEW p \in Procs, Unlink(p) PROVE Alone'
  BY <1>15, <1>0 DEF Unlink
<1>16. ASSUME NEW p \in Procs, Crash(p) PROVE Alone'
  BY <1>16, <1>0 DEF Crash
<1>17. CASE UserSwitches
  BY <1>17, <1>0 DEF UserSwitches, User, Quiet
<1>18. CASE UserCreates
  BY <1>18, <1>0 DEF UserCreates, User, Quiet
<1>19. CASE UserRemoves
  BY <1>19, <1>0 DEF UserRemoves, User, Quiet
<1>20. CASE UserConfigures
  BY <1>20, <1>0 DEF UserConfigures, User, Known, Loaded, Quiet
<1>21. CASE UNCHANGED vars
  BY <1>21, <1>0 DEF vars
<1> QED
  BY <1>1, <1>2, <1>3, <1>4, <1>5, <1>6, <1>7, <1>8, <1>9, <1>10, <1>11, <1>12, <1>13,
     <1>14, <1>15, <1>16, <1>17, <1>18, <1>19, <1>20, <1>21 DEF Next

LEMMA RememberedStep == SInv /\ Alone /\ Remembered /\ Leads /\ [Next]_vars => Remembered'
<1> SUFFICES ASSUME SInv /\ Alone /\ Remembered /\ Leads, [Next]_vars, Faultless' PROVE Remembered'
  BY DEF Remembered, Faultless, Without
<1> USE ContextsAssumption DEF TypeOK, Stages, Fails, Goto, docker, disk, local, hist,
        Alone, Remembered, Faultless, Without
<1>0. TypeOK /\ Stages /\ faults' = faults
  BY Grows DEF SInv
<1>1. ASSUME NEW p \in Procs, Begin(p) PROVE Remembered'
  <2>1. \A q \in Procs : pc[q] = "idle"
    BY <1>1, <1>0, BeginAlone
  <2>2. /\ mem' = [mem EXCEPT ![p] = Loaded] /\ UNCHANGED <<file, home>>
        /\ \A q \in Procs \ {p} : pc'[q] = "idle"
        /\ pc'[p] \in {"show", "shortcut", "truncate", "load"}
    BY <1>1, <1>0, <2>1, BeginAlone, FirstOf
  <2>3. file # Torn /\ file.prev = home /\ Loaded = file
    BY <1>0, <2>1 DEF Loaded
  <2> QED
    BY <1>0, <2>2, <2>3
<1>2. ASSUME NEW p \in Procs, Truncate(p) PROVE Remembered'
  BY <1>2, <1>0, SettingParts, NamesDiffer DEF Truncate, AfterSave, Known
<1>3. ASSUME NEW p \in Procs, Write(p) PROVE Remembered'
  <2>0. \A q \in Procs \ {p} : pc[q] = "idle"
    BY <1>3, <1>0 DEF Write
  <2>1. file' = mem[p] /\ mem[p].prev = home /\ mem[p] # Torn
    BY <1>3, <1>0, SettingParts DEF Write
  <2>2. \A q \in Procs : pc'[q] # "write"
    BY <1>3, <1>0, <2>0, SaveType DEF Write
  <2> QED
    BY <1>3, <1>0, <2>0, <2>1, <2>2 DEF Write
<1>4. ASSUME NEW p \in Procs, Show(p) PROVE Remembered'
  BY <1>4, <1>0, SettingParts, NamesDiffer DEF Show
<1>5. ASSUME NEW p \in Procs, Inspect(p) PROVE Remembered'
  BY <1>5, <1>0, SettingParts, NamesDiffer DEF Inspect, Ensured
<1>6. ASSUME NEW p \in Procs, Rm(p) PROVE Remembered'
  BY <1>6, <1>0, SettingParts, NamesDiffer DEF Rm, Removed
<1>7. ASSUME NEW p \in Procs, Create(p) PROVE Remembered'
  BY <1>7, <1>0, SettingParts, NamesDiffer DEF Create, Ensured
<1>8. ASSUME NEW p \in Procs, Switch(p) PROVE Remembered'
  <2>0. \A q \in Procs \ {p} : pc[q] = "idle"
    BY <1>8, <1>0 DEF Switch
  <2>1. seen[p] # NoName /\ mem[p].prev = home
    BY <1>8, <1>0 DEF Switch, Leads
  <2>2. file # Torn /\ file.prev = home
    BY <1>8, <1>0, <2>0 DEF Switch
  <2>3. CASE mem' = [mem EXCEPT ![p] = WithPrev(mem[p], seen[p])] /\ Remembers(p) /\ home' = seen[p]
             /\ pc' = [pc EXCEPT ![p] = "truncate"]
    <3>1. seen[p] \in Prevs
      BY <1>0, <2>3 DEF Remembers, Prevs, Names
    <3>2. WithPrev(mem[p], seen[p]).prev = seen[p]
      BY <1>0, <3>1, PrevKeeps
    <3> QED
      BY <1>8, <1>0, <2>0, <2>2, <2>3, <3>2 DEF Switch
  <2>4. CASE UNCHANGED mem /\ pc' = [pc EXCEPT ![p] = "idle"] /\ home' = home
    BY <1>8, <1>0, <2>0, <2>2, <2>4 DEF Switch
  <2> QED
    BY <1>8, <2>1, <2>3, <2>4 DEF Switch, Remembers
<1>9. ASSUME NEW p \in Procs, Pick(p) PROVE Remembered'
  BY <1>9, <1>0, SettingParts, NamesDiffer DEF Pick
<1>10. ASSUME NEW p \in Procs, Back(p) PROVE Remembered'
  <2>0. \A q \in Procs \ {p} : pc[q] = "idle"
    BY <1>10, <1>0 DEF Back
  <2>1. mem[p].prev = home /\ file # Torn /\ file.prev = home
    BY <1>10, <1>0, <2>0 DEF Back
  <2>2. WithPrev(mem[p], NoName).prev = NoName
    BY <1>0, PrevKeeps, NamesDiffer
  <2>3. CASE /\ home' = NoName /\ mem' = [mem EXCEPT ![p] = WithPrev(mem[p], NoName)]
             /\ pc' = [pc EXCEPT ![p] = IF mem[p].prev = NoName THEN "idle" ELSE "truncate"]
    BY <1>10, <1>0, <2>0, <2>1, <2>2, <2>3 DEF Back
  <2>4. CASE UNCHANGED <<mem, home>> /\ pc' = [pc EXCEPT ![p] = "idle"]
    BY <1>10, <1>0, <2>0, <2>1, <2>4 DEF Back
  <2> QED
    BY <1>10, <2>3, <2>4 DEF Back
<1>11. ASSUME NEW p \in Procs, SetEnabled(p) PROVE Remembered'
  <2>0. \A q \in Procs \ {p} : pc[q] = "idle"
    BY <1>11, <1>0 DEF SetEnabled
  <2>1. mem[p].prev = home /\ file # Torn /\ file.prev = home
    BY <1>11, <1>0, <2>0 DEF SetEnabled
  <2>2. WithAuto(mem[p], task[p] = "enable").prev = mem[p].prev
    BY <1>0, AutoKeeps
  <2>3. /\ UNCHANGED <<file, home, faults>>
        /\ \/ mem' = [mem EXCEPT ![p] = WithAuto(mem[p], task[p] = "enable")]
           \/ UNCHANGED mem
        /\ \E l \in {"truncate", "idle"} : pc' = [pc EXCEPT ![p] = l]
    BY <1>11 DEF SetEnabled
  <2> QED
    BY <1>0, <2>0, <2>1, <2>2, <2>3
<1>12. ASSUME NEW p \in Procs, Load(p) PROVE Remembered'
  <2>0. \A q \in Procs \ {p} : pc[q] = "idle"
    BY <1>12, <1>0 DEF Load
  <2>1. file # Torn
    BY <1>12, <1>0, <2>0 DEF Load
  <2>2. WithPrev(file, NoName) \in Setting /\ WithPrev(file, NoName).prev = NoName
    BY <1>0, <2>1, PrevEdit, PrevKeeps, NamesDiffer
  <2>3. WithAuto(WithPrev(file, NoName), FALSE).prev = NoName
    BY <2>2, AutoKeeps
  <2>4. /\ mem' = [mem EXCEPT ![p] = WithAuto(WithPrev(file, NoName), FALSE)]
        /\ home' = NoName /\ UNCHANGED <<file, faults>>
        /\ pc' = [pc EXCEPT ![p] = "truncate"]
    BY <1>12, <2>1 DEF Load, Loaded
  <2> QED
    BY <1>0, <2>0, <2>1, <2>3, <2>4
<1>13. ASSUME NEW p \in Procs, Remove(p) PROVE Remembered'
  BY <1>13, <1>0, SettingParts, NamesDiffer DEF Remove
<1>14. ASSUME NEW p \in Procs, Drop(p) PROVE Remembered'
  BY <1>14, <1>0, SettingParts, NamesDiffer DEF Drop, Removed
<1>15. ASSUME NEW p \in Procs, Unlink(p) PROVE Remembered'
  BY <1>15, <1>0, SettingParts, NamesDiffer DEF Unlink
<1>16. ASSUME NEW p \in Procs, Crash(p) PROVE Remembered'
  BY <1>16, <1>0, SettingParts, NamesDiffer DEF Crash
<1>17. CASE UserSwitches
  BY <1>17, <1>0, SettingParts, NamesDiffer DEF UserSwitches, User, Quiet
<1>18. CASE UserCreates
  BY <1>18, <1>0, SettingParts, NamesDiffer DEF UserCreates, User, Quiet
<1>19. CASE UserRemoves
  BY <1>19, <1>0, SettingParts, NamesDiffer DEF UserRemoves, User, Quiet
<1>20. CASE UserConfigures
  <2>1. \A q \in Procs : pc[q] = "idle" /\ pc'[q] = "idle"
    BY <1>20, <1>0 DEF UserConfigures, User, Quiet
  <2>2. file # Torn /\ file.prev = home
    BY <1>0, <2>1
  <2>3. PICK n \in Pipes : file' = WithPipe(file, n)
    BY <1>20, <2>2 DEF UserConfigures, Loaded
  <2>4. WithPipe(file, n).prev = home /\ WithPipe(file, n) # Torn
    BY <1>0, <2>2, PipeEdit, PipeKeeps
  <2>5. home' = home
    BY <1>20 DEF UserConfigures, User
  <2> QED
    BY <2>1, <2>3, <2>4, <2>5
<1>21. CASE UNCHANGED vars
  BY <1>21, <1>0, SettingParts, NamesDiffer DEF vars
<1> QED
  BY <1>1, <1>2, <1>3, <1>4, <1>5, <1>6, <1>7, <1>8, <1>9, <1>10, <1>11, <1>12, <1>13,
     <1>14, <1>15, <1>16, <1>17, <1>18, <1>19, <1>20, <1>21 DEF Next

LEMMA LeadsStep == SInv /\ Alone /\ Remembered /\ Leads /\ [Next]_vars => Leads'
<1> SUFFICES ASSUME SInv /\ Alone /\ Remembered /\ Leads, [Next]_vars, Faultless' PROVE Leads'
  BY DEF Leads, Faultless, Without
<1> USE ContextsAssumption DEF TypeOK, Stages, Fails, Goto, docker, disk, local, hist,
        Alone, Remembered, Leads, Faultless, Without, Origin, Existing
<1>0. TypeOK /\ Stages /\ faults' = faults
  BY Grows DEF SInv
<1>1. ASSUME NEW p \in Procs, Begin(p) PROVE Leads'
  <2>1. \A q \in Procs : pc[q] = "idle"
    BY <1>1, <1>0, BeginAlone
  <2>2. PICK t \in Tasks : task' = [task EXCEPT ![p] = t] /\ pc' = [pc EXCEPT ![p] = First(t)]
    BY <1>1, <1>0, BeginAlone
  <2>3. \A q \in Procs \ {p} : pc'[q] = "idle"
    BY <1>0, <2>1, <2>2
  <2>4. /\ pc'[p] \in {"show", "shortcut", "truncate", "load"}
        /\ task'[p] = "use" => pc'[p] = "show"
        /\ task'[p] = "uninstall" => pc'[p] = "load"
    BY <1>0, <2>2, FirstOf
  <2> QED
    BY <2>3, <2>4
<1>2. ASSUME NEW p \in Procs, Truncate(p) PROVE Leads'
  BY <1>2, <1>0, SettingParts, NamesDiffer DEF Truncate, AfterSave, Known
<1>3. ASSUME NEW p \in Procs, Write(p) PROVE Leads'
  BY <1>3, <1>0, SettingParts, NamesDiffer DEF Write, AfterSave, Known
<1>4. ASSUME NEW p \in Procs, Show(p) PROVE Leads'
  BY <1>4, <1>0, SettingParts, NamesDiffer DEF Show
<1>5. ASSUME NEW p \in Procs, Inspect(p) PROVE Leads'
  BY <1>5, <1>0, SettingParts, NamesDiffer DEF Inspect, Ensured
<1>6. ASSUME NEW p \in Procs, Rm(p) PROVE Leads'
  BY <1>6, <1>0, SettingParts, NamesDiffer DEF Rm, Removed
<1>7. ASSUME NEW p \in Procs, Create(p) PROVE Leads'
  BY <1>7, <1>0, SettingParts, NamesDiffer DEF Create, Ensured
<1>8. ASSUME NEW p \in Procs, Switch(p) PROVE Leads'
  <2>0. \A q \in Procs \ {p} : pc[q] = "idle"
    BY <1>8, <1>0 DEF Switch
  <2>1. /\ pc[p] = "switch" /\ host = mem[p].pipe /\ host # NoHost /\ seen[p] # NoName
        /\ task[p] = "use" /\ UNCHANGED <<host, task, own, seen, faults>>
    BY <1>8, <1>0, SettingParts DEF Switch
  <2>2. /\ current' = "dockup"
        /\ \/ mem' = [mem EXCEPT ![p] = WithPrev(mem[p], seen[p])] /\ Remembers(p) /\ pc'[p] = "truncate"
           \/ UNCHANGED mem /\ pc'[p] = "idle"
        /\ \A q \in Procs \ {p} : pc'[q] = "idle"
    BY <1>8, <1>0, <2>0, <2>1 DEF Switch
  <2>3. Remembers(p) => seen[p] \in Prevs
    BY <1>0 DEF Remembers, Prevs, Names
  <2>4. Remembers(p) => WithPrev(mem[p], seen[p]).pipe = mem[p].pipe
    BY <1>0, <2>3, PrevKeeps
  <2> QED
    BY <1>0, <2>1, <2>2, <2>4
<1>9. ASSUME NEW p \in Procs, Pick(p) PROVE Leads'
  BY <1>9, <1>0, SettingParts, NamesDiffer DEF Pick
<1>10. ASSUME NEW p \in Procs, Back(p) PROVE Leads'
  <2>0. \A q \in Procs \ {p} : pc[q] = "idle"
    BY <1>10, <1>0 DEF Back
  <2>1. \A q \in Procs \ {p} : pc'[q] = "idle"
    BY <1>10, <1>0, <2>0 DEF Back
  <2>2. pc'[p] \in {"idle", "truncate"} /\ task'[p] = task[p]
    BY <1>10, <1>0 DEF Back
  <2>3. task[p] # "use"
    BY <1>10 DEF Back
  <2> QED
    BY <2>1, <2>2, <2>3
<1>11. ASSUME NEW p \in Procs, SetEnabled(p) PROVE Leads'
  BY <1>11, <1>0, SettingParts, NamesDiffer DEF SetEnabled
<1>12. ASSUME NEW p \in Procs, Load(p) PROVE Leads'
  <2>1. /\ pc[p] = "load" /\ pc'[p] \in {"check", "truncate"}
        /\ UNCHANGED <<host, own, current, task, seen, faults>>
        /\ \A q \in Procs \ {p} : pc[q] = "idle"
    BY <1>12, <1>0 DEF Load
  <2>2. task[p] = "uninstall"
    BY <1>0, <2>1
  <2>3. \A q \in Procs \ {p} : pc'[q] = "idle"
    BY <1>12, <1>0, <2>1 DEF Load
  <2> QED
    BY <1>0, <2>1, <2>2, <2>3
<1>13. ASSUME NEW p \in Procs, Remove(p) PROVE Leads'
  BY <1>13, <1>0, SettingParts, NamesDiffer DEF Remove
<1>14. ASSUME NEW p \in Procs, Drop(p) PROVE Leads'
  BY <1>14, <1>0, SettingParts, NamesDiffer DEF Drop, Removed
<1>15. ASSUME NEW p \in Procs, Unlink(p) PROVE Leads'
  BY <1>15, <1>0, SettingParts, NamesDiffer DEF Unlink
<1>16. ASSUME NEW p \in Procs, Crash(p) PROVE Leads'
  BY <1>16, <1>0, SettingParts, NamesDiffer DEF Crash
<1>17. CASE UserSwitches
  BY <1>17, <1>0, SettingParts, NamesDiffer DEF UserSwitches, User, Quiet
<1>18. CASE UserCreates
  BY <1>18, <1>0, SettingParts, NamesDiffer DEF UserCreates, User, Quiet
<1>19. CASE UserRemoves
  BY <1>19, <1>0, SettingParts, NamesDiffer DEF UserRemoves, User, Quiet
<1>20. CASE UserConfigures
  BY <1>20, <1>0, SettingParts, NamesDiffer DEF UserConfigures, User, Known, Loaded, Quiet
<1>21. CASE UNCHANGED vars
  BY <1>21, <1>0, SettingParts, NamesDiffer DEF vars
<1> QED
  BY <1>1, <1>2, <1>3, <1>4, <1>5, <1>6, <1>7, <1>8, <1>9, <1>10, <1>11, <1>12, <1>13,
     <1>14, <1>15, <1>16, <1>17, <1>18, <1>19, <1>20, <1>21 DEF Next

LEMMA DropsStep == SInv /\ Alone /\ Drops /\ [Next]_vars => Drops'
<1> SUFFICES ASSUME SInv /\ Alone /\ Drops, [Next]_vars, "overlap" \notin faults' PROVE Drops'
  BY DEF Drops, Without
<1> USE ContextsAssumption DEF TypeOK, Stages, Fails, Goto, docker, disk, local, hist,
        Alone, Drops, Without
<1>0. TypeOK /\ Stages /\ faults' = faults
  BY Grows DEF SInv
<1>1. ASSUME NEW p \in Procs, Begin(p) PROVE Drops'
  <2>1. \A q \in Procs : pc[q] = "idle"
    BY <1>1, <1>0, BeginAlone
  <2>2. PICK t \in Tasks : task' = [task EXCEPT ![p] = t] /\ pc' = [pc EXCEPT ![p] = First(t)]
    BY <1>1, <1>0, BeginAlone
  <2>3. \A q \in Procs \ {p} : pc'[q] = "idle"
    BY <1>0, <2>1, <2>2
  <2>4. /\ pc'[p] \in {"show", "shortcut", "truncate", "load"}
        /\ task'[p] = "use" => pc'[p] = "show"
        /\ task'[p] = "uninstall" => pc'[p] = "load"
    BY <1>0, <2>2, FirstOf
  <2> QED
    BY <2>3, <2>4
<1>2. ASSUME NEW p \in Procs, Truncate(p) PROVE Drops'
  BY <1>2, <1>0 DEF Truncate, AfterSave, Known
<1>3. ASSUME NEW p \in Procs, Write(p) PROVE Drops'
  BY <1>3, <1>0 DEF Write, AfterSave, Known
<1>4. ASSUME NEW p \in Procs, Show(p) PROVE Drops'
  BY <1>4, <1>0 DEF Show
<1>5. ASSUME NEW p \in Procs, Inspect(p) PROVE Drops'
  BY <1>5, <1>0 DEF Inspect, Ensured
<1>6. ASSUME NEW p \in Procs, Rm(p) PROVE Drops'
  BY <1>6, <1>0 DEF Rm, Removed
<1>7. ASSUME NEW p \in Procs, Create(p) PROVE Drops'
  BY <1>7, <1>0 DEF Create, Ensured
<1>8. ASSUME NEW p \in Procs, Switch(p) PROVE Drops'
  BY <1>8, <1>0 DEF Switch, Remembers
<1>9. ASSUME NEW p \in Procs, Pick(p) PROVE Drops'
  BY <1>9, <1>0 DEF Pick
<1>10. ASSUME NEW p \in Procs, Back(p) PROVE Drops'
  BY <1>10, <1>0 DEF Back
<1>11. ASSUME NEW p \in Procs, SetEnabled(p) PROVE Drops'
  BY <1>11, <1>0 DEF SetEnabled
<1>12. ASSUME NEW p \in Procs, Load(p) PROVE Drops'
  BY <1>12, <1>0 DEF Load, Loaded
<1>13. ASSUME NEW p \in Procs, Remove(p) PROVE Drops'
  BY <1>13, <1>0 DEF Remove
<1>14. ASSUME NEW p \in Procs, Drop(p) PROVE Drops'
  BY <1>14, <1>0 DEF Drop, Removed
<1>15. ASSUME NEW p \in Procs, Unlink(p) PROVE Drops'
  BY <1>15, <1>0 DEF Unlink
<1>16. ASSUME NEW p \in Procs, Crash(p) PROVE Drops'
  BY <1>16, <1>0 DEF Crash
<1>17. CASE UserSwitches
  BY <1>17, <1>0 DEF UserSwitches, User, Quiet
<1>18. CASE UserCreates
  BY <1>18, <1>0 DEF UserCreates, User, Quiet
<1>19. CASE UserRemoves
  BY <1>19, <1>0 DEF UserRemoves, User, Quiet
<1>20. CASE UserConfigures
  BY <1>20, <1>0 DEF UserConfigures, User, Known, Loaded, Quiet
<1>21. CASE UNCHANGED vars
  BY <1>21, <1>0 DEF vars
<1> QED
  BY <1>1, <1>2, <1>3, <1>4, <1>5, <1>6, <1>7, <1>8, <1>9, <1>10, <1>11, <1>12, <1>13,
     <1>14, <1>15, <1>16, <1>17, <1>18, <1>19, <1>20, <1>21 DEF Next

LEMMA UninstallingStep == SInv /\ Alone /\ Remembered /\ Uninstalling /\ [Next]_vars => Uninstalling'
<1> SUFFICES ASSUME SInv /\ Alone /\ Remembered /\ Uninstalling, [Next]_vars, Faultless' PROVE Uninstalling'
  BY DEF Uninstalling, Faultless, Without
<1> USE ContextsAssumption DEF TypeOK, Stages, Fails, Goto, docker, disk, local, hist,
        Alone, Remembered, Uninstalling, Faultless, Without
<1>0. TypeOK /\ Stages /\ faults' = faults
  BY Grows DEF SInv
<1>1. ASSUME NEW p \in Procs, Begin(p) PROVE Uninstalling'
  <2>1. \A q \in Procs : pc[q] = "idle"
    BY <1>1, <1>0, BeginAlone
  <2>2. PICK t \in Tasks : task' = [task EXCEPT ![p] = t] /\ pc' = [pc EXCEPT ![p] = First(t)]
    BY <1>1, <1>0, BeginAlone
  <2>3. \A q \in Procs \ {p} : pc'[q] = "idle"
    BY <1>0, <2>1, <2>2
  <2>4. /\ pc'[p] \in {"show", "shortcut", "truncate", "load"}
        /\ task'[p] = "use" => pc'[p] = "show"
        /\ task'[p] = "uninstall" => pc'[p] = "load"
    BY <1>0, <2>2, FirstOf
  <2> QED
    BY <2>3, <2>4
<1>2. ASSUME NEW p \in Procs, Truncate(p) PROVE Uninstalling'
  BY <1>2, <1>0, SettingParts, NamesDiffer DEF Truncate, AfterSave, Known
<1>3. ASSUME NEW p \in Procs, Write(p) PROVE Uninstalling'
  <2>0. \A q \in Procs \ {p} : pc[q] = "idle"
    BY <1>3, <1>0 DEF Write
  <2>1. file' = mem[p] /\ UNCHANGED <<mem, task, host, faults>>
    BY <1>3, <1>0, SettingParts DEF Write
  <2>2. \A q \in Procs \ {p} : pc'[q] = "idle"
    BY <1>3, <1>0, <2>0 DEF Write
  <2>3. pc'[p] \in AfterSave(task[p])
    BY <1>3, <1>0 DEF Write
  <2>4. pc'[p] \in {"check", "inspect", "idle"} /\ (pc'[p] = "check" => task[p] = "uninstall")
    BY <1>0, <2>3 DEF AfterSave, Tasks
  <2> QED
    BY <1>3, <1>0, <2>1, <2>2, <2>4 DEF Write
<1>4. ASSUME NEW p \in Procs, Show(p) PROVE Uninstalling'
  BY <1>4, <1>0, SettingParts, NamesDiffer DEF Show
<1>5. ASSUME NEW p \in Procs, Inspect(p) PROVE Uninstalling'
  BY <1>5, <1>0, SettingParts, NamesDiffer DEF Inspect, Ensured
<1>6. ASSUME NEW p \in Procs, Rm(p) PROVE Uninstalling'
  BY <1>6, <1>0, SettingParts, NamesDiffer DEF Rm, Removed
<1>7. ASSUME NEW p \in Procs, Create(p) PROVE Uninstalling'
  BY <1>7, <1>0, SettingParts, NamesDiffer DEF Create, Ensured
<1>8. ASSUME NEW p \in Procs, Switch(p) PROVE Uninstalling'
  BY <1>8, <1>0, SettingParts, NamesDiffer DEF Switch, Remembers
<1>9. ASSUME NEW p \in Procs, Pick(p) PROVE Uninstalling'
  BY <1>9, <1>0, SettingParts, NamesDiffer DEF Pick
<1>10. ASSUME NEW p \in Procs, Back(p) PROVE Uninstalling'
  BY <1>10, <1>0, SettingParts, NamesDiffer DEF Back
<1>11. ASSUME NEW p \in Procs, SetEnabled(p) PROVE Uninstalling'
  BY <1>11, <1>0, SettingParts, NamesDiffer DEF SetEnabled
<1>12. ASSUME NEW p \in Procs, Load(p) PROVE Uninstalling'
  <2>0. \A q \in Procs \ {p} : pc[q] = "idle"
    BY <1>12, <1>0 DEF Load
  <2>1. file # Torn
    BY <1>12, <1>0, <2>0 DEF Load
  <2>2. WithPrev(file, NoName) \in Setting /\ WithPrev(file, NoName).prev = NoName
    BY <1>0, <2>1, PrevEdit, PrevKeeps, NamesDiffer
  <2>3. /\ WithAuto(WithPrev(file, NoName), FALSE).prev = NoName
        /\ WithAuto(WithPrev(file, NoName), FALSE).auto = FALSE
    BY <2>2, AutoEdit, AutoKeeps
  <2>4. /\ mem' = [mem EXCEPT ![p] = WithAuto(WithPrev(file, NoName), FALSE)]
        /\ pc' = [pc EXCEPT ![p] = "truncate"]
    BY <1>12, <2>1 DEF Load, Loaded
  <2> QED
    BY <1>0, <2>0, <2>3, <2>4
<1>13. ASSUME NEW p \in Procs, Remove(p) PROVE Uninstalling'
  BY <1>13, <1>0, SettingParts, NamesDiffer DEF Remove
<1>14. ASSUME NEW p \in Procs, Drop(p) PROVE Uninstalling'
  BY <1>14, <1>0, SettingParts, NamesDiffer DEF Drop, Removed
<1>15. ASSUME NEW p \in Procs, Unlink(p) PROVE Uninstalling'
  BY <1>15, <1>0, SettingParts, NamesDiffer DEF Unlink
<1>16. ASSUME NEW p \in Procs, Crash(p) PROVE Uninstalling'
  BY <1>16, <1>0, SettingParts, NamesDiffer DEF Crash
<1>17. CASE UserSwitches
  BY <1>17, <1>0, SettingParts, NamesDiffer DEF UserSwitches, User, Quiet
<1>18. CASE UserCreates
  BY <1>18, <1>0, SettingParts, NamesDiffer DEF UserCreates, User, Quiet
<1>19. CASE UserRemoves
  BY <1>19, <1>0, SettingParts, NamesDiffer DEF UserRemoves, User, Quiet
<1>20. CASE UserConfigures
  BY <1>20, <1>0, SettingParts, NamesDiffer DEF UserConfigures, User, Known, Loaded, Quiet
<1>21. CASE UNCHANGED vars
  BY <1>21, <1>0, SettingParts, NamesDiffer DEF vars
<1> QED
  BY <1>1, <1>2, <1>3, <1>4, <1>5, <1>6, <1>7, <1>8, <1>9, <1>10, <1>11, <1>12, <1>13,
     <1>14, <1>15, <1>16, <1>17, <1>18, <1>19, <1>20, <1>21 DEF Next

-----------------------------------------------------------------------------
\* What holds between the steps of commands that run one at a time.
WaysInv ==
  /\ SInv
  /\ Alone
  /\ Remembered
  /\ Leads
  /\ Drops
  /\ Uninstalling

LEMMA WaysStart == Init => WaysInv
<1> SUFFICES ASSUME Init PROVE WaysInv
  OBVIOUS
<1>1. SInv
  BY Start
<1>2. Defaults.prev = NoName /\ Defaults # Torn
  BY DefaultsType, SettingParts DEF Defaults
<1>3. Alone /\ Leads /\ Drops /\ Uninstalling
  BY DEF Init, Alone, Leads, Drops, Uninstalling
<1>4. Remembered
  BY <1>2 DEF Init, Remembered
<1> QED
  BY <1>1, <1>3, <1>4 DEF WaysInv

THEOREM WaysAlways == Spec => []WaysInv
<1>1. WaysInv /\ [Next]_vars => WaysInv'
  BY Inductive, AloneStep, RememberedStep, LeadsStep, DropsStep, UninstallingStep DEF WaysInv
<1> QED
  BY <1>1, WaysStart, PTL DEF Spec

\* The steps of a command that has begun.
StepOf(p) ==
  \/ Truncate(p) \/ Write(p)
  \/ Show(p) \/ Inspect(p) \/ Rm(p) \/ Create(p) \/ Switch(p)
  \/ Pick(p) \/ Back(p) \/ SetEnabled(p)
  \/ Load(p) \/ Remove(p) \/ Drop(p) \/ Unlink(p) \/ Crash(p)

\* Where one command runs at a time, nothing else happens until it ends.
LEMMA OnlyOne ==
  ASSUME Alone, Without({"overlap"}), [Next]_vars, NEW p \in Procs, pc[p] # "idle"
  PROVE  StepOf(p) \/ UNCHANGED vars
<1>1. ~Quiet /\ ~Fails("overlap") /\ \A q \in Procs : pc[q] # "idle" => q = p
  BY DEF Quiet, Fails, Without, Alone
<1>2. ASSUME NEW q \in Procs PROVE ~Begin(q)
  BY <1>1 DEF Begin
<1>3. ~UserSwitches /\ ~UserCreates /\ ~UserRemoves /\ ~UserConfigures
  BY <1>1 DEF UserSwitches, UserCreates, UserRemoves, UserConfigures, User
<1>4. ASSUME NEW q \in Procs, StepOf(q) PROVE pc[q] # "idle"
  BY <1>4 DEF StepOf, Truncate, Write, Show, Inspect, Rm, Create, Switch, Pick, Back,
              SetEnabled, Load, Remove, Drop, Unlink, Crash
<1>5. (\E q \in Procs : StepOf(q)) \/ UNCHANGED vars
  BY <1>2, <1>3 DEF Next, StepOf
<1> QED
  BY <1>1, <1>4, <1>5

\* An off that ends has put Docker back.
LEMMA BackWay ==
  ASSUME WaysInv, Faultless, [Next]_vars, NEW p \in Procs, pc[p] = "back", pc'[p] # "back"
  PROVE  current' = Origin
<1>1. TypeOK /\ Without({"overlap"}) /\ Alone /\ seen[p] = Origin
  BY DEF WaysInv, SInv, Leads, Faultless, Without
<1>2. Origin \in Existing
  BY <1>1, NamesDiffer DEF Origin
<1>3. StepOf(p)
  BY <1>1, OnlyOne DEF vars
<1>4. Back(p)
  BY <1>3 DEF StepOf, Truncate, Write, Show, Inspect, Rm, Create, Switch, Pick,
              SetEnabled, Load, Remove, Drop, Unlink, Crash, Fails, Faultless, Without
<1> QED
  BY <1>1, <1>2, <1>4 DEF Back, Fails, Faultless, Without

\* A use that ends has switched to a context for its pipe.
LEMMA UseWay ==
  ASSUME WaysInv, Faultless, [Next]_vars, NEW p \in Procs,
         task[p] = "use", pc[p] # "idle", pc'[p] = "idle"
  PROVE  current' = "dockup" /\ host' = mem[p].pipe
<1>1. TypeOK /\ Stages /\ Leads /\ Alone /\ Without({"overlap"})
  BY DEF WaysInv, SInv, Faultless, Without
<1>2. ~Fails("docker") /\ ~Fails("saves") /\ ~Fails("crash")
  BY DEF Faultless, Without, Fails
<1>3. StepOf(p)
  BY <1>1, OnlyOne DEF vars
<1>4. mem[p].pipe # NoHost /\ current # NoName /\ pc \in [Procs -> Steps]
  BY <1>1, SettingParts, NamesDiffer DEF TypeOK
<1>5. Switch(p) \/ Write(p)
  <2>1. ~Truncate(p) /\ ~Show(p) /\ ~Inspect(p) /\ ~Rm(p)
    BY <1>2, <1>4 DEF Truncate, Show, Inspect, Ensured, Rm, Goto
  <2>2. ~Create(p)
    BY <1>1, <1>2, <1>4 DEF Create, Ensured, Goto, Leads
  <2>3. ~Pick(p) /\ ~Back(p)
    BY <1>1 DEF Pick, Back, Leads
  <2>4. ~SetEnabled(p) /\ ~Load(p) /\ ~Remove(p) /\ ~Drop(p) /\ ~Unlink(p)
    BY <1>1 DEF SetEnabled, Load, Remove, Drop, Unlink, Stages
  <2> QED
    BY <1>2, <1>3, <2>1, <2>2, <2>3, <2>4 DEF StepOf, Crash
<1>6. CASE Switch(p)
  BY <1>1, <1>2, <1>4, <1>6 DEF Switch, Leads
<1>7. CASE Write(p)
  BY <1>1, <1>7 DEF Write, Leads, docker
<1> QED
  BY <1>5, <1>6, <1>7

\* A use that ends well leads to its pipe, and an off back to where the user came from.
THEOREM BothWays == Spec => SwitchesBothWays
<1>1. WaysInv /\ [Next]_vars =>
        [Without({"overlap", "saves", "crash", "docker"}) =>
           \A p \in Procs :
             /\ pc[p] = "back" /\ pc'[p] # "back" =>
                  current' = IF home \in Existing THEN home ELSE "default"
             /\ task[p] = "use" /\ pc[p] # "idle" /\ pc'[p] = "idle" =>
                  /\ current' = "dockup"
                  /\ host' = mem[p].pipe]_vars
  BY BackWay, UseWay DEF Faultless, Origin
<1> QED
  BY <1>1, WaysAlways, PTL DEF Spec, SwitchesBothWays

\* An uninstall that runs alone removes no context of the user's.
LEMMA ForeignStays ==
  ASSUME WaysInv, Without({"overlap"}), [Next]_vars, NEW p \in Procs,
         task[p] = "uninstall", pc[p] # "idle", host = Foreign
  PROVE  host' = Foreign
<1>1. TypeOK /\ Stages /\ Alone /\ Drops
  BY DEF WaysInv, SInv
<1>2. StepOf(p) \/ UNCHANGED vars
  BY <1>1, OnlyOne
<1>3. ~Drop(p)
  BY <1>1, SettingParts DEF TypeOK, Drop, Drops
<1>4. ~Rm(p) /\ ~Create(p)
  BY <1>1 DEF Stages, Rm, Create
<1> QED
  BY <1>2, <1>3, <1>4 DEF StepOf, Truncate, Write, Show, Inspect, Switch, Pick, Back,
     SetEnabled, Load, Remove, Unlink, Crash, docker, vars

\* Nor does it leave anything of dockup's behind.
LEMMA NothingLeft ==
  ASSUME WaysInv, Without({"overlap"}), [Next]_vars, NEW p \in Procs, task[p] = "uninstall",
         pc[p] = "unlink", Without({"saves", "crash", "docker", "shortcut"}), pc'[p] = "idle"
  PROVE  /\ host' # file'.pipe
         /\ ~shortcut' /\ ~file'.auto
         /\ file'.prev = NoName
<1>1. Alone /\ Uninstalling /\ Faultless
  BY DEF WaysInv, Faultless, Without
<1>2. StepOf(p)
  BY <1>1, OnlyOne DEF vars
<1>3. Unlink(p)
  BY <1>2 DEF StepOf, Truncate, Write, Show, Inspect, Rm, Create, Switch, Pick, Back,
              SetEnabled, Load, Remove, Drop, Crash, Fails, Without
<1>4. file = mem[p] /\ host # mem[p].pipe /\ ~mem[p].auto /\ mem[p].prev = NoName
  BY <1>1 DEF Uninstalling
<1> QED
  BY <1>3, <1>4 DEF Unlink, Fails, Without, docker

\* An uninstall that runs alone takes all that is dockup's and nothing else.
THEOREM LeavesTheUsers == Spec => UninstallLeavesOnlyTheUsers
<1>1. WaysInv /\ [Next]_vars =>
        [Without({"overlap"}) =>
           \A p \in Procs :
             task[p] = "uninstall" /\ pc[p] # "idle" =>
               /\ host = Foreign => host' = Foreign
               /\ pc[p] = "unlink" /\ Without({"saves", "crash", "docker", "shortcut"}) /\ pc'[p] = "idle" =>
                    /\ host' # file'.pipe
                    /\ ~shortcut' /\ ~file'.auto
                    /\ file'.prev = NoName]_vars
  BY ForeignStays, NothingLeft
<1> QED
  BY <1>1, WaysAlways, PTL DEF Spec, UninstallLeavesOnlyTheUsers
=============================================================================
