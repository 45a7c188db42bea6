------------------------------ MODULE RelayProofs ------------------------------
(* Proofs about the two parts of the relay: Bridge, for any number of chunks in either *)
(* direction, and its log, Logs, for any number of bridges, lines and processes.       *)
EXTENDS Bridge, Logs, SequenceTheorems, FiniteSetTheorems, TLAPS

\* TypeOK in three parts.
Control ==
  /\ faults \in Worlds
  /\ client \in {"open", "half", "closed"}
  /\ backend \in {"none", "run", "eof", "ok", "failed", "killed"}
  /\ inpc \in {"read", "write", "done"}
  /\ outpc \in {"read", "write", "done"}
  /\ done \in SUBSET {"stdin", "stdout"}
  /\ main \in {"spawn", "unspawned", "close", "first", "grace", "kill", "wait", "verdict",
               "report", "ended", "exited"}

Flags ==
  /\ reading \in BOOLEAN
  /\ taking \in BOOLEAN
  /\ open \in BOOLEAN
  /\ pipe \in BOOLEAN
  /\ cancelled \in BOOLEAN
  /\ late \in BOOLEAN

Counts ==
  /\ queued \in 0..MaxIn
  /\ sent \in 0..MaxIn
  /\ wrote \in 0..MaxOut
  /\ outN \in -1..MaxOut
  /\ reply \in 0..MaxOut \cup {Error500}

\* A chunk is in one place.
Flow ==
  /\ queued <= sent
  /\ reply # Error500 => reply + (IF outpc = "write" THEN 1 ELSE 0) <= wrote

\* Results are announced by copiers that ended, and received once.
Announced ==
  /\ "stdin" \in done => inpc = "done"
  /\ "stdout" \in done => outpc = "done"
  /\ main \in {"grace", "verdict"} => inpc = "done" /\ "stdin" \notin done

\* What is known of the stdout side is what it copied.
Counted == outN >= 0 /\ ~Over => outpc = "done" /\ outN = reply

\* Without a backend nothing is copied.
NotStarted ==
  /\ main \in {"spawn", "unspawned", "close"} => backend = "none"
  /\ backend = "none" => /\ main \in {"spawn", "unspawned", "close", "ended", "exited"}
                         /\ wrote = 0
                         /\ outN = -1
                         /\ inpc = "read"
                         /\ outpc = "read"

\* The stages of the teardown.
Stages ==
  /\ main \in {"first", "grace"} => outN = -1
  /\ main \in {"kill", "wait", "report"} /\ ~late => outN >= 0
  /\ main \in {"kill", "wait"} /\ outN < 0 => inpc = "done" /\ "stdin" \notin done
  /\ main = "verdict" => late /\ outN = -1
  /\ main = "report" /\ outN < 0 => wrote >= 1
  /\ main \in {"verdict", "report", "ended"} => ~Alive
  /\ main = "ended" /\ ~late => outpc = "done" \/ backend = "none"
  /\ ~pipe => main \in {"verdict", "report", "ended", "exited"}
  /\ open <=> ~Over
  /\ reply = Error500 => main = "ended"

\* The stdout copier ends when all is written and copied, or when the client left,
\* or after the grace period.
Drained ==
  outpc = "done" /\ ~late /\ client # "closed" /\ reply # Error500 /\ main # "exited" =>
    reply = wrote /\ backend # "run"

\* The inductive invariant.
BInv ==
  /\ Control
  /\ Flags
  /\ Counts
  /\ Flow
  /\ Announced
  /\ Counted
  /\ NotStarted
  /\ Stages
  /\ Drained
  /\ LoudWhenDead
  /\ ErrorMeansSilence

LEMMA Typed == BInv => TypeOK
<1>1. Control /\ Flags /\ Counts => TypeOK
  BY DEF Control, Flags, Counts, TypeOK
<1> QED
  BY <1>1 DEF BInv

LEMMA BridgeInit == Init => BInv
<1>1. Init => Control
  BY DEF Init, Control
<1>2. Init => Flags
  BY DEF Init, Flags
<1>3. Init => Counts
  BY BridgeAssumption DEF Init, Counts
<1>4. Init => Flow /\ Announced /\ Counted /\ NotStarted
  BY BridgeAssumption DEF Init, Flow, Announced, Counted, NotStarted, Over
<1>5. Init => Stages
  BY BridgeAssumption DEF Init, Stages, Alive, Over
<1>6. Init => Drained /\ LoudWhenDead /\ ErrorMeansSilence
  BY BridgeAssumption DEF Init, Drained, LoudWhenDead, ErrorMeansSilence
<1> QED
  BY <1>1, <1>2, <1>3, <1>4, <1>5, <1>6 DEF BInv

-----------------------------------------------------------------------------
(* Each part of the invariant is kept by every step *)

LEMMA ControlStep == BInv /\ [Next]_vars => Control'
<1> SUFFICES ASSUME BInv, [Next]_vars
             PROVE  Control'
  OBVIOUS
<1> USE BridgeAssumption DEF BInv, Control, Over, clientVars, backVars, copyVars, mainVars
<1>1. CASE InRead
  BY <1>1 DEF InRead, Alive
<1>2. CASE InWrite
  BY <1>2 DEF InWrite, Alive
<1>3. CASE OutRead
  BY <1>3 DEF OutRead, Pending, Alive
<1>4. CASE OutWrite
  BY <1>4 DEF OutWrite, Alive
<1>5. CASE Spawn
  BY <1>5 DEF Spawn, Alive
<1>6. CASE First
  BY <1>6 DEF First, Receive, Note, Alive
<1>7. CASE Grace
  BY <1>7 DEF Grace, Receive, Note, Alive
<1>8. CASE Kill
  BY <1>8 DEF Kill, Alive
<1>9. CASE Wait
  BY <1>9 DEF Wait, Alive
<1>10. CASE Verdict
  BY <1>10 DEF Verdict, Overdue, Receive, Note, Alive
<1>11. CASE Refuse
  BY <1>11 DEF Refuse, Refuses, Close, Werr, Alive
<1>12. CASE Finish
  BY <1>12 DEF Finish, Close, Refuses, Werr, Alive
<1>13. CASE Reap
  BY <1>13 DEF Reap, Alive
<1>14. CASE Send
  BY <1>14 DEF Send, Alive
<1>15. CASE HalfClose
  BY <1>15 DEF HalfClose, Alive
<1>16. CASE Leave
  BY <1>16 DEF Leave, Alive
<1>17. CASE Stall
  BY <1>17 DEF Stall, Alive
<1>18. CASE Write
  BY <1>18 DEF Write, Alive
<1>19. CASE BackendEnds
  BY <1>19 DEF BackendEnds, Alive
<1>20. CASE Wedge
  BY <1>20 DEF Wedge, Alive
<1>21. CASE Cancel
  BY <1>21 DEF Cancel, Alive
<1>22. CASE Exit
  BY <1>22 DEF Exit, Alive
<1>23. CASE UNCHANGED vars
  BY <1>23 DEF vars, Alive
<1> QED
  BY <1>1, <1>2, <1>3, <1>4, <1>5, <1>6, <1>7, <1>8, <1>9,
     <1>10, <1>11, <1>12, <1>13, <1>14, <1>15, <1>16, <1>17, <1>18, <1>19, <1>20, <1>21, <1>22, <1>23
     DEF Next, Copy, Main, Others

LEMMA FlagsStep == BInv /\ [Next]_vars => Flags'
<1> SUFFICES ASSUME BInv, [Next]_vars
             PROVE  Flags'
  OBVIOUS
<1> USE BridgeAssumption DEF BInv, Flags, Over, clientVars, backVars, copyVars, mainVars
<1>1. CASE InRead
  BY <1>1 DEF InRead, Alive
<1>2. CASE InWrite
  BY <1>2 DEF InWrite, Alive
<1>3. CASE OutRead
  BY <1>3 DEF OutRead, Pending, Alive
<1>4. CASE OutWrite
  BY <1>4 DEF OutWrite, Alive
<1>5. CASE Spawn
  BY <1>5 DEF Spawn, Alive
<1>6. CASE First
  BY <1>6 DEF First, Receive, Note, Alive
<1>7. CASE Grace
  BY <1>7 DEF Grace, Receive, Note, Alive
<1>8. CASE Kill
  BY <1>8 DEF Kill, Alive
<1>9. CASE Wait
  BY <1>9 DEF Wait, Alive
<1>10. CASE Verdict
  BY <1>10 DEF Verdict, Overdue, Receive, Note, Alive
<1>11. CASE Refuse
  BY <1>11 DEF Refuse, Refuses, Close, Werr, Alive
<1>12. CASE Finish
  BY <1>12 DEF Finish, Close, Refuses, Werr, Alive
<1>13. CASE Reap
  BY <1>13 DEF Reap, Alive
<1>14. CASE Send
  BY <1>14 DEF Send, Alive
<1>15. CASE HalfClose
  BY <1>15 DEF HalfClose, Alive
<1>16. CASE Leave
  BY <1>16 DEF Leave, Alive
<1>17. CASE Stall
  BY <1>17 DEF Stall, Alive
<1>18. CASE Write
  BY <1>18 DEF Write, Alive
<1>19. CASE BackendEnds
  BY <1>19 DEF BackendEnds, Alive
<1>20. CASE Wedge
  BY <1>20 DEF Wedge, Alive
<1>21. CASE Cancel
  BY <1>21 DEF Cancel, Alive
<1>22. CASE Exit
  BY <1>22 DEF Exit, Alive
<1>23. CASE UNCHANGED vars
  BY <1>23 DEF vars, Alive
<1> QED
  BY <1>1, <1>2, <1>3, <1>4, <1>5, <1>6, <1>7, <1>8, <1>9,
     <1>10, <1>11, <1>12, <1>13, <1>14, <1>15, <1>16, <1>17, <1>18, <1>19, <1>20, <1>21, <1>22, <1>23
     DEF Next, Copy, Main, Others

LEMMA CountsStep == BInv /\ [Next]_vars => Counts'
<1> SUFFICES ASSUME BInv, [Next]_vars
             PROVE  Counts'
  OBVIOUS
<1> USE BridgeAssumption DEF BInv, Control, Counts, Flow, Announced, Stages, Counted,
        Over, clientVars, backVars, copyVars, mainVars
<1>1. CASE InRead
  BY <1>1 DEF InRead, Alive
<1>2. CASE InWrite
  BY <1>2 DEF InWrite, Alive
<1>3. CASE OutRead
  BY <1>3 DEF OutRead, Pending, Alive
<1>4. CASE OutWrite
  BY <1>4 DEF OutWrite, Alive
<1>5. CASE Spawn
  BY <1>5 DEF Spawn, Alive
<1>6. CASE First
  BY <1>6 DEF First, Receive, Note, Alive
<1>7. CASE Grace
  BY <1>7 DEF Grace, Receive, Note, Alive
<1>8. CASE Kill
  BY <1>8 DEF Kill, Alive
<1>9. CASE Wait
  BY <1>9 DEF Wait, Alive
<1>10. CASE Verdict
  BY <1>10 DEF Verdict, Overdue, Receive, Note, Alive
<1>11. CASE Refuse
  BY <1>11 DEF Refuse, Refuses, Close, Werr, Alive
<1>12. CASE Finish
  BY <1>12 DEF Finish, Close, Refuses, Werr, Alive
<1>13. CASE Reap
  BY <1>13 DEF Reap, Alive
<1>14. CASE Send
  BY <1>14 DEF Send, Alive
<1>15. CASE HalfClose
  BY <1>15 DEF HalfClose, Alive
<1>16. CASE Leave
  BY <1>16 DEF Leave, Alive
<1>17. CASE Stall
  BY <1>17 DEF Stall, Alive
<1>18. CASE Write
  BY <1>18 DEF Write, Alive
<1>19. CASE BackendEnds
  BY <1>19 DEF BackendEnds, Alive
<1>20. CASE Wedge
  BY <1>20 DEF Wedge, Alive
<1>21. CASE Cancel
  BY <1>21 DEF Cancel, Alive
<1>22. CASE Exit
  BY <1>22 DEF Exit, Alive
<1>23. CASE UNCHANGED vars
  BY <1>23 DEF vars, Alive
<1> QED
  BY <1>1, <1>2, <1>3, <1>4, <1>5, <1>6, <1>7, <1>8, <1>9,
     <1>10, <1>11, <1>12, <1>13, <1>14, <1>15, <1>16, <1>17, <1>18, <1>19, <1>20, <1>21, <1>22, <1>23
     DEF Next, Copy, Main, Others

LEMMA FlowStep == BInv /\ [Next]_vars => Flow'
<1> SUFFICES ASSUME BInv, [Next]_vars
             PROVE  Flow'
  OBVIOUS
<1> USE BridgeAssumption DEF BInv, Control, Counts, Flow, NotStarted, Stages,
        Over, clientVars, backVars, copyVars, mainVars
<1>1. CASE InRead
  BY <1>1 DEF InRead, Alive
<1>2. CASE InWrite
  BY <1>2 DEF InWrite, Alive
<1>3. CASE OutRead
  BY <1>3 DEF OutRead, Pending, Alive
<1>4. CASE OutWrite
  BY <1>4 DEF OutWrite, Alive
<1>5. CASE Spawn
  BY <1>5 DEF Spawn, Alive
<1>6. CASE First
  BY <1>6 DEF First, Receive, Note, Alive
<1>7. CASE Grace
  BY <1>7 DEF Grace, Receive, Note, Alive
<1>8. CASE Kill
  BY <1>8 DEF Kill, Alive
<1>9. CASE Wait
  BY <1>9 DEF Wait, Alive
<1>10. CASE Verdict
  BY <1>10 DEF Verdict, Overdue, Receive, Note, Alive
<1>11. CASE Refuse
  BY <1>11 DEF Refuse, Refuses, Close, Werr, Alive
<1>12. CASE Finish
  BY <1>12 DEF Finish, Close, Refuses, Werr, Alive
<1>13. CASE Reap
  BY <1>13 DEF Reap, Alive
<1>14. CASE Send
  BY <1>14 DEF Send, Alive
<1>15. CASE HalfClose
  BY <1>15 DEF HalfClose, Alive
<1>16. CASE Leave
  BY <1>16 DEF Leave, Alive
<1>17. CASE Stall
  BY <1>17 DEF Stall, Alive
<1>18. CASE Write
  BY <1>18 DEF Write, Alive
<1>19. CASE BackendEnds
  BY <1>19 DEF BackendEnds, Alive
<1>20. CASE Wedge
  BY <1>20 DEF Wedge, Alive
<1>21. CASE Cancel
  BY <1>21 DEF Cancel, Alive
<1>22. CASE Exit
  BY <1>22 DEF Exit, Alive
<1>23. CASE UNCHANGED vars
  BY <1>23 DEF vars, Alive
<1> QED
  BY <1>1, <1>2, <1>3, <1>4, <1>5, <1>6, <1>7, <1>8, <1>9,
     <1>10, <1>11, <1>12, <1>13, <1>14, <1>15, <1>16, <1>17, <1>18, <1>19, <1>20, <1>21, <1>22, <1>23
     DEF Next, Copy, Main, Others

LEMMA AnnouncedStep == BInv /\ [Next]_vars => Announced'
<1> SUFFICES ASSUME BInv, [Next]_vars
             PROVE  Announced'
  OBVIOUS
<1> USE BridgeAssumption DEF BInv, Control, Announced, NotStarted, Stages, Over, clientVars,
        backVars, copyVars, mainVars
<1>1. CASE InRead
  BY <1>1 DEF InRead, Alive
<1>2. CASE InWrite
  BY <1>2 DEF InWrite, Alive
<1>3. CASE OutRead
  BY <1>3 DEF OutRead, Pending, Alive
<1>4. CASE OutWrite
  BY <1>4 DEF OutWrite, Alive
<1>5. CASE Spawn
  BY <1>5 DEF Spawn, Alive
<1>6. CASE First
  BY <1>6 DEF First, Receive, Note, Alive
<1>7. CASE Grace
  BY <1>7 DEF Grace, Receive, Note, Alive
<1>8. CASE Kill
  BY <1>8 DEF Kill, Alive
<1>9. CASE Wait
  BY <1>9 DEF Wait, Alive
<1>10. CASE Verdict
  BY <1>10 DEF Verdict, Overdue, Receive, Note, Alive
<1>11. CASE Refuse
  BY <1>11 DEF Refuse, Refuses, Close, Werr, Alive
<1>12. CASE Finish
  BY <1>12 DEF Finish, Close, Refuses, Werr, Alive
<1>13. CASE Reap
  BY <1>13 DEF Reap, Alive
<1>14. CASE Send
  BY <1>14 DEF Send, Alive
<1>15. CASE HalfClose
  BY <1>15 DEF HalfClose, Alive
<1>16. CASE Leave
  BY <1>16 DEF Leave, Alive
<1>17. CASE Stall
  BY <1>17 DEF Stall, Alive
<1>18. CASE Write
  BY <1>18 DEF Write, Alive
<1>19. CASE BackendEnds
  BY <1>19 DEF BackendEnds, Alive
<1>20. CASE Wedge
  BY <1>20 DEF Wedge, Alive
<1>21. CASE Cancel
  BY <1>21 DEF Cancel, Alive
<1>22. CASE Exit
  BY <1>22 DEF Exit, Alive
<1>23. CASE UNCHANGED vars
  BY <1>23 DEF vars, Alive
<1> QED
  BY <1>1, <1>2, <1>3, <1>4, <1>5, <1>6, <1>7, <1>8, <1>9,
     <1>10, <1>11, <1>12, <1>13, <1>14, <1>15, <1>16, <1>17, <1>18, <1>19, <1>20, <1>21, <1>22, <1>23
     DEF Next, Copy, Main, Others

LEMMA CountedStep == BInv /\ [Next]_vars => Counted'
<1> SUFFICES ASSUME BInv, [Next]_vars
             PROVE  Counted'
  OBVIOUS
<1> USE BridgeAssumption DEF BInv, Control, Counts, Counted, Announced, NotStarted,
        Stages, Over, clientVars, backVars, copyVars, mainVars
<1>1. CASE InRead
  BY <1>1 DEF InRead, Alive
<1>2. CASE InWrite
  BY <1>2 DEF InWrite, Alive
<1>3. CASE OutRead
  BY <1>3 DEF OutRead, Pending, Alive
<1>4. CASE OutWrite
  BY <1>4 DEF OutWrite, Alive
<1>5. CASE Spawn
  BY <1>5 DEF Spawn, Alive
<1>6. CASE First
  BY <1>6 DEF First, Receive, Note, Alive
<1>7. CASE Grace
  BY <1>7 DEF Grace, Receive, Note, Alive
<1>8. CASE Kill
  BY <1>8 DEF Kill, Alive
<1>9. CASE Wait
  BY <1>9 DEF Wait, Alive
<1>10. CASE Verdict
  BY <1>10 DEF Verdict, Overdue, Receive, Note, Alive
<1>11. CASE Refuse
  BY <1>11 DEF Refuse, Refuses, Close, Werr, Alive
<1>12. CASE Finish
  BY <1>12 DEF Finish, Close, Refuses, Werr, Alive
<1>13. CASE Reap
  BY <1>13 DEF Reap, Alive
<1>14. CASE Send
  BY <1>14 DEF Send, Alive
<1>15. CASE HalfClose
  BY <1>15 DEF HalfClose, Alive
<1>16. CASE Leave
  BY <1>16 DEF Leave, Alive
<1>17. CASE Stall
  BY <1>17 DEF Stall, Alive
<1>18. CASE Write
  BY <1>18 DEF Write, Alive
<1>19. CASE BackendEnds
  BY <1>19 DEF BackendEnds, Alive
<1>20. CASE Wedge
  BY <1>20 DEF Wedge, Alive
<1>21. CASE Cancel
  BY <1>21 DEF Cancel, Alive
<1>22. CASE Exit
  BY <1>22 DEF Exit, Alive
<1>23. CASE UNCHANGED vars
  BY <1>23 DEF vars, Alive
<1> QED
  BY <1>1, <1>2, <1>3, <1>4, <1>5, <1>6, <1>7, <1>8, <1>9,
     <1>10, <1>11, <1>12, <1>13, <1>14, <1>15, <1>16, <1>17, <1>18, <1>19, <1>20, <1>21, <1>22, <1>23
     DEF Next, Copy, Main, Others

LEMMA NotStartedStep == BInv /\ [Next]_vars => NotStarted'
<1> SUFFICES ASSUME BInv, [Next]_vars
             PROVE  NotStarted'
  OBVIOUS
<1> USE BridgeAssumption DEF BInv, Control, Counts, Announced, NotStarted, Flow,
        Over, clientVars, backVars, copyVars, mainVars
<1>1. CASE InRead
  BY <1>1 DEF InRead, Alive
<1>2. CASE InWrite
  BY <1>2 DEF InWrite, Alive
<1>3. CASE OutRead
  BY <1>3 DEF OutRead, Pending, Alive
<1>4. CASE OutWrite
  BY <1>4 DEF OutWrite, Alive
<1>5. CASE Spawn
  BY <1>5 DEF Spawn, Alive
<1>6. CASE First
  BY <1>6 DEF First, Receive, Note, Alive
<1>7. CASE Grace
  BY <1>7 DEF Grace, Receive, Note, Alive
<1>8. CASE Kill
  BY <1>8 DEF Kill, Alive
<1>9. CASE Wait
  BY <1>9 DEF Wait, Alive
<1>10. CASE Verdict
  BY <1>10 DEF Verdict, Overdue, Receive, Note, Alive
<1>11. CASE Refuse
  BY <1>11 DEF Refuse, Refuses, Close, Werr, Alive
<1>12. CASE Finish
  BY <1>12 DEF Finish, Close, Refuses, Werr, Alive
<1>13. CASE Reap
  BY <1>13 DEF Reap, Alive
<1>14. CASE Send
  BY <1>14 DEF Send, Alive
<1>15. CASE HalfClose
  BY <1>15 DEF HalfClose, Alive
<1>16. CASE Leave
  BY <1>16 DEF Leave, Alive
<1>17. CASE Stall
  BY <1>17 DEF Stall, Alive
<1>18. CASE Write
  BY <1>18 DEF Write, Alive
<1>19. CASE BackendEnds
  BY <1>19 DEF BackendEnds, Alive
<1>20. CASE Wedge
  BY <1>20 DEF Wedge, Alive
<1>21. CASE Cancel
  BY <1>21 DEF Cancel, Alive
<1>22. CASE Exit
  BY <1>22 DEF Exit, Alive
<1>23. CASE UNCHANGED vars
  BY <1>23 DEF vars, Alive
<1> QED
  BY <1>1, <1>2, <1>3, <1>4, <1>5, <1>6, <1>7, <1>8, <1>9,
     <1>10, <1>11, <1>12, <1>13, <1>14, <1>15, <1>16, <1>17, <1>18, <1>19, <1>20, <1>21, <1>22, <1>23
     DEF Next, Copy, Main, Others

LEMMA StagesStep == BInv /\ [Next]_vars => Stages'
<1> SUFFICES ASSUME BInv, [Next]_vars
             PROVE  Stages'
  OBVIOUS
<1> USE BridgeAssumption DEF BInv, Control, Flags, Counts, Flow, Announced, Counted,
        NotStarted, Stages, Over, clientVars, backVars, copyVars, mainVars
<1>1. CASE InRead
  BY <1>1 DEF InRead, Alive
<1>2. CASE InWrite
  BY <1>2 DEF InWrite, Alive
<1>3. CASE OutRead
  BY <1>3 DEF OutRead, Pending, Alive
<1>4. CASE OutWrite
  BY <1>4 DEF OutWrite, Alive
<1>5. CASE Spawn
  BY <1>5 DEF Spawn, Alive
<1>6. CASE First
  BY <1>6 DEF First, Receive, Note, Alive
<1>7. CASE Grace
  BY <1>7 DEF Grace, Receive, Note, Alive
<1>8. CASE Kill
  BY <1>8 DEF Kill, Alive
<1>9. CASE Wait
  BY <1>9 DEF Wait, Alive
<1>10. CASE Verdict
  BY <1>10 DEF Verdict, Overdue, Receive, Note, Alive
<1>11. CASE Refuse
  BY <1>11 DEF Refuse, Refuses, Close, Werr, Alive
<1>12. CASE Finish
  BY <1>12 DEF Finish, Close, Refuses, Werr, Alive
<1>13. CASE Reap
  BY <1>13 DEF Reap, Alive
<1>14. CASE Send
  BY <1>14 DEF Send, Alive
<1>15. CASE HalfClose
  BY <1>15 DEF HalfClose, Alive
<1>16. CASE Leave
  BY <1>16 DEF Leave, Alive
<1>17. CASE Stall
  BY <1>17 DEF Stall, Alive
<1>18. CASE Write
  BY <1>18 DEF Write, Alive
<1>19. CASE BackendEnds
  BY <1>19 DEF BackendEnds, Alive
<1>20. CASE Wedge
  BY <1>20 DEF Wedge, Alive
<1>21. CASE Cancel
  BY <1>21 DEF Cancel, Alive
<1>22. CASE Exit
  BY <1>22 DEF Exit, Alive
<1>23. CASE UNCHANGED vars
  BY <1>23 DEF vars, Alive
<1> QED
  BY <1>1, <1>2, <1>3, <1>4, <1>5, <1>6, <1>7, <1>8, <1>9,
     <1>10, <1>11, <1>12, <1>13, <1>14, <1>15, <1>16, <1>17, <1>18, <1>19, <1>20, <1>21, <1>22, <1>23
     DEF Next, Copy, Main, Others

LEMMA DrainedStep == BInv /\ [Next]_vars => Drained'
<1> SUFFICES ASSUME BInv, [Next]_vars
             PROVE  Drained'
  OBVIOUS
<1> USE BridgeAssumption DEF BInv, Control, Flags, Counts, Flow, Announced, Counted,
        NotStarted, Stages, Drained, Over, clientVars, backVars, copyVars, mainVars
<1>1. CASE InRead
  BY <1>1 DEF InRead, Alive
<1>2. CASE InWrite
  BY <1>2 DEF InWrite, Alive
<1>3. CASE OutRead
  BY <1>3 DEF OutRead, Pending, Alive
<1>4. CASE OutWrite
  BY <1>4 DEF OutWrite, Alive
<1>5. CASE Spawn
  BY <1>5 DEF Spawn, Alive
<1>6. CASE First
  BY <1>6 DEF First, Receive, Note, Alive
<1>7. CASE Grace
  BY <1>7 DEF Grace, Receive, Note, Alive
<1>8. CASE Kill
  BY <1>8 DEF Kill, Alive
<1>9. CASE Wait
  BY <1>9 DEF Wait, Alive
<1>10. CASE Verdict
  BY <1>10 DEF Verdict, Overdue, Receive, Note, Alive
<1>11. CASE Refuse
  BY <1>11 DEF Refuse, Refuses, Close, Werr, Alive
<1>12. CASE Finish
  BY <1>12 DEF Finish, Close, Refuses, Werr, Alive
<1>13. CASE Reap
  BY <1>13 DEF Reap, Alive
<1>14. CASE Send
  BY <1>14 DEF Send, Alive
<1>15. CASE HalfClose
  BY <1>15 DEF HalfClose, Alive
<1>16. CASE Leave
  BY <1>16 DEF Leave, Alive
<1>17. CASE Stall
  BY <1>17 DEF Stall, Alive
<1>18. CASE Write
  BY <1>18 DEF Write, Alive
<1>19. CASE BackendEnds
  BY <1>19 DEF BackendEnds, Alive
<1>20. CASE Wedge
  BY <1>20 DEF Wedge, Alive
<1>21. CASE Cancel
  BY <1>21 DEF Cancel, Alive
<1>22. CASE Exit
  BY <1>22 DEF Exit, Alive
<1>23. CASE UNCHANGED vars
  BY <1>23 DEF vars, Alive
<1> QED
  BY <1>1, <1>2, <1>3, <1>4, <1>5, <1>6, <1>7, <1>8, <1>9,
     <1>10, <1>11, <1>12, <1>13, <1>14, <1>15, <1>16, <1>17, <1>18, <1>19, <1>20, <1>21, <1>22, <1>23
     DEF Next, Copy, Main, Others

LEMMA LoudWhenDeadStep == BInv /\ [Next]_vars => LoudWhenDead'
<1> SUFFICES ASSUME BInv, [Next]_vars
             PROVE  LoudWhenDead'
  OBVIOUS
<1> USE BridgeAssumption DEF BInv, Control, Counts, Flow, Counted, NotStarted, Stages,
        LoudWhenDead, Over, clientVars, backVars, copyVars, mainVars
<1>1. CASE InRead
  BY <1>1 DEF InRead, Alive
<1>2. CASE InWrite
  BY <1>2 DEF InWrite, Alive
<1>3. CASE OutRead
  BY <1>3 DEF OutRead, Pending, Alive
<1>4. CASE OutWrite
  BY <1>4 DEF OutWrite, Alive
<1>5. CASE Spawn
  BY <1>5 DEF Spawn, Alive
<1>6. CASE First
  BY <1>6 DEF First, Receive, Note, Alive
<1>7. CASE Grace
  BY <1>7 DEF Grace, Receive, Note, Alive
<1>8. CASE Kill
  BY <1>8 DEF Kill, Alive
<1>9. CASE Wait
  BY <1>9 DEF Wait, Alive
<1>10. CASE Verdict
  BY <1>10 DEF Verdict, Overdue, Receive, Note, Alive
<1>11. CASE Refuse
  BY <1>11 DEF Refuse, Refuses, Close, Werr, Alive
<1>12. CASE Finish
  BY <1>12 DEF Finish, Close, Refuses, Werr, Alive
<1>13. CASE Reap
  BY <1>13 DEF Reap, Alive
<1>14. CASE Send
  BY <1>14 DEF Send, Alive
<1>15. CASE HalfClose
  BY <1>15 DEF HalfClose, Alive
<1>16. CASE Leave
  BY <1>16 DEF Leave, Alive
<1>17. CASE Stall
  BY <1>17 DEF Stall, Alive
<1>18. CASE Write
  BY <1>18 DEF Write, Alive
<1>19. CASE BackendEnds
  BY <1>19 DEF BackendEnds, Alive
<1>20. CASE Wedge
  BY <1>20 DEF Wedge, Alive
<1>21. CASE Cancel
  BY <1>21 DEF Cancel, Alive
<1>22. CASE Exit
  BY <1>22 DEF Exit, Alive
<1>23. CASE UNCHANGED vars
  BY <1>23 DEF vars, Alive
<1> QED
  BY <1>1, <1>2, <1>3, <1>4, <1>5, <1>6, <1>7, <1>8, <1>9,
     <1>10, <1>11, <1>12, <1>13, <1>14, <1>15, <1>16, <1>17, <1>18, <1>19, <1>20, <1>21, <1>22, <1>23
     DEF Next, Copy, Main, Others

LEMMA ErrorMeansSilenceStep == BInv /\ [Next]_vars => ErrorMeansSilence'
<1> SUFFICES ASSUME BInv, [Next]_vars
             PROVE  ErrorMeansSilence'
  OBVIOUS
<1> USE BridgeAssumption DEF BInv, Control, Counts, Flow, Counted, NotStarted, Stages,
        Drained, ErrorMeansSilence, Over, clientVars, backVars, copyVars, mainVars
<1>1. CASE InRead
  BY <1>1 DEF InRead, Alive
<1>2. CASE InWrite
  BY <1>2 DEF InWrite, Alive
<1>3. CASE OutRead
  BY <1>3 DEF OutRead, Pending, Alive
<1>4. CASE OutWrite
  BY <1>4 DEF OutWrite, Alive
<1>5. CASE Spawn
  BY <1>5 DEF Spawn, Alive
<1>6. CASE First
  BY <1>6 DEF First, Receive, Note, Alive
<1>7. CASE Grace
  BY <1>7 DEF Grace, Receive, Note, Alive
<1>8. CASE Kill
  BY <1>8 DEF Kill, Alive
<1>9. CASE Wait
  BY <1>9 DEF Wait, Alive
<1>10. CASE Verdict
  BY <1>10 DEF Verdict, Overdue, Receive, Note, Alive
<1>11. CASE Refuse
  BY <1>11 DEF Refuse, Refuses, Close, Werr, Alive
<1>12. CASE Finish
  BY <1>12 DEF Finish, Close, Refuses, Werr, Alive
<1>13. CASE Reap
  BY <1>13 DEF Reap, Alive
<1>14. CASE Send
  BY <1>14 DEF Send, Alive
<1>15. CASE HalfClose
  BY <1>15 DEF HalfClose, Alive
<1>16. CASE Leave
  BY <1>16 DEF Leave, Alive
<1>17. CASE Stall
  BY <1>17 DEF Stall, Alive
<1>18. CASE Write
  BY <1>18 DEF Write, Alive
<1>19. CASE BackendEnds
  BY <1>19 DEF BackendEnds, Alive
<1>20. CASE Wedge
  BY <1>20 DEF Wedge, Alive
<1>21. CASE Cancel
  BY <1>21 DEF Cancel, Alive
<1>22. CASE Exit
  BY <1>22 DEF Exit, Alive
<1>23. CASE UNCHANGED vars
  BY <1>23 DEF vars, Alive
<1> QED
  BY <1>1, <1>2, <1>3, <1>4, <1>5, <1>6, <1>7, <1>8, <1>9,
     <1>10, <1>11, <1>12, <1>13, <1>14, <1>15, <1>16, <1>17, <1>18, <1>19, <1>20, <1>21, <1>22, <1>23
     DEF Next, Copy, Main, Others

LEMMA BridgeStep == BInv /\ [Next]_vars => BInv'
  BY ControlStep, FlagsStep, CountsStep, FlowStep, AnnouncedStep, CountedStep,
     NotStartedStep, StagesStep, DrainedStep, LoudWhenDeadStep, ErrorMeansSilenceStep
     DEF BInv

THEOREM BridgeInductive == Spec => []BInv
  BY BridgeInit, BridgeStep, PTL DEF Spec

\* Every variable of a connection stays in its range.
THEOREM TypeCorrect == Spec => []TypeOK
  BY Typed, BridgeInductive, PTL

\* A client whose backend died before writing anything gets the error; within the
\* grace period the error never stands for output that was written.
THEOREM Honest == Spec => []ErrorHonest
<1>1. BInv => ErrorHonest
  BY DEF BInv, ErrorHonest
<1> QED
  BY <1>1, BridgeInductive, PTL

\* Within the grace period a client that stays gets every chunk that was written.
THEOREM WholeAnswer == Spec => []AnswerWhole
<1>1. BInv => AnswerWhole
  BY BridgeAssumption DEF BInv, AnswerWhole, Control, Counts, Flow, NotStarted, Stages, Drained
<1> QED
  BY <1>1, BridgeInductive, PTL

-----------------------------------------------------------------------------
(* Why connections end: every step uses something up, and whoever owes the next *)
(* step can take it.                                                            *)

Bit(b) == IF b THEN 1 ELSE 0

\* What a step of each part leaves to do.
Reads(l)   == CASE l = "read" -> 1 [] l = "write" -> 2 [] l = "done" -> 0
Writes(l)  == CASE l = "read" -> 2 [] l = "write" -> 1 [] l = "done" -> 0
Stops(l)   == CASE l = "spawn"   -> 7
                [] l = "first"   -> 6
                [] l = "grace"   -> 5
                [] l = "kill"    -> 4
                [] l = "wait"    -> 3
                [] l = "verdict" -> 2
                [] l \in {"report", "unspawned", "close"} -> 1
                [] l \in {"ended", "exited"} -> 0
Dies(b)    == CASE b = "none" -> 3
                [] b = "run"  -> 2
                [] b = "eof"  -> 1
                [] b \in {"ok", "failed", "killed"} -> 0
Closes(c)  == CASE c = "open" -> 2 [] c = "half" -> 1 [] c = "closed" -> 0

Parts == {"stdin", "stdout", "main", "backend", "client", "in", "out", "flags"}

\* What each part has left to do.  A chunk is sent, read and written.
Left(part) ==
  CASE part = "stdin"   -> 2 * queued + Reads(inpc)
    [] part = "stdout"  -> 2 * Pending + Writes(outpc)
    [] part = "main"    -> Stops(main)
    [] part = "backend" -> Dies(backend)
    [] part = "client"  -> Closes(client)
    [] part = "in"      -> 3 * (MaxIn - sent)
    [] part = "out"     -> 3 * (MaxOut - wrote)
    [] part = "flags"   -> Bit(reading) + Bit(taking) + Bit(~cancelled)

Measure ==
  Left("stdin") + Left("stdout") + Left("main") + Left("backend") + Left("client")
    + Left("in") + Left("out") + Left("flags")

\* Results that ended copiers announced are there for whoever waits for them.
Kept ==
  /\ main = "first" /\ inpc = "done" => "stdin" \in done
  /\ main \in {"first", "grace", "kill", "wait", "verdict"} /\ outN < 0 /\ outpc = "done" =>
       "stdout" \in done
  /\ reading \/ "stall" \in faults
  /\ taking \/ "wedge" \in faults
  /\ main = "wait" => ~Alive

\* The guards of the goroutines: the copiers, and bridgeConn itself.
InGoes ==
  /\ backend # "none"
  /\ \/ inpc = "read" /\ (~open \/ queued > 0 \/ client = "closed" \/ (client = "half" /\ queued = 0))
     \/ inpc = "write" /\ (Alive => taking)

OutGoes ==
  /\ backend # "none"
  /\ \/ outpc = "read" /\ (~pipe \/ Pending > 0 \/ backend # "run")
     \/ outpc = "write" /\ (~open \/ client = "closed" \/ reading)

Hears == client = "closed" \/ reading

MainGoes ==
  \/ main \in {"spawn", "grace", "kill", "close"}
  \/ main = "first" /\ done # {}
  \/ main = "wait" /\ ~Alive
  \/ main = "verdict" /\ (done # {} \/ Overdue)
  \/ main = "unspawned" /\ Hears
  \/ main = "report" /\ (Refuses => Hears)

\* When ConnectionsEnd demands the end.
Due ==
  \/ Silent /\ (client = "closed" \/ "stall" \notin faults)
  \/ "wedge" \notin faults /\ (client = "closed" \/ (client = "half" /\ "stall" \notin faults))

NeverStuck == Due /\ ~Over => InGoes \/ OutGoes \/ MainGoes

LEMMA PartsLeft ==
  ASSUME BInv
  PROVE  /\ Pending \in 0 .. wrote
         /\ Left("stdin") \in 0 .. 2 * queued + 2
         /\ Left("stdout") \in 0 .. 2 * wrote + 2
         /\ Left("main") \in 0 .. 7 /\ Left("backend") \in 0 .. 3 /\ Left("client") \in 0 .. 2
         /\ Left("in") = 3 * (MaxIn - sent) /\ Left("in") \in Nat
         /\ Left("out") = 3 * (MaxOut - wrote) /\ Left("out") \in Nat
         /\ Left("flags") \in 0 .. 3
<1> USE BridgeAssumption DEF BInv, Control, Flags, Counts
<1>1. Pending \in 0 .. wrote
  BY DEF Flow, Pending
<1>2. Left("stdin") \in 0 .. 2 * queued + 2
  BY DEF Left, Reads
<1>3. Left("stdout") \in 0 .. 2 * wrote + 2
  BY <1>1 DEF Left, Writes
<1>4. Left("main") \in 0 .. 7
  BY DEF Left, Stops
<1>5. Left("backend") \in 0 .. 3 /\ Left("client") \in 0 .. 2
  BY DEF Left, Dies, Closes
<1>6. Left("in") = 3 * (MaxIn - sent) /\ Left("out") = 3 * (MaxOut - wrote)
  BY DEF Left
<1>7. Left("in") \in Nat /\ Left("out") \in Nat
  BY <1>6
<1>8. Left("flags") \in 0 .. 3
  BY DEF Left, Bit
<1> QED
  BY <1>1, <1>2, <1>3, <1>4, <1>5, <1>6, <1>7, <1>8

\* A step that lowers one part and spares the rest lowers the sum.
LEMMA MeasureStep == BInv /\ [Next]_vars => [Measure' < Measure]_vars
<1> SUFFICES ASSUME BInv, Next PROVE Measure' < Measure
  OBVIOUS
<1>0. /\ Left("stdin") \in Nat /\ Left("stdout") \in Nat /\ Left("main") \in Nat
      /\ Left("backend") \in Nat /\ Left("client") \in Nat /\ Left("in") \in Nat
      /\ Left("out") \in Nat /\ Left("flags") \in Nat /\ Pending \in Nat
  BY PartsLeft, BridgeAssumption DEF BInv, Counts
<1> USE BridgeAssumption DEF clientVars, backVars, copyVars, mainVars
<1>1. CASE InRead
  <2>1. \A part \in Parts \ {"stdin"} : Left(part)' = Left(part)
    BY <1>1 DEF InRead, Parts, Left, Pending
  <2>2. Left("stdin")' \in Nat /\ Left("stdin")' < Left("stdin")
    BY <1>0, <1>1 DEF InRead, BInv, Counts, Left, Reads
  <2> QED
    BY <1>0, <2>1, <2>2 DEF Measure, Parts
<1>2. CASE InWrite
  <2>1. \A part \in Parts \ {"stdin"} : Left(part)' = Left(part)
    BY <1>2 DEF InWrite, Parts, Left, Pending
  <2>2. Left("stdin")' \in Nat /\ Left("stdin")' < Left("stdin")
    BY <1>0, <1>2 DEF InWrite, BInv, Counts, Left, Reads
  <2> QED
    BY <1>0, <2>1, <2>2 DEF Measure, Parts
<1>3. CASE OutRead
  <2>1. \A part \in Parts \ {"stdout"} : Left(part)' = Left(part)
    BY <1>3 DEF OutRead, Parts, Left
  <2>2. Left("stdout")' \in Nat /\ Left("stdout")' < Left("stdout")
    BY <1>0, <1>3 DEF OutRead, Left, Writes, Pending
  <2> QED
    BY <1>0, <2>1, <2>2 DEF Measure, Parts
<1>4. CASE OutWrite
  <2>1. \A part \in Parts \ {"stdout"} : Left(part)' = Left(part)
    BY <1>4 DEF OutWrite, Parts, Left
  <2>2. Left("stdout")' \in Nat /\ Left("stdout")' < Left("stdout")
    <3>1. outpc = "write" /\ Left("stdout") = 2 * Pending + 1
      BY <1>4 DEF OutWrite, Left, Writes
    <3>2. CASE outpc' = "read"
      <4>1. reply' = reply + 1 /\ wrote' = wrote /\ reply # Error500
        BY <1>4, <3>2 DEF OutWrite, BInv, Stages, Over
      <4>2. Pending = wrote - reply /\ Pending' = wrote - (reply + 1) /\ reply + 1 <= wrote
        BY <4>1, <3>1 DEF Pending, BInv, Flow, Counts
      <4>3. Left("stdout")' = 2 * Pending' + 2
        BY <3>2 DEF Left, Writes
      <4> QED
        BY <1>0, <3>1, <4>1, <4>2, <4>3 DEF BInv, Counts
    <3>3. CASE outpc' = "done"
      <4>1. Pending' = Pending
        BY <1>4, <3>1, <3>3 DEF OutWrite, Pending
      <4>2. Left("stdout")' = 2 * Pending
        BY <1>0, <3>3, <4>1 DEF Left, Writes
      <4> QED
        BY <1>0, <3>1, <4>2
    <3> QED
      BY <1>4, <3>2, <3>3 DEF OutWrite
  <2> QED
    BY <1>0, <2>1, <2>2 DEF Measure, Parts
<1>5. CASE Spawn
  <2>1. \A part \in Parts \ {"main", "backend"} : Left(part)' = Left(part)
    BY <1>5 DEF Spawn, Parts, Left, Pending
  <2>2. /\ Left("main")' \in Nat /\ Left("backend")' \in Nat
        /\ Left("main")' + Left("backend")' < Left("main") + Left("backend")
    <3>1. Left("main") = 7 /\ Left("main")' \in {1, 6}
      BY <1>5 DEF Spawn, Left, Stops
    <3>2. Left("backend") = 3
      BY <1>5 DEF Spawn, Left, Dies, BInv, NotStarted
    <3>3. Left("backend")' \in {2, 3}
      BY <1>5 DEF Spawn, Left, Dies, BInv, NotStarted
    <3> QED
      BY <3>1, <3>2, <3>3
  <2> QED
    BY <1>0, <2>1, <2>2 DEF Measure, Parts
<1>6. CASE First
  <2>1. \A part \in Parts \ {"main"} : Left(part)' = Left(part)
    BY <1>6 DEF First, Receive, Note, Parts, Left, Pending
  <2>2. Left("main")' \in Nat /\ Left("main")' < Left("main")
    BY <1>0, <1>6 DEF First, Receive, Note, Left, Stops
  <2> QED
    BY <1>0, <2>1, <2>2 DEF Measure, Parts
<1>7. CASE Grace
  <2>1. \A part \in Parts \ {"main"} : Left(part)' = Left(part)
    BY <1>7 DEF Grace, Receive, Note, Parts, Left, Pending
  <2>2. Left("main")' \in Nat /\ Left("main")' < Left("main")
    BY <1>0, <1>7 DEF Grace, Receive, Note, Left, Stops
  <2> QED
    BY <1>0, <2>1, <2>2 DEF Measure, Parts
<1>8. CASE Kill
  <2>1. \A part \in Parts \ {"main", "backend"} : Left(part)' = Left(part)
    BY <1>8 DEF Kill, Alive, Parts, Left, Pending
  <2>2. /\ Left("main")' \in Nat /\ Left("backend")' \in Nat
        /\ Left("main")' + Left("backend")' < Left("main") + Left("backend")
    BY <1>0, <1>8 DEF Kill, Alive, BInv, Control, Left, Stops, Dies
  <2> QED
    BY <1>0, <2>1, <2>2 DEF Measure, Parts
<1>9. CASE Wait
  <2>1. \A part \in Parts \ {"main"} : Left(part)' = Left(part)
    BY <1>9 DEF Wait, Parts, Left, Pending
  <2>2. Left("main")' \in Nat /\ Left("main")' < Left("main")
    BY <1>0, <1>9 DEF Wait, Left, Stops
  <2> QED
    BY <1>0, <2>1, <2>2 DEF Measure, Parts
<1>10. CASE Verdict
  <2>1. \A part \in Parts \ {"main"} : Left(part)' = Left(part)
    BY <1>10 DEF Verdict, Receive, Note, Parts, Left, Pending
  <2>2. Left("main")' \in Nat /\ Left("main")' < Left("main")
    BY <1>0, <1>10 DEF Verdict, Receive, Note, Left, Stops
  <2> QED
    BY <1>0, <2>1, <2>2 DEF Measure, Parts
<1>11. CASE Refuse
  <2>1. \A part \in Parts \ {"stdout", "main"} : Left(part)' = Left(part)
    BY <1>11 DEF Refuse, Close, Parts, Left
  <2>2. Left("main") = 1 /\ Left("main")' = 0
    BY <1>11 DEF Refuse, Close, Left, Stops
  <2>3. Pending' \in Nat /\ Pending' <= Pending
    BY <1>0, <1>11 DEF Refuse, Pending
  <2>4. Left("stdout")' \in Nat /\ Left("stdout")' <= Left("stdout")
    BY <1>0, <1>11, <2>3 DEF Refuse, Left, Writes, BInv, Control
  <2> QED
    BY <1>0, <2>1, <2>2, <2>4 DEF Measure, Parts
<1>12. CASE Finish
  <2>1. \A part \in Parts \ {"main"} : Left(part)' = Left(part)
    BY <1>12 DEF Finish, Close, Parts, Left, Pending
  <2>2. Left("main")' \in Nat /\ Left("main")' < Left("main")
    BY <1>0, <1>12 DEF Finish, Close, Left, Stops
  <2> QED
    BY <1>0, <2>1, <2>2 DEF Measure, Parts
<1>13. CASE Reap
  <2>1. \A part \in Parts \ {"backend"} : Left(part)' = Left(part)
    BY <1>13 DEF Reap, Alive, Parts, Left, Pending
  <2>2. Left("backend")' \in Nat /\ Left("backend")' < Left("backend")
    BY <1>0, <1>13 DEF Reap, Alive, Left, Dies
  <2> QED
    BY <1>0, <2>1, <2>2 DEF Measure, Parts
<1>14. CASE Send
  <2>1. \A part \in Parts \ {"stdin", "in"} : Left(part)' = Left(part)
    BY <1>14 DEF Send, Parts, Left, Pending
  <2>2. /\ Left("stdin")' \in Nat /\ Left("in")' \in Nat
        /\ Left("stdin")' + Left("in")' < Left("stdin") + Left("in")
    BY <1>0, <1>14 DEF Send, BInv, Control, Counts, Left, Reads
  <2> QED
    BY <1>0, <2>1, <2>2 DEF Measure, Parts
<1>15. CASE HalfClose
  <2>1. \A part \in Parts \ {"client"} : Left(part)' = Left(part)
    BY <1>15 DEF HalfClose, Parts, Left, Pending
  <2>2. Left("client")' \in Nat /\ Left("client")' < Left("client")
    BY <1>0, <1>15 DEF HalfClose, Left, Closes
  <2> QED
    BY <1>0, <2>1, <2>2 DEF Measure, Parts
<1>16. CASE Leave
  <2>1. \A part \in Parts \ {"client"} : Left(part)' = Left(part)
    BY <1>16 DEF Leave, Parts, Left, Pending
  <2>2. Left("client")' \in Nat /\ Left("client")' < Left("client")
    BY <1>0, <1>16 DEF Leave, BInv, Control, Left, Closes
  <2> QED
    BY <1>0, <2>1, <2>2 DEF Measure, Parts
<1>17. CASE Stall
  <2>1. \A part \in Parts \ {"flags"} : Left(part)' = Left(part)
    BY <1>17 DEF Stall, Parts, Left, Pending
  <2>2. Left("flags")' \in Nat /\ Left("flags")' < Left("flags")
    BY <1>0, <1>17 DEF Stall, Left, Bit
  <2> QED
    BY <1>0, <2>1, <2>2 DEF Measure, Parts
<1>18. CASE Write
  <2>1. \A part \in Parts \ {"stdout", "out"} : Left(part)' = Left(part)
    BY <1>18 DEF Write, Parts, Left
  <2>2. /\ Left("stdout")' \in Nat /\ Left("out")' \in Nat
        /\ Left("stdout")' + Left("out")' < Left("stdout") + Left("out")
    BY <1>0, <1>18 DEF Write, BInv, Control, Counts, Flow, Left, Writes, Pending
  <2> QED
    BY <1>0, <2>1, <2>2 DEF Measure, Parts
<1>19. CASE BackendEnds
  <2>1. \A part \in Parts \ {"backend"} : Left(part)' = Left(part)
    BY <1>19 DEF BackendEnds, Alive, Parts, Left, Pending
  <2>2. Left("backend")' \in Nat /\ Left("backend")' < Left("backend")
    BY <1>0, <1>19 DEF BackendEnds, Alive, Left, Dies
  <2> QED
    BY <1>0, <2>1, <2>2 DEF Measure, Parts
<1>20. CASE Wedge
  <2>1. \A part \in Parts \ {"flags"} : Left(part)' = Left(part)
    BY <1>20 DEF Wedge, Parts, Left, Pending
  <2>2. Left("flags")' \in Nat /\ Left("flags")' < Left("flags")
    BY <1>0, <1>20 DEF Wedge, Left, Bit
  <2> QED
    BY <1>0, <2>1, <2>2 DEF Measure, Parts
<1>21. CASE Cancel
  <2>1. \A part \in Parts \ {"flags"} : Left(part)' = Left(part)
    BY <1>21 DEF Cancel, Parts, Left, Pending
  <2>2. Left("flags")' \in Nat /\ Left("flags")' < Left("flags")
    BY <1>0, <1>21 DEF Cancel, Left, Bit
  <2> QED
    BY <1>0, <2>1, <2>2 DEF Measure, Parts
<1>22. CASE Exit
  <2>1. \A part \in Parts \ {"main"} : Left(part)' = Left(part)
    BY <1>22 DEF Exit, Over, Parts, Left, Pending
  <2>2. Left("main")' \in Nat /\ Left("main")' < Left("main")
    BY <1>0, <1>22 DEF Exit, Over, BInv, Control, Left, Stops
  <2> QED
    BY <1>0, <2>1, <2>2 DEF Measure, Parts
<1> QED
  BY <1>1, <1>2, <1>3, <1>4, <1>5, <1>6, <1>7, <1>8, <1>9, <1>10, <1>11, <1>12, <1>13,
     <1>14, <1>15, <1>16, <1>17, <1>18, <1>19, <1>20, <1>21, <1>22
     DEF Next, Copy, Main, Others

LEMMA MeasureBound == BInv => Measure \in 0 .. 3 * MaxIn + 3 * MaxOut + 19
<1> SUFFICES ASSUME BInv PROVE Measure \in 0 .. 3 * MaxIn + 3 * MaxOut + 19
  OBVIOUS
<1>1. queued <= sent /\ queued \in Nat /\ sent \in Nat /\ wrote \in Nat
  BY DEF BInv, Counts, Flow
<1>2. Left("stdin") + Left("in") \in 0 .. 3 * MaxIn + 2
  BY <1>1, PartsLeft, BridgeAssumption
<1>3. Left("stdout") + Left("out") \in 0 .. 3 * MaxOut + 2
  BY <1>1, PartsLeft, BridgeAssumption
<1>4. /\ Left("main") \in 0 .. 7 /\ Left("backend") \in 0 .. 3 /\ Left("client") \in 0 .. 2
      /\ Left("flags") \in 0 .. 3
      /\ Left("in") \in Nat /\ Left("out") \in Nat /\ Left("stdin") \in Nat
      /\ Left("stdout") \in Nat
  BY <1>1, PartsLeft
<1> QED
  BY <1>2, <1>3, <1>4, BridgeAssumption DEF Measure

LEMMA KeptStep == BInv /\ Kept /\ [Next]_vars => Kept'
<1> SUFFICES ASSUME BInv, Kept, [Next]_vars PROVE Kept'
  OBVIOUS
<1> USE DEF Kept, BInv, Control, Alive, clientVars, backVars, copyVars, mainVars
<1>1. CASE InRead
  BY <1>1 DEF InRead
<1>2. CASE InWrite
  BY <1>2 DEF InWrite
<1>3. CASE OutRead
  BY <1>3 DEF OutRead
<1>4. CASE OutWrite
  BY <1>4 DEF OutWrite
<1>5. CASE Spawn
  BY <1>5 DEF Spawn, NotStarted
<1>6. CASE First
  BY <1>6 DEF First, Receive, Note, Stages, Counts
<1>7. CASE Grace
  BY <1>7 DEF Grace, Receive, Note, Stages, Counts
<1>8. CASE Kill
  BY <1>8 DEF Kill
<1>9. CASE Wait
  BY <1>9 DEF Wait
<1>10. CASE Verdict
  BY <1>10 DEF Verdict
<1>11. CASE Refuse
  BY <1>11 DEF Refuse, Close
<1>12. CASE Finish
  BY <1>12 DEF Finish, Close
<1>13. CASE Reap
  BY <1>13 DEF Reap
<1>14. CASE Send
  BY <1>14 DEF Send
<1>15. CASE HalfClose
  BY <1>15 DEF HalfClose
<1>16. CASE Leave
  BY <1>16 DEF Leave
<1>17. CASE Stall
  BY <1>17 DEF Stall
<1>18. CASE Write
  BY <1>18 DEF Write
<1>19. CASE BackendEnds
  BY <1>19 DEF BackendEnds
<1>20. CASE Wedge
  BY <1>20 DEF Wedge
<1>21. CASE Cancel
  BY <1>21 DEF Cancel
<1>22. CASE Exit
  BY <1>22 DEF Exit
<1>23. CASE UNCHANGED vars
  BY <1>23 DEF vars
<1> QED
  BY <1>1, <1>2, <1>3, <1>4, <1>5, <1>6, <1>7, <1>8, <1>9, <1>10, <1>11, <1>12, <1>13,
     <1>14, <1>15, <1>16, <1>17, <1>18, <1>19, <1>20, <1>21, <1>22, <1>23
     DEF Next, Copy, Main, Others

LEMMA KeptGoesOn == BInv /\ Kept => NeverStuck
<1> SUFFICES ASSUME BInv, Kept, Due, ~Over PROVE InGoes \/ OutGoes \/ MainGoes
  BY DEF NeverStuck
<1> USE DEF BInv, Control, Flags, Kept, Over
<1>0. open /\ queued \in Nat
  BY DEF Stages, Counts
<1>1. Hears
  BY DEF Due, Hears
<1>2. CASE main \in {"spawn", "grace", "kill", "close", "wait", "unspawned", "report"}
  BY <1>1, <1>2 DEF MainGoes
<1>3. CASE main = "verdict"
  <2>1. CASE done # {} \/ Overdue
    BY <1>3, <2>1 DEF MainGoes
  <2>2. CASE done = {} /\ ~Overdue
    <3>1. outpc # "done" /\ backend # "run" /\ backend # "none"
      BY <1>3, <2>2 DEF Stages, NotStarted, Alive
    <3> QED
      BY <2>2, <3>1 DEF OutGoes, Overdue
  <2> QED
    BY <2>1, <2>2
<1>4. CASE main = "first"
  <2>1. backend # "none"
    BY <1>4 DEF NotStarted
  <2>2. CASE done # {}
    BY <1>4, <2>2 DEF MainGoes
  <2>3. CASE done = {} /\ Silent
    <3>1. outpc # "done" /\ backend # "run"
      BY <1>4, <2>3 DEF Silent, Stages
    <3> QED
      BY <1>1, <2>1, <3>1 DEF OutGoes, Hears
  <2>4. CASE done = {} /\ ~Silent
    <3>1. inpc # "done" /\ taking /\ client \in {"half", "closed"}
      BY <1>4, <2>4 DEF Due
    <3> QED
      BY <1>0, <2>1, <3>1 DEF InGoes
  <2> QED
    BY <2>2, <2>3, <2>4
<1> QED
  BY <1>2, <1>3, <1>4

(* Every step of a connection, of whichever side, uses up something that a     *)
(* connection has a fixed amount of: no goroutine of bridgeConn loops, for any  *)
(* number of chunks.                                                            *)
THEOREM ConnectionIsFinite ==
  Spec => /\ [](Measure \in 0 .. 3 * MaxIn + 3 * MaxOut + 19)
          /\ [][Measure' < Measure]_vars
<1>1. BInv /\ [Next]_vars => [Measure' < Measure]_vars
  BY MeasureStep
<1>2. BInv => Measure \in 0 .. 3 * MaxIn + 3 * MaxOut + 19
  BY MeasureBound
<1> QED
  BY <1>1, <1>2, BridgeInductive, PTL DEF Spec

(* Where ConnectionsEnd demands an end, some goroutine has its guard: the results of  *)
(* ended copiers are there for whoever waits for them, and none waits for another in  *)
(* a circle.                                                                          *)
THEOREM NobodyIsStuck == Spec => []NeverStuck
<1>1. Init => Kept
  BY DEF Init, Kept
<1>2. Spec => []Kept
  BY <1>1, KeptStep, BridgeInductive, PTL DEF Spec
<1> QED
  BY <1>2, KeptGoesOn, BridgeInductive, PTL

-----------------------------------------------------------------------------
LEMMA ExchangeInit == Init => Answers!Init
  BY DEF Init, Over, Answers!Init

LEMMA ExchangeStep == BInv /\ [Next]_vars => [Answers!Next]_(Answers!vars)
<1> SUFFICES ASSUME BInv, [Next]_vars
             PROVE  Answers!Next \/ UNCHANGED Answers!vars
  OBVIOUS
<1> USE DEF Answers!vars, Over, clientVars, backVars, copyVars, mainVars
<1>1. CASE OutWrite
  BY <1>1, BridgeAssumption
     DEF OutWrite, BInv, Control, Counts, Stages, Answers!Next, Answers!Deliver
<1>2. CASE Refuse
  BY <1>2, BridgeAssumption
     DEF Refuse, Refuses, Close, BInv, Control, Counts, Flow, Counted, NotStarted, Stages,
         Answers!Next, Answers!Refuse, Answers!Close
<1>3. CASE Finish
  BY <1>3 DEF Finish, Close, Answers!Next, Answers!Close
<1>4. CASE Spawn \/ First \/ Grace \/ Kill \/ Wait \/ Verdict
  BY <1>4 DEF Spawn, First, Grace, Kill, Wait, Verdict
<1>5. CASE InRead \/ InWrite \/ OutRead
  BY <1>5 DEF InRead, InWrite, OutRead
<1>6. CASE Exit
  BY <1>6 DEF Exit, Answers!Next, Answers!Close
<1>7. CASE Reap \/ Send \/ HalfClose \/ Leave \/ Stall \/ Write \/ BackendEnds \/ Wedge \/ Cancel
  BY <1>7 DEF Reap, Send, HalfClose, Leave, Stall, Write, BackendEnds, Wedge, Cancel
<1>8. CASE UNCHANGED vars
  BY <1>8 DEF vars
<1> QED
  BY <1>1, <1>2, <1>3, <1>4, <1>5, <1>6, <1>7, <1>8 DEF Next, Copy, Main, Others

\* Seen by its client, a connection is the abstract exchange: the output, or one error
\* instead of it, and nothing after the close.
THEOREM ImplementsExchange == Spec => ExchangeSpec
  BY ExchangeInit, ExchangeStep, BridgeInductive, PTL DEF Spec, ExchangeSpec, Answers!Spec
-----------------------------------------------------------------------------
(* The log *)

\* Bridges that have looked at the log and will write to it.
Writing == {b \in Bridges : pc[b] \in {"open", "write"}}

LogType ==
  /\ files \in [0 .. 3 -> {Absent} \cup Seq(1 .. MaxLines)]
  /\ \A k \in 0 .. 3 : Size(files[k]) <= lines
  /\ pc \in [Bridges -> Rotates \cup {"idle", "open", "write"}]
  /\ held \in BOOLEAN /\ met \in BOOLEAN /\ swollen \in BOOLEAN /\ rotated \in BOOLEAN
  /\ lines \in 0 .. MaxLines
  /\ serves \in 0 .. MaxServes
  /\ follow \in {"off", "on", "read"}
  /\ offset \in 0 .. MaxLines
  /\ shown \in SUBSET (1 .. MaxLines)
  /\ follows \in 0 .. MaxFollows
  /\ since \in 0 .. lines
  /\ InUse => files[0] # Absent

\* A log that is not held open has room for a line of each bridge about to write.
Room ==
  /\ held => swollen
  /\ ~swollen => Size(files[0]) + Cardinality(Writing) <= MaxLogLines + Cardinality(Bridges)

\* A rotation frees each archive before it renames to it, while it runs alone.
Freed ==
  ~met =>
    /\ \A b, c \in Bridges : pc[b] \in Rotates /\ pc[c] \in Rotates => b = c
    /\ \A b \in Bridges : pc[b] \in Renames => files[Target[pc[b]]] = Absent

\* The lines of s are the last of the first n.
Ends(s, n) == \A i \in 1 .. Len(s) : s[i] = n - Len(s) + i

\* Each file ends where the next newer one begins.
Chained ==
  ~met =>
    /\ Ends(Lines(0), lines)
    /\ Ends(Lines(1), lines - Len(Lines(0)))
    /\ Ends(Lines(2), lines - Len(Lines(0)) - Len(Lines(1)))
    /\ Ends(Lines(3), lines - Len(Lines(0)) - Len(Lines(1)) - Len(Lines(2)))

LogInv == LogType /\ Room /\ Freed /\ Chained

LEMMA Limits ==
  /\ MaxLogLines \in Nat /\ Back \in Nat /\ MaxLines \in Nat
  /\ MaxServes \in Nat /\ MaxFollows \in Nat
  /\ <<>> # Absent
<1>1. <<>> \in Seq(Nat)
  OBVIOUS
<1> QED
  BY <1>1, LogsAssumption

LEMMA Sizes ==
  ASSUME NEW s \in {Absent} \cup Seq(1 .. MaxLines)
  PROVE  /\ Size(s) \in Nat
         /\ s # Absent => s \in Seq(1 .. MaxLines) /\ Size(s) = Len(s)
  BY DEF Size

\* A line more.
LEMMA Longer ==
  ASSUME LogType, Written, files[0] # Absent, lines < MaxLines
  PROVE  /\ lines' = lines + 1 /\ lines' \in 1 .. MaxLines
         /\ files[0] \in Seq(1 .. MaxLines)
         /\ files' = [files EXCEPT ![0] = Append(files[0], lines + 1)]
         /\ files' \in [0 .. 3 -> {Absent} \cup Seq(1 .. MaxLines)]
         /\ files'[0] # Absent
         /\ Size(files'[0]) = Size(files[0]) + 1
         /\ \A k \in 1 .. 3 : files'[k] = files[k]
<1>1. files[0] \in Seq(1 .. MaxLines) /\ lines + 1 \in 1 .. MaxLines
  BY Limits DEF LogType
<1>2. Append(files[0], lines + 1) \in Seq(1 .. MaxLines)
  BY <1>1, AppendProperties
<1>3. Len(Append(files[0], lines + 1)) = Len(files[0]) + 1
  BY <1>1, AppendProperties
<1>4. Append(files[0], lines + 1) # Absent
  <2>1. Append(files[0], lines + 1) \in Seq(Nat)
    <3>1. files[0] \in Seq(Nat) /\ lines + 1 \in Nat
      BY <1>1, Limits
    <3> QED
      BY <3>1, AppendProperties
  <2> QED
    BY <2>1, LogsAssumption
<1> QED
  BY <1>1, <1>2, <1>3, <1>4 DEF LogType, Written, Size

\* An empty log where there was none.
LEMMA Created ==
  ASSUME LogType, Create
  PROVE  /\ files' \in [0 .. 3 -> {Absent} \cup Seq(1 .. MaxLines)]
         /\ files'[0] # Absent
         /\ files[0] # Absent => files' = files
         /\ Size(files'[0]) = Size(files[0])
         /\ \A k \in 1 .. 3 : files'[k] = files[k]
         /\ Len(Lines(0)') = Len(Lines(0)) /\ Lines(0)' = Lines(0)
<1>1. <<>> \in Seq(1 .. MaxLines) /\ Len(<<>>) = 0
  OBVIOUS
<1> QED
  BY <1>1, Limits DEF LogType, Create, Size, Lines

\* One of the three renames of rotate, to archive k.
Moves(b, k) ==
  /\ \/ pc[b] = "third" /\ k = 3 /\ pc' = [pc EXCEPT ![b] = "second"]
     \/ pc[b] = "second" /\ k = 2 /\ pc' = [pc EXCEPT ![b] = "first"]
     \/ pc[b] = "first" /\ k = 1 /\ pc' = [pc EXCEPT ![b] = "open"]
  /\ Target[pc[b]] = k
  /\ \/ /\ files[k - 1] = Absent \/ (k = 1 /\ InUse)
        /\ files' = files
        /\ swollen' = IF k = 1 THEN swollen \/ InUse ELSE swollen
     \/ /\ files[k - 1] # Absent /\ ~(k = 1 /\ InUse)
        /\ files' = [files EXCEPT ![k] = files[k - 1], ![k - 1] = Absent]
        /\ swollen' = IF k = 1 THEN FALSE ELSE swollen
  /\ rotated' \in BOOLEAN
  /\ UNCHANGED <<held, lines, serves, tail, met>>

LEMMA Renamed ==
  ASSUME LogType, NEW b \in Bridges, Rename(b)
  PROVE  \E k \in 1 .. 3 : Moves(b, k)
<1> USE DEF Moves, Rename, Target, Following, Goto
<1>1. rotated \in BOOLEAN
  BY DEF LogType
<1>2. CASE pc[b] = "third"
  <2> WITNESS 3 \in 1 .. 3
  <2> QED
    BY <1>1, <1>2
<1>3. CASE pc[b] = "second"
  <2> WITNESS 2 \in 1 .. 3
  <2> QED
    BY <1>1, <1>3
<1>4. CASE pc[b] = "first"
  <2> WITNESS 1 \in 1 .. 3
  <2>1. Target["first"] = 1 /\ swollen \in BOOLEAN
    BY DEF LogType
  <2>2. CASE files[0] = Absent \/ InUse
    BY <1>1, <1>4, <2>1, <2>2
  <2>3. CASE ~(files[0] = Absent \/ InUse)
    BY <1>1, <1>4, <2>1, <2>3
  <2> QED
    BY <2>2, <2>3
<1> QED
  BY <1>2, <1>3, <1>4 DEF Renames

LEMMA LogTypeStep == LogType /\ [LogNext]_logVars => LogType'
<1> SUFFICES ASSUME LogType, [LogNext]_logVars PROVE LogType'
  OBVIOUS
<1>0. /\ lines \in 0 .. MaxLines /\ MaxLines \in Nat
      /\ \A k \in 0 .. 3 : Size(files[k]) \in Nat /\ Size(files[k]) <= lines
  BY Limits, Sizes DEF LogType
<1>1. ASSUME NEW b \in Bridges, Stat(b) PROVE LogType'
  BY <1>1 DEF Stat, LogType, Goto, Rotates, Renames, InUse, tail
<1>2. ASSUME NEW b \in Bridges, Remove(b) PROVE LogType'
  <2>1. pc'[b] = "third" /\ pc' = [pc EXCEPT ![b] = "third"]
    BY <1>2 DEF Remove, Goto, Following, LogType
  <2>2. /\ files' \in [0 .. 3 -> {Absent} \cup Seq(1 .. MaxLines)]
        /\ files'[0] = files[0]
        /\ \A k \in 0 .. 3 : files'[k] = files[k] \/ files'[k] = Absent
    BY <1>2 DEF Remove, LogType
  <2>3. \A k \in 0 .. 3 : Size(files'[k]) <= lines'
    BY <1>0, <1>2, <2>2 DEF Remove, Size
  <2>4. InUse' => files'[0] # Absent
    BY <1>2, <2>1, <2>2 DEF Remove, InUse, LogType, tail
  <2> QED
    BY <1>2, <2>1, <2>2, <2>3, <2>4 DEF Remove, LogType, tail, Rotates, Renames
<1>3. ASSUME NEW b \in Bridges, Rename(b) PROVE LogType'
  <2>1. PICK k \in 1 .. 3 : Moves(b, k)
    BY <1>3, Renamed
  <2> USE DEF Moves
  <2>2. /\ files' \in [0 .. 3 -> {Absent} \cup Seq(1 .. MaxLines)]
        /\ k # 1 => files'[0] = files[0]
        /\ files'[0] = files[0] \/ files'[0] = Absent
        /\ \A j \in 1 .. 3 : files'[j] = files[j] \/ files'[j] = Absent \/ files'[j] = files[j - 1]
    <3>1. CASE files' = files
      BY <3>1, <2>1 DEF LogType
    <3>2. CASE files' = [files EXCEPT ![k] = files[k - 1], ![k - 1] = Absent]
      <4>1. files[k - 1] \in {Absent} \cup Seq(1 .. MaxLines)
        BY DEF LogType
      <4> QED
        BY <3>2, <4>1 DEF LogType
    <3> QED
      BY <2>1, <3>1, <3>2
  <2>3. \A j \in 0 .. 3 : Size(files'[j]) <= lines'
    <3>1. files'[0] = files[0] \/ files'[0] = Absent
      BY <2>2
    <3>2. \A j \in 1 .. 3 : files'[j] = files[j] \/ files'[j] = Absent \/ files'[j] = files[j - 1]
      BY <2>2
    <3>3. Size(Absent) = 0
      BY DEF Size
    <3>4. lines' = lines
      BY <2>1
    <3>5. Size(files'[0]) <= lines
      BY <1>0, <3>1, <3>3
    <3>6. \A j \in 1 .. 3 : Size(files'[j]) <= lines
      BY <1>0, <3>2, <3>3
    <3> QED
      BY <3>4, <3>5, <3>6
  <2>4. InUse' => InUse
    BY <2>1 DEF InUse, LogType, tail
  <2>5. InUse' => files'[0] # Absent
    BY <2>1, <2>2, <2>4 DEF LogType
  <2>6. swollen' \in BOOLEAN
    BY <2>1 DEF LogType
  <2> QED
    BY <2>1, <2>2, <2>3, <2>5, <2>6 DEF LogType, tail, Rotates, Renames
<1>4. ASSUME NEW b \in Bridges, Open(b) PROVE LogType'
  <2>1. \A k \in 0 .. 3 : Size(files'[k]) <= lines'
    BY <1>0, <1>4, Created DEF Open
  <2> QED
    BY <1>4, <2>1, Created DEF Open, LogType, Goto, Rotates, Renames, tail
<1>5. ASSUME NEW b \in Bridges, WriteLine(b) PROVE LogType'
  <2>1. files[0] # Absent /\ lines < MaxLines /\ Written
    BY <1>5 DEF WriteLine, LogType, InUse
  <2>2. \A k \in 0 .. 3 : Size(files'[k]) <= lines'
    <3>1. Size(files'[0]) <= lines'
      BY <1>0, <2>1, Longer
    <3>2. \A k \in 1 .. 3 : Size(files'[k]) <= lines'
      BY <1>0, <2>1, Longer
    <3> QED
      BY <3>1, <3>2
  <2>3. since' \in 0 .. lines'
    BY <1>0, <2>1, <1>5, Longer DEF LogType, tail, WriteLine
  <2>4. /\ files' \in [0 .. 3 -> {Absent} \cup Seq(1 .. MaxLines)]
        /\ files'[0] # Absent /\ lines' \in 0 .. MaxLines
    BY <1>0, <2>1, Longer
  <2> QED
    BY <1>5, <2>2, <2>3, <2>4 DEF WriteLine, LogType, Goto, tail
<1>6. CASE Serve
  <2>1. /\ files' \in [0 .. 3 -> {Absent} \cup Seq(1 .. MaxLines)]
        /\ \A k \in 0 .. 3 : Size(files'[k]) = Size(files[k])
        /\ files[0] # Absent \/ held' => files'[0] # Absent
    BY <1>6, Created DEF Serve, LogType
  <2>2. serves' \in 0 .. MaxServes
    BY <1>6, Limits DEF Serve, LogType
  <2>3. \A k \in 0 .. 3 : Size(files'[k]) <= lines'
    BY <1>0, <1>6, <2>1 DEF Serve
  <2>4. InUse' => files'[0] # Absent
    BY <1>6, <2>1 DEF Serve, InUse, LogType, tail
  <2>5. pc' \in [Bridges -> Rotates \cup {"idle", "open", "write"}]
    BY <1>6 DEF Serve
  <2> QED
    BY <1>6, <2>1, <2>2, <2>3, <2>4, <2>5 DEF Serve, LogType, tail
<1>7. CASE Output
  <2>1. files[0] # Absent /\ lines < MaxLines /\ Written
    BY <1>7 DEF Output, LogType, InUse
  <2>2. \A k \in 0 .. 3 : Size(files'[k]) <= lines'
    <3>1. Size(files'[0]) <= lines'
      BY <1>0, <2>1, Longer
    <3>2. \A k \in 1 .. 3 : Size(files'[k]) <= lines'
      BY <1>0, <2>1, Longer
    <3> QED
      BY <3>1, <3>2
  <2>3. since' \in 0 .. lines'
    BY <1>0, <2>1, <1>7, Longer DEF LogType, tail, Output
  <2>4. /\ files' \in [0 .. 3 -> {Absent} \cup Seq(1 .. MaxLines)]
        /\ files'[0] # Absent /\ lines' \in 0 .. MaxLines
    BY <1>0, <2>1, Longer
  <2> QED
    BY <1>7, <2>2, <2>3, <2>4 DEF Output, LogType, tail
<1>8. CASE FollowStart
  <2>1. Size(files[0]) \in 0 .. MaxLines
    BY <1>0
  <2>2. offset' \in 0 .. MaxLines
    BY <1>8, <2>1, Limits DEF FollowStart
  <2>3. follows' \in 0 .. MaxFollows
    BY <1>8, Limits DEF FollowStart, LogType
  <2>4. /\ since' \in 0 .. lines' /\ shown' \in SUBSET (1 .. MaxLines)
        /\ rotated' \in BOOLEAN
    <3>1. since' = lines /\ lines' = lines /\ shown' = {} /\ rotated' = FALSE
      BY <1>8 DEF FollowStart
    <3>2. lines \in 0 .. lines
      BY <1>0
    <3> QED
      BY <3>1, <3>2
  <2>5. InUse' => files'[0] # Absent
    BY <1>8 DEF FollowStart, LogType, InUse
  <2> QED
    BY <1>8, <2>2, <2>3, <2>4, <2>5 DEF FollowStart, LogType
<1>9. CASE FollowOpen
  BY <1>9 DEF FollowOpen, LogType, InUse
<1>10. CASE FollowRead
  <2>1. files[0] \in Seq(1 .. MaxLines) /\ Len(files[0]) \in 0 .. MaxLines
    BY <1>0, <1>10, Sizes DEF FollowRead, LogType, InUse
  <2>2. offset' \in 0 .. MaxLines
    BY <1>10, <2>1 DEF FollowRead, LogType, Seen
  <2>3. \A i \in offset + 1 .. Len(files[0]) : files[0][i] \in 1 .. MaxLines
    <3>1. \A i \in 1 .. Len(files[0]) : files[0][i] \in 1 .. MaxLines
      BY <2>1, ElementOfSeq
    <3>2. offset \in Nat
      BY DEF LogType
    <3> QED
      BY <2>1, <3>1, <3>2
  <2>4. shown' \in SUBSET (1 .. MaxLines)
    <3>1. shown \in SUBSET (1 .. MaxLines)
      BY DEF LogType
    <3>2. {files[0][i] : i \in offset + 1 .. Len(files[0])} \subseteq 1 .. MaxLines
      BY <2>3
    <3> QED
      BY <1>10, <3>1, <3>2 DEF FollowRead
  <2> QED
    BY <1>10, <2>2, <2>4 DEF FollowRead, LogType, InUse
<1>11. CASE FollowStop
  BY <1>11, Limits DEF FollowStop, LogType, InUse
<1>12. CASE UNCHANGED logVars
  BY <1>12 DEF logVars, tail, LogType, InUse
<1> QED
  BY <1>1, <1>2, <1>3, <1>4, <1>5, <1>6, <1>7, <1>8, <1>9, <1>10, <1>11, <1>12 DEF LogNext

\* The bridges that are about to write are some of the bridges.
LEMMA WritingCount ==
  /\ Writing \subseteq Bridges
  /\ IsFiniteSet(Writing) /\ Cardinality(Writing) \in Nat /\ Cardinality(Bridges) \in Nat
  /\ Cardinality(Writing) <= Cardinality(Bridges)
<1>1. Writing \subseteq Bridges
  BY DEF Writing
<1> QED
  BY <1>1, LogsAssumption, FS_Subset, FS_CardinalityType

\* What leaves the log alone leaves its room, unless one more is about to write.
LEMMA RoomStays ==
  ASSUME LogType, Room, held' = held, swollen' = swollen, Size(files'[0]) = Size(files[0]),
         Writing' = Writing
  PROVE  Room'
  BY DEF Room

LEMMA RoomStep == LogType /\ Room /\ [LogNext]_logVars => Room'
<1> SUFFICES ASSUME LogType, Room, [LogNext]_logVars PROVE Room'
  OBVIOUS
<1>0. /\ Size(files[0]) \in Nat /\ MaxLogLines \in Nat
      /\ IsFiniteSet(Writing) /\ Cardinality(Writing) \in Nat /\ Cardinality(Bridges) \in Nat
  BY Limits, Sizes, WritingCount DEF LogType
<1>00. Cardinality(Writing') <= Cardinality(Bridges) /\ Cardinality(Writing') \in Nat
  <2>1. Writing' \subseteq Bridges
    BY DEF Writing
  <2> QED
    BY <2>1, LogsAssumption, FS_Subset, FS_CardinalityType
<1>1. ASSUME NEW b \in Bridges, Stat(b) PROVE Room'
  <2>1. CASE TooLong(files[0])
    <3>1. Writing' = Writing
      BY <1>1, <2>1 DEF Stat, Goto, LogType, Writing
    <3> QED
      BY <1>1, <3>1, RoomStays DEF Stat
  <2>2. CASE ~TooLong(files[0])
    BY <1>0, <1>00, <1>1, <2>2 DEF Stat, TooLong, Room
  <2> QED
    BY <2>1, <2>2
<1>2. ASSUME NEW b \in Bridges, Remove(b) PROVE Room'
  <2>1. Writing' = Writing
    BY <1>2 DEF Remove, Goto, Following, LogType, Writing
  <2>2. files'[0] = files[0]
    BY <1>2 DEF Remove, LogType
  <2> QED
    BY <1>2, <2>1, <2>2, RoomStays DEF Remove
<1>3. ASSUME NEW b \in Bridges, Rename(b) PROVE Room'
  <2>1. PICK k \in 1 .. 3 : Moves(b, k)
    BY <1>3, Renamed
  <2> USE DEF Moves
  <2>2. CASE k # 1
    <3>1. Writing' = Writing
      BY <2>1, <2>2 DEF LogType, Writing
    <3>2. files'[0] = files[0]
      BY <2>1, <2>2 DEF LogType
    <3> QED
      BY <2>1, <2>2, <3>1, <3>2, RoomStays
  <2>3. CASE k = 1 /\ (files[0] = Absent \/ InUse)
    <3>0. k - 1 = 0
      BY <2>3
    <3>1. files' = files /\ held' = held
      BY <2>1, <2>3, <3>0
    <3>2. InUse => swollen'
      BY <2>1, <2>3
    <3>3. swollen' \/ Size(files'[0]) = 0
      BY <2>3, <3>1, <3>2 DEF Size
    <3>4. held' => swollen'
      BY <3>1, <3>2 DEF InUse
    <3> QED
      BY <1>0, <1>00, <3>3, <3>4 DEF Room
  <2>4. CASE k = 1 /\ ~(files[0] = Absent \/ InUse)
    <3>0. k - 1 = 0
      BY <2>4
    <3>1. files' = [files EXCEPT ![1] = files[0], ![0] = Absent]
      BY <2>1, <2>4, <3>0
    <3>2. ~held'
      BY <2>1, <2>4 DEF InUse
    <3>3. Size(files'[0]) = 0
      BY <3>1 DEF Size, LogType
    <3> QED
      BY <1>0, <1>00, <3>2, <3>3 DEF Room
  <2> QED
    BY <2>2, <2>3, <2>4
<1>4. ASSUME NEW b \in Bridges, Open(b) PROVE Room'
  <2>1. Writing' = Writing
    BY <1>4 DEF Open, Goto, LogType, Writing
  <2>2. Size(files'[0]) = Size(files[0])
    BY <1>4, Created DEF Open
  <2> QED
    BY <1>4, <2>1, <2>2, RoomStays DEF Open
<1>5. ASSUME NEW b \in Bridges, WriteLine(b) PROVE Room'
  <2>1. files[0] # Absent
    BY <1>5 DEF WriteLine, LogType, InUse
  <2>2. Size(files'[0]) = Size(files[0]) + 1
    BY <1>5, <2>1, Longer DEF WriteLine
  <2>3. Writing' = Writing \ {b} /\ b \in Writing
    BY <1>5 DEF WriteLine, Goto, LogType, Writing
  <2>4. Cardinality(Writing') = Cardinality(Writing) - 1
    BY <1>0, <2>3, FS_RemoveElement
  <2> QED
    BY <1>0, <1>5, <2>2, <2>4 DEF WriteLine, Room
<1>6. CASE Serve
  <2>1. Writing' = {}
    BY <1>6 DEF Serve, Writing
  <2>2. Size(files'[0]) = Size(files[0])
    BY <1>6, Created DEF Serve
  <2>3. Cardinality(Writing') = 0
    BY <2>1, FS_EmptySet
  <2>4. held' => swollen'
    BY <1>6 DEF Serve
  <2>5. ~swollen' => ~swollen
    BY <1>6 DEF Serve
  <2> QED
    BY <1>0, <2>2, <2>3, <2>4, <2>5 DEF Room
<1>7. CASE Output
  BY <1>7 DEF Output, Room
<1>8. CASE FollowStart \/ FollowOpen \/ FollowRead \/ FollowStop
  <2>1. Writing' = Writing
    BY <1>8 DEF FollowStart, FollowOpen, FollowRead, FollowStop, Writing
  <2> QED
    BY <1>8, <2>1, RoomStays DEF FollowStart, FollowOpen, FollowRead, FollowStop
<1>9. CASE UNCHANGED logVars
  <2>1. Writing' = Writing
    BY <1>9 DEF logVars, Writing
  <2> QED
    BY <1>9, <2>1, RoomStays DEF logVars
<1> QED
  BY <1>1, <1>2, <1>3, <1>4, <1>5, <1>6, <1>7, <1>8, <1>9 DEF LogNext

LEMMA FreedStep == LogType /\ Freed /\ [LogNext]_logVars => Freed'
<1> SUFFICES ASSUME LogType, Freed, [LogNext]_logVars, ~met' PROVE Freed'
  BY DEF Freed
<1> USE DEF Freed, Renames, Rotates, Target
<1>1. ASSUME NEW b \in Bridges, Stat(b) PROVE Freed'
  BY <1>1 DEF Stat, LogType, Goto
<1>2. ASSUME NEW b \in Bridges, Remove(b) PROVE Freed'
  <2>1. pc' = [pc EXCEPT ![b] = "third"] /\ files'[3] = Absent
    BY <1>2 DEF Remove, Goto, Following, LogType
  <2> QED
    BY <1>2, <2>1 DEF Remove, LogType
<1>3. ASSUME NEW b \in Bridges, Rename(b) PROVE Freed'
  <2>1. PICK k \in 1 .. 3 : Moves(b, k)
    BY <1>3, Renamed
  <2> USE DEF Moves
  <2>2. \A c \in Bridges : pc[c] \in Rotates => c = b
    BY <2>1
  <2>3. \A c \in Bridges : pc'[c] \in Rotates => c = b
    BY <2>1, <2>2 DEF LogType
  <2>4. k # 1 => files'[k - 1] = Absent
    BY <2>1 DEF LogType
  <2>5. pc'[b] \in Renames => files'[Target[pc'[b]]] = Absent
    BY <2>1, <2>4 DEF LogType
  <2> QED
    BY <2>3, <2>5
<1>4. ASSUME NEW b \in Bridges, Open(b) PROVE Freed'
  BY <1>4, Created DEF Open, LogType, Goto
<1>5. ASSUME NEW b \in Bridges, WriteLine(b) PROVE Freed'
  <2>1. \A k \in 1 .. 3 : files'[k] = files[k]
    BY <1>5, Longer DEF WriteLine, LogType, InUse
  <2> QED
    BY <1>5, <2>1 DEF WriteLine, LogType, Goto
<1>6. CASE Serve
  BY <1>6 DEF Serve
<1>7. CASE Output
  <2>1. \A k \in 1 .. 3 : files'[k] = files[k]
    BY <1>7, Longer DEF Output, LogType, InUse
  <2> QED
    BY <1>7, <2>1 DEF Output
<1>8. CASE FollowStart \/ FollowOpen \/ FollowRead \/ FollowStop
  BY <1>8 DEF FollowStart, FollowOpen, FollowRead, FollowStop
<1>9. CASE UNCHANGED logVars
  BY <1>9 DEF logVars
<1> QED
  BY <1>1, <1>2, <1>3, <1>4, <1>5, <1>6, <1>7, <1>8, <1>9 DEF LogNext

\* Every file is a sequence of numbers, the shorter the fewer lines it has.
LEMMA LinesType ==
  ASSUME LogType
  PROVE  \A k \in 0 .. 3 : Lines(k) \in Seq(Nat) /\ Len(Lines(k)) = Size(files[k])
<1> TAKE k \in 0 .. 3
<1>1. files[k] \in {Absent} \cup Seq(1 .. MaxLines)
  BY DEF LogType
<1>2. CASE files[k] = Absent
  BY <1>2, EmptySeq DEF Lines, Size
<1>3. CASE files[k] # Absent
  <2>1. files[k] \in Seq(1 .. MaxLines)
    BY <1>1, <1>3
  <2>2. files[k] \in Seq(Nat)
    <3>1. 1 .. MaxLines \subseteq Nat
      BY Limits
    <3> QED
      BY <2>1, <3>1, SeqMonotonic
  <2> QED
    BY <1>3, <2>2 DEF Lines, Size
<1> QED
  BY <1>2, <1>3

\* An end, and the end of what comes before it, make a longer end.
LEMMA EndsConcat ==
  ASSUME NEW s \in Seq(Nat), NEW t \in Seq(Nat), NEW n \in Int,
         Ends(t, n), Ends(s, n - Len(t))
  PROVE  s \o t \in Seq(Nat) /\ Len(s \o t) = Len(s) + Len(t) /\ Ends(s \o t, n)
<1>1. /\ s \o t \in Seq(Nat)
      /\ Len(s \o t) = Len(s) + Len(t)
      /\ Len(s) \in Nat /\ Len(t) \in Nat
      /\ \A i \in 1 .. Len(s) + Len(t) :
           (s \o t)[i] = IF i <= Len(s) THEN s[i] ELSE t[i - Len(s)]
  BY ConcatProperties, LenProperties
<1>2. ASSUME NEW i \in 1 .. Len(s) + Len(t)
      PROVE  (s \o t)[i] = n - (Len(s) + Len(t)) + i
  <2>1. CASE i <= Len(s)
    <3>1. i \in 1 .. Len(s) /\ s[i] = (n - Len(t)) - Len(s) + i
      BY <1>1, <2>1 DEF Ends
    <3> QED
      BY <1>1, <2>1, <3>1
  <2>2. CASE ~(i <= Len(s))
    <3>1. i - Len(s) \in 1 .. Len(t) /\ t[i - Len(s)] = n - Len(t) + (i - Len(s))
      BY <1>1, <2>2 DEF Ends
    <3> QED
      BY <1>1, <2>2, <3>1
  <2> QED
    BY <2>1, <2>2
<1> QED
  BY <1>1, <1>2 DEF Ends

\* A line more at the end.
LEMMA EndsAppend ==
  ASSUME NEW s \in Seq(Nat), NEW n \in Nat, Ends(s, n)
  PROVE  Ends(Append(s, n + 1), n + 1)
<1>1. /\ Len(Append(s, n + 1)) = Len(s) + 1 /\ Len(s) \in Nat
      /\ \A i \in 1 .. Len(s) : Append(s, n + 1)[i] = s[i]
      /\ Append(s, n + 1)[Len(s) + 1] = n + 1
  BY AppendProperties, LenProperties
<1>2. ASSUME NEW i \in 1 .. Len(s) + 1
      PROVE  Append(s, n + 1)[i] = (n + 1) - (Len(s) + 1) + i
  <2>1. CASE i = Len(s) + 1
    BY <1>1, <2>1
  <2>2. CASE i # Len(s) + 1
    <3>1. i \in 1 .. Len(s)
      BY <1>1, <2>2
    <3>2. Append(s, n + 1)[i] = s[i]
      BY <1>1, <3>1
    <3>3. s[i] = n - Len(s) + i
      BY <3>1 DEF Ends
    <3> QED
      BY <1>1, <3>2, <3>3
  <2> QED
    BY <2>1, <2>2
<1> QED
  BY <1>1, <1>2 DEF Ends

LEMMA EndsEmpty ==
  ASSUME NEW n
  PROVE  Len(<<>>) = 0 /\ Ends(<<>>, n)
  BY DEF Ends

\* What leaves the four files and the count alone leaves the chain.
LEMMA ChainStays ==
  ASSUME Chained, ~met', met' = met \/ ~met, lines' = lines, \A k \in 0 .. 3 : Lines(k)' = Lines(k)
  PROVE  Chained'
  BY DEF Chained

\* A line is written.
LEMMA ChainGrows ==
  ASSUME LogType, Chained, Written, lines < MaxLines, files[0] # Absent, met' = met
  PROVE  Chained'
<1>1. SUFFICES ASSUME ~met PROVE Chained'
  BY DEF Chained
<1>2. /\ lines \in Nat /\ lines' = lines + 1
      /\ files[0] \in Seq(Nat)
      /\ files'[0] = Append(files[0], lines + 1) /\ files'[0] # Absent
      /\ \A k \in 1 .. 3 : files'[k] = files[k]
  <2>1. files[0] \in Seq(Nat)
    BY LinesType DEF Lines
  <2> QED
    BY <2>1, Longer, Limits DEF LogType
<1>3. Lines(0) = files[0] /\ Lines(0)' = Append(files[0], lines + 1)
  BY <1>2 DEF Lines
<1>4. Lines(1)' = Lines(1) /\ Lines(2)' = Lines(2) /\ Lines(3)' = Lines(3)
  BY <1>2 DEF Lines
<1>5. Ends(Lines(0)', lines')
  BY <1>1, <1>2, <1>3, EndsAppend DEF Chained
<1>6. Len(Lines(0)') = Len(Lines(0)) + 1 /\ Len(Lines(0)) \in Nat
  BY <1>2, <1>3, AppendProperties, LenProperties
<1>7. lines' - Len(Lines(0)') = lines - Len(Lines(0))
  <2>1. lines \in Nat /\ lines' = lines + 1
    BY <1>2
  <2> QED
    BY <1>6, <2>1
<1> QED
  BY <1>1, <1>4, <1>5, <1>7 DEF Chained

LEMMA ChainStep == LogType /\ Freed /\ Chained /\ [LogNext]_logVars => Chained'
<1> SUFFICES ASSUME LogType, Freed, Chained, [LogNext]_logVars, ~met' PROVE Chained'
  BY DEF Chained
<1>1. ASSUME NEW b \in Bridges, Stat(b) PROVE Chained'
  BY <1>1 DEF Stat, Chained, Lines
<1>2. ASSUME NEW b \in Bridges, Remove(b) PROVE Chained'
  <2>1. /\ files'[3] = Absent /\ met' = met /\ lines' = lines
        /\ files'[0] = files[0] /\ files'[1] = files[1] /\ files'[2] = files[2]
    BY <1>2 DEF Remove, LogType
  <2>2. /\ Lines(3)' = <<>>
        /\ Lines(0)' = Lines(0) /\ Lines(1)' = Lines(1) /\ Lines(2)' = Lines(2)
    BY <2>1 DEF Lines
  <2> QED
    BY <2>1, <2>2, EndsEmpty DEF Chained
<1>3. ASSUME NEW b \in Bridges, Rename(b) PROVE Chained'
  <2>1. PICK k \in 1 .. 3 : Moves(b, k)
    BY <1>3, Renamed
  <2> USE DEF Moves
  <2>2. ~met /\ files[k] = Absent
    BY <2>1 DEF Freed, Renames
  <2>3. CASE files' = files
    BY <2>1, <2>3 DEF Chained, Lines
  <2>4. CASE files' = [files EXCEPT ![k] = files[k - 1], ![k - 1] = Absent]
    <3>1. \A j \in 0 .. 3 : Len(Lines(j)) \in Nat
      BY LinesType, LenProperties
    <3>2. lines \in Nat /\ lines' = lines
      BY <2>1 DEF LogType
    <3>3. Lines(k) = <<>>
      BY <2>2 DEF Lines
    <3>4. CASE k = 1
      <4>1. Lines(0)' = <<>> /\ Lines(1)' = Lines(0) /\ Lines(2)' = Lines(2) /\ Lines(3)' = Lines(3)
        BY <2>4, <3>4 DEF Lines, LogType
      <4>2. /\ lines' - Len(Lines(0)') = lines
            /\ lines' - Len(Lines(0)') - Len(Lines(1)') = lines - Len(Lines(0)) - Len(Lines(1))
        BY <3>1, <3>2, <3>3, <3>4, <4>1, EndsEmpty
      <4> QED
        BY <2>2, <4>1, <4>2, EndsEmpty DEF Chained
    <3>5. CASE k = 2
      <4>1. Lines(0)' = Lines(0) /\ Lines(1)' = <<>> /\ Lines(2)' = Lines(1) /\ Lines(3)' = Lines(3)
        BY <2>4, <3>5 DEF Lines, LogType
      <4>2. /\ lines' - Len(Lines(0)') = lines - Len(Lines(0))
            /\ lines' - Len(Lines(0)') - Len(Lines(1)') = lines - Len(Lines(0))
            /\ lines' - Len(Lines(0)') - Len(Lines(1)') - Len(Lines(2)') =
                 lines - Len(Lines(0)) - Len(Lines(1)) - Len(Lines(2))
        BY <3>1, <3>2, <3>3, <3>5, <4>1, EndsEmpty
      <4> QED
        BY <2>2, <3>2, <4>1, <4>2, EndsEmpty DEF Chained
    <3>6. CASE k = 3
      <4>1. Lines(0)' = Lines(0) /\ Lines(1)' = Lines(1) /\ Lines(2)' = <<>> /\ Lines(3)' = Lines(2)
        BY <2>4, <3>6 DEF Lines, LogType
      <4>2. lines' - Len(Lines(0)') - Len(Lines(1)') - Len(Lines(2)') =
              lines - Len(Lines(0)) - Len(Lines(1))
        BY <3>1, <3>2, <4>1, EndsEmpty
      <4> QED
        BY <2>2, <3>2, <4>1, <4>2, EndsEmpty DEF Chained
    <3> QED
      BY <3>4, <3>5, <3>6
  <2> QED
    BY <2>1, <2>3, <2>4
<1>4. ASSUME NEW b \in Bridges, Open(b) PROVE Chained'
  <2>1. Lines(0)' = Lines(0)
    BY <1>4, Created DEF Open
  <2>2. Lines(1)' = Lines(1) /\ Lines(2)' = Lines(2) /\ Lines(3)' = Lines(3)
    BY <1>4, Created DEF Open, Lines
  <2> QED
    BY <1>4, <2>1, <2>2 DEF Open, Chained
<1>5. ASSUME NEW b \in Bridges, WriteLine(b) PROVE Chained'
  BY <1>5, ChainGrows DEF WriteLine, LogType, InUse
<1>6. CASE Serve
  <2>1. Lines(0)' = Lines(0)
    BY <1>6, Created DEF Serve, Lines
  <2>2. Lines(1)' = Lines(1) /\ Lines(2)' = Lines(2) /\ Lines(3)' = Lines(3)
    BY <1>6, Created DEF Serve, Lines
  <2> QED
    BY <1>6, <2>1, <2>2 DEF Serve, Chained
<1>7. CASE Output
  BY <1>7, ChainGrows DEF Output, LogType, InUse
<1>8. CASE FollowStart \/ FollowOpen \/ FollowRead \/ FollowStop
  BY <1>8 DEF FollowStart, FollowOpen, FollowRead, FollowStop, Chained, Lines
<1>9. CASE UNCHANGED logVars
  BY <1>9 DEF logVars, Chained, Lines
<1> QED
  BY <1>1, <1>2, <1>3, <1>4, <1>5, <1>6, <1>7, <1>8, <1>9 DEF LogNext

LEMMA LogStart == LogInit => LogInv
<1> SUFFICES ASSUME LogInit PROVE LogInv
  OBVIOUS
<1>1. files = [k \in 0 .. 3 |-> Absent]
  BY DEF LogInit, Archives
<1>2. /\ lines = 0 /\ serves = 0 /\ follow = "off" /\ offset = 0 /\ shown = {} /\ follows = 0
      /\ since = 0 /\ pc = [b \in Bridges |-> "idle"]
      /\ held = FALSE /\ met = FALSE /\ swollen = FALSE /\ rotated = FALSE
  BY DEF LogInit
<1>3. \A k \in 0 .. 3 : Lines(k) = <<>> /\ Size(files[k]) = 0
  BY <1>1 DEF Lines, Size
<1>4. ~InUse
  BY <1>2 DEF InUse
<1>5. LogType
  BY <1>1, <1>2, <1>3, <1>4, Limits DEF LogType
<1>6. Room
  BY <1>2, <1>3, WritingCount, Limits DEF Room
<1>7. Freed
  BY <1>2 DEF Freed, Rotates, Renames
<1>8. Chained
  BY <1>3, EndsEmpty DEF Chained
<1> QED
  BY <1>5, <1>6, <1>7, <1>8 DEF LogInv

LEMMA LogAlways == LogSpec => []LogInv
<1>1. LogInv /\ [LogNext]_logVars => LogInv'
  BY LogTypeStep, RoomStep, FreedStep, ChainStep DEF LogInv
<1> QED
  BY <1>1, LogStart, PTL DEF LogSpec

\* Every variable of the log and its readers and writers stays in its range.
THEOREM LogTypeCorrect == LogSpec => []LogTypeOK
<1>1. LogInv => LogTypeOK
  <2> SUFFICES ASSUME LogType PROVE LogTypeOK
    BY DEF LogInv
  <2>1. \A k \in {0} \cup Archives : files[k] = Absent \/ files[k] \in Seq(1 .. MaxLines)
    BY DEF LogType, Archives
  <2>2. {held, met, swollen, rotated} \subseteq BOOLEAN
    BY DEF LogType
  <2> QED
    BY <2>1, <2>2 DEF LogType, LogTypeOK, InUse
<1> QED
  BY <1>1, LogAlways, PTL

\* The log and its archives are the newest lines, without a gap: no rotation, whole or
\* cut off anywhere, loses one in the middle, until two of them run side by side.
THEOREM NewestKept == LogSpec => []KeepsTheNewest
<1>1. LogInv => KeepsTheNewest
  <2> SUFFICES ASSUME LogInv, ~met PROVE KeepsTheNewest
    BY DEF KeepsTheNewest
  <2>1. LogType /\ Chained
    BY DEF LogInv
  <2>2. /\ Lines(0) \in Seq(Nat) /\ Lines(1) \in Seq(Nat)
        /\ Lines(2) \in Seq(Nat) /\ Lines(3) \in Seq(Nat)
    BY <2>1, LinesType
  <2>3. /\ lines \in Int /\ Len(Lines(0)) \in Int /\ Len(Lines(1)) \in Int
        /\ lines - Len(Lines(0)) \in Int
        /\ lines - Len(Lines(0)) - Len(Lines(1)) \in Int
    <3>1. lines \in Int
      BY <2>1 DEF LogType
    <3>2. Len(Lines(0)) \in Int /\ Len(Lines(1)) \in Int
      BY <2>2, LenProperties
    <3> QED
      BY <3>1, <3>2
  <2> DEFINE two   == Lines(3) \o Lines(2)
             three == two \o Lines(1)
             kept  == three \o Lines(0)
  <2>4. two \in Seq(Nat) /\ Ends(two, lines - Len(Lines(0)) - Len(Lines(1)))
    BY <2>1, <2>2, <2>3, EndsConcat DEF Chained
  <2>5. three \in Seq(Nat) /\ Ends(three, lines - Len(Lines(0)))
    <3> HIDE DEF two
    <3> QED
      BY <2>1, <2>2, <2>3, <2>4, EndsConcat DEF Chained
  <2>6. Ends(kept, lines)
    <3> HIDE DEF three
    <3> QED
      BY <2>1, <2>2, <2>3, <2>5, EndsConcat DEF Chained
  <2> QED
    BY <2>6 DEF KeepsTheNewest, Ends
<1> QED
  BY <1>1, LogAlways, PTL

\* While no process holds it open the log outgrows its limit by a line of each bridge
\* at most, however their looks, writes and rotations interleave.
THEOREM CapKept == LogSpec => []CapHolds
<1>1. LogInv => CapHolds
  <2> SUFFICES ASSUME LogInv, ~swollen PROVE Size(files[0]) <= MaxLogLines + Cardinality(Bridges)
    BY DEF CapHolds
  <2>1. Size(files[0]) + Cardinality(Writing) <= MaxLogLines + Cardinality(Bridges)
    BY DEF LogInv, Room
  <2> QED
    BY <2>1, WritingCount, Sizes, Limits DEF LogInv, LogType
<1> QED
  BY <1>1, LogAlways, PTL
=============================================================================
