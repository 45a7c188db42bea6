---------------------------------- MODULE Logs ----------------------------------
(***************************************************************************)
(* The log of the relay: logx.Append with its rotation, called by the       *)
(* bridges of one serving process side by side, and daemon log, which       *)
(* follows the file.  The serving process is a foreground, or the daemon's  *)
(* child, whose output is the log itself: Start opened it for the child,    *)
(* and Windows does not rename a file that a process holds open.            *)
(*                                                                          *)
(* A line is its number, in the order of writing; sizes are lines.          *)
(***************************************************************************)
EXTENDS Integers, Sequences, FiniteSets

CONSTANTS
  Bridges,      \* calls of Append that may run side by side
  Absent,       \* no such file
  MaxLogLines,  \* the log is rotated when it is longer
  Back,         \* lines that daemon log shows from before its start
  MaxLines,     \* bound: lines written
  MaxServes,    \* bound: serving processes
  MaxFollows    \* bound: calls of daemon log

ASSUME LogsAssumption ==
  /\ Bridges # {} /\ IsFiniteSet(Bridges)
  /\ Absent \notin Seq(Nat)
  /\ {MaxLogLines, Back, MaxLines, MaxServes, MaxFollows} \subseteq Nat

VARIABLES
  files,    \* dockup.log is 0, dockup.log.1 .. dockup.log.3 are 1 .. 3
  pc,       \* where a bridge is in Append
  held,     \* the serving process is a daemon
  lines,    \* lines written so far
  serves,   \* serving processes so far
  follow,   \* daemon log runs, or has the log open
  offset,   \* what it has read
  shown,    \* the lines it has shown
  follows,  \* calls of it so far
  since,    \* history: lines written when it began
  met,      \* history: two rotations ran side by side
  swollen,  \* history: the log was held open since it was last moved
  rotated   \* history: the log was moved since daemon log began

tail == <<follow, offset, shown, follows, since>>
logVars == <<files, pc, held, lines, serves, tail, met, swollen, rotated>>

Archives == 1 .. 3

\* The archive that a step of rotate renames to.
Target  == [third |-> 3, second |-> 2, first |-> 1]
Renames == {"third", "second", "first"}
Rotates == Renames \cup {"remove"}

LogInit ==
  /\ files = [k \in {0} \cup Archives |-> Absent]
  /\ pc = [b \in Bridges |-> "idle"]
  /\ held = FALSE
  /\ lines = 0 /\ serves = 0
  /\ follow = "off" /\ offset = 0 /\ shown = {} /\ follows = 0 /\ since = 0
  /\ met = FALSE /\ swollen = FALSE /\ rotated = FALSE

Size(file) == IF file = Absent THEN 0 ELSE Len(file)
Goto(b, l) == pc' = [pc EXCEPT ![b] = l]

Written == files' = [files EXCEPT ![0] = Append(@, lines + 1)] /\ lines' = lines + 1

\* Some process has the log open.
InUse == held \/ follow = "read" \/ \E b \in Bridges : pc[b] = "write"

-----------------------------------------------------------------------------
(* logx.Append *)

\* Mutant of TooLong: the log is never rotated.
TooLongNever(file) == FALSE

TooLong(file) == Size(file) > MaxLogLines

Stat(b) ==
  /\ pc[b] = "idle"
  /\ lines < MaxLines
  /\ Goto(b, IF TooLong(files[0]) THEN "remove" ELSE "open")
  /\ met' = (met \/ (TooLong(files[0]) /\ \E c \in Bridges : pc[c] \in Rotates))
  /\ UNCHANGED <<files, held, lines, serves, tail, swollen, rotated>>

\* Mutant of Following: the newest archive first.
FollowingUp(l) ==
  CASE l = "remove" -> "first" [] l = "first" -> "second" [] l = "second" -> "third"
    [] l = "third" -> "open"

\* The order of rotate.
Following(l) ==
  CASE l = "remove" -> "third" [] l = "third" -> "second" [] l = "second" -> "first"
    [] l = "first" -> "open"

Remove(b) ==
  /\ pc[b] = "remove"
  /\ files' = [files EXCEPT ![3] = Absent]
  /\ Goto(b, Following("remove"))
  /\ UNCHANGED <<held, lines, serves, tail, met, swollen, rotated>>

\* A rename replaces its target; it fails without its source, or when that is open.
Rename(b) ==
  /\ pc[b] \in Renames
  /\ Goto(b, Following(pc[b]))
  /\ LET k     == Target[pc[b]]
         fails == files[k - 1] = Absent \/ (k = 1 /\ InUse)
     IN  /\ files' = IF fails THEN files
                     ELSE [files EXCEPT ![k] = files[k - 1], ![k - 1] = Absent]
         /\ swollen' = IF k # 1 THEN swollen ELSE (fails /\ (swollen \/ InUse))
         /\ rotated' = (rotated \/ (k = 1 /\ ~fails /\ follow # "off"))
  /\ UNCHANGED <<held, lines, serves, tail, met>>

\* Mutant of Create: the file is not created.
CreateNothing == UNCHANGED files

Create == files' = [files EXCEPT ![0] = IF @ = Absent THEN <<>> ELSE @]

Open(b) ==
  /\ pc[b] = "open"
  /\ Create
  /\ Goto(b, "write")
  /\ UNCHANGED <<held, lines, serves, tail, met, swollen, rotated>>

WriteLine(b) ==
  /\ pc[b] = "write"
  /\ lines < MaxLines
  /\ Written
  /\ Goto(b, "idle")
  /\ UNCHANGED <<held, serves, tail, met, swollen, rotated>>

-----------------------------------------------------------------------------
(* The serving process and daemon log *)

\* Another process serves: the last one ended, was stopped or died anywhere.
Serve ==
  /\ serves < MaxServes
  /\ serves' = serves + 1
  /\ pc' = [b \in Bridges |-> "idle"]
  /\ held' \in BOOLEAN
  /\ IF held' THEN Create ELSE UNCHANGED files
  /\ swollen' = (swollen \/ held')
  /\ UNCHANGED <<lines, tail, met, rotated>>

\* What a daemon prints goes to the log as well.
Output ==
  /\ held
  /\ lines < MaxLines
  /\ Written
  /\ UNCHANGED <<pc, held, serves, tail, met, swollen, rotated>>

FollowStart ==
  /\ follow = "off"
  /\ follows < MaxFollows
  /\ follows' = follows + 1
  /\ follow' = "on"
  /\ offset' = LET n == Size(files[0]) IN IF n > Back THEN n - Back ELSE n
  /\ shown' = {}
  /\ since' = lines
  /\ rotated' = FALSE
  /\ UNCHANGED <<files, pc, held, lines, serves, met, swollen>>

FollowOpen ==
  /\ follow = "on"
  /\ files[0] # Absent
  /\ follow' = "read"
  /\ UNCHANGED <<files, pc, held, lines, serves, offset, shown, follows, since, met, swollen, rotated>>

\* Mutant of Seen: the newline that ends a chunk is counted once more.
SeenTooMuch(file) == Len(file) + 1

Seen(file) == Len(file)

\* It shows what is past its offset, and nothing of a log that became shorter.
FollowRead ==
  /\ follow = "read"
  /\ follow' = "on"
  /\ IF Len(files[0]) > offset
       THEN /\ shown' = shown \cup {files[0][i] : i \in offset + 1 .. Len(files[0])}
            /\ offset' = Seen(files[0])
       ELSE UNCHANGED <<shown, offset>>
  /\ UNCHANGED <<files, pc, held, lines, serves, follows, since, met, swollen, rotated>>

FollowStop ==
  /\ follow # "off"
  /\ follow' = "off" /\ offset' = 0 /\ shown' = {} /\ since' = 0 /\ rotated' = FALSE
  /\ UNCHANGED <<files, pc, held, lines, serves, follows, met, swollen>>

LogNext ==
  \/ \E b \in Bridges : Stat(b) \/ Remove(b) \/ Rename(b) \/ Open(b) \/ WriteLine(b)
  \/ Serve \/ Output
  \/ FollowStart \/ FollowOpen \/ FollowRead \/ FollowStop

LogSpec == LogInit /\ [][LogNext]_logVars /\ WF_logVars(FollowOpen \/ FollowRead)

-----------------------------------------------------------------------------
(* Properties *)

(* Every variable stays in its range; who is about to write has a file. *)
LogTypeOK ==
  /\ \A k \in {0} \cup Archives : files[k] = Absent \/ files[k] \in Seq(1 .. MaxLines)
  /\ pc \in [Bridges -> Rotates \cup {"idle", "open", "write"}]
  /\ {held, met, swollen, rotated} \subseteq BOOLEAN
  /\ lines \in 0 .. MaxLines
  /\ serves \in 0 .. MaxServes
  /\ follow \in {"off", "on", "read"}
  /\ offset \in 0 .. MaxLines
  /\ shown \in SUBSET (1 .. MaxLines)
  /\ follows \in 0 .. MaxFollows
  /\ since \in 0 .. lines
  /\ held \/ follow = "read" \/ (\E b \in Bridges : pc[b] = "write") => files[0] # Absent

Lines(k) == IF files[k] = Absent THEN <<>> ELSE files[k]

(* The log with its archives, oldest first, is the end of everything that   *)
(* was written, without a gap: a rotation drops old lines only, also one    *)
(* that fails half way or is cut off by the end of the process, as long as  *)
(* no two rotations (logx.go:61) ran side by side.                          *)
KeepsTheNewest ==
  LET kept == Lines(3) \o Lines(2) \o Lines(1) \o Lines(0) IN
    ~met => \A i \in 1 .. Len(kept) : kept[i] = lines - Len(kept) + i

(* "MaxLogBytes caps the daemon log before rotation" (config.go:38), but    *)
(* for one line of each bridge that looked at it before the others wrote,   *)
(* and while no process holds it open: the log of a daemon, which holds it, *)
(* is never moved, and each attempt drops an archive.                       *)
CapHolds == ~swollen => Size(files[0]) <= MaxLogLines + Cardinality(Bridges)

(* "Follow the log" (maintenance.md:10): what is written while daemon log   *)
(* runs is shown, until a rotation, after which its offset counts lines of  *)
(* another file.                                                            *)
FollowsTheLog ==
  follow # "off" ~> (since + 1 .. lines \subseteq shown \/ follow = "off" \/ rotated)
=============================================================================
