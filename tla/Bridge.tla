-------------------------------- MODULE Bridge --------------------------------
(***************************************************************************)
(* bridgeConn: one connection of a docker client, copied byte by byte to a  *)
(* wsl.exe of its own (socat to dockerd's socket).  Four goroutines meet:   *)
(* the copier of each direction, the one that kills the backend at          *)
(* shutdown, and the one that waits, reaps and gives the verdict.           *)
(*                                                                          *)
(* Data are chunks.  Connections share nothing but the shutdown.  A timer   *)
(* may fire whenever its goroutine waits: nothing is assumed about how long *)
(* the others take, except in Overdue.                                      *)
(***************************************************************************)
EXTENDS Integers, FiniteSets

CONSTANTS
  MaxIn,     \* bound: chunks the client sends
  MaxOut,    \* bound: chunks the backend writes
  Error500,  \* gatewayError
  Worlds     \* sets of the faults below that may occur together

AllFaults ==
  { "shutdown",  \* dockup's context is cancelled
    "spawn",     \* wsl.exe cannot be started
    "wedge",     \* the backend stops reading
    "stall",     \* the client stops reading, without closing
    "exit" }     \* the process ends with this connection in flight

ASSUME BridgeAssumption ==
  /\ MaxIn \in Nat
  /\ MaxOut \in Nat
  /\ Error500 \notin Int
  /\ Worlds \subseteq SUBSET AllFaults

VARIABLES
  faults,   \* what may happen here
  client,   \* "open", "half" (closed for writing) or "closed"
  reading,  \* does the client read?
  queued,   \* chunks the client sent, not yet copied
  sent,     \* and how many it sent
  backend,  \* "none", "run", "eof" (stdout closed), "ok", "failed", "killed"
  taking,   \* does the backend read its stdin?
  wrote,    \* chunks the backend wrote
  inpc,     \* the stdin copier: "read", "write" or "done"
  outpc,    \* the stdout copier, likewise
  done,     \* the channel of results: sides that ended and were not received
  main,     \* where bridgeConn is
  outN,     \* its outN: -1 is unknown
  open,     \* is our end of the client's connection open?
  pipe,     \* is our end of the backend's stdout open?
  reply,    \* what the client was sent: a number of chunks, or Error500
  cancelled,\* ctx is done
  late      \* history: the grace period ran out

clientVars == <<client, reading, sent>>
backVars   == <<backend, taking, wrote>>
copyVars   == <<queued, inpc, outpc, reply>>
mainVars   == <<main, outN, open, pipe, late>>

vars == <<faults, clientVars, backVars, copyVars, mainVars, done, cancelled>>

Alive == backend \in {"run", "eof"}

\* It writes no more.
Silent == backend \in {"eof", "ok", "failed", "killed"}

\* cmd.Wait returns an error.
Werr == backend \in {"failed", "killed"}

\* The connection is closed.
Over == main \in {"ended", "exited"}

Init ==
  /\ faults \in Worlds
  /\ client = "open"
  /\ reading = TRUE
  /\ queued = 0
  /\ sent = 0
  /\ backend = "none"
  /\ taking = TRUE
  /\ wrote = 0
  /\ inpc = "read"
  /\ outpc = "read"
  /\ done = {}
  /\ main = "spawn"
  /\ outN = -1
  /\ open = TRUE
  /\ pipe = TRUE
  /\ reply = 0
  /\ cancelled = FALSE
  /\ late = FALSE

-----------------------------------------------------------------------------
(* The client *)

Send ==
  /\ client = "open"
  /\ sent < MaxIn
  /\ sent' = sent + 1
  /\ queued' = queued + 1
  /\ UNCHANGED <<faults, backVars, mainVars, client, reading, inpc, outpc, done, reply,
                 cancelled>>

\* Message mode: a CloseWrite arrives as EOF.
HalfClose ==
  /\ client = "open"
  /\ client' = "half"
  /\ UNCHANGED <<faults, backVars, copyVars, mainVars, reading, sent, done, cancelled>>

Leave ==
  /\ client # "closed"
  /\ client' = "closed"
  /\ UNCHANGED <<faults, backVars, copyVars, mainVars, reading, sent, done, cancelled>>

Stall ==
  /\ "stall" \in faults
  /\ reading
  /\ reading' = FALSE
  /\ UNCHANGED <<faults, backVars, copyVars, mainVars, client, sent, done, cancelled>>

-----------------------------------------------------------------------------
(* The backend *)

Write ==
  /\ backend = "run"
  /\ wrote < MaxOut
  /\ wrote' = wrote + 1
  /\ UNCHANGED <<faults, clientVars, copyVars, mainVars, backend, taking, done, cancelled>>

BackendEnds ==
  /\ \/ backend = "run" /\ backend' = "eof"
     \/ Alive /\ backend' \in {"ok", "failed"}
  /\ UNCHANGED <<faults, clientVars, copyVars, mainVars, taking, wrote, done, cancelled>>

Wedge ==
  /\ "wedge" \in faults
  /\ taking
  /\ taking' = FALSE
  /\ UNCHANGED <<faults, clientVars, copyVars, mainVars, backend, wrote, done, cancelled>>

Cancel ==
  /\ "shutdown" \in faults
  /\ ~cancelled
  /\ cancelled' = TRUE
  /\ UNCHANGED <<faults, clientVars, backVars, copyVars, mainVars, done>>

-----------------------------------------------------------------------------
(* The copiers *)

\* io.Copy(toProc, client).  It ends when the client's side ends or is closed by
\* us, or when the backend no longer takes its input.
InRead ==
  /\ backend # "none"
  /\ inpc = "read"
  /\ \/ open /\ queued > 0 /\ queued' = queued - 1 /\ inpc' = "write" /\ UNCHANGED done
     \/ /\ ~open \/ client = "closed" \/ (client = "half" /\ queued = 0)
        /\ inpc' = "done"
        /\ done' = done \cup {"stdin"}
        /\ UNCHANGED queued
  /\ UNCHANGED <<faults, clientVars, backVars, mainVars, outpc, reply, cancelled>>

InWrite ==
  /\ inpc = "write"
  /\ \/ Alive /\ taking /\ inpc' = "read" /\ UNCHANGED done
     \/ ~Alive /\ inpc' = "done" /\ done' = done \cup {"stdin"}
  /\ UNCHANGED <<faults, clientVars, backVars, mainVars, queued, outpc, reply, cancelled>>

Pending == IF reply = Error500 THEN 0 ELSE wrote - reply

\* Mutant of OutRead: a chunk is copied from an empty pipe.
OutReadEmpty ==
  /\ backend # "none"
  /\ outpc = "read"
  /\ pipe
  /\ outpc' = "write"
  /\ UNCHANGED <<faults, clientVars, backVars, mainVars, done, cancelled, queued, inpc, reply>>

\* io.Copy(client, fromProc).
OutRead ==
  /\ backend # "none"
  /\ outpc = "read"
  /\ \/ pipe /\ Pending > 0 /\ outpc' = "write" /\ UNCHANGED done
     \/ /\ ~pipe \/ (Pending = 0 /\ backend # "run")
        /\ outpc' = "done"
        /\ done' = done \cup {"stdout"}
  /\ UNCHANGED <<faults, clientVars, backVars, mainVars, queued, inpc, reply, cancelled>>

OutWrite ==
  /\ outpc = "write"
  /\ \/ /\ open
        /\ client # "closed"
        /\ reading
        /\ reply' = reply + 1
        /\ outpc' = "read"
        /\ UNCHANGED done
     \/ /\ ~open \/ client = "closed"
        /\ outpc' = "done"
        /\ done' = done \cup {"stdout"}
        /\ UNCHANGED reply
  /\ UNCHANGED <<faults, clientVars, backVars, mainVars, queued, inpc, cancelled>>

-----------------------------------------------------------------------------
(* bridgeConn itself *)

\* A failed Start is reported to the client; a failed pipe is not.
Spawn ==
  /\ main = "spawn"
  /\ \/ backend' = "run" /\ main' = "first"
     \/ "spawn" \in faults /\ main' \in {"unspawned", "close"} /\ UNCHANGED backend
  /\ UNCHANGED <<faults, clientVars, copyVars, taking, wrote, done, outN, open, pipe,
                 cancelled, late>>

\* note: the result of the stdout side is the number of chunks it copied.
Note(side) == outN' = IF side = "stdout" THEN reply ELSE outN

Receive(side) ==
  /\ side \in done
  /\ done' = done \ {side}
  /\ Note(side)

\* Mutant of First: the stdin side is waited for before the stdout side.
FirstSequential ==
  /\ main = "first"
  /\ Receive("stdin")
  /\ main' = "grace"
  /\ UNCHANGED <<faults, clientVars, backVars, copyVars, open, pipe, late, cancelled>>

\* Mutant of First: whichever side ends first, the backend is killed.
FirstKills ==
  /\ main = "first"
  /\ \E side \in done : Receive(side)
  /\ main' = "kill"
  /\ UNCHANGED <<faults, clientVars, backVars, copyVars, open, pipe, cancelled, late>>

\* The client's EOF is normal: the container may flush.  The backend's is the end.
First ==
  /\ main = "first"
  /\ \E side \in done :
       /\ Receive(side)
       /\ main' = IF side = "stdin" THEN "grace" ELSE "kill"
  /\ UNCHANGED <<faults, clientVars, backVars, copyVars, open, pipe, cancelled, late>>

Grace ==
  /\ main = "grace"
  /\ \/ (\E side \in done : Receive(side)) /\ UNCHANGED late
     \/ late' = TRUE /\ UNCHANGED <<done, outN>>
  /\ main' = "kill"
  /\ UNCHANGED <<faults, clientVars, backVars, copyVars, open, pipe, cancelled>>

Kill ==
  /\ main = "kill"
  /\ backend' = IF Alive THEN "killed" ELSE backend
  /\ main' = "wait"
  /\ UNCHANGED <<faults, clientVars, copyVars, taking, wrote, done, outN, open, pipe,
                 cancelled, late>>

\* cmd.Wait also closes our ends of the backend's pipes.
Wait ==
  /\ main = "wait"
  /\ ~Alive
  /\ pipe' = FALSE
  /\ main' = IF outN < 0 THEN "verdict" ELSE "report"
  /\ UNCHANGED <<faults, clientVars, backVars, copyVars, done, outN, open, cancelled, late>>

\* The stdout copier waits for the client, so ten seconds may pass.
Overdue == outpc = "write" /\ ~reading

\* Mutant of Verdict: the verdict is not waited for.
VerdictBlind ==
  /\ main = "verdict"
  /\ main' = "report"
  /\ UNCHANGED <<faults, clientVars, backVars, copyVars, done, outN, open, pipe,
                 cancelled, late>>

Verdict ==
  /\ main = "verdict"
  /\ \/ \E side \in done : Receive(side)
     \/ Overdue /\ UNCHANGED <<done, outN>>
  /\ main' = "report"
  /\ UNCHANGED <<faults, clientVars, backVars, copyVars, open, pipe, cancelled, late>>

Close == main' = "ended" /\ open' = FALSE

\* Mutant of Refuses: a failed backend is reported whatever was sent.
RefusesAny == Werr /\ ~cancelled

\* A bridge that shutdown reaped stays quiet.
Refuses == Werr /\ outN = 0 /\ ~cancelled

\* gatewayError is written to the client, if it is there, and blocks while it does
\* not read.
Refuse ==
  /\ main = "unspawned" \/ (main = "report" /\ Refuses)
  /\ \/ client # "closed" /\ reading /\ reply' = Error500
     \/ client = "closed" /\ UNCHANGED reply
  /\ Close
  /\ UNCHANGED <<faults, clientVars, backVars, queued, inpc, outpc, done, outN, pipe,
                 cancelled, late>>

Finish ==
  /\ main = "close" \/ (main = "report" /\ ~Refuses)
  /\ Close
  /\ UNCHANGED <<faults, clientVars, backVars, copyVars, done, outN, pipe, cancelled, late>>

\* The goroutine that waits for shutdown.
Reap ==
  /\ cancelled
  /\ Alive
  /\ ~Over
  /\ backend' = "killed"
  /\ UNCHANGED <<faults, clientVars, copyVars, mainVars, taking, wrote, done, cancelled>>

\* ServeEx and its process wait for no bridge after a shutdown, and daemon stop kills
\* the process: Windows closes its handles, and the backend is left to itself.
Exit ==
  /\ "exit" \in faults
  /\ ~Over
  /\ main' = "exited"
  /\ open' = FALSE
  /\ pipe' = FALSE
  /\ UNCHANGED <<faults, clientVars, backVars, copyVars, done, outN, cancelled, late>>

-----------------------------------------------------------------------------
Copy   == InRead \/ InWrite \/ OutRead \/ OutWrite
Main   == Spawn \/ First \/ Grace \/ Kill \/ Wait \/ Verdict \/ Refuse \/ Finish
Others == Send \/ HalfClose \/ Leave \/ Stall \/ Write \/ BackendEnds \/ Wedge \/ Cancel \/ Exit

Next == Copy \/ Main \/ Reap \/ Others

Spec == Init /\ [][Next]_vars

\* Go runs every goroutine that can go on, and timers fire.  Clients, backends and
\* shutdown owe nothing.
Fairness ==
  /\ WF_vars(InRead \/ InWrite)
  /\ WF_vars(OutRead \/ OutWrite)
  /\ WF_vars(Main)
  /\ WF_vars(Reap)

FairSpec == Spec /\ Fairness

-----------------------------------------------------------------------------
TypeOK ==
  /\ faults \in Worlds
  /\ client \in {"open", "half", "closed"}
  /\ reading \in BOOLEAN
  /\ queued \in 0..MaxIn
  /\ sent \in 0..MaxIn
  /\ backend \in {"none", "run", "eof", "ok", "failed", "killed"}
  /\ taking \in BOOLEAN
  /\ wrote \in 0..MaxOut
  /\ inpc \in {"read", "write", "done"}
  /\ outpc \in {"read", "write", "done"}
  /\ done \in SUBSET {"stdin", "stdout"}
  /\ main \in {"spawn", "unspawned", "close", "first", "grace", "kill", "wait", "verdict",
               "report", "ended", "exited"}
  /\ outN \in -1..MaxOut
  /\ open \in BOOLEAN
  /\ pipe \in BOOLEAN
  /\ reply \in 0..MaxOut \cup {Error500}
  /\ cancelled \in BOOLEAN
  /\ late \in BOOLEAN

\* The client sees the backend's output or one error instead of it: an error never
\* lands in the middle of an answer, and nothing follows the close.
Answers == INSTANCE Exchange WITH over <- Over
ExchangeSpec == Answers!Spec

\* "If the backend dies before producing a byte, the client gets HTTP 500 instead of
\* a silent empty reply", unless shutdown reaped the bridge.
LoudWhenDead ==
  main = "ended" /\ backend = "failed" /\ wrote = 0 /\ client # "closed" /\ ~cancelled
    => reply = Error500

\* And only then: while the grace period lasts no error replaces output that the
\* backend did write.
ErrorMeansSilence == reply = Error500 /\ ~late => wrote = 0

\* The 500 stands for a backend that died before its first byte, and for nothing else.
ErrorHonest == LoudWhenDead /\ ErrorMeansSilence

\* While the grace period lasts, every chunk that the backend wrote has reached a
\* client that stays when its connection ends, also when the client closed its stdin
\* first, and when shutdown or a failure ended the backend.
AnswerWhole ==
  main = "ended" /\ ~late /\ client # "closed" => reply \in {wrote, Error500}

\* A connection ends once its backend closed its output, when the client reads or
\* left.
EndsAfterOutput ==
  (Silent /\ (client = "closed" \/ "stall" \notin faults)) ~> Over

\* It ends once the client left, or closed its stdin and still reads, when the backend
\* takes its input: with no output to wait for, the grace period bounds it.
EndsAfterInput ==
  ("wedge" \notin faults /\ (client = "closed" \/ (client = "half" /\ "stall" \notin faults)))
    ~> Over

\* "Shutdown slays in-flight bridges": no wsl.exe survives, whatever the client and
\* the backend do not do, unless the process is gone first.
ShutdownReaps == cancelled ~> (~Alive \/ main = "exited")

\* Connections and their backends end.
ConnectionsEnd == EndsAfterOutput /\ EndsAfterInput /\ ShutdownReaps
=============================================================================
