------------------------------- MODULE Exchange -------------------------------
(***************************************************************************)
(* What a client of the bridge may rely on: it receives the backend's       *)
(* output, or one HTTP 500 and then nothing.  "A loud protocol error beats  *)
(* silent EOF" (internal/relay/relay.go:218).                               *)
(***************************************************************************)
EXTENDS Naturals

CONSTANT Error500

VARIABLES
  reply,  \* chunks received so far, or Error500
  over    \* the server closed the connection

vars == <<reply, over>>

Init == reply = 0 /\ ~over

Deliver ==
  /\ ~over
  /\ reply \in Nat
  /\ reply' = reply + 1
  /\ UNCHANGED over

Refuse ==
  /\ ~over
  /\ reply = 0
  /\ reply' = Error500
  /\ over' = TRUE

Close ==
  /\ ~over
  /\ over' = TRUE
  /\ UNCHANGED reply

Next == Deliver \/ Refuse \/ Close

Spec == Init /\ [][Next]_vars
=============================================================================
