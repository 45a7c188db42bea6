------------------------------ MODULE StateStore ------------------------------
(***************************************************************************)
(* What internal/state promises its callers: state.json is one cell that    *)
(* read-modify-write operations change one at a time.  The cell is the set  *)
(* of updates it contains.  An update is applied at one instant, on top of  *)
(* everything stored before, and its call reports success only afterwards.  *)
(***************************************************************************)
CONSTANT Updates

VARIABLES
  stored,  \* updates that state.json contains
  acked    \* updates whose call returned nil

Init == stored = {} /\ acked = {}

\* The update takes effect; nothing stored earlier disappears.
Apply(u) ==
  /\ u \notin stored
  /\ stored' = stored \cup {u}
  /\ UNCHANGED acked

\* The call that made u returns nil.
Acknowledge(u) ==
  /\ u \in stored
  /\ acked' = acked \cup {u}
  /\ UNCHANGED stored

Next == \E u \in Updates : Apply(u) \/ Acknowledge(u)

Spec == Init /\ [][Next]_<<stored, acked>>
=============================================================================
