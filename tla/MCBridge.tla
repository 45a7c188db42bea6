------------------------------- MODULE MCBridge -------------------------------
(* Instances of Bridge for TLC. *)
EXTENDS Bridge

\* Any faults together; the process ends alone or after a shutdown.
AnyWorld == {W \in SUBSET AllFaults : "exit" \in W => W \subseteq {"exit", "shutdown"}}
=============================================================================
