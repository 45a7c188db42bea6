----------------------------- MODULE MCStateLock -----------------------------
(* Instances of StateLock for TLC. *)
EXTENDS StateLock, TLC

\* Processes are interchangeable: nothing in the module orders them.
ProcSymmetry == Permutations(Proc)
=============================================================================
