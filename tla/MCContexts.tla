------------------------------- MODULE MCContexts -------------------------------
(* Instances of Contexts for TLC. *)
EXTENDS Contexts, TLC

\* For each property everything it allows to go wrong, and all faults together.
AnyWorld ==
  { {}, {"shortcut"}, {"overlap"},
    {"docker", "saves", "shortcut", "crash"} }

Symmetry == Permutations(Procs) \cup Permutations(Own)
=============================================================================
