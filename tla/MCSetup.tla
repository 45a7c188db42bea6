-------------------------------- MODULE MCSetup --------------------------------
(* Instances of Setup for TLC. *)
EXTENDS Setup, TLC

\* All faults together, without failing saves, without deaths too, which the promises
\* name; overlapping commands with at most one other fault.
AnyWorld ==
  {AllFaults \ ({"overlap"} \cup F) : F \in {{}, {"saves"}, {"saves", "crash"}}}
    \cup {{"overlap", f} : f \in AllFaults}

Symmetry == Permutations(Procs) \cup Permutations(Paths)
=============================================================================
