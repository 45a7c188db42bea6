---------------------------- MODULE MCImageCache ----------------------------
(* Instances of ImageCache for TLC. *)
EXTENDS ImageCache, TLC

\* Processes are interchangeable.
ProcSymmetry == Permutations(Proc)
=============================================================================
