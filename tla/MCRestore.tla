------------------------------- MODULE MCRestore -------------------------------
(* Instances of Restore for TLC. *)
EXTENDS Restore

\* All faults together, and those that leave the package list and state.json readable,
\* which the promises name: fewer faults allow nothing more.
AnyWorld == {AllFaults, AllFaults \ {"list", "state"}}
===============================================================================
