-------------------------------- MODULE MCEngine --------------------------------
(* Instances of Engine for TLC. *)
EXTENDS Engine

\* No fault; the faults of one command at a time; overlap with another fault.
AnyWorld ==
  { {}, {"mirror", "timeout", "slow", "wsl", "reboots"}, {"overlap", "timeout"} }

\* Commands one after another, nothing fails.
CalmWorld == { {} }
=============================================================================
