--------------------------------- MODULE MCLogs ---------------------------------
(* Instances of Logs for TLC. *)
EXTENDS Logs
=============================================================================
