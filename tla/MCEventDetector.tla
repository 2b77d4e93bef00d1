-------------------------- MODULE MCEventDetector --------------------------
(* EventDetector for TLC: the sets of faults its configurations name. *)
EXTENDS EventDetector

Restarts  == {"redis", "crash"}
AllFaults == {"rpc", "redis", "crash"}
=============================================================================
