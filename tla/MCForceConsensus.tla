-------------------------- MODULE MCForceConsensus --------------------------
(* ForceConsensus for TLC: the sets of faults of its configuration. *)
EXTENDS ForceConsensus

Restarts   == {"crash"}
CallFaults == {"rpc", "lost", "revert"}
=============================================================================
