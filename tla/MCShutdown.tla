----------------------------- MODULE MCShutdown -----------------------------
(* Shutdown for TLC: the sets of faults its configurations name. *)
EXTENDS Shutdown

SignalFaults == {"rpc", "crash"}
AllFaults    == {"rpc", "lost", "drop", "crash", "revert"}
=============================================================================
