-------------------------- MODULE MCEpochGenerator --------------------------
(* EpochGenerator for TLC: the sets its configurations name. *)
EXTENDS EpochGenerator

LossyFaults   == {"rpc", "lost", "drop", "crash"}
GaplessFaults == {"rpc", "lost", "crash", "revert"}
=============================================================================
