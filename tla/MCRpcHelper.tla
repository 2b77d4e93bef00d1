---------------------------- MODULE MCRpcHelper ----------------------------
(* RpcHelper for TLC: the nodes, limits and faults of its configuration. *)
EXTENDS RpcHelper

AllFaults  == {"node", "redis", "restart"}
TwoLimits  == <<5, 3>>
OneName    == [n \in Nodes |-> "key"]
Names      == {"key"}
=============================================================================
