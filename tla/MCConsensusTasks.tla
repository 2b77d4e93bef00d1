-------------------------- MODULE MCConsensusTasks --------------------------
(* ConsensusTasks for TLC: the faults and the symmetry of its configurations, *)
(* in which every task is about a project of its own.                         *)
EXTENDS ConsensusTasks, TLC

ItsOwn       == [t \in Tasks |-> t]
AllFaults    == {"rpc", "lost", "revert", "timeout"}
TaskSymmetry == Permutations(Tasks)
=============================================================================
