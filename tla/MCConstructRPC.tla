--------------------------- MODULE MCConstructRPC ---------------------------
(* ConstructRPC for TLC: the nodes of its configuration. *)
EXTENDS ConstructRPC

ThreeNodes == <<"a", "b", "c">>
=============================================================================
