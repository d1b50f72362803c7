------------------------------ MODULE MCRegistry ------------------------------
(***************************************************************************)
(* A small instance of Registry for TLC: a node and a test client.         *)
(***************************************************************************)
EXTENDS Registry, TLC

CONSTANTS n1, c1, a1, a2

OwnName == (n1 :> n1) @@ (c1 :> c1)
OwnAddress == (n1 :> a1) @@ (c1 :> a2)
=============================================================================
