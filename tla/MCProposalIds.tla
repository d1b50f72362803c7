---------------------------- MODULE MCProposalIds ----------------------------
(***************************************************************************)
(* A small instance of ProposalIds for TLC: three nodes, and eras of six   *)
(* nanoseconds.                                                            *)
(***************************************************************************)
EXTENDS ProposalIds, TLC

CONSTANTS n1, n2, n3

(* The last digit of the ports 8081, 8082 and 8083.                        *)
Digits == (n1 :> 49) @@ (n2 :> 50) @@ (n3 :> 51)
=============================================================================
