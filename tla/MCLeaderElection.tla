--------------------------- MODULE MCLeaderElection ---------------------------
(***************************************************************************)
(* Small instances of LeaderElection for TLC.  The .cfg files choose among *)
(* the values below.                                                       *)
(***************************************************************************)
EXTENDS LeaderElection, TLC

CONSTANTS n1, n2, n3

(* The registry lists every node, or has lost one of them.                 *)
FullView == {Node}
NearlyFullView == {v \in SUBSET Node : Cardinality(v) + 1 >= Cardinality(Node)}

(* The specification treats all nodes alike.                               *)
NodeSymmetry == Permutations(Node)
=============================================================================
