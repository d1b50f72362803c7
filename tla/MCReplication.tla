----------------------------- MODULE MCReplication -----------------------------
(***************************************************************************)
(* Small instances of Replication for TLC.  The .cfg files choose among    *)
(* the values below.                                                       *)
(***************************************************************************)
EXTENDS Replication, TLC

CONSTANTS n1, n2, n3, k1, v1, p1, p2

Set(v) == [type |-> "SET", key |-> k1, value |-> v]
Delete == [type |-> "DELETE", key |-> k1]

(* Distinct commands, so that no two requests are mistaken for each other. *)
TwoCommands == (p1 :> Set(v1)) @@ (p2 :> Delete)

(* The registry lists every node; or any set of them: it forgets a node    *)
(* whose heartbeats stop, and all of them when it is restarted.            *)
FullView == {Node}
AnyView == SUBSET Node

(* The specification treats all nodes alike.                               *)
NodeSymmetry == Permutations(Node)
===============================================================================
