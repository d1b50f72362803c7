------------------------------ MODULE BallotLog ------------------------------
(***************************************************************************)
(* What the log of this program promises, and no more: within one slot, a  *)
(* ballot (a proposal ID) carries a single command, and a command that a   *)
(* client is told is decided has been accepted, under one ballot, by a     *)
(* majority of the nodes the registry listed.                              *)
(*                                                                         *)
(* This is Paxos without its first phase: nothing relates the commands of  *)
(* two ballots of one slot, because ProposeCommand of                      *)
(* paxos/internal/proposer.go normally skips Prepare.  Module Replication  *)
(* implements it when each node is given one request at a time.            *)
(***************************************************************************)
EXTENDS Integers, FiniteSets

CONSTANTS Node, Slot, Ballot, Command,
          Views  \* the sets of nodes the registry may list

VARIABLES
  votes,  \* the acceptances so far
  chosen  \* the decisions reported so far

Vote == [node : Node, slot : Slot, id : Ballot, cmd : Command]
Choice == [slot : Slot, id : Ballot, cmd : Command]

Init == votes = {} /\ chosen = {}

(* Node n accepts c in slot s under ballot b: the ballot is not used for   *)
(* another command.                                                        *)
Accept(n, s, b, c) ==
  /\ \A v \in votes : v.slot = s /\ v.id = b => v.cmd = c
  /\ votes' = votes \cup {[node |-> n, slot |-> s, id |-> b, cmd |-> c]}
  /\ UNCHANGED chosen

Voters(s, b, c) ==
  {n \in Node : [node |-> n, slot |-> s, id |-> b, cmd |-> c] \in votes}

(* A majority of a list of registered nodes has accepted c; the proposer   *)
(* counts itself even when the list has lost it.                           *)
Choose(s, b, c) ==
  /\ \E view \in Views, n \in Voters(s, b, c) :
       2 * Cardinality(Voters(s, b, c) \cap (view \cup {n})) > Cardinality(view)
  /\ chosen' = chosen \cup {[slot |-> s, id |-> b, cmd |-> c]}
  /\ UNCHANGED votes

(* A node that accepts an answer it already has, or a decision reported    *)
(* again, is a stutter.                                                    *)
Next ==
  \E s \in Slot, b \in Ballot, c \in Command :
    \/ \E n \in Node : Accept(n, s, b, c)
    \/ Choose(s, b, c)

Spec == Init /\ [][Next]_<<votes, chosen>>
=============================================================================
