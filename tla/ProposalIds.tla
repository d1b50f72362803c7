----------------------------- MODULE ProposalIds -----------------------------
(***************************************************************************)
(* The numbers that LeaderElection draws (leader.go:65),                   *)
(*                                                                         *)
(*   time.Now().UnixNano()<<8 | int64(last byte of the address)            *)
(*                                                                         *)
(* and the elections they decide.  An int64 has no room for a time of 61   *)
(* bits shifted by 8: the shift keeps the low 56 bits of the time, as a    *)
(* signed number, so that the IDs run through all their values every 2^56  *)
(* ns, 834 days, and are negative in the second half of them.  The other   *)
(* modules take IDs to be positive, unique and drawn in any order; this    *)
(* one says when they are.                                                 *)
(***************************************************************************)
EXTENDS Integers, FiniteSets

CONSTANTS
  Node,     \* the nodes
  LastByte, \* the last byte of the address of each
  Era,      \* the times that have IDs of their own: 2^56 in the build
  MaxTime   \* bound: the last instant

Byte == 0..255

(* The low bits of the time that survive the shift, as int64 reads them.   *)
Kept(t) ==
  LET low == t % Era
  IN  IF 2 * low < Era THEN low ELSE low - Era

ProposalId(t, b) == 256 * Kept(t) + b

VARIABLES
  now,               \* the clock, in nanoseconds
  leaderProposalID,  \* the ID a node drew last; 0 if none
  highestPromisedID, \* leaderState.HighestPromisedID of a node
  votes,             \* who has promised the last ID of a node
  isLeader

vars == <<now, leaderProposalID, highestPromisedID, votes, isLeader>>

Init ==
  /\ now \in 0..MaxTime
  /\ leaderProposalID = [n \in Node |-> 0]
  /\ highestPromisedID = [n \in Node |-> 0]
  /\ votes = [n \in Node |-> {}]
  /\ isLeader = [n \in Node |-> FALSE]

-----------------------------------------------------------------------------
Tick ==
  /\ now < MaxTime
  /\ now' = now + 1
  /\ UNCHANGED <<leaderProposalID, highestPromisedID, votes, isLeader>>

(* Two draws of a node are at least a nanosecond apart.                    *)
Draw(n) ==
  LET id == ProposalId(now, LastByte[n])
  IN  /\ ~isLeader[n]
      /\ id # leaderProposalID[n]
      /\ leaderProposalID' = [leaderProposalID EXCEPT ![n] = id]
      /\ votes' = [votes EXCEPT ![n] = {}]
      /\ UNCHANGED <<now, highestPromisedID, isLeader>>

(* ProposeLeader at node m for candidate n.                                *)
ProposeLeader(m, n) ==
  /\ m # n
  /\ leaderProposalID[n] > highestPromisedID[m]
  /\ highestPromisedID' = [highestPromisedID EXCEPT ![m] = leaderProposalID[n]]
  /\ votes' = [votes EXCEPT ![n] = @ \cup {m}]
  /\ UNCHANGED <<now, leaderProposalID, isLeader>>

QuorumSize == Cardinality(Node) \div 2 + 1

(* The outcome of LeaderElection.                                          *)
Win(n) ==
  /\ ~isLeader[n]
  /\ Cardinality(votes[n]) >= QuorumSize
  /\ isLeader' = [isLeader EXCEPT ![n] = TRUE]
  /\ highestPromisedID' = [highestPromisedID EXCEPT ![n] = leaderProposalID[n]]
  /\ UNCHANGED <<now, leaderProposalID, votes>>

(* Demotion, in any of the ways of module LeaderElection.                  *)
StepDown(n) ==
  /\ isLeader[n]
  /\ isLeader' = [isLeader EXCEPT ![n] = FALSE]
  /\ votes' = [votes EXCEPT ![n] = {}]
  /\ UNCHANGED <<now, leaderProposalID, highestPromisedID>>

Next ==
  \/ Tick
  \/ \E n \in Node : Draw(n) \/ Win(n) \/ StepDown(n)
  \/ \E n, m \in Node : ProposeLeader(m, n)

Spec == Init /\ [][Next]_vars

-----------------------------------------------------------------------------
(* "Garante que seja único e crescente" (leader.go:65): the next ID of a   *)
(* node is higher than its last.  It is not when half an era ends in       *)
(* between; from then on its acceptors refuse it, and all the others.      *)
OwnIdsRise ==
  [][\A n \in Node :
       leaderProposalID[n] # 0
         => leaderProposalID'[n] >= leaderProposalID[n]]_vars

(* Whoever wins an election has a positive ID: acceptors promise nothing   *)
(* to the IDs of the second half of an era, in which nobody is elected.    *)
WinnersArePositive ==
  [][\A n \in Node :
       ~isLeader[n] /\ isLeader'[n] => leaderProposalID[n] > 0]_vars
=============================================================================
