------------------------------ MODULE Leadership ------------------------------
(***************************************************************************)
(* What the replication layer may assume of the leader election: the       *)
(* abstract specification of paxos/internal/leader.go as ProposeCommand    *)
(* (proposer.go) sees it, through the two fields isLeader and              *)
(* leaderProposalID of PaxosServer.                                        *)
(*                                                                         *)
(* The election gives very little: a node that is a candidate takes a      *)
(* fresh proposal ID, a candidate may become a leader, a leader may be     *)
(* demoted at any moment.  Nothing keeps two nodes from being leaders at   *)
(* the same time.  Module LeaderElection is shown to implement this        *)
(* specification.                                                          *)
(***************************************************************************)
EXTENDS Integers

CONSTANTS
  Node,   \* the Paxos nodes, by address
  MaxId   \* bound: the number of proposal IDs ever drawn

ASSUME MaxIdAssumption == MaxId \in Nat

(* Proposal IDs.  0 is the zero value of the int64 fields: no ID yet.      *)
Id == 1..MaxId

VARIABLES
  isLeader,          \* PaxosServer.isLeader
  leaderProposalID,  \* PaxosServer.leaderProposalID
  campaigns          \* history: the pairs <<n, b>> of an ID b drawn by node n

leadershipVars == <<isLeader, leaderProposalID, campaigns>>

LeadershipTypeOK ==
  /\ isLeader \in [Node -> BOOLEAN]
  /\ leaderProposalID \in [Node -> {0} \cup Id]
  /\ campaigns \subseteq Node \X Id

LeadershipInit ==
  /\ isLeader = [n \in Node |-> FALSE]
  /\ leaderProposalID = [n \in Node |-> 0]
  /\ campaigns = {}

Fresh(b) == \A c \in campaigns : c[2] # b

-----------------------------------------------------------------------------
(* LeaderElection draws time.Now().UnixNano()<<8 | last byte of the        *)
(* address.  The clocks of two nodes are not synchronised, so the ID may   *)
(* be lower than one already drawn elsewhere; it is taken to be unique.    *)
Campaign(n) ==
  \E b \in Id :
    /\ Fresh(b)
    /\ leaderProposalID' = [leaderProposalID EXCEPT ![n] = b]
    /\ campaigns' = campaigns \cup {<<n, b>>}
    /\ UNCHANGED isLeader

(* The candidate counted a quorum of promises.                             *)
Win(n) ==
  /\ leaderProposalID[n] # 0
  /\ isLeader' = [isLeader EXCEPT ![n] = TRUE]
  /\ UNCHANGED <<leaderProposalID, campaigns>>

(* A failed election or a heartbeat that demotes the node.                 *)
StepDown(n) ==
  /\ isLeader' = [isLeader EXCEPT ![n] = FALSE]
  /\ UNCHANGED <<leaderProposalID, campaigns>>

(* The process restarts: NewPaxosServer leaves both fields zero.           *)
Forget(n) ==
  /\ isLeader' = [isLeader EXCEPT ![n] = FALSE]
  /\ leaderProposalID' = [leaderProposalID EXCEPT ![n] = 0]
  /\ UNCHANGED campaigns

LeadershipNext ==
  \E n \in Node : Campaign(n) \/ Win(n) \/ StepDown(n) \/ Forget(n)

LeadershipSpec == LeadershipInit /\ [][LeadershipNext]_leadershipVars
=============================================================================
