-------------------------- MODULE ProposalIdsProofs ---------------------------
(***************************************************************************)
(* What holds of the numbers LeaderElection draws, whatever the length of  *)
(* an era: within half an era they rise, within an era they are unique,    *)
(* and nobody is elected with a negative one.                              *)
(***************************************************************************)
EXTENDS ProposalIds, FiniteSetTheorems, TLAPS

(* The second half of an era, whose IDs are negative.                      *)
SecondHalf(t) == 2 * (t % Era) >= Era

LEMMA Low ==
  ASSUME Era \in Nat \ {0}, NEW t \in Nat
  PROVE  t % Era \in 0..(Era - 1)
  OBVIOUS

LEMMA KeptIsInt ==
  ASSUME Era \in Nat \ {0}, NEW t \in Nat
  PROVE  Kept(t) \in Int
  BY Low DEF Kept

LEMMA IdIsInt ==
  ASSUME Era \in Nat \ {0}, NEW t \in Nat, NEW b \in Byte
  PROVE  ProposalId(t, b) \in Int
  BY KeptIsInt DEF ProposalId, Byte

(* Of two times of the same half of an era the later one has the higher    *)
(* ID, whoever draws it: IDs rise, as leader.go:65 wants.                  *)
THEOREM IdsRise ==
  ASSUME Era \in Nat \ {0}, NEW t \in Nat, NEW u \in Nat,
         NEW b \in Byte, NEW c \in Byte,
         t % Era < u % Era, SecondHalf(t) <=> SecondHalf(u)
  PROVE  ProposalId(t, b) < ProposalId(u, c)
<1>1. Kept(t) < Kept(u) /\ Kept(t) \in Int /\ Kept(u) \in Int
  BY Low DEF Kept, SecondHalf
<1>. QED
  BY <1>1 DEF ProposalId, Byte

(* Two IDs are equal only if they were drawn at the same time, up to whole *)
(* eras, by nodes whose addresses end in the same character: IDs are       *)
(* unique, as leader.go:65 wants, among the nodes of a launch script that  *)
(* gives ports with different last digits, and only among them.            *)
THEOREM IdsAreUnique ==
  ASSUME Era \in Nat \ {0}, NEW t \in Nat, NEW u \in Nat,
         NEW b \in Byte, NEW c \in Byte,
         ProposalId(t, b) = ProposalId(u, c)
  PROVE  t % Era = u % Era /\ b = c
<1>1. ASSUME NEW k \in Int, NEW l \in Int, 256 * k + b = 256 * l + c
      PROVE  k = l /\ b = c
  BY <1>1 DEF Byte
<1>2. Kept(t) = Kept(u) /\ b = c
  BY <1>1, KeptIsInt DEF ProposalId
<1>3. t % Era = u % Era
  <2>1. t % Era \in 0..(Era - 1) /\ u % Era \in 0..(Era - 1)
    BY Low
  <2>2. ASSUME NEW x \in 0..(Era - 1), NEW y \in 0..(Era - 1),
               (IF 2 * x < Era THEN x ELSE x - Era) = (IF 2 * y < Era THEN y ELSE y - Era)
        PROVE  x = y
    BY <2>2
  <2>. QED
    BY <1>2, <2>1, <2>2 DEF Kept
<1>. QED
  BY <1>2, <1>3

(* In the second half of an era every ID is negative, so that no acceptor, *)
(* which begins with a promise of 0, grants it.                            *)
THEOREM LateIdsAreNegative ==
  ASSUME Era \in Nat \ {0}, NEW t \in Nat, NEW b \in Byte
  PROVE  ProposalId(t, b) < 0 <=> SecondHalf(t)
<1>1. Kept(t) \in Int /\ (Kept(t) < 0 <=> SecondHalf(t))
  BY Low DEF Kept, SecondHalf
<1>. QED
  BY <1>1 DEF ProposalId, Byte

-----------------------------------------------------------------------------
IdsTypeOK ==
  /\ now \in Nat
  /\ leaderProposalID \in [Node -> Int]
  /\ highestPromisedID \in [Node -> Nat]
  /\ votes \in [Node -> SUBSET Node]
  /\ isLeader \in [Node -> BOOLEAN]

(* A vote is a promise, and promises are to positive IDs.                  *)
VotesArePositive == \A n \in Node : votes[n] # {} => leaderProposalID[n] > 0

ConstantsOk ==
  /\ Era \in Nat \ {0}
  /\ MaxTime \in Nat
  /\ LastByte \in [Node -> Byte]
  /\ IsFiniteSet(Node)

LEMMA WinnerHasVotes ==
  ASSUME ConstantsOk, NEW n \in Node, Win(n)
  PROVE  votes[n] # {}
<1>1. Cardinality(Node) \in Nat
  BY FS_CardinalityType DEF ConstantsOk
<1>2. QuorumSize > 0 /\ QuorumSize \in Nat
  BY <1>1 DEF QuorumSize
<1>3. Cardinality({}) = 0
  BY FS_EmptySet
<1>. QED
  BY <1>2, <1>3 DEF Win

LEMMA IdsTyping ==
  ASSUME ConstantsOk
  PROVE  Spec => [](IdsTypeOK /\ VotesArePositive)
<1>1. Init => IdsTypeOK /\ VotesArePositive
  BY DEF Init, IdsTypeOK, VotesArePositive, ConstantsOk
<1>2. IdsTypeOK /\ VotesArePositive /\ [Next]_vars => (IdsTypeOK /\ VotesArePositive)'
  <2> SUFFICES ASSUME IdsTypeOK, VotesArePositive, [Next]_vars
               PROVE  (IdsTypeOK /\ VotesArePositive)'
    OBVIOUS
  <2>1. CASE Tick
    BY <2>1 DEF Tick, IdsTypeOK, VotesArePositive
  <2>2. ASSUME NEW n \in Node, Draw(n)
        PROVE  (IdsTypeOK /\ VotesArePositive)'
    <3>1. ProposalId(now, LastByte[n]) \in Int
      BY IdIsInt DEF IdsTypeOK, ConstantsOk
    <3>. QED
      BY <2>2, <3>1 DEF Draw, IdsTypeOK, VotesArePositive
  <2>3. ASSUME NEW n \in Node, NEW m \in Node, ProposeLeader(m, n)
        PROVE  (IdsTypeOK /\ VotesArePositive)'
    <3>1. leaderProposalID[n] \in Nat /\ leaderProposalID[n] > 0
      BY <2>3 DEF ProposeLeader, IdsTypeOK
    <3>. QED
      BY <2>3, <3>1 DEF ProposeLeader, IdsTypeOK, VotesArePositive
  <2>4. ASSUME NEW n \in Node, Win(n)
        PROVE  (IdsTypeOK /\ VotesArePositive)'
    <3>1. leaderProposalID[n] \in Nat
      BY <2>4, WinnerHasVotes DEF IdsTypeOK, VotesArePositive
    <3>. QED
      BY <2>4, <3>1 DEF Win, IdsTypeOK, VotesArePositive
  <2>5. ASSUME NEW n \in Node, StepDown(n)
        PROVE  (IdsTypeOK /\ VotesArePositive)'
    BY <2>5 DEF StepDown, IdsTypeOK, VotesArePositive
  <2>6. CASE UNCHANGED vars
    BY <2>6 DEF vars, IdsTypeOK, VotesArePositive
  <2>. QED
    BY <2>1, <2>2, <2>3, <2>4, <2>5, <2>6 DEF Next
<1>. QED
  BY <1>1, <1>2, PTL DEF Spec

(* Whoever wins an election has a positive ID, for every number of nodes   *)
(* and every length of an era: with LateIdsAreNegative, nobody is elected  *)
(* with an ID drawn in the second half of one.                             *)
THEOREM OnlyPositiveIdsWin ==
  ASSUME ConstantsOk
  PROVE  Spec => WinnersArePositive
<1>1. IdsTypeOK /\ VotesArePositive /\ [Next]_vars
        => [\A n \in Node :
              ~isLeader[n] /\ isLeader'[n] => leaderProposalID[n] > 0]_vars
  <2> SUFFICES ASSUME IdsTypeOK, VotesArePositive, [Next]_vars,
                      NEW n \in Node, ~isLeader[n], isLeader'[n]
               PROVE  leaderProposalID[n] > 0
    OBVIOUS
  <2>1. Win(n)
    BY DEF Next, vars, Tick, Draw, Win, StepDown, ProposeLeader, IdsTypeOK
  <2>. QED
    BY <2>1, WinnerHasVotes DEF VotesArePositive
<1>. QED
  BY <1>1, IdsTyping, PTL DEF Spec, WinnersArePositive
=============================================================================
