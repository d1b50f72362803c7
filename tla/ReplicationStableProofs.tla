----------------------- MODULE ReplicationStableProofs ------------------------
(***************************************************************************)
(* Replication with serial clients under one stable leader: MaxId = 1, so  *)
(* there is one proposal ID and one node that ever draws it.               *)
(***************************************************************************)
EXTENDS ReplicationRefinementProofs, WellFoundedInduction

(* One stable leader (MaxId = 1): one proposal ID, so the commands of one  *)
(* slot are all of one ballot.                                             *)

Inv == TypeInv /\ OwnerInv /\ QuorumInv /\ BallotInv

LEMMA InvHolds == SerialClients => (Spec => []Inv)
<1> SUFFICES ASSUME SerialClients PROVE Spec => []Inv
  OBVIOUS
<1>1. Init => Inv
  BY TypeInvInit, OwnerInvInit, QuorumInvInit, BallotInvInit DEF Inv
<1>2. Inv /\ [Next]_vars => Inv'
  BY TypeInvStep, OwnerInvStep, QuorumInvStep, BallotInvStep DEF Inv
<1>3. QED BY <1>1, <1>2, PTL DEF Spec

(* A command in a slot was voted for there, under the only ID.             *)
LEMMA EntriesAreVoted ==
  ASSUME MaxId = 1, Inv, NEW n \in Node, NEW s \in Slot, slots[n][s].cmd # Nil
  PROVE  \E v \in votes : v.slot = s /\ v.id = 1 /\ v.cmd = slots[n][s].cmd
<1>1. slots[n][s].accepted = 1
  BY MaxIdAssumption DEF Inv, TypeInv, EntriesHaveIds, Id
<1>2. PICK m \in Node :
        [node |-> m, slot |-> s, id |-> 1, cmd |-> slots[n][s].cmd] \in votes
  BY <1>1 DEF Inv, OwnerInv, EntriesHaveAnOwner, ProposedByOwner, Voters
<1>3. QED BY <1>2

(* A reported decision has a vote: more than half of a list is someone.    *)
LEMMA DecisionsAreVoted ==
  ASSUME MaxId = 1, Inv, NEW d \in decided
  PROVE  \E v \in votes : v.slot = d.slot /\ v.id = 1 /\ v.cmd = d.cmd
<1> DEFINE W == Voters(d.slot, d.id, d.cmd) \cap (d.view \cup {d.node})
<1>1. d.id = 1 /\ d.view \in SUBSET Node
  BY DEF Inv, TypeInv, TypeOK, Decision, Id
<1>2. 2 * Cardinality(W) > Cardinality(d.view)
  BY DEF Inv, QuorumInv, DecidedByQuorum
<1>3. Cardinality(d.view) \in Nat
  BY <1>1, ReplicationAssumption, FS_Subset, FS_CardinalityType
  DEF ReplicationAssumption
<1>4. W # {}
  <2>1. SUFFICES ASSUME W = {} PROVE FALSE
    OBVIOUS
  <2>2. Cardinality(W) = 0
    BY <2>1, FS_EmptySet
  <2>3. QED BY <1>2, <1>3, <2>2
<1>5. PICK m \in Voters(d.slot, d.id, d.cmd) : TRUE
  BY <1>4
<1>6. [node |-> m, slot |-> d.slot, id |-> 1, cmd |-> d.cmd] \in votes
  BY <1>1, <1>5 DEF Voters
<1>7. QED BY <1>6

LEMMA AgreementHolds == ASSUME MaxId = 1, Inv PROVE Agreement
<1>1. OneCommandPerBallot
  BY DEF Inv, BallotInv
<1>2. ASSUME NEW n \in Node, NEW m \in Node, NEW s \in Slot,
             slots[n][s].cmd # Nil, slots[m][s].cmd # Nil
      PROVE  slots[n][s].cmd = slots[m][s].cmd
  BY <1>1, <1>2, EntriesAreVoted DEF OneCommandPerBallot
<1>3. ASSUME NEW d \in decided, NEW n \in Node, slots[n][d.slot].cmd # Nil
      PROVE  slots[n][d.slot].cmd = d.cmd
  <2>1. d.slot \in Slot
    BY DEF Inv, TypeInv, TypeOK, Decision
  <2>2. QED BY <1>1, <1>3, <2>1, EntriesAreVoted, DecisionsAreVoted
            DEF OneCommandPerBallot
<1>4. QED BY <1>2, <1>3 DEF Agreement

(* Under one stable leader and serial clients the logs of two nodes agree  *)
(* wherever both have a command, and with every reported decision,         *)
(* whatever restarts, timeouts, late requests and synchronisations happen. *)
(* It follows from one command per ballot, the owners of the entries and   *)
(* the majorities of the decisions.                                        *)
THEOREM LogsAgree == SerialClients /\ MaxId = 1 => (Spec => []Agreement)
<1> SUFFICES ASSUME SerialClients, MaxId = 1 PROVE Spec => []Agreement
  OBVIOUS
<1>1. Spec => []Inv
  BY InvHolds
<1>2. Inv => Agreement
  BY AgreementHolds
<1>3. QED BY <1>1, <1>2, PTL

(* No step but a restart empties a slot.                                   *)
SlotsStayFilled ==
  \A n \in Node, s \in Slot : slots[n][s].cmd # Nil => slots'[n][s].cmd # Nil

LEMMA WritesKeep ==
  ASSUME TypeInv, NEW n \in Node, NEW s \in Slot, NEW b, NEW c \in Command,
         Install(n, s, b, c) \/ Accept(n, s, b, c)
  PROVE  SlotsStayFilled
<1>1. CASE Install(n, s, b, c)
  BY <1>1, NilIsNew DEF Install, SlotsStayFilled, TypeInv, TypeOK
<1>2. CASE UNCHANGED acceptorVars
  BY <1>2 DEF acceptorVars, SlotsStayFilled
<1>3. QED BY <1>1, <1>2 DEF Accept

LEMMA PromisesKeep ==
  ASSUME TypeInv, NEW n \in Node, NEW s \in Slot, NEW b, Prepare(n, s, b)
  PROVE  SlotsStayFilled
BY DEF Prepare, SlotsStayFilled, TypeInv, TypeOK, PaxosState

LEMMA StepsKeep ==
  ASSUME TypeInv, [Next]_vars, restarts' = restarts
  PROVE  SlotsStayFilled
<1>1. CASE UNCHANGED acceptorVars
  BY <1>1 DEF acceptorVars, SlotsStayFilled
<1>2. ASSUME NEW p \in Proposal, NEW n \in Node,
             StartProposal(p, n) \/ RegistryFails(p, n) \/ RefuseProposal(p, n)
      PROVE  UNCHANGED acceptorVars
  BY <1>2 DEF StartProposal, RegistryFails, RefuseProposal
<1>3. ASSUME NEW p \in Proposal, AbandonPrepare(p) \/ Decide(p) \/ LeaveUndecided(p)
      PROVE  UNCHANGED acceptorVars
  BY <1>3 DEF AbandonPrepare, Decide, LeaveUndecided
<1>4. ASSUME NEW p \in Proposal, ProposeToSelf(p)
      PROVE  SlotsStayFilled
  <2>1. /\ prop[p].node \in Node /\ prop[p].slot \in Slot
        /\ FinalCommand(prop[p]) \in Command
    BY <1>4 DEF ProposeToSelf, FinalCommand, TypeInv, TypeOK, CallsAreSet, Running,
       ProposalState
  <2>2. QED BY <1>4, <2>1, WritesKeep DEF ProposeToSelf
<1>5. ASSUME NEW p \in Proposal, NEW m \in Node, DeliverPrepare(p, m)
      PROVE  SlotsStayFilled
  BY <1>5, PromisesKeep DEF DeliverPrepare, TypeInv, CallsAreSet, Running
<1>6. ASSUME NEW p \in Proposal, NEW m \in Node, DeliverAccept(p, m)
      PROVE  SlotsStayFilled
  <2>1. prop[p].slot \in Slot /\ prop[p].cmd \in Command
    BY <1>6 DEF DeliverAccept, TypeInv, TypeOK, CallsAreSet, Running, ProposalState
  <2>2. QED BY <1>6, <2>1, WritesKeep DEF DeliverAccept
<1>7. ASSUME NEW p \in Proposal, NEW m \in Node, TimeOut(p, m)
      PROVE  UNCHANGED acceptorVars
  BY <1>7 DEF TimeOut
<1>8. ASSUME NEW q \in late, LatePrepare(q)
      PROVE  SlotsStayFilled
  BY <1>8, PromisesKeep DEF LatePrepare, TypeInv, TypeOK, Request
<1>9. ASSUME NEW q \in late, LateAccept(q)
      PROVE  SlotsStayFilled
  <2>1. q.to \in Node /\ q.slot \in Slot /\ q.cmd \in Command
    BY <1>9 DEF LateAccept, TypeInv, TypeOK, Request
  <2>2. QED BY <1>9, <2>1, WritesKeep DEF LateAccept
<1>10. ASSUME NEW y \in Syncer,
              \/ \E n, l \in Node : StartSync(y, n, l)
              \/ \E m \in Node : Learn(y, m)
              \/ StopSync(y)
       PROVE  UNCHANGED acceptorVars
  BY <1>10 DEF StartSync, Learn, StopSync
<1>11. ASSUME NEW y \in Syncer, WriteLearned(y)
       PROVE  SlotsStayFilled
  <2>1. syncs[y].node \in Node /\ syncs[y].slot \in Slot /\ syncs[y].cmd \in Command
    BY <1>11 DEF WriteLearned, TypeInv, TypeOK, SyncsInRange, SyncState
  <2>2. QED BY <1>11, <2>1, WritesKeep DEF WriteLearned
<1>12. ASSUME NEW n \in Node, Elect(n)
       PROVE  UNCHANGED acceptorVars
  BY <1>12 DEF Elect
<1>13. ASSUME NEW n \in Node, Restart(n)
       PROVE  FALSE
  BY <1>13 DEF Restart, TypeInv, TypeOK
<1>14. CASE UNCHANGED vars
  BY <1>1, <1>14 DEF vars
<1>15. QED
  BY <1>1, <1>2, <1>3, <1>4, <1>5, <1>6, <1>7, <1>8, <1>9, <1>10, <1>11, <1>12,
     <1>13, <1>14
  DEF Next, ProposalStep

(* Under one stable leader and serial clients a command stays in its slot  *)
(* until the process ends: Accept and SynchronizeLog may write a slot      *)
(* again, but only with the same command.  Votes are never forgotten, so   *)
(* the command before a step and the one after it share a ballot.          *)
THEOREM EntriesStay == SerialClients /\ MaxId = 1 => (Spec => EntriesAreFinal)
<1> SUFFICES ASSUME SerialClients, MaxId = 1 PROVE Spec => EntriesAreFinal
  OBVIOUS
<1>1. ASSUME Inv, Inv', [Next]_vars, restarts' = restarts,
             NEW n \in Node, NEW s \in Slot, slots[n][s].cmd # Nil
      PROVE  slots'[n][s].cmd = slots[n][s].cmd
  <2>1. slots'[n][s].cmd # Nil
    BY <1>1, StepsKeep DEF Inv, SlotsStayFilled
  <2>2. PICK v \in votes : v.slot = s /\ v.id = 1 /\ v.cmd = slots[n][s].cmd
    BY <1>1, EntriesAreVoted
  <2>3. PICK w \in votes' : w.slot = s /\ w.id = 1 /\ w.cmd = slots'[n][s].cmd
    <3>1. slots'[n][s].accepted = 1
      BY <1>1, <2>1, MaxIdAssumption DEF Inv, TypeInv, EntriesHaveIds, Id
    <3>2. PICK m \in Node :
            [node |-> m, slot |-> s, id |-> 1, cmd |-> slots'[n][s].cmd] \in votes'
      BY <1>1, <2>1, <3>1 DEF Inv, OwnerInv, EntriesHaveAnOwner, ProposedByOwner, Voters
    <3>3. QED BY <3>2
  <2>4. v \in votes' /\ OneCommandPerBallot'
    BY <1>1, HistoriesGrow DEF Inv, BallotInv
  <2>5. QED BY <2>2, <2>3, <2>4 DEF OneCommandPerBallot
<1>2. Inv /\ Inv' /\ [Next]_vars
        => [\A n \in Node, s \in Slot :
              slots[n][s].cmd # Nil /\ restarts' = restarts
                => slots'[n][s].cmd = slots[n][s].cmd]_vars
  BY <1>1
<1>3. Spec => []Inv
  BY InvHolds
<1>4. QED BY <1>2, <1>3, PTL DEF Spec, EntriesAreFinal

-----------------------------------------------------------------------------
(* Replay.  What a recursive function computes is proved by the least      *)
(* counterexample: a set of numbers that is not empty has a least member,  *)
(* because intervals are well-founded under inclusion.                     *)
LEMMA LeastMember ==
  ASSUME NEW T \in SUBSET Nat, T # {}
  PROVE  \E x \in T : \A y \in T : x <= y
<1> DEFINE U == {0..k : k \in T}
<1>1. IsWellFoundedOn(StrictSubsetOrdering(Nat), FiniteSubsetsOf(Nat))
  BY FS_StrictSubsetOrderingWellFounded
<1>2. U # {}
  OBVIOUS
<1>3. U \subseteq FiniteSubsetsOf(Nat)
  <2>1. ASSUME NEW k \in T PROVE 0..k \in SUBSET Nat /\ IsFiniteSet(0..k)
    BY FS_Interval
  <2>2. QED BY <2>1 DEF FiniteSubsetsOf
<1>4. \E X \in U : \A Y \in U : ~(<<Y, X>> \in StrictSubsetOrdering(Nat))
  BY <1>1, <1>2, <1>3, WFMin
<1>5. PICK x \in T : \A y \in T : ~(<<0..y, 0..x>> \in StrictSubsetOrdering(Nat))
  BY <1>4
<1>6. ASSUME NEW y \in T, y < x PROVE FALSE
  <2>1. 0..y \in SUBSET Nat /\ 0..x \in SUBSET Nat
    OBVIOUS
  <2>2. 0..y \subseteq 0..x /\ 0..y # 0..x
    BY <1>6
  <2>3. <<0..y, 0..x>> \in StrictSubsetOrdering(Nat)
    BY <2>1, <2>2 DEF StrictSubsetOrdering
  <2>4. QED BY <2>3, <1>5
<1>7. QED BY <1>6

(* The store after slot s, from a function that gives the one after s - 1. *)
Replayed(log, f, s) ==
  IF s = 0 THEN [k \in Key |-> Nil] ELSE ApplyCommand(f[s - 1], log[s].cmd)

(* There is a function that gives the store after every slot up to top.    *)
Replayable(log, top) == \E f : f = [s \in 0..top |-> Replayed(log, f, s)]

LEMMA ReplayExtends ==
  ASSUME NEW log, NEW top \in Nat, Replayable(log, top)
  PROVE  Replayable(log, top + 1)
<1>1. PICK f : f = [s \in 0..top |-> Replayed(log, f, s)]
  BY DEF Replayable
<1> DEFINE g == [s \in 0..(top + 1) |->
                   IF s = top + 1 THEN Replayed(log, f, s) ELSE f[s]]
<1>2. ASSUME NEW s \in 0..(top + 1) PROVE g[s] = Replayed(log, g, s)
  <2>1. CASE s = 0
    <3>1. g[s] = f[s] /\ f[s] = Replayed(log, f, s)
      BY <1>1, <2>1
    <3>2. QED BY <2>1, <3>1 DEF Replayed
  <2>2. CASE s # 0
    <3>1. s - 1 \in 0..top /\ s - 1 \in 0..(top + 1) /\ s - 1 # top + 1
      BY <2>2
    <3>2. g[s - 1] = f[s - 1]
      BY <3>1
    <3>3. Replayed(log, g, s) = Replayed(log, f, s)
      BY <2>2, <3>2 DEF Replayed
    <3>4. g[s] = Replayed(log, f, s)
      BY <1>1
    <3>5. QED BY <3>3, <3>4
  <2>3. QED BY <2>1, <2>2
<1>3. g = [s \in 0..(top + 1) |-> Replayed(log, g, s)]
  <2> DEFINE h == [s \in 0..(top + 1) |-> Replayed(log, g, s)]
  <2>1. g = h
    BY <1>2
  <2>2. QED BY <2>1
<1>4. QED BY <1>3 DEF Replayable

LEMMA ReplayExists == ASSUME NEW log, NEW top \in Nat PROVE Replayable(log, top)
<1> DEFINE T == {k \in Nat : ~Replayable(log, k)}
<1> SUFFICES ASSUME T # {} PROVE FALSE
  OBVIOUS
<1>1. PICK x \in T : \A y \in T : x <= y
  BY LeastMember
<1>2. Replayable(log, 0)
  <2> DEFINE f == [s \in 0..0 |-> [k \in Key |-> Nil]]
  <2>1. f = [s \in 0..0 |-> Replayed(log, f, s)]
    BY DEF Replayed
  <2>2. QED BY <2>1 DEF Replayable
<1>3. x # 0 /\ x - 1 \in Nat /\ x - 1 \notin T
  BY <1>1, <1>2
<1>4. Replayable(log, (x - 1) + 1)
  BY <1>3, ReplayExtends
<1>5. QED BY <1>3, <1>4

(* ReplayTo satisfies the equations of the function it is defined by.      *)
LEMMA ReplayUnfolds ==
  ASSUME NEW log, NEW s \in {0} \cup Slot
  PROVE  ReplayTo(log, s) =
           IF s = 0 THEN [k \in Key |-> Nil]
           ELSE ApplyCommand(ReplayTo(log, s - 1), log[s].cmd)
<1> DEFINE F == CHOOSE f : f = [t \in {0} \cup Slot |->
                  IF t = 0 THEN [k \in Key |-> Nil]
                  ELSE ApplyCommand(f[t - 1], log[t].cmd)]
<1>1. {0} \cup Slot = 0..MaxSlot
  BY ReplicationAssumption DEF ReplicationAssumption, Slot
<1>2. \E f : f = [t \in {0} \cup Slot |->
                  IF t = 0 THEN [k \in Key |-> Nil]
                  ELSE ApplyCommand(f[t - 1], log[t].cmd)]
  <2>1. Replayable(log, MaxSlot)
    BY ReplayExists, ReplicationAssumption DEF ReplicationAssumption
  <2>2. \E f : f = [t \in 0..MaxSlot |->
                  IF t = 0 THEN [k \in Key |-> Nil]
                  ELSE ApplyCommand(f[t - 1], log[t].cmd)]
    BY <2>1 DEF Replayable, Replayed
  <2>3. QED BY <1>1, <2>2
<1>3. F = [t \in {0} \cup Slot |->
             IF t = 0 THEN [k \in Key |-> Nil]
             ELSE ApplyCommand(F[t - 1], log[t].cmd)]
  BY <1>2
<1>4. \A t : ReplayTo(log, t) = F[t]
  BY DEF ReplayTo
<1>5. F[s] = IF s = 0 THEN [k \in Key |-> Nil]
             ELSE ApplyCommand(F[s - 1], log[s].cmd)
  BY <1>3
<1>6. QED BY <1>4, <1>5

(* The replay of a log up to a slot depends only on the commands there.    *)
LEMMA ReplayIsLocal ==
  ASSUME NEW a, NEW b, NEW top \in {0} \cup Slot,
         \A s \in 1..top : a[s].cmd = b[s].cmd
  PROVE  ReplayTo(a, top) = ReplayTo(b, top)
<1> DEFINE T == {k \in 0..top : ReplayTo(a, k) # ReplayTo(b, k)}
<1>1. top \in Nat /\ \A k \in 0..top : k \in {0} \cup Slot
  BY ReplicationAssumption DEF ReplicationAssumption, Slot
<1>2. SUFFICES ASSUME T # {} PROVE FALSE
  BY <1>1
<1>3. PICK x \in T : \A y \in T : x <= y
  <2>1. T \in SUBSET Nat
    BY <1>1
  <2> HIDE DEF T
  <2>2. QED BY <1>2, <2>1, LeastMember
<1>4. x \in {0} \cup Slot /\ x \in 0..top
  BY <1>1
<1>5. CASE x = 0
  BY <1>4, <1>5, ReplayUnfolds
<1>6. CASE x # 0
  <2>1. x - 1 \in 0..top /\ x - 1 \notin T /\ x \in 1..top
    BY <1>1, <1>3, <1>4, <1>6
  <2>2. ReplayTo(a, x - 1) = ReplayTo(b, x - 1) /\ a[x].cmd = b[x].cmd
    BY <2>1
  <2>3. /\ ReplayTo(a, x) = ApplyCommand(ReplayTo(a, x - 1), a[x].cmd)
        /\ ReplayTo(b, x) = ApplyCommand(ReplayTo(b, x - 1), b[x].cmd)
    BY <1>4, <1>6, ReplayUnfolds
  <2>4. QED BY <2>2, <2>3
<1>7. QED BY <1>5, <1>6

-----------------------------------------------------------------------------
(* The store of the leader.                                                *)

(* Only nodes without the ID synchronise their log: no log is longer than  *)
(* that of the node that owns the ID.                                      *)
SyncersFollow ==
  \A y \in Syncer :
    syncs[y].node # Nil => votes # {} /\ leaderProposalID[syncs[y].node] = 0

(* Phase 2 asks other nodes only, and so do the requests left behind.      *)
CallsAskOthers ==
  \A p \in Proposal : Running(p) => prop[p].node \notin prop[p].waiting

LateGoElsewhere ==
  \A q \in late : q.type = "accept" => <<q.to, q.id>> \notin campaigns

(* A running call is at a node with the ID, and before its own acceptance  *)
(* it still aims at the next slot.                                         *)
CallersDrew == \A p \in Proposal : Running(p) => leaderProposalID[prop[p].node] # 0

CallsAimNext ==
  \A p \in Proposal : FirstPhase(p) => prop[p].slot = NextSlot(prop[p].node)

OwnersReplay ==
  \A n \in Node :
    leaderProposalID[n] # 0 =>
      /\ \A s \in 1..highestSlotID[n] : slots[n][s].cmd # Nil
      /\ kvStore[n] = Replay(n)

EmptyStores ==
  \A n \in Node : highestSlotID[n] = 0 => kvStore[n] = [k \in Key |-> Nil]

CallsInv == CallsAskOthers /\ CallersDrew /\ CallsAimNext
StoresInv == OwnersReplay /\ EmptyStores
StableInv == SyncersFollow /\ LateGoElsewhere /\ CallsInv /\ StoresInv

(* What a step may do to the stores.                                       *)
LEMMA StoresStay ==
  ASSUME TypeInv, StoresInv, UNCHANGED <<kvStore, highestSlotID>>,
         \A n \in Node, s \in Slot : slots'[n][s].cmd = slots[n][s].cmd,
         \A n \in Node : leaderProposalID'[n] # 0 => leaderProposalID[n] # 0
  PROVE  StoresInv'
<1>1. \A n \in Node : highestSlotID[n] \in {0} \cup Slot
  BY DEF TypeInv, TypeOK
<1>2. \A n \in Node : \A s \in 1..highestSlotID[n] : s \in Slot
  BY <1>1, ReplicationAssumption DEF ReplicationAssumption, Slot
<1>3. ASSUME NEW n \in Node PROVE Replay(n)' = Replay(n)
  BY <1>1, <1>2, ReplayIsLocal DEF Replay
<1>4. OwnersReplay'
  BY <1>2, <1>3 DEF StoresInv, OwnersReplay
<1>5. EmptyStores'
  BY DEF StoresInv, EmptyStores
<1>6. QED BY <1>4, <1>5 DEF StoresInv

(* A command is installed at node n: nothing changes elsewhere.            *)
LEMMA OthersKeep ==
  ASSUME TypeInv, StoresInv, UNCHANGED leaderProposalID,
         NEW n \in Node, NEW s \in Slot, NEW b, NEW c, Install(n, s, b, c),
         \/ leaderProposalID[n] = 0
         \/ /\ \A t \in 1..highestSlotID'[n] : slots'[n][t].cmd # Nil
            /\ kvStore'[n] = Replay(n)'
  PROVE  StoresInv'
<1>1. ASSUME NEW m \in Node, m # n
      PROVE  /\ slots'[m] = slots[m] /\ kvStore'[m] = kvStore[m]
             /\ highestSlotID'[m] = highestSlotID[m]
  BY <1>1 DEF Install, TypeInv, TypeOK
<1>2. highestSlotID'[n] # 0
  BY DEF Install, Raised, TypeInv, TypeOK, Slot
<1>3. OwnersReplay'
  BY <1>1 DEF StoresInv, OwnersReplay, Replay
<1>4. EmptyStores'
  BY <1>1, <1>2 DEF StoresInv, EmptyStores
<1>5. QED BY <1>3, <1>4 DEF StoresInv

(* The owner of the ID appends a command to its log.                       *)
LEMMA OwnerAppends ==
  ASSUME TypeInv, StoresInv, UNCHANGED leaderProposalID,
         NEW n \in Node, leaderProposalID[n] # 0, NextSlot(n) \in Slot,
         NEW b, NEW c \in Command, Install(n, NextSlot(n), b, c)
  PROVE  StoresInv'
<1> DEFINE h == highestSlotID[n]
<1>1. h \in Nat /\ h + 1 \in Slot /\ h \in {0} \cup Slot
  BY ReplicationAssumption DEF ReplicationAssumption, NextSlot, TypeInv, TypeOK, Slot
<1>2. highestSlotID'[n] = h + 1
  BY <1>1 DEF Install, Raised, NextSlot, TypeInv, TypeOK
<1>3. /\ slots'[n][h + 1].cmd = c
      /\ \A t \in 1..h : slots'[n][t].cmd = slots[n][t].cmd
  <2>1. slots' = [slots EXCEPT ![n][h + 1] = [promised |-> b, accepted |-> b, cmd |-> c]]
    BY DEF Install, NextSlot
  <2>2. slots'[n][h + 1].cmd = c
    BY <1>1, <2>1 DEF TypeInv, TypeOK
  <2>3. ASSUME NEW t \in 1..h PROVE slots'[n][t].cmd = slots[n][t].cmd
    <3>1. t \in Slot /\ t # h + 1
      BY <1>1, ReplicationAssumption DEF ReplicationAssumption, Slot
    <3>2. QED BY <2>1, <3>1 DEF TypeInv, TypeOK
  <2>4. QED BY <2>2, <2>3
<1>4. \A t \in 1..(h + 1) : slots'[n][t].cmd # Nil
  BY <1>1, <1>3, NilIsNew DEF StoresInv, OwnersReplay
<1>5. ReplayTo(slots'[n], h) = ReplayTo(slots[n], h)
  BY <1>1, <1>3, ReplayIsLocal
<1>6. ReplayTo(slots'[n], h + 1) = ApplyCommand(ReplayTo(slots'[n], h), c)
  BY <1>1, <1>3, ReplayUnfolds
<1>7. kvStore'[n] = ApplyCommand(ReplayTo(slots[n], h), c)
  BY DEF StoresInv, OwnersReplay, Replay, Install, TypeInv, TypeOK
<1>8. kvStore'[n] = Replay(n)'
  BY <1>2, <1>5, <1>6, <1>7 DEF Replay
<1>9. QED BY <1>1, <1>2, <1>4, <1>8, OthersKeep

(* What a step may do to the calls.                                        *)
LEMMA CallsGoOn ==
  ASSUME TypeInv, CallsInv, UNCHANGED leaderProposalID,
         NEW p \in Proposal, NEW r, prop' = [prop EXCEPT ![p] = r],
         \/ r.pc \notin {"prepare", "propose", "accept"}
         \/ /\ Running(p) /\ r.node = prop[p].node /\ r.node \notin r.waiting
            /\ r.pc # "accept" => FirstPhase(p) /\ r.slot = prop[p].slot,
         \A n \in Node :
           leaderProposalID[n] = 0 \/ highestSlotID'[n] = highestSlotID[n]
  PROVE  CallsInv'
<1>1. \A q \in Proposal : prop'[q] = IF q = p THEN r ELSE prop[q]
  BY DEF TypeInv, TypeOK
<1>2. \A q \in Proposal : FirstPhase(q) => Running(q)
  BY DEF FirstPhase, Running
<1>3. \A q \in Proposal : Running(q) => prop[q].node \in Node
  BY DEF TypeInv, CallsAreSet
<1>4. CallsAskOthers'
  BY <1>1 DEF CallsInv, CallsAskOthers, Running
<1>5. CallersDrew'
  BY <1>1 DEF CallsInv, CallersDrew, Running
<1>6. ASSUME NEW q \in Proposal, FirstPhase(q)'
      PROVE  (prop[q].slot = NextSlot(prop[q].node))'
  <2>1. /\ FirstPhase(q) /\ prop'[q].slot = prop[q].slot
        /\ prop'[q].node = prop[q].node
    BY <1>1, <1>6 DEF FirstPhase, Running
  <2>2. leaderProposalID[prop[q].node] # 0 /\ prop[q].node \in Node
    BY <1>2, <1>3, <2>1 DEF CallsInv, CallersDrew
  <2>3. QED BY <2>1, <2>2 DEF CallsInv, CallsAimNext, NextSlot
<1>7. QED BY <1>4, <1>5, <1>6 DEF CallsInv, CallsAimNext

LEMMA CallsRest ==
  ASSUME TypeInv, CallsInv, UNCHANGED prop,
         \A n \in Node : leaderProposalID[n] # 0 => leaderProposalID'[n] # 0,
         \A n \in Node :
           leaderProposalID[n] = 0 \/ highestSlotID'[n] = highestSlotID[n]
  PROVE  CallsInv'
<1>1. \A q \in Proposal : FirstPhase(q) => Running(q)
  BY DEF FirstPhase, Running
<1>2. \A q \in Proposal : Running(q) => prop[q].node \in Node
  BY DEF TypeInv, CallsAreSet
<1>3. CallsAskOthers' /\ CallersDrew'
  BY <1>2 DEF CallsInv, CallsAskOthers, CallersDrew, Running
<1>4. ASSUME NEW q \in Proposal, FirstPhase(q)
      PROVE  prop[q].slot = NextSlot(prop[q].node)'
  <2>1. leaderProposalID[prop[q].node] # 0 /\ prop[q].node \in Node
    BY <1>1, <1>2, <1>4 DEF CallsInv, CallersDrew
  <2>2. QED BY <1>4, <2>1 DEF CallsInv, CallsAimNext, NextSlot
<1>5. QED BY <1>3, <1>4 DEF CallsInv, CallsAimNext, FirstPhase

(* The node that owns the only ID.                                         *)
LEMMA OneOwner ==
  ASSUME MaxId = 1, Inv, NEW n \in Node, NEW m \in Node, NEW b \in Id,
         <<n, b>> \in campaigns, leaderProposalID[m] # 0
  PROVE  m = n
<1>1. b = 1 /\ leaderProposalID[m] = 1
  BY DEF Id, Inv, TypeInv, TypeOK, LeadershipTypeOK
<1>2. <<m, 1>> \in campaigns
  BY <1>1 DEF Inv, OwnerInv, LeadersOwnIds
<1>3. QED BY <1>1, <1>2 DEF Inv, BallotInv, IdsHaveOneOwner

(* A node with the ID has a log as long as any, so it never synchronises.  *)
LEMMA OwnerIsAhead ==
  ASSUME MaxId = 1, Inv, HighestSlotIsTop, NEW n \in Node, NEW l \in Node,
         highestSlotID[l] > highestSlotID[n]
  PROVE  votes # {} /\ leaderProposalID[n] = 0
<1>1. /\ highestSlotID[l] \in {0} \cup Slot /\ highestSlotID[n] \in {0} \cup Slot
      /\ leaderProposalID[n] \in {0, 1}
  BY DEF Inv, TypeInv, TypeOK, LeadershipTypeOK, Id
<1>2. highestSlotID[l] \in Slot /\ highestSlotID[l] > 0
  BY <1>1, ReplicationAssumption DEF ReplicationAssumption, Slot
<1>3. slots[l][highestSlotID[l]].cmd # Nil
  BY <1>2 DEF HighestSlotIsTop
<1>4. PICK v \in votes : v.slot = highestSlotID[l] /\ v.id = 1
  BY <1>2, <1>3, EntriesAreVoted
<1>5. leaderProposalID[n] = 1 => v.slot <= highestSlotID[n]
  BY <1>4 DEF Inv, BallotInv, VotesArePast
<1>6. leaderProposalID[n] # 1
  BY <1>1, <1>4, <1>5, ReplicationAssumption DEF ReplicationAssumption, Slot
<1>7. QED BY <1>1, <1>4, <1>6

(* An Accept runs at a node without the ID.                                *)
LEMMA FollowerAccepts ==
  ASSUME TypeInv, StoresInv, UNCHANGED leaderProposalID, NEW m \in Node,
         leaderProposalID[m] = 0, NEW s \in Slot, NEW b, NEW c,
         Accept(m, s, b, c)
  PROVE  /\ StoresInv'
         /\ \A n \in Node :
              leaderProposalID[n] = 0 \/ highestSlotID'[n] = highestSlotID[n]
<1>1. CASE Install(m, s, b, c)
  <2>1. StoresInv'
    BY <1>1, OthersKeep
  <2>2. QED BY <1>1, <2>1 DEF Install, TypeInv, TypeOK
<1>2. CASE UNCHANGED acceptorVars
  BY <1>2, StoresStay DEF acceptorVars
<1>3. QED BY <1>1, <1>2 DEF Accept

(* The ID is drawn before anything is voted for.                           *)
LEMMA CampaignIsFirst ==
  ASSUME MaxId = 1, Inv, HighestSlotIsTop, NEW n \in Node, Campaign(n)
  PROVE  /\ votes = {} /\ campaigns = {}
         /\ \A q \in late : q.type # "accept"
         /\ \A m \in Node : highestSlotID[m] = 0
<1>1. Fresh(1)
  BY DEF Campaign, Id
<1>2. campaigns = {}
  BY <1>1 DEF Fresh, Inv, TypeInv, TypeOK, LeadershipTypeOK, Id
<1>3. votes = {}
  BY <1>2 DEF Inv, OwnerInv, EntriesHaveAnOwner, ProposedByOwner
<1>4. \A q \in late : q.type # "accept"
  BY <1>2 DEF Inv, OwnerInv, LateOwned, ProposedByOwner
<1>5. ASSUME NEW m \in Node, highestSlotID[m] # 0 PROVE FALSE
  <2>1. highestSlotID[m] \in Slot /\ highestSlotID[m] > 0
    BY <1>5, ReplicationAssumption
    DEF ReplicationAssumption, Inv, TypeInv, TypeOK, Slot
  <2>2. slots[m][highestSlotID[m]].cmd # Nil
    BY <2>1 DEF HighestSlotIsTop
  <2>3. QED BY <1>3, <2>1, <2>2, EntriesAreVoted
<1>6. QED BY <1>2, <1>3, <1>4, <1>5

LEMMA StableCampaign ==
  ASSUME MaxId = 1, Inv, HighestSlotIsTop, StableInv, NEW n \in Node, Elect(n),
         Campaign(n)
  PROVE  StableInv'
<1> USE DEF StableInv
<1>1. /\ votes = {} /\ campaigns = {}
      /\ \A q \in late : q.type # "accept"
      /\ \A m \in Node : highestSlotID[m] = 0
  BY CampaignIsFirst
<1>2. UNCHANGED <<slots, kvStore, highestSlotID, prop, late, syncs, votes>>
  BY DEF Elect, acceptorVars, historyVars
<1>3. SyncersFollow' /\ LateGoElsewhere'
  BY <1>1, <1>2 DEF SyncersFollow, LateGoElsewhere
<1>4. PICK b \in Id : leaderProposalID' = [leaderProposalID EXCEPT ![n] = b]
  BY DEF Campaign
<1>5. CallsInv'
  <2>1. \A m \in Node : leaderProposalID[m] # 0 => leaderProposalID'[m] # 0
    BY <1>4 DEF Inv, TypeInv, TypeOK, LeadershipTypeOK, Id
  <2>2. QED BY <1>2, <2>1, CallsRest DEF Inv
<1>6. StoresInv'
  <2>1. ASSUME NEW m \in Node
        PROVE  kvStore[m] = ReplayTo(slots[m], highestSlotID[m])
    BY <1>1, ReplayUnfolds DEF StoresInv, EmptyStores
  <2>2. ASSUME NEW m \in Node PROVE 1..highestSlotID[m] = {}
    BY <1>1
  <2>3. OwnersReplay'
    BY <1>2, <2>1, <2>2 DEF OwnersReplay, Replay
  <2>4. EmptyStores'
    BY <1>2 DEF StoresInv, EmptyStores
  <2>5. QED BY <2>3, <2>4 DEF StoresInv
<1>7. QED BY <1>3, <1>5, <1>6

LEMMA StableRestart ==
  ASSUME TypeInv, StableInv, NEW n \in Node, Restart(n)
  PROVE  StableInv'
<1> USE DEF StableInv
<1>1. /\ leaderProposalID' = [leaderProposalID EXCEPT ![n] = 0]
      /\ highestSlotID' = [highestSlotID EXCEPT ![n] = 0]
      /\ kvStore' = [kvStore EXCEPT ![n] = [k \in Key |-> Nil]]
      /\ UNCHANGED <<votes, campaigns>>
  BY DEF Restart, Forget, historyVars
<1>2. ASSUME NEW m \in Node, m # n
      PROVE  /\ leaderProposalID'[m] = leaderProposalID[m] /\ slots'[m] = slots[m]
             /\ kvStore'[m] = kvStore[m] /\ highestSlotID'[m] = highestSlotID[m]
  BY <1>1, <1>2 DEF Restart, TypeInv, TypeOK, LeadershipTypeOK
<1>3. /\ leaderProposalID'[n] = 0
      /\ kvStore'[n] = [k \in Key |-> Nil]
  BY <1>1 DEF TypeInv, TypeOK, LeadershipTypeOK
<1>4. StoresInv'
  <2>1. OwnersReplay'
    BY <1>2, <1>3 DEF StoresInv, OwnersReplay, Replay
  <2>2. EmptyStores'
    BY <1>2, <1>3 DEF StoresInv, EmptyStores
  <2>3. QED BY <2>1, <2>2 DEF StoresInv
<1>5. CallsInv'
  <2>1. ASSUME NEW p \in Proposal, Running(p)'
        PROVE  Running(p) /\ prop'[p] = prop[p] /\ prop[p].node # n
               /\ prop[p].node \in Node
    BY <2>1 DEF Restart, Running, NotRunning, TypeInv, CallsAreSet
  <2>2. CallsAskOthers' /\ CallersDrew'
    BY <1>2, <2>1 DEF CallsInv, CallsAskOthers, CallersDrew
  <2>3. CallsAimNext'
    <3>1. ASSUME NEW p \in Proposal, FirstPhase(p)'
          PROVE  (prop[p].slot = NextSlot(prop[p].node))'
      <4>1. Running(p)'
        BY <3>1 DEF FirstPhase, Running
      <4>2. FirstPhase(p)
        BY <2>1, <3>1, <4>1 DEF FirstPhase
      <4>3. QED
        BY <1>2, <2>1, <4>1, <4>2 DEF CallsInv, CallsAimNext, NextSlot
    <3>2. QED BY <3>1 DEF CallsAimNext
  <2>4. QED BY <2>2, <2>3 DEF CallsInv
<1>6. SyncersFollow'
  BY <1>1, <1>2, NilIsNew DEF SyncersFollow, Restart, NoSync, TypeInv, TypeOK, SyncState
<1>7. LateGoElsewhere'
  BY <1>1 DEF Restart, LateGoElsewhere
<1>8. QED BY <1>4, <1>5, <1>6, <1>7

(* Every step keeps the invariant.                                         *)
LEMMA StableInvStep ==
  ASSUME SerialClients, MaxId = 1, Inv, HighestSlotIsTop, StableInv, [Next]_vars
  PROVE  StableInv'
<1> USE DEF StableInv
<1>t. TypeInv
  BY DEF Inv
<1>r. ASSUME NEW p \in Proposal, Running(p)
      PROVE  /\ prop[p] \in ProposalState /\ prop[p].node \in Node
             /\ prop[p].slot \in Slot /\ prop[p].id \in Id
             /\ <<prop[p].node, prop[p].id>> \in campaigns
             /\ leaderProposalID[prop[p].node] # 0
             /\ prop[p].node \notin prop[p].waiting
  BY <1>r DEF Inv, TypeInv, TypeOK, CallsAreSet, OwnerInv, CallsOwnIds, CallsInv,
     CallersDrew, CallsAskOthers
<1>s. ASSUME UNCHANGED <<votes, syncs, leaderProposalID>>
      PROVE  SyncersFollow'
  BY <1>s DEF SyncersFollow
<1>l. ASSUME UNCHANGED campaigns, late' \subseteq late
      PROVE  LateGoElsewhere'
  BY <1>l DEF LateGoElsewhere
<1>k. ASSUME UNCHANGED <<acceptorVars, leaderProposalID>>
      PROVE  StoresInv'
  BY <1>k, <1>t, StoresStay DEF acceptorVars
<1>1. ASSUME NEW p \in Proposal, NEW n \in Node, StartProposal(p, n)
      PROVE  StableInv'
  <2>1. PICK view \in Views : prop' = [prop EXCEPT ![p] =
          [@ EXCEPT !.pc = IF needsPreparePhase[n] THEN "prepare" ELSE "propose",
                    !.node = n, !.slot = NextSlot(n),
                    !.id = leaderProposalID[n], !.view = view,
                    !.waiting = IF needsPreparePhase[n] THEN view \ {n} ELSE {},
                    !.acks = {n}]]
    BY <1>1 DEF StartProposal
  <2>2. PICK r : /\ prop' = [prop EXCEPT ![p] = r]
                 /\ r.node = n /\ r.slot = NextSlot(n) /\ n \notin r.waiting
    <3> DEFINE new == [prop[p] EXCEPT
                         !.pc = IF needsPreparePhase[n] THEN "prepare" ELSE "propose",
                         !.node = n, !.slot = NextSlot(n),
                         !.id = leaderProposalID[n], !.view = view,
                         !.waiting = IF needsPreparePhase[n] THEN view \ {n} ELSE {},
                         !.acks = {n}]
    <3>1. new.node = n /\ new.slot = NextSlot(n) /\ n \notin new.waiting
      BY <1>t DEF TypeInv, TypeOK, ProposalState
    <3>2. QED BY <2>1, <3>1
  <2>3. \A q \in Proposal : prop'[q] = IF q = p THEN r ELSE prop[q]
    BY <1>t, <2>2 DEF TypeInv, TypeOK
  <2>4. /\ UNCHANGED <<leadershipVars, acceptorVars, late, syncs, votes>>
        /\ leaderProposalID[n] # 0
    BY <1>1 DEF StartProposal, historyVars, Inv, TypeInv, LeadersHaveIds, Id
  <2>5. CallsInv'
    BY <2>2, <2>3, <2>4
    DEF CallsInv, CallsAskOthers, CallersDrew, CallsAimNext, Running, FirstPhase,
        NextSlot, leadershipVars, acceptorVars
  <2>6. QED BY <1>s, <1>l, <1>k, <2>4, <2>5 DEF leadershipVars
<1>2. ASSUME NEW p \in Proposal, NEW n \in Node,
             RegistryFails(p, n) \/ RefuseProposal(p, n)
      PROVE  StableInv'
  <2>1. PICK r : /\ prop' = [prop EXCEPT ![p] = r] /\ r.pc = "failed"
                 /\ UNCHANGED <<leadershipVars, acceptorVars, late, syncs, votes>>
    BY <1>2 DEF RegistryFails, RefuseProposal, NotRunning, historyVars
  <2>2. CallsInv'
    BY <1>t, <2>1, CallsGoOn DEF leadershipVars, acceptorVars
  <2>3. QED BY <1>s, <1>l, <1>k, <2>1, <2>2 DEF leadershipVars
<1>3. ASSUME NEW p \in Proposal,
             AbandonPrepare(p) \/ Decide(p) \/ LeaveUndecided(p)
      PROVE  StableInv'
  <2>1. PICK r : /\ prop' = [prop EXCEPT ![p] = r] /\ r.pc \in {"failed", "decided"}
                 /\ UNCHANGED <<leadershipVars, acceptorVars, late, syncs, votes>>
    BY <1>3 DEF AbandonPrepare, Decide, LeaveUndecided, NotRunning, historyVars
  <2>2. CallsInv'
    BY <1>t, <2>1, CallsGoOn DEF leadershipVars, acceptorVars
  <2>3. QED BY <1>s, <1>l, <1>k, <2>1, <2>2 DEF leadershipVars
<1>4. ASSUME NEW p \in Proposal, ProposeToSelf(p)
      PROVE  StableInv'
  <2> DEFINE n == prop[p].node
             c == FinalCommand(prop[p])
             new == SecondPhase(prop[p], c)
  <2>1. Running(p) /\ FirstPhase(p)
    BY <1>4 DEF ProposeToSelf, Running, FirstPhase
  <2>2. /\ n \in Node /\ prop[p].slot = NextSlot(n) /\ NextSlot(n) \in Slot
        /\ leaderProposalID[n] # 0 /\ c \in Command
    BY <1>r, <2>1 DEF CallsInv, CallsAimNext, FinalCommand, ProposalState
  <2>3. /\ Install(n, NextSlot(n), prop[p].id, c)
        /\ prop' = [prop EXCEPT ![p] = new] /\ votes' # {}
        /\ UNCHANGED <<leadershipVars, late, syncs>>
    BY <1>4, <2>2 DEF ProposeToSelf, CastVote
  <2>4. StoresInv'
    BY <1>t, <2>2, <2>3, OwnerAppends DEF leadershipVars
  <2>5. /\ new.pc = "accept" /\ new.node = n /\ n \notin new.waiting
    BY <1>r, <2>1 DEF SecondPhase, ProposalState
  <2>6. \A q \in Proposal : prop'[q] = IF q = p THEN new ELSE prop[q]
    BY <1>t, <2>3 DEF TypeInv, TypeOK
  <2>7. CallsInv'
    <3>1. CallsAskOthers' /\ CallersDrew'
      BY <2>1, <2>3, <2>5, <2>6
      DEF CallsInv, CallsAskOthers, CallersDrew, Running, leadershipVars
    <3>2. ASSUME NEW q \in Proposal, FirstPhase(q)'
          PROVE  (prop[q].slot = NextSlot(prop[q].node))'
      <4>1. q # p /\ prop'[q] = prop[q] /\ FirstPhase(q) /\ Running(q)
        BY <2>5, <2>6, <3>2 DEF FirstPhase, Running
      <4>2. prop[q].node # n /\ prop[q].node \in Node
        BY <1>r, <2>1, <4>1 DEF Inv, BallotInv, OneCallPerNode
      <4>3. highestSlotID'[prop[q].node] = highestSlotID[prop[q].node]
        BY <1>t, <2>3, <4>2 DEF Install, TypeInv, TypeOK
      <4>4. QED BY <4>1, <4>3 DEF CallsInv, CallsAimNext, NextSlot
    <3>3. QED BY <3>1, <3>2 DEF CallsInv, CallsAimNext
  <2>8. SyncersFollow'
    BY <2>3 DEF SyncersFollow, leadershipVars
  <2>9. QED BY <1>l, <2>3, <2>4, <2>7, <2>8 DEF leadershipVars
<1>5. ASSUME NEW p \in Proposal, NEW m \in Node, DeliverPrepare(p, m)
      PROVE  StableInv'
  <2> DEFINE st == slots[m][prop[p].slot]
             higher == Grants(st, prop[p].id) /\ st.accepted > prop[p].topId
             new == [prop[p] EXCEPT
                       !.waiting = @ \ {m},
                       !.acks = IF Grants(st, prop[p].id) THEN @ \cup {m} ELSE @,
                       !.topId = IF higher THEN st.accepted ELSE @,
                       !.topCmd = IF higher THEN st.cmd ELSE @]
  <2>1. Running(p) /\ FirstPhase(p) /\ prop' = [prop EXCEPT ![p] = new]
    BY <1>5 DEF DeliverPrepare, Running, FirstPhase
  <2>2. /\ new.node = prop[p].node /\ new.slot = prop[p].slot
        /\ new.node \notin new.waiting
    BY <1>r, <2>1 DEF ProposalState
  <2>3. /\ UNCHANGED <<leadershipVars, kvStore, highestSlotID, late, syncs, votes>>
        /\ Prepare(m, prop[p].slot, prop[p].id)
    BY <1>5 DEF DeliverPrepare, historyVars
  <2>4. CallsInv'
    BY <1>t, <2>1, <2>2, <2>3, CallsGoOn DEF leadershipVars
  <2>5. \A n \in Node, s \in Slot : slots'[n][s].cmd = slots[n][s].cmd
    BY <1>t, <1>r, <2>1, <2>3 DEF Prepare, TypeInv, TypeOK, PaxosState
  <2>6. StoresInv'
    BY <1>t, <2>3, <2>5, StoresStay DEF leadershipVars
  <2>7. QED BY <1>s, <1>l, <2>3, <2>4, <2>6 DEF leadershipVars
<1>6. ASSUME NEW p \in Proposal, NEW m \in Node, DeliverAccept(p, m)
      PROVE  StableInv'
  <2> DEFINE r == prop[p]
             new == [r EXCEPT !.waiting = @ \ {m},
                              !.acks = IF Admits(slots[m][r.slot], r.id)
                                       THEN @ \cup {m} ELSE @]
  <2>1. Running(p) /\ r.pc = "accept" /\ m \in r.waiting
    BY <1>6 DEF DeliverAccept, Running
  <2>2. new.pc = "accept" /\ new.node = r.node /\ new.node \notin new.waiting
    BY <1>r, <2>1 DEF ProposalState
  <2>3. /\ prop' = [prop EXCEPT ![p] = new]
        /\ UNCHANGED <<leadershipVars, late, syncs>>
        /\ Accept(m, r.slot, r.id, r.cmd)
    BY <1>6 DEF DeliverAccept
  <2>4. m # r.node
    BY <1>r, <2>1
  <2>5. leaderProposalID[m] = 0
    <3>1. /\ r.node \in Node /\ r.id \in Id
          /\ <<r.node, r.id>> \in campaigns
      BY <1>r, <2>1
    <3>2. QED BY <2>4, <3>1, OneOwner
  <2>6. /\ StoresInv'
        /\ \A n \in Node :
             leaderProposalID[n] = 0 \/ highestSlotID'[n] = highestSlotID[n]
    BY <1>t, <1>r, <2>1, <2>3, <2>5, FollowerAccepts DEF leadershipVars
  <2>7. CallsInv'
    BY <1>t, <2>1, <2>2, <2>3, <2>6, CallsGoOn DEF leadershipVars
  <2>8. SyncersFollow'
    BY <2>3, HistoriesGrow DEF SyncersFollow, leadershipVars
  <2>9. QED BY <1>l, <2>3, <2>6, <2>7, <2>8 DEF leadershipVars
<1>7. ASSUME NEW p \in Proposal, NEW m \in Node, TimeOut(p, m)
      PROVE  StableInv'
  <2> DEFINE new == [prop[p] EXCEPT !.waiting = @ \ {m}]
  <2>1. /\ Running(p) /\ m \in prop[p].waiting
        /\ prop[p].pc # "accept" => FirstPhase(p)
    BY <1>7 DEF TimeOut, Running, FirstPhase
  <2>2. /\ new.node = prop[p].node /\ new.slot = prop[p].slot
        /\ new.node \notin new.waiting /\ new.pc = prop[p].pc
    BY <1>r, <2>1 DEF ProposalState
  <2>3. /\ prop' = [prop EXCEPT ![p] = new]
        /\ late' = late \cup {RequestTo(prop[p], m)}
        /\ UNCHANGED <<leadershipVars, acceptorVars, syncs, votes>>
    BY <1>7 DEF TimeOut, historyVars
  <2>4. CallsInv'
    BY <1>t, <2>1, <2>2, <2>3, CallsGoOn DEF leadershipVars, acceptorVars
  <2>5. <<m, prop[p].id>> \notin campaigns
    BY <1>r, <2>1 DEF Inv, BallotInv, IdsHaveOneOwner
  <2>6. LateGoElsewhere'
    BY <2>3, <2>5 DEF LateGoElsewhere, RequestTo, leadershipVars
  <2>7. QED BY <1>s, <1>k, <2>3, <2>4, <2>6 DEF leadershipVars
<1>8. ASSUME NEW q \in late, LatePrepare(q)
      PROVE  StableInv'
  <2>1. /\ UNCHANGED <<leadershipVars, kvStore, highestSlotID, prop, syncs, votes>>
        /\ late' \subseteq late
    BY <1>8 DEF LatePrepare, historyVars
  <2>2. \A n \in Node, s \in Slot : slots'[n][s].cmd = slots[n][s].cmd
    BY <1>t, <1>8 DEF LatePrepare, Prepare, TypeInv, TypeOK, PaxosState, Request
  <2>3. StoresInv'
    BY <1>t, <2>1, <2>2, StoresStay DEF leadershipVars
  <2>4. CallsInv'
    BY <1>t, <2>1, CallsRest DEF leadershipVars
  <2>5. QED BY <1>s, <1>l, <2>1, <2>3, <2>4 DEF leadershipVars
<1>9. ASSUME NEW q \in late, LateAccept(q)
      PROVE  StableInv'
  <2>1. /\ q.to \in Node /\ q.slot \in Slot /\ q.id = 1
        /\ ProposedByOwner(q.slot, q.id, q.cmd) /\ <<q.to, q.id>> \notin campaigns
    BY <1>9 DEF LateAccept, Inv, TypeInv, TypeOK, Request, OwnerInv, LateOwned,
       LateGoElsewhere, Id
  <2>2. /\ UNCHANGED <<leadershipVars, prop, syncs>> /\ late' \subseteq late
        /\ Accept(q.to, q.slot, q.id, q.cmd)
    BY <1>9 DEF LateAccept
  <2>3. leaderProposalID[q.to] = 0
    BY <2>1, MaxIdAssumption
    DEF Inv, OwnerInv, LeadersOwnIds, TypeInv, TypeOK, LeadershipTypeOK, Id
  <2>4. /\ StoresInv'
        /\ \A n \in Node :
             leaderProposalID[n] = 0 \/ highestSlotID'[n] = highestSlotID[n]
    BY <1>t, <2>1, <2>2, <2>3, FollowerAccepts DEF leadershipVars
  <2>5. CallsInv'
    BY <1>t, <2>2, <2>4, CallsRest DEF leadershipVars
  <2>6. SyncersFollow'
    BY <2>2, HistoriesGrow DEF SyncersFollow, leadershipVars
  <2>7. QED BY <1>l, <2>2, <2>4, <2>5, <2>6 DEF leadershipVars
<1>10. ASSUME NEW y \in Syncer, NEW n \in Node, NEW l \in Node, StartSync(y, n, l)
       PROVE  StableInv'
  <2>1. /\ UNCHANGED <<leadershipVars, acceptorVars, prop, late, votes>>
        /\ \E g : syncs' = [syncs EXCEPT ![y] = g] /\ g.node = n
    <3> DEFINE new == [syncs[y] EXCEPT !.node = n, !.slot = NextSlot(n),
                                       !.target = highestSlotID[l]]
    <3>1. new.node = n
      BY <1>t DEF TypeInv, TypeOK, SyncState
    <3>2. QED BY <1>10, <3>1 DEF StartSync, historyVars
  <2>2. votes # {} /\ leaderProposalID[n] = 0
    BY <1>10, OwnerIsAhead DEF StartSync
  <2>3. SyncersFollow'
    BY <1>t, <2>1, <2>2 DEF SyncersFollow, leadershipVars, TypeInv, TypeOK
  <2>4. CallsInv'
    BY <1>t, <2>1, CallsRest DEF leadershipVars, acceptorVars
  <2>5. QED BY <1>l, <1>k, <2>1, <2>3, <2>4 DEF leadershipVars
<1>11. ASSUME NEW y \in Syncer,
              (\E m \in Node : Learn(y, m)) \/ StopSync(y)
       PROVE  StableInv'
  <2>1. UNCHANGED <<leadershipVars, acceptorVars, prop, late, votes>>
    BY <1>11 DEF Learn, StopSync, historyVars
  <2>2. \A z \in Syncer : syncs'[z].node \in {Nil, syncs[z].node}
    <3>1. ASSUME NEW m \in Node, Learn(y, m)
          PROVE  \A z \in Syncer : syncs'[z].node = syncs[z].node
      BY <3>1, <1>t DEF Learn, TypeInv, TypeOK, SyncState
    <3>2. ASSUME StopSync(y)
          PROVE  \A z \in Syncer : syncs'[z].node \in {Nil, syncs[z].node}
      BY <3>2, <1>t DEF StopSync, NoSync, TypeInv, TypeOK
    <3>3. QED BY <1>11, <3>1, <3>2
  <2>3. SyncersFollow'
    BY <2>1, <2>2 DEF SyncersFollow, leadershipVars
  <2>4. CallsInv'
    BY <1>t, <2>1, CallsRest DEF leadershipVars, acceptorVars
  <2>5. QED BY <1>l, <1>k, <2>1, <2>3, <2>4 DEF leadershipVars
<1>12. ASSUME NEW y \in Syncer, WriteLearned(y)
       PROVE  StableInv'
  <2> DEFINE g == syncs[y]
  <2>1. /\ UNCHANGED <<leadershipVars, prop, late, votes>>
        /\ Install(g.node, g.slot, g.id, g.cmd)
    BY <1>12 DEF WriteLearned, historyVars
  <2>2. g.node \in Node /\ g.node # Nil /\ g.slot \in Slot
    BY <1>12, <1>t, NilIsNew DEF WriteLearned, TypeInv, TypeOK, SyncsInRange, SyncState
  <2>3. leaderProposalID[g.node] = 0
    BY <2>2 DEF SyncersFollow
  <2>4. StoresInv'
    BY <1>t, <2>1, <2>2, <2>3, OthersKeep DEF leadershipVars
  <2>5. \A n \in Node :
          leaderProposalID[n] = 0 \/ highestSlotID'[n] = highestSlotID[n]
    BY <1>t, <2>1, <2>3 DEF Install, TypeInv, TypeOK
  <2>6. CallsInv'
    BY <1>t, <2>1, <2>5, CallsRest DEF leadershipVars
  <2>7. \A z \in Syncer : syncs'[z].node \in {Nil, syncs[z].node}
    BY <1>12, <1>t DEF WriteLearned, NoSync, TypeInv, TypeOK, SyncState
  <2>8. SyncersFollow'
    BY <2>1, <2>7 DEF SyncersFollow, leadershipVars
  <2>9. QED BY <1>l, <2>1, <2>4, <2>6, <2>8 DEF leadershipVars
<1>13. ASSUME NEW n \in Node, Elect(n)
       PROVE  StableInv'
  <2>1. CASE Campaign(n)
    BY <1>13, <2>1, StableCampaign
  <2>2. CASE Win(n) \/ StepDown(n)
    <3>1. UNCHANGED <<leaderProposalID, campaigns, acceptorVars, prop, late, syncs, votes>>
      BY <1>13, <2>2 DEF Elect, Win, StepDown, historyVars
    <3>2. CallsInv'
      BY <1>t, <3>1, CallsRest DEF acceptorVars
    <3>3. QED BY <1>s, <1>l, <1>k, <3>1, <3>2
  <2>3. QED BY <1>13, <2>1, <2>2 DEF Elect
<1>14. ASSUME NEW n \in Node, Restart(n)
       PROVE  StableInv'
  BY <1>14, <1>t, StableRestart
<1>15. CASE UNCHANGED vars
  <2>1. UNCHANGED <<leadershipVars, acceptorVars, prop, late, syncs, votes>>
    BY <1>15 DEF vars, historyVars
  <2>2. CallsInv'
    BY <1>t, <2>1, CallsRest DEF leadershipVars, acceptorVars
  <2>3. QED BY <1>s, <1>l, <1>k, <2>1, <2>2 DEF leadershipVars
<1>16. QED
  BY <1>1, <1>2, <1>3, <1>4, <1>5, <1>6, <1>7, <1>8, <1>9, <1>10, <1>11, <1>12,
     <1>13, <1>14, <1>15
  DEF Next, ProposalStep

(* Under one stable leader and serial clients the store of the leader is   *)
(* the replay of its log from slot 1 without a gap, whatever restarts,     *)
(* timeouts, late requests and synchronisations happen: only its own calls *)
(* write at the leader, each to the next slot, since nobody's log is       *)
(* longer and nobody else proposes.                                        *)
THEOREM LeaderReplaysItsLog ==
  SerialClients /\ MaxId = 1 => (Spec => []LeaderStoreIsReplay)
<1> SUFFICES ASSUME SerialClients, MaxId = 1 PROVE Spec => []LeaderStoreIsReplay
  OBVIOUS
<1>1. Spec => []Inv
  BY InvHolds
<1>2. Spec => []HighestSlotIsTop
  BY HighestIsTop
<1>3. Init => StableInv
  BY ReplicationAssumption
  DEF Init, LeadershipInit, StableInv, SyncersFollow, LateGoElsewhere, CallsInv,
      CallsAskOthers, CallersDrew, CallsAimNext, StoresInv, OwnersReplay,
      EmptyStores, Running, FirstPhase, NotRunning, NoSync
<1>4. Inv /\ HighestSlotIsTop /\ StableInv /\ [Next]_vars => StableInv'
  BY StableInvStep
<1>5. Inv /\ StableInv => LeaderStoreIsReplay
  BY DEF Inv, TypeInv, LeadersHaveIds, Id, StableInv, StoresInv, OwnersReplay,
     LeaderStoreIsReplay
<1>6. QED BY <1>1, <1>2, <1>3, <1>4, <1>5, PTL DEF Spec
=============================================================================
