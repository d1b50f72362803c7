--------------------- MODULE ReplicationRefinementProofs ----------------------
(***************************************************************************)
(* When a node is given one request at a time, a proposal ID never carries *)
(* two commands in one slot, and the log implements BallotLog: proofs for  *)
(* any elections, restarts, lists of the registry and late requests.       *)
(*                                                                         *)
(* The argument.  An ID belongs to one node, which has one running call.   *)
(* All votes under the ID a node would use next are for slots up to its    *)
(* highestSlotID (VotesArePast), so a new call aims at a slot without any  *)
(* such vote (CallsComeFirst) and its own acceptance is the first; every   *)
(* later vote under that ID in that slot repeats it (EntriesHaveAnOwner    *)
(* and its companions in ReplicationProofs).  With the quorums of          *)
(* ReplicationProofs every step is one of BallotLog.                       *)
(***************************************************************************)
EXTENDS ReplicationProofs

IdsHaveOneOwner == \A c, d \in campaigns : c[2] = d[2] => c = d

OneCallPerNode ==
  \A p, q \in Proposal :
    Running(p) /\ Running(q) /\ prop[p].node = prop[q].node => p = q

VotesArePast ==
  \A n \in Node, v \in votes :
    v.id = leaderProposalID[n] => v.slot <= highestSlotID[n]

FirstPhase(p) == prop[p].pc \in {"prepare", "propose"}

CallsComeFirst ==
  \A p \in Proposal, v \in votes :
    FirstPhase(p) => ~(v.slot = prop[p].slot /\ v.id = prop[p].id)

BallotInv ==
  /\ IdsHaveOneOwner /\ OneCallPerNode /\ VotesArePast /\ CallsComeFirst
  /\ OneCommandPerBallot

LEMMA BallotInvInit == Init => BallotInv
BY DEF Init, LeadershipInit, NotRunning, Running, FirstPhase, BallotInv,
   IdsHaveOneOwner, OneCallPerNode, VotesArePast, CallsComeFirst,
   OneCommandPerBallot

-----------------------------------------------------------------------------
(* Steps that start no call, cast no new kind of vote and leave the        *)
(* election alone.                                                         *)
VotesRepeat ==
  \A w \in votes' : \E v \in votes : v.slot = w.slot /\ v.id = w.id /\ v.cmd = w.cmd

HighestGrows == \A n \in Node : highestSlotID'[n] >= highestSlotID[n]

CallsProceed ==
  \A p \in Proposal :
    /\ Running(p)' => Running(p) /\ prop'[p].node = prop[p].node
    /\ FirstPhase(p)' => /\ FirstPhase(p)
                         /\ prop'[p].slot = prop[p].slot
                         /\ prop'[p].id = prop[p].id

LEMMA QuietStep ==
  ASSUME TypeInv, TypeInv', BallotInv, VotesRepeat, HighestGrows, CallsProceed,
         UNCHANGED leadershipVars
  PROVE  BallotInv'
<1> USE DEF BallotInv, leadershipVars
<1>1. IdsHaveOneOwner'
  BY DEF IdsHaveOneOwner
<1>2. OneCallPerNode'
  BY DEF OneCallPerNode, CallsProceed
<1>3. VotesArePast'
  <2>1. ASSUME NEW n \in Node, NEW w \in votes', w.id = leaderProposalID[n]
        PROVE  w.slot <= highestSlotID'[n]
    <3>1. PICK v \in votes : v.slot = w.slot /\ v.id = w.id
      BY DEF VotesRepeat
    <3>2. v.slot <= highestSlotID[n] /\ v.slot \in Slot
      BY <2>1, <3>1 DEF VotesArePast, TypeInv, TypeOK, Vote
    <3>3. highestSlotID[n] \in Int /\ highestSlotID'[n] \in Int
      BY DEF TypeInv, TypeOK, Slot
    <3>4. QED BY <3>1, <3>2, <3>3 DEF HighestGrows, Slot
  <2>2. QED BY <2>1 DEF VotesArePast
<1>4. CallsComeFirst'
  BY DEF CallsComeFirst, VotesRepeat, CallsProceed
<1>5. OneCommandPerBallot'
  BY DEF OneCommandPerBallot, VotesRepeat
<1>6. QED BY <1>1, <1>2, <1>3, <1>4, <1>5

(* A call that goes on, or returns.                                        *)
LEMMA CallProceeds ==
  ASSUME TypeInv, NEW p \in Proposal, NEW r, prop' = [prop EXCEPT ![p] = r],
         \/ r.pc \notin {"prepare", "propose", "accept"}
         \/ r.pc = prop[p].pc /\ r.node = prop[p].node /\ r.slot = prop[p].slot
            /\ r.id = prop[p].id
  PROVE  CallsProceed
BY DEF TypeInv, TypeOK, CallsProceed, Running, FirstPhase

LEMMA InstallGrows ==
  ASSUME TypeInv, NEW n \in Node, NEW s \in Slot, NEW b, NEW c, Install(n, s, b, c)
  PROVE  HighestGrows /\ highestSlotID'[n] >= s
BY DEF TypeInv, TypeOK, Slot, Install, Raised, HighestGrows

LEMMA AcceptRepeats ==
  ASSUME TypeInv, NEW m \in Node, NEW s \in Slot, NEW b, NEW c,
         Accept(m, s, b, c), ProposedByOwner(s, b, c)
  PROVE  HighestGrows /\ VotesRepeat
<1>1. PICK v \in votes : v.slot = s /\ v.id = b /\ v.cmd = c
  BY DEF ProposedByOwner, Voters
<1>2. CASE Admits(slots[m][s], b)
  BY <1>1, <1>2, InstallGrows DEF Accept, CastVote, VotesRepeat
<1>3. CASE ~Admits(slots[m][s], b)
  BY <1>3 DEF Accept, acceptorVars, VotesRepeat, HighestGrows, TypeInv, TypeOK, Slot
<1>4. QED BY <1>2, <1>3

LEMMA AcceptorsIdle ==
  ASSUME TypeInv
  PROVE  /\ highestSlotID' = highestSlotID => HighestGrows
         /\ votes' = votes => VotesRepeat
         /\ prop' = prop => CallsProceed
BY DEF HighestGrows, VotesRepeat, CallsProceed, Running, FirstPhase, TypeInv,
   TypeOK, Slot

-----------------------------------------------------------------------------
(* A call that fails or returns is quiet, and so is all that is done for   *)
(* calls in phase 2 and by the synchronisation of the log.                 *)
LEMMA QuietActions ==
  ASSUME TypeInv, OwnerInv, [Next]_vars,
         ~ \E p \in Proposal, n \in Node : StartProposal(p, n),
         ~ \E p \in Proposal : ProposeToSelf(p),
         ~ \E n \in Node : Elect(n) \/ Restart(n)
  PROVE  VotesRepeat /\ HighestGrows /\ CallsProceed /\ UNCHANGED leadershipVars
<1>1. ASSUME NEW p \in Proposal, NEW n \in Node,
             RegistryFails(p, n) \/ RefuseProposal(p, n)
      PROVE  VotesRepeat /\ HighestGrows /\ CallsProceed /\ UNCHANGED leadershipVars
  BY <1>1, AcceptorsIdle, CallProceeds
  DEF RegistryFails, RefuseProposal, NotRunning, acceptorVars, historyVars
<1>2. ASSUME NEW p \in Proposal,
             AbandonPrepare(p) \/ Decide(p) \/ LeaveUndecided(p)
      PROVE  VotesRepeat /\ HighestGrows /\ CallsProceed /\ UNCHANGED leadershipVars
  BY <1>2, AcceptorsIdle, CallProceeds
  DEF AbandonPrepare, Decide, LeaveUndecided, NotRunning, acceptorVars, historyVars
<1>3. ASSUME NEW p \in Proposal, NEW m \in Node, DeliverPrepare(p, m)
      PROVE  VotesRepeat /\ HighestGrows /\ CallsProceed /\ UNCHANGED leadershipVars
  <2> DEFINE st == slots[m][prop[p].slot]
             higher == Grants(st, prop[p].id) /\ st.accepted > prop[p].topId
             new == [prop[p] EXCEPT
                       !.waiting = @ \ {m},
                       !.acks = IF Grants(st, prop[p].id) THEN @ \cup {m} ELSE @,
                       !.topId = IF higher THEN st.accepted ELSE @,
                       !.topCmd = IF higher THEN st.cmd ELSE @]
  <2>1. prop[p] \in ProposalState
    BY DEF TypeInv, TypeOK
  <2>2. /\ new.pc = prop[p].pc /\ new.node = prop[p].node
        /\ new.slot = prop[p].slot /\ new.id = prop[p].id
    BY <2>1 DEF ProposalState
  <2>3. prop' = [prop EXCEPT ![p] = new]
    BY <1>3 DEF DeliverPrepare
  <2>4. CallsProceed
    BY <2>2, <2>3, CallProceeds
  <2>5. QED BY <1>3, <2>4, AcceptorsIdle DEF DeliverPrepare, historyVars
<1>4. ASSUME NEW p \in Proposal, NEW m \in Node, DeliverAccept(p, m)
      PROVE  VotesRepeat /\ HighestGrows /\ CallsProceed /\ UNCHANGED leadershipVars
  <2> DEFINE r == prop[p]
             new == [r EXCEPT !.waiting = @ \ {m},
                              !.acks = IF Admits(slots[m][r.slot], r.id)
                                       THEN @ \cup {m} ELSE @]
  <2>1. /\ r \in ProposalState /\ r.node \in Node /\ r.slot \in Slot
        /\ OwnVote(r) \in votes /\ <<r.node, r.id>> \in campaigns
    BY <1>4 DEF DeliverAccept, TypeInv, TypeOK, CallsAreSet, Running, OwnerInv,
       CallsVoted, CallsOwnIds
  <2>2. new.pc = r.pc /\ new.node = r.node /\ new.slot = r.slot /\ new.id = r.id
    BY <2>1 DEF ProposalState
  <2>3. prop' = [prop EXCEPT ![p] = new]
    BY <1>4 DEF DeliverAccept
  <2>4. CallsProceed
    BY <2>2, <2>3, CallProceeds
  <2>5. ProposedByOwner(r.slot, r.id, r.cmd)
    BY <2>1 DEF ProposedByOwner, Voters, OwnVote
  <2>6. HighestGrows /\ VotesRepeat
    BY <1>4, <2>1, <2>5, AcceptRepeats DEF DeliverAccept
  <2>7. QED BY <1>4, <2>4, <2>6 DEF DeliverAccept
<1>5. ASSUME NEW p \in Proposal, NEW m \in Node, TimeOut(p, m)
      PROVE  VotesRepeat /\ HighestGrows /\ CallsProceed /\ UNCHANGED leadershipVars
  <2> DEFINE new == [prop[p] EXCEPT !.waiting = @ \ {m}]
  <2>1. prop[p] \in ProposalState
    BY DEF TypeInv, TypeOK
  <2>2. /\ new.pc = prop[p].pc /\ new.node = prop[p].node
        /\ new.slot = prop[p].slot /\ new.id = prop[p].id
    BY <2>1 DEF ProposalState
  <2>3. CallsProceed
    BY <1>5, <2>2, CallProceeds DEF TimeOut
  <2>4. QED BY <1>5, <2>3, AcceptorsIdle DEF TimeOut, acceptorVars, historyVars
<1>6. ASSUME NEW q \in late, LatePrepare(q) \/ LateAccept(q)
      PROVE  VotesRepeat /\ HighestGrows /\ CallsProceed /\ UNCHANGED leadershipVars
  <2>1. CASE LatePrepare(q)
    BY <2>1, AcceptorsIdle DEF LatePrepare, historyVars
  <2>2. CASE LateAccept(q)
    <3>1. /\ q.to \in Node /\ q.slot \in Slot
          /\ ProposedByOwner(q.slot, q.id, q.cmd)
      BY <2>2 DEF LateAccept, TypeInv, TypeOK, Request, OwnerInv, LateOwned
    <3>2. QED BY <2>2, <3>1, AcceptRepeats, AcceptorsIdle DEF LateAccept
  <2>3. QED BY <1>6, <2>1, <2>2
<1>7. ASSUME NEW y \in Syncer, NEW n \in Node, NEW l \in Node,
             StartSync(y, n, l) \/ Learn(y, l)
      PROVE  VotesRepeat /\ HighestGrows /\ CallsProceed /\ UNCHANGED leadershipVars
  BY <1>7, AcceptorsIdle DEF StartSync, Learn, acceptorVars, historyVars
<1>8. ASSUME NEW y \in Syncer, WriteLearned(y)
      PROVE  VotesRepeat /\ HighestGrows /\ CallsProceed /\ UNCHANGED leadershipVars
  <2>1. syncs[y].node \in Node /\ syncs[y].slot \in Slot
    BY <1>8 DEF WriteLearned, TypeInv, TypeOK, SyncsInRange, SyncState
  <2>2. HighestGrows
    BY <1>8, <2>1, InstallGrows DEF WriteLearned
  <2>3. QED BY <1>8, <2>2, AcceptorsIdle DEF WriteLearned, historyVars
<1>9. ASSUME NEW y \in Syncer, StopSync(y)
      PROVE  VotesRepeat /\ HighestGrows /\ CallsProceed /\ UNCHANGED leadershipVars
  BY <1>9, AcceptorsIdle DEF StopSync, acceptorVars, historyVars
<1>10. CASE UNCHANGED vars
  BY <1>10, AcceptorsIdle DEF vars, acceptorVars, historyVars
<1>11. QED
  BY <1>1, <1>2, <1>3, <1>4, <1>5, <1>6, <1>7, <1>8, <1>9, <1>10
  DEF Next, ProposalStep

(* The steps that could break a ballot.                                    *)
LEMMA BallotInvStep ==
  ASSUME SerialClients, TypeInv, OwnerInv, BallotInv, [Next]_vars
  PROVE  BallotInv'
<1> USE DEF BallotInv
<1>a. TypeInv'
  BY TypeInvStep
<1>1. ASSUME NEW p \in Proposal, NEW n \in Node, StartProposal(p, n)
      PROVE  BallotInv'
  <2>1. PICK view \in Views : prop' = [prop EXCEPT ![p] =
          [@ EXCEPT !.pc = IF needsPreparePhase[n] THEN "prepare" ELSE "propose",
                    !.node = n, !.slot = NextSlot(n),
                    !.id = leaderProposalID[n], !.view = view,
                    !.waiting = IF needsPreparePhase[n] THEN view \ {n} ELSE {},
                    !.acks = {n}]]
    BY <1>1 DEF StartProposal
  <2>2. PICK r :
          /\ prop' = [prop EXCEPT ![p] = r]
          /\ r.node = n /\ r.slot = NextSlot(n) /\ r.id = leaderProposalID[n]
    <3> DEFINE new == [prop[p] EXCEPT
                         !.pc = IF needsPreparePhase[n] THEN "prepare" ELSE "propose",
                         !.node = n, !.slot = NextSlot(n),
                         !.id = leaderProposalID[n], !.view = view,
                         !.waiting = IF needsPreparePhase[n] THEN view \ {n} ELSE {},
                         !.acks = {n}]
    <3>1. new.node = n /\ new.slot = NextSlot(n) /\ new.id = leaderProposalID[n]
      BY DEF TypeInv, TypeOK, ProposalState
    <3>2. QED BY <2>1, <3>1
  <2>3. \A q \in Proposal : prop'[q] = IF q = p THEN r ELSE prop[q]
    BY <2>2 DEF TypeInv, TypeOK
  <2>4. \A q \in Proposal : ~(Running(q) /\ prop[q].node = n)
    BY <1>1 DEF StartProposal, MayStart
  <2>5. UNCHANGED <<leadershipVars, acceptorVars, historyVars>>
    BY <1>1 DEF StartProposal
  <2>6. OneCallPerNode'
    BY <2>2, <2>3, <2>4 DEF OneCallPerNode, Running
  <2>7. ASSUME NEW v \in votes, v.slot = NextSlot(n), v.id = leaderProposalID[n]
        PROVE  FALSE
    BY <2>7 DEF VotesArePast, NextSlot, TypeInv, TypeOK, Slot
  <2>8. CallsComeFirst'
    BY <2>2, <2>3, <2>5, <2>7 DEF CallsComeFirst, FirstPhase, historyVars
  <2>9. IdsHaveOneOwner' /\ VotesArePast' /\ OneCommandPerBallot'
    BY <2>5 DEF leadershipVars, acceptorVars, historyVars, IdsHaveOneOwner,
       VotesArePast, OneCommandPerBallot
  <2>10. QED BY <2>6, <2>8, <2>9
<1>2. ASSUME NEW p \in Proposal, ProposeToSelf(p)
      PROVE  BallotInv'
  <2>1. PICK n \in Node, s \in Slot, b \in Id, c \in Command :
          /\ n = prop[p].node /\ s = prop[p].slot /\ b = prop[p].id
          /\ c = FinalCommand(prop[p])
    BY <1>2 DEF ProposeToSelf, TypeInv, TypeOK, CallsAreSet, Running,
       ProposalState, FinalCommand
  <2>2. PICK w : w = [node |-> n, slot |-> s, id |-> b, cmd |-> c]
    OBVIOUS
  <2>3. votes' = votes \cup {w} /\ w.slot = s /\ w.id = b /\ w.cmd = c
    BY <1>2, <2>1, <2>2 DEF ProposeToSelf, CastVote
  <2>4. \A v \in votes : ~(v.slot = s /\ v.id = b)
    BY <1>2, <2>1 DEF ProposeToSelf, CallsComeFirst, FirstPhase
  <2>5. Running(p) /\ <<n, b>> \in campaigns
    BY <1>2, <2>1 DEF ProposeToSelf, OwnerInv, CallsOwnIds, Running
  <2>6. HighestGrows /\ highestSlotID'[n] >= s
    BY <1>2, <2>1, InstallGrows DEF ProposeToSelf
  <2>7. PICK r : /\ prop' = [prop EXCEPT ![p] = r]
                 /\ r.pc = "accept" /\ r.node = n
    <3>1. /\ SecondPhase(prop[p], FinalCommand(prop[p])).pc = "accept"
          /\ SecondPhase(prop[p], FinalCommand(prop[p])).node = n
      BY <2>1 DEF SecondPhase, TypeInv, TypeOK, ProposalState
    <3>2. QED BY <1>2, <3>1 DEF ProposeToSelf
  <2>8. \A q \in Proposal : prop'[q] = IF q = p THEN r ELSE prop[q]
    BY <2>7 DEF TypeInv, TypeOK
  <2>9. UNCHANGED leadershipVars
    BY <1>2 DEF ProposeToSelf
  <2>10. OneCallPerNode'
    BY <2>1, <2>5, <2>7, <2>8 DEF OneCallPerNode, Running
  <2>11. OneCommandPerBallot'
    BY <2>3, <2>4 DEF OneCommandPerBallot
  <2>12. CallsComeFirst'
    <3>1. ASSUME NEW q \in Proposal, q # p, FirstPhase(q), prop[q].id = b
          PROVE  FALSE
      <4>1. Running(q) /\ <<prop[q].node, b>> \in campaigns
        BY <3>1 DEF FirstPhase, Running, OwnerInv, CallsOwnIds
      <4>2. prop[q].node = n
        BY <2>5, <4>1 DEF IdsHaveOneOwner
      <4>3. QED BY <2>1, <2>5, <3>1, <4>1, <4>2 DEF OneCallPerNode
    <3>2. QED BY <2>3, <2>7, <2>8, <3>1 DEF CallsComeFirst, FirstPhase
  <2>13. VotesArePast'
    <3>1. ASSUME NEW m \in Node, b = leaderProposalID[m]
          PROVE  m = n
      <4>1. b # 0
        BY DEF Id
      <4>2. <<m, b>> \in campaigns
        BY <3>1, <4>1 DEF OwnerInv, LeadersOwnIds
      <4>3. <<m, b>> = <<n, b>>
        BY <2>5, <4>2 DEF IdsHaveOneOwner
      <4>4. QED BY <4>3
    <3>2. ASSUME NEW m \in Node, NEW v \in votes, v.id = leaderProposalID[m]
          PROVE  v.slot <= highestSlotID'[m]
      <4>1. v.slot <= highestSlotID[m] /\ v.slot \in Slot
        BY <3>2 DEF VotesArePast, TypeInv, TypeOK, Vote
      <4>2. highestSlotID[m] \in Int /\ highestSlotID'[m] \in Int
        BY <1>a DEF TypeInv, TypeOK, Slot
      <4>3. QED BY <2>6, <4>1, <4>2 DEF HighestGrows, Slot
    <3>3. QED
      BY <2>3, <2>6, <2>9, <3>1, <3>2 DEF VotesArePast, leadershipVars
  <2>14. IdsHaveOneOwner'
    BY <2>9 DEF IdsHaveOneOwner, leadershipVars
  <2>15. QED BY <2>10, <2>11, <2>12, <2>13, <2>14
<1>3. ASSUME NEW n \in Node, Elect(n)
      PROVE  BallotInv'
  <2>1. UNCHANGED <<prop, votes, highestSlotID>>
    BY <1>3 DEF Elect, acceptorVars, historyVars
  <2>2. OneCallPerNode' /\ CallsComeFirst' /\ OneCommandPerBallot'
    BY <2>1 DEF OneCallPerNode, CallsComeFirst, OneCommandPerBallot, Running,
       FirstPhase
  <2>3. IdsHaveOneOwner' /\ VotesArePast'
    <3>1. CASE Campaign(n)
      <4>1. PICK b \in Id :
              /\ Fresh(b)
              /\ leaderProposalID' = [leaderProposalID EXCEPT ![n] = b]
              /\ campaigns' = campaigns \cup {<<n, b>>}
        BY <3>1 DEF Campaign
      <4>2. IdsHaveOneOwner'
        BY <4>1 DEF Fresh, IdsHaveOneOwner
      <4>3. \A v \in votes : v.id # b
        BY <4>1 DEF Fresh, OwnerInv, EntriesHaveAnOwner, ProposedByOwner
      <4>4. VotesArePast'
        BY <2>1, <4>1, <4>3 DEF VotesArePast, TypeInv, TypeOK, LeadershipTypeOK
      <4>5. QED BY <4>2, <4>4
    <3>2. CASE Win(n) \/ StepDown(n)
      BY <2>1, <3>2 DEF Win, StepDown, IdsHaveOneOwner, VotesArePast
    <3>3. QED BY <1>3, <3>1, <3>2 DEF Elect
  <2>4. QED BY <2>2, <2>3
<1>4. ASSUME NEW n \in Node, Restart(n)
      PROVE  BallotInv'
  <2>1. UNCHANGED <<votes, campaigns>>
    BY <1>4 DEF Restart, Forget, historyVars
  <2>2. CallsProceed
    BY <1>4 DEF Restart, NotRunning, CallsProceed, Running, FirstPhase
  <2>3. OneCallPerNode' /\ CallsComeFirst'
    BY <2>1, <2>2 DEF CallsProceed, OneCallPerNode, CallsComeFirst
  <2>4. VotesArePast'
    <3>1. \A v \in votes : v.id # 0
      BY DEF TypeInv, TypeOK, Vote, Id
    <3>2. leaderProposalID' = [leaderProposalID EXCEPT ![n] = 0]
      BY <1>4 DEF Restart, Forget
    <3>3. highestSlotID' = [highestSlotID EXCEPT ![n] = 0]
      BY <1>4 DEF Restart
    <3>4. QED
      BY <2>1, <3>1, <3>2, <3>3
      DEF VotesArePast, TypeInv, TypeOK, LeadershipTypeOK
  <2>5. IdsHaveOneOwner' /\ OneCommandPerBallot'
    BY <2>1 DEF IdsHaveOneOwner, OneCommandPerBallot
  <2>6. QED BY <2>3, <2>4, <2>5
<1>5. CASE /\ ~ \E p \in Proposal, n \in Node : StartProposal(p, n)
           /\ ~ \E p \in Proposal : ProposeToSelf(p)
           /\ ~ \E n \in Node : Elect(n) \/ Restart(n)
  <2>1. VotesRepeat /\ HighestGrows /\ CallsProceed /\ UNCHANGED leadershipVars
    BY <1>5, QuietActions, Zenon
  <2>2. QED BY <1>a, <2>1, QuietStep
<1>6. QED BY <1>1, <1>2, <1>3, <1>4, <1>5

(* With serial clients, two acceptances in one slot under one proposal ID  *)
(* are always for the same command.                                        *)
THEOREM BallotsCarryOneCommand == SerialClients => (Spec => []OneCommandPerBallot)
<1> SUFFICES ASSUME SerialClients PROVE Spec => []OneCommandPerBallot
  OBVIOUS
<1>1. Init => TypeInv /\ OwnerInv /\ BallotInv
  BY TypeInvInit, OwnerInvInit, BallotInvInit
<1>2. TypeInv /\ OwnerInv /\ BallotInv /\ [Next]_vars
        => (TypeInv /\ OwnerInv /\ BallotInv)'
  BY TypeInvStep, OwnerInvStep, BallotInvStep
<1>3. BallotInv => OneCommandPerBallot
  BY DEF BallotInv
<1>4. QED BY <1>1, <1>2, <1>3, PTL DEF Spec

-----------------------------------------------------------------------------
(* The refinement.                                                         *)

(* The list a call counts with came from the registry.                     *)
ViewsAreListed == \A p \in Proposal : Running(p) => prop[p].view \in Views

LEMMA ViewsAreListedInit == Init => ViewsAreListed
BY DEF Init, NotRunning, Running, ViewsAreListed

LEMMA ViewsAreListedStep == TypeInv /\ ViewsAreListed /\ [Next]_vars => ViewsAreListed'
<1> SUFFICES ASSUME TypeInv, ViewsAreListed, [Next]_vars PROVE ViewsAreListed'
  OBVIOUS
<1>a. ASSUME NEW p \in Proposal, NEW r, prop' = [prop EXCEPT ![p] = r],
             \/ r.pc \notin {"prepare", "propose", "accept"}
             \/ r.view \in Views
             \/ Running(p) /\ r.view = prop[p].view
      PROVE  ViewsAreListed'
  BY <1>a DEF ViewsAreListed, Running, TypeInv, TypeOK
<1>b. ASSUME prop' = prop
      PROVE  ViewsAreListed'
  BY <1>b DEF ViewsAreListed, Running
<1>1. ASSUME NEW p \in Proposal, NEW n \in Node, StartProposal(p, n)
      PROVE  ViewsAreListed'
  <2>1. PICK view \in Views : prop' = [prop EXCEPT ![p] =
          [@ EXCEPT !.pc = IF needsPreparePhase[n] THEN "prepare" ELSE "propose",
                    !.node = n, !.slot = NextSlot(n),
                    !.id = leaderProposalID[n], !.view = view,
                    !.waiting = IF needsPreparePhase[n] THEN view \ {n} ELSE {},
                    !.acks = {n}]]
    BY <1>1 DEF StartProposal
  <2> DEFINE new == [prop[p] EXCEPT
                       !.pc = IF needsPreparePhase[n] THEN "prepare" ELSE "propose",
                       !.node = n, !.slot = NextSlot(n),
                       !.id = leaderProposalID[n], !.view = view,
                       !.waiting = IF needsPreparePhase[n] THEN view \ {n} ELSE {},
                       !.acks = {n}]
  <2>2. new.view \in Views
    BY DEF TypeInv, TypeOK, ProposalState
  <2>3. QED BY <1>a, <2>1, <2>2
<1>2. ASSUME NEW p \in Proposal, NEW n \in Node,
             RegistryFails(p, n) \/ RefuseProposal(p, n)
      PROVE  ViewsAreListed'
  BY <1>2, <1>a DEF RegistryFails, RefuseProposal, NotRunning
<1>3. ASSUME NEW p \in Proposal,
             AbandonPrepare(p) \/ Decide(p) \/ LeaveUndecided(p)
      PROVE  ViewsAreListed'
  BY <1>3, <1>a DEF AbandonPrepare, Decide, LeaveUndecided, NotRunning
<1>4. ASSUME NEW p \in Proposal, ProposeToSelf(p)
      PROVE  ViewsAreListed'
  <2>1. SecondPhase(prop[p], FinalCommand(prop[p])).view = prop[p].view
    BY DEF SecondPhase, TypeInv, TypeOK, ProposalState
  <2>2. Running(p)
    BY <1>4 DEF ProposeToSelf, Running
  <2>3. QED BY <1>4, <1>a, <2>1, <2>2 DEF ProposeToSelf
<1>5. ASSUME NEW p \in Proposal, NEW m \in Node, DeliverPrepare(p, m)
      PROVE  ViewsAreListed'
  <2> DEFINE st == slots[m][prop[p].slot]
             higher == Grants(st, prop[p].id) /\ st.accepted > prop[p].topId
             new == [prop[p] EXCEPT
                       !.waiting = @ \ {m},
                       !.acks = IF Grants(st, prop[p].id) THEN @ \cup {m} ELSE @,
                       !.topId = IF higher THEN st.accepted ELSE @,
                       !.topCmd = IF higher THEN st.cmd ELSE @]
  <2>1. new.view = prop[p].view
    BY DEF TypeInv, TypeOK, ProposalState
  <2>2. prop' = [prop EXCEPT ![p] = new] /\ Running(p)
    BY <1>5 DEF DeliverPrepare, Running
  <2>3. QED BY <1>a, <2>1, <2>2
<1>6. ASSUME NEW p \in Proposal, NEW m \in Node, DeliverAccept(p, m)
      PROVE  ViewsAreListed'
  <2> DEFINE new == [prop[p] EXCEPT
                       !.waiting = @ \ {m},
                       !.acks = IF Admits(slots[m][prop[p].slot], prop[p].id)
                                THEN @ \cup {m} ELSE @]
  <2>1. new.view = prop[p].view
    BY DEF TypeInv, TypeOK, ProposalState
  <2>2. prop' = [prop EXCEPT ![p] = new] /\ Running(p)
    BY <1>6 DEF DeliverAccept, Running
  <2>3. QED BY <1>a, <2>1, <2>2
<1>7. ASSUME NEW p \in Proposal, NEW m \in Node, TimeOut(p, m)
      PROVE  ViewsAreListed'
  <2> DEFINE new == [prop[p] EXCEPT !.waiting = @ \ {m}]
  <2>1. new.view = prop[p].view
    BY DEF TypeInv, TypeOK, ProposalState
  <2>2. prop' = [prop EXCEPT ![p] = new] /\ Running(p)
    BY <1>7 DEF TimeOut, Running
  <2>3. QED BY <1>a, <2>1, <2>2
<1>8. ASSUME NEW q \in late, LatePrepare(q) \/ LateAccept(q)
      PROVE  ViewsAreListed'
  BY <1>8, <1>b DEF LatePrepare, LateAccept
<1>9. ASSUME NEW y \in Syncer, NEW n \in Node, NEW l \in Node,
             StartSync(y, n, l) \/ Learn(y, l)
      PROVE  ViewsAreListed'
  BY <1>9, <1>b DEF StartSync, Learn
<1>10. ASSUME NEW y \in Syncer, WriteLearned(y) \/ StopSync(y)
       PROVE  ViewsAreListed'
  BY <1>10, <1>b DEF WriteLearned, StopSync
<1>11. ASSUME NEW n \in Node, Elect(n)
       PROVE  ViewsAreListed'
  BY <1>11, <1>b DEF Elect
<1>12. ASSUME NEW n \in Node, Restart(n)
       PROVE  ViewsAreListed'
  BY <1>12 DEF Restart, NotRunning, Running, ViewsAreListed
<1>13. CASE UNCHANGED vars
  BY <1>13, <1>b DEF vars
<1>14. QED
  BY <1>1, <1>2, <1>3, <1>4, <1>5, <1>6, <1>7, <1>8, <1>9, <1>10, <1>11, <1>12,
     <1>13
  DEF Next, ProposalStep

-----------------------------------------------------------------------------
RefinementInv == TypeInv /\ OwnerInv /\ QuorumInv /\ BallotInv /\ ViewsAreListed

LEMMA RefinementInvInit == Init => RefinementInv
BY TypeInvInit, OwnerInvInit, QuorumInvInit, BallotInvInit, ViewsAreListedInit
DEF RefinementInv

LEMMA RefinementInvStep ==
  ASSUME SerialClients
  PROVE  RefinementInv /\ [Next]_vars => RefinementInv'
BY TypeInvStep, OwnerInvStep, QuorumInvStep, BallotInvStep, ViewsAreListedStep
DEF RefinementInv

(* What a step does to the two histories.                                  *)
LEMMA HistorySteps ==
  ASSUME TypeInv, [Next]_vars
  PROVE  \/ UNCHANGED historyVars
         \/ /\ decided' = decided
            /\ \E n \in Node, s \in Slot, b \in Id, c \in Command : CastVote(n, s, b, c)
         \/ \E p \in Proposal : Decide(p)
<1> DEFINE Voting == /\ decided' = decided
                     /\ \E n \in Node, s \in Slot, b \in Id, c \in Command :
                          CastVote(n, s, b, c)
<1>1. ASSUME NEW m \in Node, NEW s \in Slot, NEW b \in Id, NEW c \in Command,
             Accept(m, s, b, c), decided' = decided
      PROVE  UNCHANGED historyVars \/ Voting
  BY <1>1 DEF Accept, historyVars
<1>2. ASSUME NEW p \in Proposal, NEW m \in Node, DeliverAccept(p, m)
      PROVE  UNCHANGED historyVars \/ Voting
  <2>1. /\ prop[p].slot \in Slot /\ prop[p].id \in Id /\ prop[p].cmd \in Command
    BY <1>2 DEF DeliverAccept, TypeInv, TypeOK, CallsAreSet, Running, ProposalState
  <2>2. QED BY <1>1, <1>2, <2>1 DEF DeliverAccept
<1>3. ASSUME NEW q \in late, LateAccept(q)
      PROVE  UNCHANGED historyVars \/ Voting
  <2>1. q.to \in Node /\ q.slot \in Slot /\ q.id \in Id /\ q.cmd \in Command
    BY <1>3 DEF LateAccept, TypeInv, TypeOK, Request
  <2>2. QED BY <1>1, <1>3, <2>1 DEF LateAccept
<1>4. ASSUME NEW p \in Proposal, ProposeToSelf(p)
      PROVE  Voting
  <2>1. /\ prop[p].node \in Node /\ prop[p].slot \in Slot /\ prop[p].id \in Id
        /\ FinalCommand(prop[p]) \in Command
    BY <1>4 DEF ProposeToSelf, TypeInv, TypeOK, CallsAreSet, Running,
       ProposalState, FinalCommand
  <2>2. QED BY <1>4, <2>1 DEF ProposeToSelf
<1>5. ASSUME NEW p \in Proposal, NEW n \in Node,
             StartProposal(p, n) \/ RegistryFails(p, n) \/ RefuseProposal(p, n)
      PROVE  UNCHANGED historyVars
  BY <1>5 DEF StartProposal, RegistryFails, RefuseProposal
<1>6. ASSUME NEW p \in Proposal, NEW m \in Node,
             AbandonPrepare(p) \/ LeaveUndecided(p) \/ DeliverPrepare(p, m)
               \/ TimeOut(p, m)
      PROVE  UNCHANGED historyVars
  BY <1>6 DEF AbandonPrepare, LeaveUndecided, DeliverPrepare, TimeOut
<1>7. ASSUME NEW p \in Proposal, AbandonPrepare(p) \/ LeaveUndecided(p)
      PROVE  UNCHANGED historyVars
  BY <1>7 DEF AbandonPrepare, LeaveUndecided
<1>8. ASSUME NEW q \in late, LatePrepare(q)
      PROVE  UNCHANGED historyVars
  BY <1>8 DEF LatePrepare
<1>9. ASSUME NEW y \in Syncer, NEW n \in Node, NEW l \in Node,
             StartSync(y, n, l) \/ Learn(y, l)
      PROVE  UNCHANGED historyVars
  BY <1>9 DEF StartSync, Learn
<1>10. ASSUME NEW y \in Syncer, WriteLearned(y) \/ StopSync(y)
       PROVE  UNCHANGED historyVars
  BY <1>10 DEF WriteLearned, StopSync
<1>11. ASSUME NEW n \in Node, Elect(n) \/ Restart(n)
       PROVE  UNCHANGED historyVars
  BY <1>11 DEF Elect, Restart
<1>12. CASE UNCHANGED vars
  BY <1>12 DEF vars, historyVars
<1>13. QED
  BY <1>2, <1>3, <1>4, <1>5, <1>6, <1>7, <1>8, <1>9, <1>10, <1>11, <1>12
  DEF Next, ProposalStep

LEMMA RefinementStep ==
  ASSUME SerialClients, RefinementInv, [Next]_vars
  PROVE  [BL!Next]_<<votes, Chosen>>
<1>1. CASE UNCHANGED historyVars
  BY <1>1 DEF historyVars, Chosen
<1>2. ASSUME decided' = decided,
             NEW n \in Node, NEW s \in Slot, NEW b \in Id, NEW c \in Command,
             CastVote(n, s, b, c)
      PROVE  BL!Next
  <2>1. OneCommandPerBallot'
    BY RefinementInvStep DEF RefinementInv, BallotInv
  <2>2. Chosen' = Chosen
    BY <1>2 DEF Chosen
  <2>3. votes' = votes \cup {[node |-> n, slot |-> s, id |-> b, cmd |-> c]}
    BY <1>2 DEF CastVote
  <2>4. \A v \in votes : v.slot = s /\ v.id = b => v.cmd = c
    <3>1. PICK w : w = [node |-> n, slot |-> s, id |-> b, cmd |-> c]
      OBVIOUS
    <3>2. w.slot = s /\ w.id = b /\ w.cmd = c
      BY <3>1
    <3>3. w \in votes' /\ votes \subseteq votes'
      BY <2>3, <3>1
    <3>4. QED BY <2>1, <3>2, <3>3 DEF OneCommandPerBallot
  <2>5. BL!Accept(n, s, b, c)
    BY <2>2, <2>3, <2>4 DEF BL!Accept
  <2>6. QED BY <2>5 DEF BL!Next
<1>3. ASSUME NEW p \in Proposal, Decide(p)
      PROVE  BL!Next
  <2>1. PICK n \in Node, s \in Slot, b \in Id, c \in Command, view \in Views :
          /\ n = prop[p].node /\ s = prop[p].slot /\ b = prop[p].id
          /\ c = prop[p].cmd /\ view = prop[p].view
    BY <1>3 DEF Decide, RefinementInv, TypeInv, TypeOK, CallsAreSet, Running,
       ProposalState, ViewsAreListed
  <2>2. n \in Voters(s, b, c)
    BY <1>3, <2>1 DEF Decide, RefinementInv, OwnerInv, CallsVoted, OwnVote, Voters
  <2>3. 2 * Cardinality(Voters(s, b, c) \cap (view \cup {n})) > Cardinality(view)
    <3>1. /\ view \in SUBSET Node /\ prop[p].acks \in SUBSET Node
          /\ Voters(s, b, c) \cap (view \cup {n}) \in SUBSET Node
      BY <2>1, ReplicationAssumption
      DEF ReplicationAssumption, RefinementInv, TypeInv, TypeOK, ProposalState, Voters
    <3>2. /\ prop[p].acks \subseteq Voters(s, b, c) \cap (view \cup {n})
          /\ Cardinality(prop[p].acks) >= QuorumSize(view)
      BY <1>3, <2>1
      DEF Decide, HasQuorum, RefinementInv, QuorumInv, CallsCount, CountsWell
    <3>3. QED BY <3>1, <3>2, QuorumIsMajority
  <2>4. votes' = votes
    BY <1>3 DEF Decide
  <2>5. Chosen' = Chosen \cup {[slot |-> s, id |-> b, cmd |-> c]}
    <3>1. decided' = decided \cup {[prop |-> p, node |-> n, slot |-> s, id |-> b,
                                    cmd |-> c, view |-> view]}
      BY <1>3, <2>1 DEF Decide
    <3>2. PICK e : e = [prop |-> p, node |-> n, slot |-> s, id |-> b,
                        cmd |-> c, view |-> view]
      OBVIOUS
    <3>3. e.slot = s /\ e.id = b /\ e.cmd = c
      BY <3>2
    <3>4. decided' = decided \cup {e}
      BY <3>1, <3>2
    <3>5. QED BY <3>3, <3>4 DEF Chosen
  <2>6. BL!Voters(s, b, c) = Voters(s, b, c)
    BY DEF BL!Voters, Voters
  <2>7. BL!Choose(s, b, c)
    <3>1. ASSUME NEW S PROVE BL!Cardinality(S) = Cardinality(S)
      BY Zenon DEF BL!Cardinality, Cardinality
    <3>2. \E v \in Views, m \in BL!Voters(s, b, c) :
            2 * BL!Cardinality(BL!Voters(s, b, c) \cap (v \cup {m}))
              > BL!Cardinality(v)
      BY <2>2, <2>3, <2>6, <3>1
    <3>3. QED BY <2>4, <2>5, <3>2, Zenon DEF BL!Choose
  <2>8. QED BY <2>7 DEF BL!Next
<1>4. TypeInv
  BY DEF RefinementInv
<1>5. QED BY <1>1, <1>2, <1>3, <1>4, HistorySteps

(* A log of nodes with serial clients is a BallotLog: each acceptance      *)
(* respects the ballot, each reported decision has its majority.           *)
THEOREM ImplementsBallotLog == SerialClients => (Spec => BallotLogSpec)
<1> SUFFICES ASSUME SerialClients PROVE Spec => BallotLogSpec
  OBVIOUS
<1>1. Init => RefinementInv
  BY RefinementInvInit
<1>2. RefinementInv /\ [Next]_vars => RefinementInv'
  BY RefinementInvStep
<1>3. Init => BL!Init
  BY DEF Init, BL!Init, Chosen
<1>4. RefinementInv /\ [Next]_vars => [BL!Next]_<<votes, Chosen>>
  BY RefinementStep
<1>5. QED BY <1>1, <1>2, <1>3, <1>4, PTL DEF Spec, BallotLogSpec, BL!Spec
=============================================================================
