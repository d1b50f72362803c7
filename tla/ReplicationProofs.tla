-------------------------- MODULE ReplicationProofs ---------------------------
(***************************************************************************)
(* Theorems about Replication, for any nodes, commands, bounds and lists of*)
(* the registry: types, owners of entries, highestSlotID, and the quorums  *)
(* of reported decisions.  None needs an assumption on the clients.        *)
(***************************************************************************)
EXTENDS Replication, FiniteSetTheorems, TLAPS

-----------------------------------------------------------------------------
(* Type correctness.                                                       *)

(* A leader has drawn an ID.                                               *)
LeadersHaveIds == \A n \in Node : isLeader[n] => leaderProposalID[n] \in Id

(* A running call of ProposeCommand has its locals set.                    *)
CallsAreSet ==
  \A p \in Proposal :
    Running(p) => /\ prop[p].node \in Node
                  /\ prop[p].slot \in Slot
                  /\ prop[p].id \in Id

(* A SynchronizeLog goroutine works on a slot up to its target.            *)
SyncsInRange ==
  \A y \in Syncer :
    IF syncs[y].node = Nil
    THEN syncs[y].cmd = Nil
    ELSE /\ syncs[y].slot \in Slot
         /\ syncs[y].target \in Slot
         /\ syncs[y].slot <= syncs[y].target
         /\ syncs[y].cmd # Nil => syncs[y].id \in Id

(* An accepted command has an ID, and so has the one phase 1 adopts.       *)
EntriesHaveIds ==
  \A n \in Node, s \in Slot :
    slots[n][s].cmd # Nil => slots[n][s].accepted \in Id

TypeInv == TypeOK /\ LeadersHaveIds /\ CallsAreSet /\ SyncsInRange /\ EntriesHaveIds

LEMMA NilIsNew == Nil \notin Command /\ Nil \notin Node /\ Nil \notin Value
BY ReplicationAssumption DEF ReplicationAssumption

LEMMA TypeInvInit == Init => TypeInv
<1> SUFFICES ASSUME Init PROVE TypeInv
  OBVIOUS
<1>1. LeadershipTypeOK
  BY DEF Init, LeadershipInit, LeadershipTypeOK
<1>2. prop \in [Proposal -> ProposalState]
  BY ReplicationAssumption DEF ReplicationAssumption, Init, NotRunning, ProposalState
<1>3. syncs \in [Syncer -> SyncState]
  BY DEF Init, NoSync, SyncState
<1>4. slots \in [Node -> [Slot -> PaxosState]]
  BY DEF Init, ZeroState, PaxosState
<1>5. kvStore \in [Node -> [Key -> Value \cup {Nil}]]
  BY DEF Init
<1>6. /\ highestSlotID \in [Node -> {0} \cup Slot]
      /\ needsPreparePhase \in [Node -> BOOLEAN]
      /\ restarts \in 0..MaxRestarts
      /\ late \subseteq Request /\ votes \subseteq Vote /\ decided \subseteq Decision
  BY ReplicationAssumption DEF ReplicationAssumption, Init
<1>7. TypeOK
  BY <1>1, <1>2, <1>3, <1>4, <1>5, <1>6 DEF TypeOK
<1>8. LeadersHaveIds /\ CallsAreSet /\ SyncsInRange /\ EntriesHaveIds
  BY DEF Init, LeadershipInit, LeadersHaveIds, CallsAreSet, SyncsInRange,
         EntriesHaveIds, Running, NotRunning, NoSync, ZeroState
<1>9. QED BY <1>7, <1>8 DEF TypeInv

(* A record of locals with which a call may run.                           *)
CallIsSet(r) ==
  r.pc \in {"prepare", "propose", "accept"} =>
    r.node \in Node /\ r.slot \in Slot /\ r.id \in Id

(* The locals of a call that is not running.                               *)
LEMMA NotRunningType ==
  ASSUME NEW p \in Proposal, NEW pc \in {"new", "decided", "failed"}
  PROVE  NotRunning(p, pc) \in ProposalState
BY ReplicationAssumption DEF ReplicationAssumption, NotRunning, ProposalState

LEMMA NotRunningIsSet ==
  ASSUME NEW p \in Proposal, NEW pc \in {"new", "decided", "failed"}
  PROVE  CallIsSet(NotRunning(p, pc))
BY DEF NotRunning, CallIsSet

(* Applying a command keeps a store a store.                               *)
LEMMA ApplyCommandType ==
  ASSUME NEW c \in Command, NEW store \in [Key -> Value \cup {Nil}]
  PROVE  ApplyCommand(store, c) \in [Key -> Value \cup {Nil}]
BY DEF ApplyCommand, Command

(* What the common end of Accept, ProposeCommand and SynchronizeLog does   *)
(* to the types.                                                           *)
LEMMA InstallType ==
  ASSUME TypeInv, NEW n \in Node, NEW s \in Slot, NEW b \in Id,
         NEW c \in Command, Install(n, s, b, c)
  PROVE  /\ slots' \in [Node -> [Slot -> PaxosState]]
         /\ kvStore' \in [Node -> [Key -> Value \cup {Nil}]]
         /\ highestSlotID' \in [Node -> {0} \cup Slot]
         /\ EntriesHaveIds'
<1> USE DEF TypeInv, TypeOK, Install
<1>1. [promised |-> b, accepted |-> b, cmd |-> c] \in PaxosState
  BY DEF PaxosState
<1>2. slots' \in [Node -> [Slot -> PaxosState]]
  BY <1>1
<1>3. kvStore' \in [Node -> [Key -> Value \cup {Nil}]]
  BY ApplyCommandType
<1>4. highestSlotID' \in [Node -> {0} \cup Slot]
  BY DEF Raised
<1>5. EntriesHaveIds'
  BY DEF EntriesHaveIds
<1>6. QED BY <1>2, <1>3, <1>4, <1>5

LEMMA AcceptType ==
  ASSUME TypeInv, NEW n \in Node, NEW s \in Slot, NEW b \in Id,
         NEW c \in Command, Accept(n, s, b, c)
  PROVE  /\ slots' \in [Node -> [Slot -> PaxosState]]
         /\ kvStore' \in [Node -> [Key -> Value \cup {Nil}]]
         /\ highestSlotID' \in [Node -> {0} \cup Slot]
         /\ EntriesHaveIds'
         /\ votes' \subseteq Vote
<1>1. CASE Admits(slots[n][s], b)
  BY <1>1, InstallType DEF Accept, CastVote, Vote, TypeInv, TypeOK
<1>2. CASE ~Admits(slots[n][s], b)
  BY <1>2 DEF Accept, acceptorVars, TypeInv, TypeOK, EntriesHaveIds
<1>3. QED BY <1>1, <1>2

LEMMA PrepareType ==
  ASSUME TypeInv, NEW n \in Node, NEW s \in Slot, NEW b \in Id,
         Prepare(n, s, b)
  PROVE  /\ slots' \in [Node -> [Slot -> PaxosState]]
         /\ EntriesHaveIds'
BY DEF Prepare, PaxosState, TypeInv, TypeOK, EntriesHaveIds

(* A step that gives one call new locals.                                  *)
LEMMA CallUpdate ==
  ASSUME TypeInv, NEW p \in Proposal, NEW r \in ProposalState, CallIsSet(r),
         prop' = [prop EXCEPT ![p] = r]
  PROVE  prop' \in [Proposal -> ProposalState] /\ CallsAreSet'
<1>1. prop \in [Proposal -> ProposalState]
  BY DEF TypeInv, TypeOK
<1>2. prop' \in [Proposal -> ProposalState]
  BY <1>1
<1>3. ASSUME NEW q \in Proposal, Running(q)'
      PROVE  prop'[q].node \in Node /\ prop'[q].slot \in Slot /\ prop'[q].id \in Id
  <2>1. CASE q = p
    BY <1>1, <1>3, <2>1 DEF CallIsSet, Running
  <2>2. CASE q # p
    BY <1>1, <1>3, <2>2 DEF TypeInv, CallsAreSet, Running
  <2>3. QED BY <2>1, <2>2
<1>4. QED BY <1>2, <1>3 DEF CallsAreSet

(* Every step keeps the types.                                             *)
LEMMA TypeInvStep == TypeInv /\ [Next]_vars => TypeInv'
<1> SUFFICES ASSUME TypeInv, [Next]_vars PROVE TypeInv'
  OBVIOUS
<1> USE DEF TypeInv
<1> DEFINE CallState == prop' \in [Proposal -> ProposalState] /\ CallsAreSet'
<1>1. ASSUME NEW p \in Proposal, NEW n \in Node, StartProposal(p, n)
      PROVE  TypeInv'
  <2>1. PICK view \in Views : prop' = [prop EXCEPT ![p] =
          [@ EXCEPT !.pc = IF needsPreparePhase[n] THEN "prepare" ELSE "propose",
                    !.node = n, !.slot = NextSlot(n),
                    !.id = leaderProposalID[n], !.view = view,
                    !.waiting = IF needsPreparePhase[n] THEN view \ {n} ELSE {},
                    !.acks = {n}]]
    BY <1>1 DEF StartProposal
  <2>2. view \subseteq Node /\ leaderProposalID[n] \in Id /\ NextSlot(n) \in Slot
    BY <1>1, ReplicationAssumption
    DEF ReplicationAssumption, StartProposal, LeadersHaveIds
  <2> DEFINE r == [prop[p] EXCEPT
                     !.pc = IF needsPreparePhase[n] THEN "prepare" ELSE "propose",
                     !.node = n, !.slot = NextSlot(n),
                     !.id = leaderProposalID[n], !.view = view,
                     !.waiting = IF needsPreparePhase[n] THEN view \ {n} ELSE {},
                     !.acks = {n}]
  <2>5. prop[p] \in ProposalState
    BY DEF TypeOK
  <2>6. r \in ProposalState /\ CallIsSet(r)
    BY <2>2, <2>5 DEF ProposalState, CallIsSet
  <2>3. CallState
    BY <2>1, <2>6, CallUpdate
  <2>4. QED
    BY <1>1, <2>3 DEF StartProposal, TypeOK, LeadershipTypeOK, leadershipVars,
       acceptorVars, historyVars, LeadersHaveIds, SyncsInRange, EntriesHaveIds
<1>2. ASSUME NEW p \in Proposal, NEW n \in Node,
             RegistryFails(p, n) \/ RefuseProposal(p, n)
      PROVE  TypeInv'
  <2>1. CallState
    BY <1>2, NotRunningType, NotRunningIsSet, CallUpdate
    DEF RegistryFails, RefuseProposal
  <2>2. QED
    BY <1>2, <2>1 DEF RegistryFails, RefuseProposal, TypeOK, LeadershipTypeOK,
       leadershipVars, acceptorVars, historyVars, LeadersHaveIds, SyncsInRange,
       EntriesHaveIds
<1>3. ASSUME NEW p \in Proposal,
             AbandonPrepare(p) \/ Decide(p) \/ LeaveUndecided(p)
      PROVE  TypeInv'
  <2>1. CallState
    BY <1>3, NotRunningType, NotRunningIsSet, CallUpdate
    DEF AbandonPrepare, Decide, LeaveUndecided
  <2>2. needsPreparePhase' \in [Node -> BOOLEAN]
    BY <1>3 DEF AbandonPrepare, Decide, LeaveUndecided, TypeOK
  <2>3. decided' \subseteq Decision
    BY <1>3 DEF AbandonPrepare, Decide, LeaveUndecided, TypeOK, Decision,
       ProposalState, CallsAreSet, Running, historyVars
  <2>4. UNCHANGED <<leadershipVars, acceptorVars, late, syncs, restarts, votes>>
    BY <1>3 DEF AbandonPrepare, Decide, LeaveUndecided, historyVars
  <2>5. QED
    BY <2>1, <2>2, <2>3, <2>4 DEF TypeOK, LeadershipTypeOK, leadershipVars,
       acceptorVars, LeadersHaveIds, SyncsInRange, EntriesHaveIds
<1>4. ASSUME NEW p \in Proposal, ProposeToSelf(p)
      PROVE  TypeInv'
  <2> DEFINE r == prop[p]
             c == FinalCommand(r)
  <2>1. r \in ProposalState /\ r.node \in Node /\ r.slot \in Slot /\ r.id \in Id
    BY <1>4 DEF ProposeToSelf, CallsAreSet, Running, TypeOK
  <2>2. c \in Command
    BY <2>1 DEF FinalCommand, ProposalState
  <2>3. CallState
    BY <1>4, <2>1, <2>2
    DEF ProposeToSelf, SecondPhase, ProposalState, TypeOK, CallsAreSet, Running
  <2>4. Install(r.node, r.slot, r.id, c)
    BY <1>4 DEF ProposeToSelf
  <2>5. votes' \subseteq Vote
    BY <1>4, <2>1, <2>2 DEF ProposeToSelf, CastVote, Vote, TypeOK
  <2>6. /\ slots' \in [Node -> [Slot -> PaxosState]]
        /\ kvStore' \in [Node -> [Key -> Value \cup {Nil}]]
        /\ highestSlotID' \in [Node -> {0} \cup Slot]
        /\ EntriesHaveIds'
    BY <2>1, <2>2, <2>4, InstallType
  <2>7. UNCHANGED <<leadershipVars, needsPreparePhase, late, syncs, restarts, decided>>
    BY <1>4 DEF ProposeToSelf
  <2>8. QED
    BY <2>3, <2>5, <2>6, <2>7 DEF TypeOK, LeadershipTypeOK, leadershipVars,
       LeadersHaveIds, SyncsInRange
<1>5. ASSUME NEW p \in Proposal, NEW m \in Node, DeliverPrepare(p, m)
      PROVE  TypeInv'
  <2> DEFINE r == prop[p]
             st == slots[m][r.slot]
  <2>1. /\ r \in ProposalState /\ r.slot \in Slot /\ r.id \in Id
        /\ st \in PaxosState
    BY <1>5 DEF DeliverPrepare, CallsAreSet, Running, TypeOK
  <2>2. slots' \in [Node -> [Slot -> PaxosState]] /\ EntriesHaveIds'
    BY <1>5, <2>1, PrepareType DEF DeliverPrepare
  <2> DEFINE higher == Grants(st, r.id) /\ st.accepted > r.topId
             new == [r EXCEPT !.waiting = @ \ {m},
                              !.acks = IF Grants(st, r.id) THEN @ \cup {m} ELSE @,
                              !.topId = IF higher THEN st.accepted ELSE @,
                              !.topCmd = IF higher THEN st.cmd ELSE @]
  <2>5. new \in ProposalState /\ CallIsSet(new)
    BY <1>5, <2>1 DEF DeliverPrepare, CallsAreSet, Running, ProposalState,
       PaxosState, CallIsSet
  <2>6. prop' = [prop EXCEPT ![p] = new]
    BY <1>5 DEF DeliverPrepare
  <2>3. CallState
    BY <2>5, <2>6, CallUpdate
  <2>4. QED
    BY <1>5, <2>2, <2>3 DEF DeliverPrepare, TypeOK, LeadershipTypeOK,
       leadershipVars, historyVars, LeadersHaveIds, SyncsInRange
<1>6. ASSUME NEW p \in Proposal, NEW m \in Node, DeliverAccept(p, m)
      PROVE  TypeInv'
  <2> DEFINE r == prop[p]
  <2>1. r \in ProposalState /\ r.slot \in Slot /\ r.id \in Id /\ r.cmd \in Command
    BY <1>6 DEF DeliverAccept, CallsAreSet, Running, TypeOK, ProposalState
  <2>2. Accept(m, r.slot, r.id, r.cmd)
    BY <1>6 DEF DeliverAccept
  <2> DEFINE new == [r EXCEPT !.waiting = @ \ {m},
                              !.acks = IF Admits(slots[m][r.slot], r.id)
                                       THEN @ \cup {m} ELSE @]
  <2>5. new \in ProposalState /\ CallIsSet(new)
    BY <1>6, <2>1
    DEF DeliverAccept, CallsAreSet, Running, ProposalState, CallIsSet
  <2>6. prop' = [prop EXCEPT ![p] = new]
    BY <1>6 DEF DeliverAccept
  <2>3. CallState
    BY <2>5, <2>6, CallUpdate
  <2>4. QED
    BY <1>6, <2>1, <2>2, <2>3, AcceptType DEF DeliverAccept, TypeOK,
       LeadershipTypeOK, leadershipVars, LeadersHaveIds, SyncsInRange
<1>7. ASSUME NEW p \in Proposal, NEW m \in Node, TimeOut(p, m)
      PROVE  TypeInv'
  <2> DEFINE new == [prop[p] EXCEPT !.waiting = @ \ {m}]
  <2>4. prop[p] \in ProposalState
    BY DEF TypeOK
  <2>5. new \in ProposalState /\ CallIsSet(new)
    BY <1>7, <2>4 DEF TimeOut, CallsAreSet, Running, ProposalState, CallIsSet
  <2>1. CallState
    BY <1>7, <2>5, CallUpdate DEF TimeOut
  <2>2. RequestTo(prop[p], m) \in Request
    BY <1>7 DEF TimeOut, RequestTo, Request, ProposalState, TypeOK, CallsAreSet,
       Running
  <2>3. QED
    BY <1>7, <2>1, <2>2 DEF TimeOut, TypeOK, LeadershipTypeOK, leadershipVars,
       acceptorVars, historyVars, LeadersHaveIds, SyncsInRange, EntriesHaveIds
<1>8. ASSUME NEW q \in late, LatePrepare(q) \/ LateAccept(q)
      PROVE  TypeInv'
  <2>1. q \in Request
    BY DEF TypeOK
  <2>2. CASE LatePrepare(q)
    <3>1. q.to \in Node /\ q.slot \in Slot /\ q.id \in Id
      BY <2>1 DEF Request
    <3>2. slots' \in [Node -> [Slot -> PaxosState]] /\ EntriesHaveIds'
      BY <2>2, <3>1, PrepareType DEF LatePrepare
    <3>3. QED
      BY <2>2, <3>2 DEF LatePrepare, TypeOK, LeadershipTypeOK, leadershipVars,
         historyVars, LeadersHaveIds, CallsAreSet, Running, SyncsInRange
  <2>3. CASE LateAccept(q)
    <3>1. q.to \in Node /\ q.slot \in Slot /\ q.id \in Id /\ q.cmd \in Command
      BY <2>1, <2>3 DEF LateAccept, Request
    <3>2. Accept(q.to, q.slot, q.id, q.cmd)
      BY <2>3 DEF LateAccept
    <3>3. QED
      BY <2>3, <3>1, <3>2, AcceptType DEF LateAccept, TypeOK, LeadershipTypeOK,
         leadershipVars, LeadersHaveIds, CallsAreSet, Running, SyncsInRange
  <2>4. QED BY <1>8, <2>2, <2>3
<1>9. ASSUME NEW y \in Syncer, NEW n \in Node, NEW l \in Node, StartSync(y, n, l)
      PROVE  TypeInv'
  <2>1. /\ highestSlotID[l] \in Slot
        /\ NextSlot(n) \in Slot
        /\ NextSlot(n) <= highestSlotID[l]
    <3>1. /\ highestSlotID[l] \in 0..MaxSlot /\ highestSlotID[n] \in 0..MaxSlot
          /\ highestSlotID[l] > highestSlotID[n] /\ MaxSlot \in Nat
      BY <1>9, ReplicationAssumption
      DEF ReplicationAssumption, StartSync, Slot, TypeOK
    <3>2. QED BY <3>1 DEF NextSlot, Slot
  <2>2. syncs' \in [Syncer -> SyncState] /\ SyncsInRange'
    BY <1>9, <2>1, NilIsNew DEF StartSync, NoSync, SyncState, TypeOK, SyncsInRange
  <2>3. QED
    BY <1>9, <2>2 DEF StartSync, TypeOK, LeadershipTypeOK, leadershipVars,
       acceptorVars, historyVars, LeadersHaveIds, CallsAreSet, Running,
       EntriesHaveIds
<1>10. ASSUME NEW y \in Syncer, NEW m \in Node, Learn(y, m)
       PROVE  TypeInv'
  <2>1. /\ syncs[y] \in SyncState /\ AskedSlot(syncs[y]) \in Slot
        /\ slots[m][AskedSlot(syncs[y])] \in PaxosState
        /\ slots[m][AskedSlot(syncs[y])].accepted \in Id
    BY <1>10 DEF Learn, TypeOK, EntriesHaveIds
  <2>2. syncs' \in [Syncer -> SyncState] /\ SyncsInRange'
    BY <1>10, <2>1 DEF Learn, SyncState, PaxosState, TypeOK, SyncsInRange
  <2>3. QED
    BY <1>10, <2>2 DEF Learn, TypeOK, LeadershipTypeOK, leadershipVars,
       acceptorVars, historyVars, LeadersHaveIds, CallsAreSet, Running,
       EntriesHaveIds
<1>11. ASSUME NEW y \in Syncer, WriteLearned(y)
       PROVE  TypeInv'
  <2> DEFINE g == syncs[y]
  <2>1. /\ g \in SyncState /\ g.node \in Node /\ g.slot \in Slot /\ g.id \in Id
        /\ g.cmd \in Command /\ g.target \in Slot /\ g.slot <= g.target
    BY <1>11 DEF WriteLearned, SyncsInRange, TypeOK, SyncState
  <2>2. Install(g.node, g.slot, g.id, g.cmd)
    BY <1>11 DEF WriteLearned
  <2>3. g.slot # g.target => g.slot + 1 \in Slot /\ g.slot + 1 <= g.target
    BY <2>1, ReplicationAssumption DEF ReplicationAssumption, Slot
  <2> DEFINE new == IF g.slot = g.target THEN NoSync
                    ELSE [g EXCEPT !.slot = @ + 1, !.id = 0, !.cmd = Nil]
  <2>6. new \in SyncState
    BY <2>1, <2>3 DEF NoSync, SyncState
  <2>7. syncs' = [syncs EXCEPT ![y] = new]
    BY <1>11 DEF WriteLearned
  <2>8. syncs' \in [Syncer -> SyncState]
    BY <2>6, <2>7 DEF TypeOK
  <2>9. SyncsInRange'
    <3>1. new.node = Nil \/ /\ new.slot \in Slot /\ new.target \in Slot
                            /\ new.slot <= new.target
      BY <2>1, <2>3 DEF NoSync, SyncState
    <3>2. new.cmd = Nil
      BY <2>1 DEF NoSync, SyncState
    <3>3. QED
      BY <2>7, <3>1, <3>2 DEF SyncsInRange, TypeOK
  <2>4. syncs' \in [Syncer -> SyncState] /\ SyncsInRange'
    BY <2>8, <2>9
  <2>5. QED
    BY <1>11, <2>1, <2>2, <2>4, InstallType DEF WriteLearned, TypeOK,
       LeadershipTypeOK, leadershipVars, historyVars, LeadersHaveIds,
       CallsAreSet, Running
<1>12. ASSUME NEW y \in Syncer, StopSync(y)
       PROVE  TypeInv'
  <2>1. syncs' \in [Syncer -> SyncState] /\ SyncsInRange'
    BY <1>12 DEF StopSync, NoSync, SyncState, TypeOK, SyncsInRange
  <2>2. QED
    BY <1>12, <2>1 DEF StopSync, TypeOK, LeadershipTypeOK, leadershipVars,
       acceptorVars, historyVars, LeadersHaveIds, CallsAreSet, Running,
       EntriesHaveIds
<1>13. ASSUME NEW n \in Node, Elect(n)
       PROVE  TypeInv'
  <2>1. LeadershipTypeOK' /\ LeadersHaveIds'
    <3>1. CASE Campaign(n)
      <4>1. PICK b \in Id :
              /\ leaderProposalID' = [leaderProposalID EXCEPT ![n] = b]
              /\ campaigns' = campaigns \cup {<<n, b>>}
              /\ UNCHANGED isLeader
        BY <3>1 DEF Campaign
      <4>2. QED
        BY <4>1 DEF TypeOK, LeadershipTypeOK, LeadersHaveIds
    <3>2. CASE Win(n)
      BY <3>2 DEF Win, TypeOK, LeadershipTypeOK, LeadersHaveIds
    <3>3. CASE StepDown(n)
      BY <3>3 DEF StepDown, TypeOK, LeadershipTypeOK, LeadersHaveIds
    <3>4. QED BY <1>13, <3>1, <3>2, <3>3 DEF Elect
  <2>2. QED
    BY <1>13, <2>1 DEF Elect, TypeOK, acceptorVars, historyVars, CallsAreSet,
       Running, SyncsInRange, EntriesHaveIds
<1>14. ASSUME NEW n \in Node, Restart(n)
       PROVE  TypeInv'
  <2>1. LeadershipTypeOK' /\ LeadersHaveIds'
    BY <1>14 DEF Restart, Forget, TypeOK, LeadershipTypeOK, LeadersHaveIds
  <2>2. CallState
    BY <1>14, NotRunningType
    DEF Restart, NotRunning, TypeOK, CallsAreSet, Running
  <2>3. syncs' \in [Syncer -> SyncState] /\ SyncsInRange'
    BY <1>14 DEF Restart, NoSync, SyncState, TypeOK, SyncsInRange
  <2>4. slots' \in [Node -> [Slot -> PaxosState]] /\ EntriesHaveIds'
    BY <1>14 DEF Restart, ZeroState, PaxosState, TypeOK, EntriesHaveIds
  <2>5. /\ kvStore' \in [Node -> [Key -> Value \cup {Nil}]]
        /\ highestSlotID' \in [Node -> {0} \cup Slot]
        /\ needsPreparePhase' \in [Node -> BOOLEAN]
        /\ restarts' \in 0..MaxRestarts
        /\ late' \subseteq Request
    BY <1>14, ReplicationAssumption DEF ReplicationAssumption, Restart, TypeOK
  <2>6. QED
    BY <1>14, <2>1, <2>2, <2>3, <2>4, <2>5 DEF Restart, TypeOK, historyVars
<1>15. CASE UNCHANGED vars
  BY <1>15 DEF vars, leadershipVars, acceptorVars, historyVars, TypeOK,
     LeadershipTypeOK, LeadersHaveIds, CallsAreSet, Running, SyncsInRange,
     EntriesHaveIds
<1>16. QED
  BY <1>1, <1>2, <1>3, <1>4, <1>5, <1>6, <1>7, <1>8, <1>9, <1>10, <1>11, <1>12,
     <1>13, <1>14, <1>15
  DEF Next, ProposalStep

(* Every variable keeps its type, in every state of every behaviour.       *)
THEOREM TypeCorrect == Spec => []TypeOK
<1>1. Spec => []TypeInv
  BY TypeInvInit, TypeInvStep, PTL DEF Spec
<1>2. TypeInv => TypeOK
  BY DEF TypeInv
<1>3. QED BY <1>1, <1>2, PTL

-----------------------------------------------------------------------------
(* Where commands come from.                                               *)

(* A node's ID was drawn by it, and so was the ID of a call it runs; a     *)
(* call in phase 2 has accepted its own command.                           *)
LeadersOwnIds ==
  \A n \in Node : leaderProposalID[n] # 0 => <<n, leaderProposalID[n]>> \in campaigns

CallsOwnIds ==
  \A p \in Proposal : Running(p) => <<prop[p].node, prop[p].id>> \in campaigns

OwnVote(r) == [node |-> r.node, slot |-> r.slot, id |-> r.id, cmd |-> r.cmd]

CallsVoted == \A p \in Proposal : prop[p].pc = "accept" => OwnVote(prop[p]) \in votes

(* The commands on their way, in late requests and in answers of Learn.    *)
LateOwned ==
  \A q \in late : q.type = "accept" => ProposedByOwner(q.slot, q.id, q.cmd)

RepliesOwned ==
  \A y \in Syncer :
    syncs[y].cmd # Nil => ProposedByOwner(syncs[y].slot, syncs[y].id, syncs[y].cmd)

OwnerInv ==
  /\ LeadersOwnIds /\ CallsOwnIds /\ CallsVoted
  /\ LateOwned /\ RepliesOwned /\ EntriesHaveAnOwner

LEMMA OwnerInvInit == Init => OwnerInv
BY DEF Init, LeadershipInit, OwnerInv, LeadersOwnIds, CallsOwnIds, CallsVoted,
   LateOwned, RepliesOwned, EntriesHaveAnOwner, Running, NotRunning, NoSync,
   ZeroState

(* The histories only grow, so an owner stays an owner.                    *)
LEMMA HistoriesGrow == [Next]_vars => votes \subseteq votes' /\ campaigns \subseteq campaigns'
<1> SUFFICES ASSUME [Next]_vars
             PROVE  votes \subseteq votes' /\ campaigns \subseteq campaigns'
  OBVIOUS
<1>1. ASSUME NEW m, NEW s, NEW b, NEW c, Accept(m, s, b, c)
      PROVE  votes \subseteq votes'
  BY <1>1 DEF Accept, CastVote
<1>2. ASSUME NEW p \in Proposal, NEW n \in Node,
             StartProposal(p, n) \/ RegistryFails(p, n) \/ RefuseProposal(p, n)
      PROVE  UNCHANGED <<votes, campaigns>>
  BY <1>2 DEF StartProposal, RegistryFails, RefuseProposal, historyVars, leadershipVars
<1>3. ASSUME NEW p \in Proposal, ProposalStep(p)
      PROVE  votes \subseteq votes' /\ campaigns' = campaigns
  <2>1. CASE AbandonPrepare(p) \/ Decide(p) \/ LeaveUndecided(p)
    BY <2>1 DEF AbandonPrepare, Decide, LeaveUndecided, historyVars, leadershipVars
  <2>2. CASE ProposeToSelf(p)
    BY <2>2 DEF ProposeToSelf, CastVote, leadershipVars
  <2>3. ASSUME NEW m \in Node, DeliverPrepare(p, m) \/ TimeOut(p, m)
        PROVE  votes \subseteq votes' /\ campaigns' = campaigns
    BY <2>3 DEF DeliverPrepare, TimeOut, historyVars, leadershipVars
  <2>4. ASSUME NEW m \in Node, DeliverAccept(p, m)
        PROVE  votes \subseteq votes' /\ campaigns' = campaigns
    BY <2>4, <1>1 DEF DeliverAccept, leadershipVars
  <2>5. QED BY <1>3, <2>1, <2>2, <2>3, <2>4 DEF ProposalStep
<1>4. ASSUME NEW q \in late, LatePrepare(q) \/ LateAccept(q)
      PROVE  votes \subseteq votes' /\ campaigns' = campaigns
  BY <1>4, <1>1 DEF LatePrepare, LateAccept, historyVars, leadershipVars
<1>5. ASSUME NEW y \in Syncer, NEW n \in Node, NEW l \in Node, StartSync(y, n, l)
      PROVE  UNCHANGED <<votes, campaigns>>
  BY <1>5 DEF StartSync, historyVars, leadershipVars
<1>6. ASSUME NEW y \in Syncer, NEW m \in Node, Learn(y, m)
      PROVE  UNCHANGED <<votes, campaigns>>
  BY <1>6 DEF Learn, historyVars, leadershipVars
<1>7. ASSUME NEW y \in Syncer, WriteLearned(y) \/ StopSync(y)
      PROVE  UNCHANGED <<votes, campaigns>>
  BY <1>7 DEF WriteLearned, StopSync, historyVars, leadershipVars
<1>8. ASSUME NEW n \in Node, Elect(n) \/ Restart(n)
      PROVE  votes' = votes /\ campaigns \subseteq campaigns'
  BY <1>8 DEF Elect, Campaign, Win, StepDown, Restart, Forget, historyVars
<1>9. CASE UNCHANGED vars
  BY <1>9 DEF vars, historyVars, leadershipVars
<1>10. QED
  BY <1>2, <1>3, <1>4, <1>5, <1>6, <1>7, <1>8, <1>9 DEF Next

LEMMA OwnersStay ==
  ASSUME votes \subseteq votes', campaigns \subseteq campaigns',
         NEW s, NEW b, NEW c, ProposedByOwner(s, b, c)
  PROVE  ProposedByOwner(s, b, c)'
BY DEF ProposedByOwner, Voters

(* An acceptance of an owned command keeps every entry and vote owned.     *)
LEMMA AcceptOwned ==
  ASSUME TypeInv, EntriesHaveAnOwner, NEW m \in Node, NEW s \in Slot,
         NEW b \in Id, NEW c \in Command, Install(m, s, b, c),
         votes \subseteq votes', campaigns \subseteq campaigns',
         votes' \subseteq votes \cup {[node |-> m, slot |-> s, id |-> b, cmd |-> c]},
         ProposedByOwner(s, b, c)'
  PROVE  EntriesHaveAnOwner'
<1>1. ASSUME NEW n \in Node, NEW t \in Slot, slots'[n][t].cmd # Nil
      PROVE  ProposedByOwner(t, slots[n][t].accepted, slots[n][t].cmd)'
  <2>1. slots' = [slots EXCEPT ![m][s] =
                    [promised |-> b, accepted |-> b, cmd |-> c]]
    BY DEF Install
  <2>2. CASE n = m /\ t = s
    <3>1. slots'[n][t] = [promised |-> b, accepted |-> b, cmd |-> c]
      BY <2>1, <2>2 DEF TypeInv, TypeOK
    <3>2. QED
      BY <2>2, <3>1 DEF ProposedByOwner, Voters
  <2>3. CASE ~(n = m /\ t = s)
    <3>1. slots'[n][t] = slots[n][t]
      BY <2>1, <2>3 DEF TypeInv, TypeOK
    <3>2. QED
      BY <1>1, <3>1, OwnersStay DEF EntriesHaveAnOwner
  <2>4. QED BY <2>2, <2>3
<1>2. ASSUME NEW v \in votes'
      PROVE  ProposedByOwner(v.slot, v.id, v.cmd)'
  BY OwnersStay DEF EntriesHaveAnOwner
<1>3. QED BY <1>1, <1>2 DEF EntriesHaveAnOwner

(* Every step keeps commands owned.                                        *)
LEMMA OwnerInvStep == TypeInv /\ OwnerInv /\ [Next]_vars => OwnerInv'
<1> SUFFICES ASSUME TypeInv, OwnerInv, [Next]_vars PROVE OwnerInv'
  OBVIOUS
<1> USE DEF OwnerInv
<1>a. votes \subseteq votes' /\ campaigns \subseteq campaigns'
  BY HistoriesGrow
<1>b. ASSUME slots' = slots, votes' = votes
      PROVE  EntriesHaveAnOwner'
  BY <1>a, <1>b, OwnersStay DEF EntriesHaveAnOwner
<1>c. ASSUME late' \subseteq late
      PROVE  LateOwned'
  BY <1>a, <1>c, OwnersStay DEF LateOwned
<1>d. ASSUME syncs' = syncs
      PROVE  RepliesOwned'
  BY <1>a, <1>d, OwnersStay DEF RepliesOwned
<1>e. ASSUME prop' = prop
      PROVE  CallsOwnIds' /\ CallsVoted'
  BY <1>a, <1>e DEF CallsOwnIds, CallsVoted, Running, OwnVote
<1>f. ASSUME leaderProposalID' = leaderProposalID
      PROVE  LeadersOwnIds'
  BY <1>a, <1>f DEF LeadersOwnIds
<1>g. ASSUME NEW p \in Proposal, NEW r, prop' = [prop EXCEPT ![p] = r],
             r.pc \in {"prepare", "propose", "accept"} => <<r.node, r.id>> \in campaigns,
             r.pc = "accept" => OwnVote(r) \in votes'
      PROVE  CallsOwnIds' /\ CallsVoted'
  <2>1. \A q \in Proposal : prop'[q] = IF q = p THEN r ELSE prop[q]
    BY <1>g DEF TypeInv, TypeOK
  <2>2. CallsOwnIds'
    BY <1>a, <1>g, <2>1 DEF CallsOwnIds, Running
  <2>3. CallsVoted'
    BY <1>a, <1>g, <2>1 DEF CallsVoted, OwnVote
  <2>4. QED BY <2>2, <2>3
<1>h. \A n \in Node, s \in Slot, b \in Id :
        Prepare(n, s, b) =>
          \A m \in Node, t \in Slot : /\ slots'[m][t].cmd = slots[m][t].cmd
                                     /\ slots'[m][t].accepted = slots[m][t].accepted
  BY DEF Prepare, PaxosState, TypeInv, TypeOK
<1>i. ASSUME votes' = votes,
             \A m \in Node, t \in Slot : /\ slots'[m][t].cmd = slots[m][t].cmd
                                        /\ slots'[m][t].accepted = slots[m][t].accepted
      PROVE  EntriesHaveAnOwner'
  BY <1>a, <1>i, OwnersStay DEF EntriesHaveAnOwner
<1>j. ASSUME NEW m \in Node, NEW s \in Slot, NEW b \in Id, NEW c \in Command,
             Accept(m, s, b, c), ProposedByOwner(s, b, c)
      PROVE  EntriesHaveAnOwner'
  <2>1. ProposedByOwner(s, b, c)'
    BY <1>a, <1>j, OwnersStay
  <2>2. CASE Admits(slots[m][s], b)
    BY <1>a, <1>j, <2>1, <2>2, AcceptOwned DEF Accept, CastVote
  <2>3. CASE ~Admits(slots[m][s], b)
    BY <1>b, <1>j, <2>3 DEF Accept, acceptorVars
  <2>4. QED BY <2>2, <2>3
<1>1. ASSUME NEW p \in Proposal, NEW n \in Node, StartProposal(p, n)
      PROVE  OwnerInv'
  <2>1. PICK view \in Views : prop' = [prop EXCEPT ![p] =
          [@ EXCEPT !.pc = IF needsPreparePhase[n] THEN "prepare" ELSE "propose",
                    !.node = n, !.slot = NextSlot(n),
                    !.id = leaderProposalID[n], !.view = view,
                    !.waiting = IF needsPreparePhase[n] THEN view \ {n} ELSE {},
                    !.acks = {n}]]
    BY <1>1 DEF StartProposal
  <2> DEFINE r == [prop[p] EXCEPT
                     !.pc = IF needsPreparePhase[n] THEN "prepare" ELSE "propose",
                     !.node = n, !.slot = NextSlot(n),
                     !.id = leaderProposalID[n], !.view = view,
                     !.waiting = IF needsPreparePhase[n] THEN view \ {n} ELSE {},
                     !.acks = {n}]
  <2>2. <<n, leaderProposalID[n]>> \in campaigns
    BY <1>1 DEF StartProposal, TypeInv, LeadersHaveIds, LeadersOwnIds, Id
  <2>3. prop[p] \in ProposalState
    BY DEF TypeInv, TypeOK
  <2>4. r.node = n /\ r.id = leaderProposalID[n] /\ r.pc # "accept"
    BY <2>3 DEF ProposalState
  <2>5. CallsOwnIds' /\ CallsVoted'
    BY <1>g, <2>1, <2>2, <2>4
  <2>6. QED
    BY <1>1, <1>b, <1>c, <1>d, <1>f, <2>5
    DEF StartProposal, leadershipVars, acceptorVars, historyVars
<1>2. ASSUME NEW p \in Proposal, NEW n \in Node,
             RegistryFails(p, n) \/ RefuseProposal(p, n)
      PROVE  OwnerInv'
  BY <1>2, <1>b, <1>c, <1>d, <1>f, <1>g
  DEF RegistryFails, RefuseProposal, NotRunning, leadershipVars, acceptorVars,
      historyVars
<1>3. ASSUME NEW p \in Proposal,
             AbandonPrepare(p) \/ Decide(p) \/ LeaveUndecided(p)
      PROVE  OwnerInv'
  BY <1>3, <1>b, <1>c, <1>d, <1>f, <1>g
  DEF AbandonPrepare, Decide, LeaveUndecided, NotRunning, leadershipVars,
      acceptorVars, historyVars
<1>4. ASSUME NEW p \in Proposal, ProposeToSelf(p)
      PROVE  OwnerInv'
  <2> DEFINE r == prop[p]
             c == FinalCommand(r)
  <2>1. r \in ProposalState /\ r.node \in Node /\ r.slot \in Slot /\ r.id \in Id
    BY <1>4 DEF ProposeToSelf, TypeInv, CallsAreSet, Running, TypeOK
  <2>2. c \in Command
    BY <2>1 DEF FinalCommand, ProposalState
  <2>3. <<r.node, r.id>> \in campaigns
    BY <1>4 DEF ProposeToSelf, CallsOwnIds, Running
  <2>4. votes' = votes \cup {[node |-> r.node, slot |-> r.slot, id |-> r.id,
                              cmd |-> c]}
    BY <1>4 DEF ProposeToSelf, CastVote
  <2>5. PICK n \in Node, s \in Slot, b \in Id, d \in Command :
          n = r.node /\ s = r.slot /\ b = r.id /\ d = c
    BY <2>1, <2>2
  <2>6. EntriesHaveAnOwner'
    <3>1. ProposedByOwner(s, b, d)'
      BY <1>a, <2>3, <2>4, <2>5 DEF ProposedByOwner, Voters
    <3>2. QED
      BY <1>4, <1>a, <2>4, <2>5, <3>1, AcceptOwned DEF ProposeToSelf
  <2>7. /\ SecondPhase(r, c).node = r.node
        /\ SecondPhase(r, c).id = r.id
        /\ OwnVote(SecondPhase(r, c)) \in votes'
    BY <2>1, <2>4 DEF SecondPhase, OwnVote, ProposalState
  <2>8. CallsOwnIds' /\ CallsVoted'
    BY <1>4, <1>g, <2>3, <2>7 DEF ProposeToSelf
  <2>9. QED
    BY <1>4, <1>c, <1>d, <1>f, <2>6, <2>8 DEF ProposeToSelf, leadershipVars
<1>5. ASSUME NEW p \in Proposal, NEW m \in Node, DeliverPrepare(p, m)
      PROVE  OwnerInv'
  <2> DEFINE r == prop[p]
             st == slots[m][r.slot]
             higher == Grants(st, r.id) /\ st.accepted > r.topId
             new == [r EXCEPT !.waiting = @ \ {m},
                              !.acks = IF Grants(st, r.id) THEN @ \cup {m} ELSE @,
                              !.topId = IF higher THEN st.accepted ELSE @,
                              !.topCmd = IF higher THEN st.cmd ELSE @]
  <2>1. /\ r \in ProposalState /\ r.slot \in Slot /\ r.id \in Id
        /\ r.pc = "prepare" /\ <<r.node, r.id>> \in campaigns
    BY <1>5 DEF DeliverPrepare, TypeInv, CallsAreSet, CallsOwnIds, Running, TypeOK
  <2>2. new.node = r.node /\ new.id = r.id /\ new.pc = r.pc
    BY <2>1 DEF ProposalState
  <2>3. prop' = [prop EXCEPT ![p] = new]
    BY <1>5 DEF DeliverPrepare
  <2>4. CallsOwnIds' /\ CallsVoted'
    BY <1>g, <2>1, <2>2, <2>3
  <2>5. EntriesHaveAnOwner'
    BY <1>5, <1>h, <1>i, <2>1 DEF DeliverPrepare, historyVars
  <2>6. QED
    BY <1>5, <1>c, <1>d, <1>f, <2>4, <2>5
    DEF DeliverPrepare, leadershipVars, historyVars
<1>6. ASSUME NEW p \in Proposal, NEW m \in Node, DeliverAccept(p, m)
      PROVE  OwnerInv'
  <2> DEFINE r == prop[p]
             new == [r EXCEPT !.waiting = @ \ {m},
                              !.acks = IF Admits(slots[m][r.slot], r.id)
                                       THEN @ \cup {m} ELSE @]
  <2>1. /\ r \in ProposalState /\ r.node \in Node /\ r.slot \in Slot
        /\ r.id \in Id /\ r.cmd \in Command /\ r.pc = "accept"
        /\ <<r.node, r.id>> \in campaigns /\ OwnVote(r) \in votes
    BY <1>6 DEF DeliverAccept, TypeInv, CallsAreSet, CallsOwnIds, CallsVoted,
       Running, TypeOK, ProposalState
  <2>2. ProposedByOwner(r.slot, r.id, r.cmd)
    BY <2>1 DEF ProposedByOwner, Voters, OwnVote
  <2>3. EntriesHaveAnOwner'
    BY <1>6, <1>j, <2>1, <2>2 DEF DeliverAccept
  <2>4. /\ new.node = r.node /\ new.id = r.id /\ new.pc = r.pc
        /\ OwnVote(new) = OwnVote(r)
    BY <2>1 DEF ProposalState, OwnVote
  <2>5. prop' = [prop EXCEPT ![p] = new]
    BY <1>6 DEF DeliverAccept
  <2>6. CallsOwnIds' /\ CallsVoted'
    BY <1>a, <1>g, <2>1, <2>4, <2>5
  <2>7. QED
    BY <1>6, <1>c, <1>d, <1>f, <2>3, <2>6 DEF DeliverAccept, leadershipVars
<1>7. ASSUME NEW p \in Proposal, NEW m \in Node, TimeOut(p, m)
      PROVE  OwnerInv'
  <2> DEFINE r == prop[p]
             new == [r EXCEPT !.waiting = @ \ {m}]
  <2>1. /\ r \in ProposalState /\ <<r.node, r.id>> \in campaigns
        /\ r.pc \in {"prepare", "accept"}
        /\ r.pc = "accept" => r.node \in Node /\ OwnVote(r) \in votes
    BY <1>7
    DEF TimeOut, TypeInv, CallsAreSet, CallsOwnIds, CallsVoted, Running, TypeOK
  <2>2. /\ new.node = r.node /\ new.id = r.id /\ new.pc = r.pc
        /\ OwnVote(new) = OwnVote(r)
    BY <2>1 DEF ProposalState, OwnVote
  <2>3. prop' = [prop EXCEPT ![p] = new]
    BY <1>7 DEF TimeOut
  <2>4. CallsOwnIds' /\ CallsVoted'
    BY <1>a, <1>g, <2>1, <2>2, <2>3
  <2>5. LateOwned'
    <3>1. r.pc = "accept" => ProposedByOwner(r.slot, r.id, r.cmd)
      BY <2>1 DEF ProposedByOwner, Voters, OwnVote
    <3>2. RequestTo(r, m).type = "accept" =>
            ProposedByOwner(RequestTo(r, m).slot, RequestTo(r, m).id,
                            RequestTo(r, m).cmd)
      <4>1. CASE r.pc = "prepare"
        BY <4>1 DEF RequestTo
      <4>2. CASE r.pc # "prepare"
        <5>1. /\ RequestTo(r, m).slot = r.slot
              /\ RequestTo(r, m).id = r.id
              /\ RequestTo(r, m).cmd = r.cmd
          BY <4>2 DEF RequestTo
        <5>2. r.pc = "accept"
          BY <2>1, <4>2
        <5>3. QED BY <3>1, <5>1, <5>2
      <4>3. QED BY <4>1, <4>2
    <3>3. late' = late \cup {RequestTo(r, m)}
      BY <1>7 DEF TimeOut
    <3>4. QED BY <1>a, <3>2, <3>3, OwnersStay DEF LateOwned
  <2>6. QED
    BY <1>7, <1>b, <1>d, <1>f, <2>4, <2>5
    DEF TimeOut, leadershipVars, acceptorVars, historyVars
<1>8. ASSUME NEW q \in late, LatePrepare(q) \/ LateAccept(q)
      PROVE  OwnerInv'
  <2>1. q \in Request
    BY DEF TypeInv, TypeOK
  <2>2. CASE LatePrepare(q)
    <3>1. q.to \in Node /\ q.slot \in Slot /\ q.id \in Id
      BY <2>1 DEF Request
    <3>2. EntriesHaveAnOwner'
      BY <2>2, <3>1, <1>h, <1>i DEF LatePrepare, historyVars
    <3>3. QED
      BY <2>2, <3>2, <1>c, <1>d, <1>e, <1>f
      DEF LatePrepare, leadershipVars, historyVars
  <2>3. CASE LateAccept(q)
    <3>1. q.to \in Node /\ q.slot \in Slot /\ q.id \in Id /\ q.cmd \in Command
      BY <2>1, <2>3 DEF LateAccept, Request
    <3>2. Accept(q.to, q.slot, q.id, q.cmd) /\ ProposedByOwner(q.slot, q.id, q.cmd)
      BY <2>3 DEF LateAccept, LateOwned
    <3>3. EntriesHaveAnOwner'
      BY <3>1, <3>2, <1>j
    <3>4. QED
      BY <2>3, <3>3, <1>c, <1>d, <1>e, <1>f DEF LateAccept, leadershipVars
  <2>4. QED BY <1>8, <2>2, <2>3
<1>9. ASSUME NEW y \in Syncer, NEW n \in Node, NEW l \in Node, StartSync(y, n, l)
      PROVE  OwnerInv'
  <2>1. RepliesOwned'
    BY <1>9, <1>a, OwnersStay DEF StartSync, NoSync, RepliesOwned, TypeInv, TypeOK
  <2>2. QED
    BY <1>9, <1>b, <1>c, <1>e, <1>f, <2>1
    DEF StartSync, leadershipVars, acceptorVars, historyVars
<1>10. ASSUME NEW y \in Syncer, NEW m \in Node, Learn(y, m)
       PROVE  OwnerInv'
  <2> DEFINE g == syncs[y]
             new == [g EXCEPT !.id = slots[m][g.slot].accepted,
                              !.cmd = slots[m][g.slot].cmd]
  <2>1. /\ g \in SyncState /\ g.slot \in Slot /\ slots[m][g.slot].cmd # Nil
        /\ syncs' = [syncs EXCEPT ![y] = new]
    BY <1>10 DEF Learn, AskedSlot, TypeInv, TypeOK
  <2>2. ProposedByOwner(new.slot, new.id, new.cmd)
    BY <2>1 DEF EntriesHaveAnOwner, SyncState
  <2>3. RepliesOwned'
    BY <1>a, <2>1, <2>2, OwnersStay DEF RepliesOwned, TypeInv, TypeOK
  <2>4. QED
    BY <1>10, <1>b, <1>c, <1>e, <1>f, <2>3
    DEF Learn, leadershipVars, acceptorVars, historyVars
<1>11. ASSUME NEW y \in Syncer, WriteLearned(y)
       PROVE  OwnerInv'
  <2> DEFINE g == syncs[y]
             new == IF g.slot = g.target THEN NoSync
                    ELSE [g EXCEPT !.slot = @ + 1, !.id = 0, !.cmd = Nil]
  <2>1. /\ g \in SyncState /\ g.node \in Node /\ g.slot \in Slot /\ g.id \in Id
        /\ g.cmd \in Command
    BY <1>11 DEF WriteLearned, TypeInv, SyncsInRange, TypeOK, SyncState
  <2>2. PICK n \in Node, s \in Slot, b \in Id, c \in Command :
          n = g.node /\ s = g.slot /\ b = g.id /\ c = g.cmd
    BY <2>1
  <2>3. EntriesHaveAnOwner'
    <3>1. ProposedByOwner(s, b, c)
      BY <1>11, <2>2 DEF WriteLearned, RepliesOwned
    <3>2. ProposedByOwner(s, b, c)'
      BY <1>a, <3>1, OwnersStay
    <3>3. QED
      BY <1>11, <1>a, <2>2, <3>2, AcceptOwned DEF WriteLearned, historyVars
  <2>4. new.cmd = Nil /\ syncs' = [syncs EXCEPT ![y] = new]
    BY <1>11, <2>1 DEF WriteLearned, NoSync, SyncState
  <2>5. RepliesOwned'
    BY <1>a, <2>4, OwnersStay DEF RepliesOwned, TypeInv, TypeOK
  <2>6. QED
    BY <1>11, <1>c, <1>e, <1>f, <2>3, <2>5 DEF WriteLearned, leadershipVars
<1>12. ASSUME NEW y \in Syncer, StopSync(y)
       PROVE  OwnerInv'
  <2>1. RepliesOwned'
    BY <1>12, <1>a, OwnersStay DEF StopSync, NoSync, RepliesOwned, TypeInv, TypeOK
  <2>2. QED
    BY <1>12, <1>b, <1>c, <1>e, <1>f, <2>1
    DEF StopSync, leadershipVars, acceptorVars, historyVars
<1>13. ASSUME NEW n \in Node, Elect(n)
       PROVE  OwnerInv'
  <2>1. LeadersOwnIds'
    <3>1. CASE Campaign(n)
      BY <1>a, <3>1 DEF Campaign, LeadersOwnIds, TypeInv, TypeOK, LeadershipTypeOK
    <3>2. CASE Win(n) \/ StepDown(n)
      BY <1>f, <3>2 DEF Win, StepDown
    <3>3. QED BY <1>13, <3>1, <3>2 DEF Elect
  <2>2. QED
    BY <1>13, <1>b, <1>c, <1>d, <1>e, <2>1 DEF Elect, acceptorVars, historyVars
<1>14. ASSUME NEW n \in Node, Restart(n)
       PROVE  OwnerInv'
  <2>1. LeadersOwnIds'
    BY <1>14, <1>a
    DEF Restart, Forget, LeadersOwnIds, TypeInv, TypeOK, LeadershipTypeOK
  <2>2. CallsOwnIds' /\ CallsVoted'
    BY <1>14, <1>a
    DEF Restart, NotRunning, CallsOwnIds, CallsVoted, Running, OwnVote
  <2>3. RepliesOwned'
    BY <1>14, <1>a, OwnersStay DEF Restart, NoSync, RepliesOwned
  <2>4. EntriesHaveAnOwner'
    BY <1>14, <1>a, OwnersStay
    DEF Restart, ZeroState, EntriesHaveAnOwner, TypeInv, TypeOK, historyVars
  <2>5. QED
    BY <1>14, <1>c, <2>1, <2>2, <2>3, <2>4 DEF Restart
<1>15. CASE UNCHANGED vars
  BY <1>15, <1>b, <1>c, <1>d, <1>e, <1>f
  DEF vars, leadershipVars, acceptorVars, historyVars
<1>16. QED
  BY <1>1, <1>2, <1>3, <1>4, <1>5, <1>6, <1>7, <1>8, <1>9, <1>10, <1>11, <1>12,
     <1>13, <1>14, <1>15
  DEF Next, ProposalStep

(* Every command in a log, and every acceptance, comes from the owner of   *)
(* its proposal ID, which accepted it first.                               *)
THEOREM EntriesAreOwned == Spec => []EntriesHaveAnOwner
<1>1. Init => TypeInv /\ OwnerInv
  BY TypeInvInit, OwnerInvInit
<1>2. TypeInv /\ OwnerInv /\ [Next]_vars => (TypeInv /\ OwnerInv)'
  BY TypeInvStep, OwnerInvStep
<1>3. OwnerInv => EntriesHaveAnOwner
  BY DEF OwnerInv
<1>4. QED BY <1>1, <1>2, <1>3, PTL DEF Spec

-----------------------------------------------------------------------------
(* The top of the log.                                                     *)

(* Accept, ProposeCommand and SynchronizeLog install a command and raise   *)
(* highestSlotID by the same rule.                                         *)
LEMMA InstallTop ==
  ASSUME TypeInv, HighestSlotIsTop, NEW n \in Node, NEW s \in Slot,
         NEW b \in Id, NEW c \in Command, Install(n, s, b, c)
  PROVE  HighestSlotIsTop'
<1>1. c # Nil
  BY NilIsNew
<1>2. highestSlotID \in [Node -> 0..MaxSlot] /\ MaxSlot \in Nat
  BY ReplicationAssumption DEF ReplicationAssumption, TypeInv, TypeOK, Slot
<1>3. ASSUME NEW m \in Node, NEW t \in Slot
      PROVE  slots'[m][t].cmd = IF m = n /\ t = s THEN c ELSE slots[m][t].cmd
  BY DEF Install, TypeInv, TypeOK
<1>4. ASSUME NEW m \in Node
      PROVE  highestSlotID'[m] =
               IF m = n THEN Raised(highestSlotID[n], s) ELSE highestSlotID[m]
  BY DEF Install, TypeInv, TypeOK
<1>5. ASSUME NEW m \in Node, NEW t \in Slot, slots'[m][t].cmd # Nil
      PROVE  t <= highestSlotID'[m]
  BY <1>2, <1>3, <1>4, <1>5 DEF HighestSlotIsTop, Raised, Slot
<1>6. ASSUME NEW m \in Node, highestSlotID'[m] > 0
      PROVE  slots'[m][highestSlotID'[m]].cmd # Nil
  <2>1. highestSlotID'[m] \in Slot
    BY <1>2, <1>4, <1>6 DEF Raised, Slot
  <2>2. CASE m = n /\ highestSlotID'[m] = s
    BY <1>1, <1>3, <2>1, <2>2
  <2>3. CASE ~(m = n /\ highestSlotID'[m] = s)
    <3>1. highestSlotID'[m] = highestSlotID[m]
      BY <1>4, <2>3 DEF Raised
    <3>2. QED
      BY <1>3, <1>6, <2>1, <2>3, <3>1 DEF HighestSlotIsTop
  <2>4. QED BY <2>2, <2>3
<1>7. QED BY <1>5, <1>6 DEF HighestSlotIsTop

LEMMA AcceptTop ==
  ASSUME TypeInv, HighestSlotIsTop, NEW n \in Node, NEW s \in Slot,
         NEW b \in Id, NEW c \in Command, Accept(n, s, b, c)
  PROVE  HighestSlotIsTop'
<1>1. CASE Install(n, s, b, c)
  BY <1>1, InstallTop
<1>2. CASE UNCHANGED acceptorVars
  BY <1>2 DEF acceptorVars, HighestSlotIsTop
<1>3. QED BY <1>1, <1>2 DEF Accept

(* A promise changes no command.                                           *)
LEMMA PrepareTop ==
  ASSUME TypeInv, HighestSlotIsTop, NEW n \in Node, NEW s \in Slot,
         NEW b \in Id, Prepare(n, s, b), UNCHANGED highestSlotID
  PROVE  HighestSlotIsTop'
<1>1. ASSUME NEW m \in Node, NEW t \in Slot
      PROVE  slots'[m][t].cmd = slots[m][t].cmd
  BY DEF Prepare, TypeInv, TypeOK, PaxosState
<1>2. highestSlotID \in [Node -> {0} \cup Slot] /\ 0 \notin Slot
  BY DEF TypeInv, TypeOK, Slot
<1>3. ASSUME NEW m \in Node, highestSlotID[m] > 0
      PROVE  highestSlotID[m] \in Slot
  BY <1>2, <1>3
<1>4. QED BY <1>1, <1>3 DEF HighestSlotIsTop

LEMMA TopStep == TypeInv /\ HighestSlotIsTop /\ [Next]_vars => HighestSlotIsTop'
<1> SUFFICES ASSUME TypeInv, HighestSlotIsTop, [Next]_vars PROVE HighestSlotIsTop'
  OBVIOUS
<1>1. CASE UNCHANGED acceptorVars
  BY <1>1 DEF acceptorVars, HighestSlotIsTop
<1>2. ASSUME NEW p \in Proposal, NEW n \in Node,
             StartProposal(p, n) \/ RegistryFails(p, n) \/ RefuseProposal(p, n)
      PROVE  UNCHANGED acceptorVars
  BY <1>2 DEF StartProposal, RegistryFails, RefuseProposal
<1>3. ASSUME NEW p \in Proposal, AbandonPrepare(p) \/ Decide(p) \/ LeaveUndecided(p)
      PROVE  UNCHANGED acceptorVars
  BY <1>3 DEF AbandonPrepare, Decide, LeaveUndecided
<1>4. ASSUME NEW p \in Proposal, ProposeToSelf(p)
      PROVE  HighestSlotIsTop'
  <2>1. /\ prop[p].node \in Node /\ prop[p].slot \in Slot /\ prop[p].id \in Id
        /\ FinalCommand(prop[p]) \in Command
    BY <1>4 DEF ProposeToSelf, FinalCommand, TypeInv, TypeOK, CallsAreSet, Running,
       ProposalState
  <2>2. Install(prop[p].node, prop[p].slot, prop[p].id, FinalCommand(prop[p]))
    BY <1>4 DEF ProposeToSelf
  <2>3. QED BY <2>1, <2>2, InstallTop
<1>5. ASSUME NEW p \in Proposal, NEW m \in Node, DeliverPrepare(p, m)
      PROVE  HighestSlotIsTop'
  <2>1. prop[p].slot \in Slot /\ prop[p].id \in Id
    BY <1>5 DEF DeliverPrepare, TypeInv, CallsAreSet, Running
  <2>2. Prepare(m, prop[p].slot, prop[p].id) /\ UNCHANGED highestSlotID
    BY <1>5 DEF DeliverPrepare
  <2>3. QED BY <2>1, <2>2, PrepareTop
<1>6. ASSUME NEW p \in Proposal, NEW m \in Node, DeliverAccept(p, m)
      PROVE  HighestSlotIsTop'
  <2>1. prop[p].slot \in Slot /\ prop[p].id \in Id /\ prop[p].cmd \in Command
    BY <1>6 DEF DeliverAccept, TypeInv, TypeOK, CallsAreSet, Running, ProposalState
  <2>2. Accept(m, prop[p].slot, prop[p].id, prop[p].cmd)
    BY <1>6 DEF DeliverAccept
  <2>3. QED BY <2>1, <2>2, AcceptTop
<1>7. ASSUME NEW p \in Proposal, NEW m \in Node, TimeOut(p, m)
      PROVE  UNCHANGED acceptorVars
  BY <1>7 DEF TimeOut
<1>8. ASSUME NEW q \in late, LatePrepare(q)
      PROVE  HighestSlotIsTop'
  <2>1. q \in Request
    BY DEF TypeInv, TypeOK
  <2>2. q.to \in Node /\ q.slot \in Slot /\ q.id \in Id
    BY <2>1 DEF Request
  <2>3. Prepare(q.to, q.slot, q.id) /\ UNCHANGED highestSlotID
    BY <1>8 DEF LatePrepare
  <2>4. QED BY <2>2, <2>3, PrepareTop
<1>9. ASSUME NEW q \in late, LateAccept(q)
      PROVE  HighestSlotIsTop'
  <2>1. q \in Request
    BY DEF TypeInv, TypeOK
  <2>2. q.to \in Node /\ q.slot \in Slot /\ q.id \in Id /\ q.cmd \in Command
    BY <1>9, <2>1 DEF LateAccept, Request
  <2>3. Accept(q.to, q.slot, q.id, q.cmd)
    BY <1>9 DEF LateAccept
  <2>4. QED BY <2>2, <2>3, AcceptTop
<1>10. ASSUME NEW y \in Syncer,
              \/ \E n, l \in Node : StartSync(y, n, l)
              \/ \E m \in Node : Learn(y, m)
              \/ StopSync(y)
       PROVE  UNCHANGED acceptorVars
  BY <1>10 DEF StartSync, Learn, StopSync
<1>11. ASSUME NEW y \in Syncer, WriteLearned(y)
       PROVE  HighestSlotIsTop'
  <2> DEFINE g == syncs[y]
  <2>1. g.node \in Node /\ g.slot \in Slot /\ g.id \in Id /\ g.cmd \in Command
    BY <1>11 DEF WriteLearned, TypeInv, TypeOK, SyncsInRange, SyncState
  <2>2. Install(g.node, g.slot, g.id, g.cmd)
    BY <1>11 DEF WriteLearned
  <2>3. QED BY <2>1, <2>2, InstallTop
<1>12. ASSUME NEW n \in Node, Elect(n)
       PROVE  UNCHANGED acceptorVars
  BY <1>12 DEF Elect
<1>13. ASSUME NEW n \in Node, Restart(n)
       PROVE  HighestSlotIsTop'
  <2>1. ASSUME NEW m \in Node
        PROVE  /\ m # n => slots'[m] = slots[m] /\ highestSlotID'[m] = highestSlotID[m]
               /\ highestSlotID'[n] = 0 /\ slots'[n] = [s \in Slot |-> ZeroState]
    BY <1>13 DEF Restart, TypeInv, TypeOK
  <2>2. QED
    BY <2>1 DEF HighestSlotIsTop, ZeroState
<1>14. CASE UNCHANGED vars
  BY <1>1, <1>14 DEF vars
<1>15. QED
  BY <1>1, <1>2, <1>3, <1>4, <1>5, <1>6, <1>7, <1>8, <1>9, <1>10, <1>11, <1>12,
     <1>13, <1>14
  DEF Next, ProposalStep

(* highestSlotID of a node is the greatest slot in which it holds a        *)
(* command, for overlapping clients, late requests, synchronisation and    *)
(* restarts: Accept, ProposeCommand and SynchronizeLog may write in any    *)
(* order.  The invariant is inductive given the types.                     *)
THEOREM HighestIsTop == Spec => []HighestSlotIsTop
<1>1. Init => HighestSlotIsTop
  <2>1. SUFFICES ASSUME Init PROVE HighestSlotIsTop
    OBVIOUS
  <2>2. ASSUME NEW n \in Node
        PROVE  highestSlotID[n] = 0
    BY <2>1 DEF Init
  <2>3. ASSUME NEW n \in Node, NEW s \in Slot
        PROVE  slots[n][s].cmd = Nil
    BY <2>1 DEF Init, ZeroState
  <2>4. ASSUME NEW n \in Node
        PROVE  ~(highestSlotID[n] > 0)
    BY <2>2
  <2>5. QED
    BY <2>3, <2>4 DEF HighestSlotIsTop
<1>2. QED
  BY <1>1, TypeInvInit, TypeInvStep, TopStep, PTL DEF Spec

-----------------------------------------------------------------------------
(* What a reported decision means: a majority of the listed nodes has      *)
(* accepted it, whatever the lists, with overlapping requests too.         *)

(* A call in phase 2 waits for listed nodes, and has counted only nodes    *)
(* that did accept its command.                                            *)
CountsWell(r) ==
  r.pc = "accept" =>
    /\ r.waiting \subseteq r.view
    /\ r.acks \subseteq Voters(r.slot, r.id, r.cmd) \cap (r.view \cup {r.node})

CallsCount == \A p \in Proposal : CountsWell(prop[p])

QuorumInv == CallsCount /\ DecidedByQuorum

LEMMA QuorumInvInit == Init => QuorumInv
BY DEF Init, QuorumInv, CallsCount, CountsWell, DecidedByQuorum, NotRunning

(* Reaching the computed quorum is reaching more than half of the list.    *)
LEMMA QuorumIsMajority ==
  ASSUME NEW view \in SUBSET Node, NEW acks \in SUBSET Node,
         NEW S \in SUBSET Node, acks \subseteq S,
         Cardinality(acks) >= QuorumSize(view)
  PROVE  2 * Cardinality(S) > Cardinality(view)
<1>1. IsFiniteSet(view) /\ IsFiniteSet(acks) /\ IsFiniteSet(S)
  BY ReplicationAssumption, FS_Subset DEF ReplicationAssumption
<1>2. Cardinality(view) \in Nat /\ Cardinality(acks) \in Nat /\ Cardinality(S) \in Nat
  BY <1>1, FS_CardinalityType
<1>3. Cardinality(acks) <= Cardinality(S)
  BY <1>1, FS_Subset
<1>4. 2 * ((Cardinality(view) \div 2) + 1) > Cardinality(view)
  BY <1>2
<1>5. QED BY <1>2, <1>3, <1>4 DEF QuorumSize

(* More acceptances do not undo a majority.                                *)
LEMMA MajoritiesStay ==
  ASSUME votes \subseteq votes', NEW s, NEW b, NEW c, NEW W \in SUBSET Node,
         NEW k \in Nat, 2 * Cardinality(Voters(s, b, c) \cap W) > k
  PROVE  2 * Cardinality(Voters(s, b, c)' \cap W) > k
<1>1. Voters(s, b, c) \cap W \subseteq Voters(s, b, c)' \cap W
  BY DEF Voters
<1>2. IsFiniteSet(Voters(s, b, c)' \cap W)
  BY ReplicationAssumption, FS_Subset DEF ReplicationAssumption
<1>3. /\ Cardinality(Voters(s, b, c) \cap W) <= Cardinality(Voters(s, b, c)' \cap W)
      /\ Cardinality(Voters(s, b, c) \cap W) \in Nat
      /\ Cardinality(Voters(s, b, c)' \cap W) \in Nat
  BY <1>1, <1>2, FS_Subset, FS_CardinalityType
<1>4. QED BY <1>3

LEMMA QuorumInvStep == TypeInv /\ QuorumInv /\ [Next]_vars => QuorumInv'
<1> SUFFICES ASSUME TypeInv, QuorumInv, [Next]_vars PROVE QuorumInv'
  OBVIOUS
<1> USE DEF QuorumInv
<1>a. votes \subseteq votes'
  BY HistoriesGrow
<1>b. \A s, b, c : Voters(s, b, c) \subseteq Voters(s, b, c)'
  BY <1>a DEF Voters
<1>c. ASSUME decided' = decided
      PROVE  DecidedByQuorum'
  <2>1. ASSUME NEW d \in decided
        PROVE  2 * Cardinality(Voters(d.slot, d.id, d.cmd)' \cap (d.view \cup {d.node}))
                 > Cardinality(d.view)
    <3>1. /\ d.view \in SUBSET Node /\ d.node \in Node
          /\ d.view \cup {d.node} \in SUBSET Node
      BY DEF TypeInv, TypeOK, Decision
    <3>2. Cardinality(d.view) \in Nat
      BY <3>1, ReplicationAssumption, FS_Subset, FS_CardinalityType
      DEF ReplicationAssumption
    <3>3. 2 * Cardinality(Voters(d.slot, d.id, d.cmd) \cap (d.view \cup {d.node}))
            > Cardinality(d.view)
      BY DEF DecidedByQuorum
    <3>4. QED BY <1>a, <3>1, <3>2, <3>3, MajoritiesStay
  <2>2. QED BY <1>c, <2>1 DEF DecidedByQuorum
<1>d. ASSUME NEW r, CountsWell(r)
      PROVE  CountsWell(r)'
  BY <1>b, <1>d DEF CountsWell
<1>e. ASSUME prop' = prop
      PROVE  CallsCount'
  BY <1>d, <1>e DEF CallsCount
<1>f. ASSUME NEW p \in Proposal, NEW r, prop' = [prop EXCEPT ![p] = r],
             CountsWell(r)'
      PROVE  CallsCount'
  <2>1. \A q \in Proposal : prop'[q] = IF q = p THEN r ELSE prop[q]
    BY <1>f DEF TypeInv, TypeOK
  <2>2. ASSUME NEW q \in Proposal
        PROVE  CountsWell(prop[q])'
    <3>1. CASE q = p
      BY <1>f, <2>1, <3>1
    <3>2. CASE q # p
      BY <1>d, <2>1, <3>2 DEF CallsCount
    <3>3. QED BY <3>1, <3>2
  <2>3. QED BY <2>2 DEF CallsCount
<1>1. ASSUME NEW p \in Proposal, NEW n \in Node,
             StartProposal(p, n) \/ RegistryFails(p, n) \/ RefuseProposal(p, n)
      PROVE  QuorumInv'
  <2>1. PICK r : prop' = [prop EXCEPT ![p] = r] /\ r.pc # "accept"
    <3>1. CASE StartProposal(p, n)
      <4>1. PICK view \in Views : prop' = [prop EXCEPT ![p] =
              [@ EXCEPT !.pc = IF needsPreparePhase[n] THEN "prepare" ELSE "propose",
                        !.node = n, !.slot = NextSlot(n),
                        !.id = leaderProposalID[n], !.view = view,
                        !.waiting = IF needsPreparePhase[n] THEN view \ {n} ELSE {},
                        !.acks = {n}]]
        BY <3>1 DEF StartProposal
      <4> DEFINE new == [prop[p] EXCEPT
              !.pc = IF needsPreparePhase[n] THEN "prepare" ELSE "propose",
              !.node = n, !.slot = NextSlot(n),
              !.id = leaderProposalID[n], !.view = view,
              !.waiting = IF needsPreparePhase[n] THEN view \ {n} ELSE {},
              !.acks = {n}]
      <4>2. new.pc # "accept"
        BY DEF TypeInv, TypeOK, ProposalState
      <4>3. QED BY <4>1, <4>2
    <3>2. CASE RegistryFails(p, n) \/ RefuseProposal(p, n)
      BY <3>2 DEF RegistryFails, RefuseProposal, NotRunning
    <3>3. QED BY <1>1, <3>1, <3>2
  <2>2. CallsCount'
    BY <1>f, <2>1 DEF CountsWell
  <2>3. QED
    BY <1>1, <1>c, <2>2 DEF StartProposal, RegistryFails, RefuseProposal, historyVars
<1>2. ASSUME NEW p \in Proposal, AbandonPrepare(p) \/ LeaveUndecided(p)
      PROVE  QuorumInv'
  BY <1>2, <1>c, <1>f
  DEF AbandonPrepare, LeaveUndecided, NotRunning, CountsWell, historyVars
<1>3. ASSUME NEW p \in Proposal, Decide(p)
      PROVE  QuorumInv'
  <2> DEFINE r == prop[p]
  <2>1. /\ r \in ProposalState /\ r.node \in Node /\ r.view \in SUBSET Node
        /\ r.acks \in SUBSET Node /\ HasQuorum(r)
        /\ r.acks \subseteq Voters(r.slot, r.id, r.cmd) \cap (r.view \cup {r.node})
    BY <1>3 DEF Decide, TypeInv, TypeOK, CallsAreSet, Running, ProposalState,
       CallsCount, CountsWell
  <2>2. 2 * Cardinality(Voters(r.slot, r.id, r.cmd) \cap (r.view \cup {r.node}))
          > Cardinality(r.view)
    BY <2>1, QuorumIsMajority DEF HasQuorum, Voters
  <2>3. CallsCount'
    BY <1>3, <1>f DEF Decide, NotRunning, CountsWell
  <2>4. votes' = votes
    BY <1>3 DEF Decide
  <2>5. ASSUME NEW d \in decided'
        PROVE  2 * Cardinality(Voters(d.slot, d.id, d.cmd)' \cap (d.view \cup {d.node}))
                 > Cardinality(d.view)
    <3>1. CASE d \in decided
      BY <2>4, <3>1 DEF DecidedByQuorum, Voters
    <3>2. CASE d \notin decided
      <4>1. d = [prop |-> p, node |-> r.node, slot |-> r.slot, id |-> r.id,
                 cmd |-> r.cmd, view |-> r.view]
        BY <1>3, <3>2 DEF Decide
      <4>2. QED BY <2>2, <2>4, <4>1 DEF Voters
    <3>3. QED BY <3>1, <3>2
  <2>6. QED BY <2>3, <2>5 DEF DecidedByQuorum
<1>4. ASSUME NEW p \in Proposal, ProposeToSelf(p)
      PROVE  QuorumInv'
  <2>1. PICK r : r = SecondPhase(prop[p], FinalCommand(prop[p]))
    OBVIOUS
  <2>2. /\ prop[p] \in ProposalState /\ prop[p].node \in Node
        /\ prop[p].view \in SUBSET Node
    BY <1>4 DEF ProposeToSelf, TypeInv, TypeOK, CallsAreSet, Running, ProposalState
  <2>3. /\ r.node = prop[p].node /\ r.slot = prop[p].slot /\ r.id = prop[p].id
        /\ r.cmd = FinalCommand(prop[p]) /\ r.view = prop[p].view
        /\ r.waiting = r.view \ {r.node} /\ r.acks = {r.node}
    BY <2>1, <2>2 DEF SecondPhase, ProposalState
  <2>4. votes' = votes \cup {[node |-> r.node, slot |-> r.slot, id |-> r.id,
                              cmd |-> r.cmd]}
    BY <1>4, <2>3 DEF ProposeToSelf, CastVote
  <2>5. CountsWell(r)'
    BY <2>2, <2>3, <2>4 DEF CountsWell, Voters
  <2>6. CallsCount'
    BY <1>4, <1>f, <2>1, <2>5 DEF ProposeToSelf
  <2>7. QED BY <1>4, <1>c, <2>6 DEF ProposeToSelf
<1>5. ASSUME NEW p \in Proposal, NEW m \in Node, DeliverPrepare(p, m)
      PROVE  QuorumInv'
  <2> DEFINE st == slots[m][prop[p].slot]
             higher == Grants(st, prop[p].id) /\ st.accepted > prop[p].topId
             new == [prop[p] EXCEPT
                       !.waiting = @ \ {m},
                       !.acks = IF Grants(st, prop[p].id) THEN @ \cup {m} ELSE @,
                       !.topId = IF higher THEN st.accepted ELSE @,
                       !.topCmd = IF higher THEN st.cmd ELSE @]
  <2>4. prop[p] \in ProposalState /\ prop[p].pc = "prepare"
    BY <1>5 DEF DeliverPrepare, TypeInv, TypeOK
  <2>5. new.pc = "prepare"
    BY <2>4 DEF ProposalState
  <2>6. prop' = [prop EXCEPT ![p] = new]
    BY <1>5 DEF DeliverPrepare
  <2>1. PICK r : prop' = [prop EXCEPT ![p] = r] /\ r.pc = "prepare"
    BY <2>5, <2>6
  <2>2. CallsCount'
    BY <1>f, <2>1 DEF CountsWell
  <2>3. QED BY <1>5, <1>c, <2>2 DEF DeliverPrepare, historyVars
<1>6. ASSUME NEW p \in Proposal, NEW m \in Node, DeliverAccept(p, m)
      PROVE  QuorumInv'
  <2>1. PICK r : r = [prop[p] EXCEPT !.waiting = @ \ {m},
                        !.acks = IF Admits(slots[m][prop[p].slot], prop[p].id)
                                 THEN @ \cup {m} ELSE @]
    OBVIOUS
  <2>2. /\ prop[p] \in ProposalState /\ prop[p].pc = "accept"
        /\ m \in prop[p].waiting
    BY <1>6 DEF DeliverAccept, TypeInv, TypeOK
  <2>3. /\ r.node = prop[p].node /\ r.slot = prop[p].slot /\ r.id = prop[p].id
        /\ r.cmd = prop[p].cmd /\ r.view = prop[p].view /\ r.pc = "accept"
        /\ r.waiting = prop[p].waiting \ {m}
        /\ r.acks \subseteq prop[p].acks \cup {m}
    BY <2>1, <2>2 DEF ProposalState
  <2>4. m \in r.acks => m \in prop[p].acks \/ m \in Voters(r.slot, r.id, r.cmd)'
    <3>1. CASE Admits(slots[m][prop[p].slot], prop[p].id)
      BY <1>6, <2>3, <3>1 DEF DeliverAccept, Accept, CastVote, Voters
    <3>2. CASE ~Admits(slots[m][prop[p].slot], prop[p].id)
      BY <2>1, <2>2, <3>2 DEF ProposalState
    <3>3. QED BY <3>1, <3>2
  <2>5. CountsWell(prop[p])
    BY DEF CallsCount
  <2>6. CountsWell(r)'
    BY <1>b, <2>2, <2>3, <2>4, <2>5 DEF CountsWell
  <2>7. CallsCount'
    BY <1>6, <1>f, <2>1, <2>6 DEF DeliverAccept
  <2>8. QED BY <1>6, <1>c, <2>7 DEF DeliverAccept
<1>7. ASSUME NEW p \in Proposal, NEW m \in Node, TimeOut(p, m)
      PROVE  QuorumInv'
  <2>1. PICK r : r = [prop[p] EXCEPT !.waiting = @ \ {m}]
    OBVIOUS
  <2>2. CountsWell(prop[p]) /\ prop[p] \in ProposalState
    BY DEF CallsCount, TypeInv, TypeOK
  <2>3. CountsWell(r)
    BY <2>1, <2>2 DEF CountsWell, ProposalState
  <2>4. CallsCount'
    BY <1>7, <1>d, <1>f, <2>1, <2>3 DEF TimeOut
  <2>5. QED BY <1>7, <1>c, <2>4 DEF TimeOut, historyVars
<1>8. ASSUME NEW q \in late, LatePrepare(q) \/ LateAccept(q)
      PROVE  QuorumInv'
  BY <1>8, <1>c, <1>e DEF LatePrepare, LateAccept, historyVars
<1>9. ASSUME NEW y \in Syncer, NEW n \in Node, NEW l \in Node,
             StartSync(y, n, l) \/ Learn(y, l)
      PROVE  QuorumInv'
  BY <1>9, <1>c, <1>e DEF StartSync, Learn, historyVars
<1>10. ASSUME NEW y \in Syncer, WriteLearned(y) \/ StopSync(y)
       PROVE  QuorumInv'
  BY <1>10, <1>c, <1>e DEF WriteLearned, StopSync, historyVars
<1>11. ASSUME NEW n \in Node, Elect(n)
       PROVE  QuorumInv'
  BY <1>11, <1>c, <1>e DEF Elect, historyVars
<1>12. ASSUME NEW n \in Node, Restart(n)
       PROVE  QuorumInv'
  <2>1. ASSUME NEW p \in Proposal
        PROVE  CountsWell(prop[p])'
    <3>1. CASE Running(p) /\ prop[p].node = n
      BY <1>12, <3>1 DEF Restart, NotRunning, CountsWell
    <3>2. CASE ~(Running(p) /\ prop[p].node = n)
      <4>1. prop'[p] = prop[p]
        BY <1>12, <3>2 DEF Restart
      <4>2. QED BY <1>d, <4>1 DEF CallsCount
    <3>3. QED BY <3>1, <3>2
  <2>2. QED BY <1>12, <1>c, <2>1 DEF Restart, historyVars, CallsCount
<1>13. CASE UNCHANGED vars
  BY <1>13, <1>c, <1>e DEF vars, historyVars
<1>14. QED
  BY <1>1, <1>2, <1>3, <1>4, <1>5, <1>6, <1>7, <1>8, <1>9, <1>10, <1>11, <1>12,
     <1>13
  DEF Next, ProposalStep

(* Every decision reported to a client was accepted, under one ID, by more *)
(* than half of the nodes its proposer was told of, itself included.       *)
THEOREM DecisionsHaveQuorums == Spec => []DecidedByQuorum
<1>1. Init => TypeInv /\ QuorumInv
  BY TypeInvInit, QuorumInvInit
<1>2. TypeInv /\ QuorumInv /\ [Next]_vars => (TypeInv /\ QuorumInv)'
  BY TypeInvStep, QuorumInvStep
<1>3. QuorumInv => DecidedByQuorum
  BY DEF QuorumInv
<1>4. QED BY <1>1, <1>2, <1>3, PTL DEF Spec
=============================================================================
