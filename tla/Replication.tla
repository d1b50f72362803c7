------------------------------ MODULE Replication ------------------------------
(***************************************************************************)
(* The replicated log of paxos/internal: ProposeCommand (proposer.go), the *)
(* acceptor's Prepare, Accept and Learn (acceptor.go), SynchronizeLog      *)
(* (leader.go) and the fields of PaxosServer they share (server.go).       *)
(* Leadership comes from the abstract specification Leadership.            *)
(*                                                                         *)
(* Grain of atomicity.  A step is what a goroutine does between two waits  *)
(* on the network or on the registry.  The answer to an RPC only changes   *)
(* counters local to the caller, so a handler and the caller's reaction to *)
(* its answer are one step.  A caller that gives up (10 s timeout) leaves  *)
(* the request in "late": the handler may still run, at any later moment,  *)
(* and nobody reads its answer.  This also covers a lost request (it stays *)
(* in "late") and a lost answer (it runs right after the timeout).         *)
(***************************************************************************)
EXTENDS Leadership, FiniteSets

CONSTANTS
  Key, Value,      \* keys and values of the store
  Proposal,        \* the client requests, each one call of ProposeCommand
  CommandOf,       \* the command each request carries
  Views,           \* the sets of addresses the registry may answer (ListAll)
  SerialClients,   \* TRUE: a node is given one request at a time (its CLI);
                   \* FALSE: requests overlap (the gRPC Set and Delete)
  Syncer,          \* bound: the goroutines that run SynchronizeLog
  MaxSlot,         \* bound: the slots of the log
  MaxRestarts,     \* bound: how many times a node restarts
  Nil              \* Go's nil, and the absence of a key

(* CommandType UNKNOWN is never proposed and ApplyCommand ignores it.      *)
Command == [type : {"SET"}, key : Key, value : Value]
           \cup [type : {"DELETE"}, key : Key]

ASSUME ReplicationAssumption ==
  /\ IsFiniteSet(Node)
  /\ CommandOf \in [Proposal -> Command]
  /\ Views \subseteq SUBSET Node
  /\ SerialClients \in BOOLEAN
  /\ MaxSlot \in Nat
  /\ MaxRestarts \in Nat
  /\ Nil \notin Command \cup Node \cup Value

Slot == 1..MaxSlot

VARIABLES
  slots,             \* PaxosServer.slots; a missing entry is ZeroState
  kvStore,           \* PaxosServer.kvStore
  highestSlotID,     \* PaxosServer.highestSlotID
  needsPreparePhase, \* PaxosServer.needsPreparePhase
  prop,              \* the local variables of each call of ProposeCommand
  late,              \* requests whose caller has given up on the answer
  syncs,             \* the local variables of each SynchronizeLog goroutine
  restarts,          \* history: restarts so far
  votes,             \* history: every acceptance, by Accept or by a proposer
  decided            \* history: every proposal that returned true

acceptorVars == <<slots, kvStore, highestSlotID>>
historyVars == <<votes, decided>>
vars == <<leadershipVars, acceptorVars, needsPreparePhase, prop, late, syncs,
          restarts, historyVars>>

-----------------------------------------------------------------------------
(* PaxosState: the acceptor's state of one slot.                           *)
PaxosState == [promised : {0} \cup Id, accepted : {0} \cup Id,
               cmd : Command \cup {Nil}]
ZeroState == [promised |-> 0, accepted |-> 0, cmd |-> Nil]

(* One call of ProposeCommand.  pc is where it waits:                      *)
(*   "new"      not called yet                                             *)
(*   "prepare"  phase 1, for the answers of the acceptors in waiting       *)
(*   "propose"  phase 1 skipped, about to accept its own command           *)
(*   "accept"   phase 2, for the answers of the acceptors in waiting       *)
(*   "decided"  returned true;  "failed" returned false, or was killed     *)
(* acks are the acceptors counted by promisesReceived or acceptsReceived.  *)
ProposalState ==
  [pc : {"new", "prepare", "propose", "accept", "decided", "failed"},
   node : Node \cup {Nil}, slot : {0} \cup Slot, id : {0} \cup Id,
   cmd : Command, view : SUBSET Node, waiting : SUBSET Node,
   acks : SUBSET Node, topId : {0} \cup Id, topCmd : Command \cup {Nil}]

(* The call p before it starts and after it has returned: no locals.        *)
NotRunning(p, pc) ==
  [pc |-> pc, node |-> Nil, slot |-> 0, id |-> 0, cmd |-> CommandOf[p],
   view |-> {}, waiting |-> {}, acks |-> {}, topId |-> 0, topCmd |-> Nil]

Running(p) == prop[p].pc \in {"prepare", "propose", "accept"}

(* PrepareRequest and AcceptRequest.                                       *)
Request == [type : {"prepare"}, to : Node, slot : Slot, id : Id]
           \cup [type : {"accept"}, to : Node, slot : Slot, id : Id,
                 cmd : Command]

(* One SynchronizeLog: the slot it learns, its target, and the LearnResponse *)
(* it has received and not yet written (cmd = Nil: none).                    *)
SyncState == [node : Node \cup {Nil}, slot : {0} \cup Slot,
              target : {0} \cup Slot, id : {0} \cup Id,
              cmd : Command \cup {Nil}]
NoSync == [node |-> Nil, slot |-> 0, target |-> 0, id |-> 0, cmd |-> Nil]

Vote == [node : Node, slot : Slot, id : Id, cmd : Command]
Decision == [prop : Proposal, node : Node, slot : Slot, id : Id,
             cmd : Command, view : SUBSET Node]

TypeOK ==
  /\ LeadershipTypeOK
  /\ slots \in [Node -> [Slot -> PaxosState]]
  /\ kvStore \in [Node -> [Key -> Value \cup {Nil}]]
  /\ highestSlotID \in [Node -> {0} \cup Slot]
  /\ needsPreparePhase \in [Node -> BOOLEAN]
  /\ prop \in [Proposal -> ProposalState]
  /\ late \subseteq Request
  /\ syncs \in [Syncer -> SyncState]
  /\ restarts \in 0..MaxRestarts
  /\ votes \subseteq Vote
  /\ decided \subseteq Decision

Init ==
  /\ LeadershipInit
  /\ slots = [n \in Node |-> [s \in Slot |-> ZeroState]]
  /\ kvStore = [n \in Node |-> [k \in Key |-> Nil]]
  /\ highestSlotID = [n \in Node |-> 0]
  /\ needsPreparePhase = [n \in Node |-> TRUE]
  /\ prop = [p \in Proposal |-> NotRunning(p, "new")]
  /\ late = {}
  /\ syncs = [y \in Syncer |-> NoSync]
  /\ restarts = 0
  /\ votes = {}
  /\ decided = {}

-----------------------------------------------------------------------------
(* Helpers shared by the operations.                                       *)

(* ApplyCommand.                                                           *)
ApplyCommand(store, c) ==
  [store EXCEPT ![c.key] = IF c.type = "SET" THEN c.value ELSE Nil]

(* Broken variants of the operators that follow them, one per property,    *)
(* carry the suffix _Broken; no specification uses them.                   *)
QuorumSize_Broken(view) == Cardinality(view) \div 2

(* The quorum ProposeCommand computes from the registry's answer.  The     *)
(* list may be empty; the proposer then decides alone.                     *)
QuorumSize(view) == (Cardinality(view) \div 2) + 1

Raised_BrokenOverwrites(highest, s) == s
Raised_BrokenOneTooFar(highest, s) == IF s > highest THEN s + 1 ELSE highest
Raised_BrokenLags(highest, s) == IF s > highest + 1 THEN s ELSE highest

Raised(highest, s) == IF s > highest THEN s ELSE highest

(* Accept, ProposeCommand and SynchronizeLog end the same way: the slot    *)
(* takes the ID as promised and accepted, the command is applied to the    *)
(* store at once, and highestSlotID follows.                               *)
Install(n, s, b, c) ==
  /\ slots' = [slots EXCEPT ![n][s] =
                 [promised |-> b, accepted |-> b, cmd |-> c]]
  /\ kvStore' = [kvStore EXCEPT ![n] = ApplyCommand(@, c)]
  /\ highestSlotID' = [highestSlotID EXCEPT ![n] = Raised(@, s)]

CastVote(n, s, b, c) ==
  votes' = votes \cup {[node |-> n, slot |-> s, id |-> b, cmd |-> c]}

(* Prepare answers yes to an ID above its promise, Accept to an ID that is *)
(* not below it.                                                           *)
Grants(st, b) == b > st.promised
Admits(st, b) == b >= st.promised

(* Prepare at acceptor m.                                                  *)
Prepare(m, s, b) ==
  slots' = IF Grants(slots[m][s], b)
           THEN [slots EXCEPT ![m][s].promised = b] ELSE slots

(* Accept at acceptor m.                                                   *)
Accept(m, s, b, c) ==
  IF Admits(slots[m][s], b)
  THEN Install(m, s, b, c) /\ CastVote(m, s, b, c)
  ELSE UNCHANGED <<acceptorVars, votes>>

(* The command phase 2 proposes.                                           *)
FinalCommand(r) == IF r.topId > 0 /\ r.topCmd # Nil THEN r.topCmd ELSE r.cmd

-----------------------------------------------------------------------------
(* ProposeCommand                                                          *)

NextSlot_BrokenSkips(n) == highestSlotID[n] + 2
NextSlot_BrokenReuses(n) == IF highestSlotID[n] = 0 THEN 1 ELSE highestSlotID[n]

(* The slot a new proposal aims at: "o próximo slot livre".                *)
NextSlot(n) == highestSlotID[n] + 1

MayStart_Broken(n) == TRUE

(* A node with serial clients has at most one running call.                *)
MayStart(n) ==
  SerialClients => \A q \in Proposal : ~(Running(q) /\ prop[q].node = n)

(* First critical section, then ListAll.  The registry's answer does not   *)
(* depend on the node's state, so both are one step.                       *)
StartProposal(p, n) ==
  /\ prop[p].pc = "new"
  /\ isLeader[n]
  /\ MayStart(n)
  /\ NextSlot(n) \in Slot
  /\ \E view \in Views :
       prop' = [prop EXCEPT ![p] =
         [@ EXCEPT !.pc = IF needsPreparePhase[n] THEN "prepare" ELSE "propose",
                   !.node = n, !.slot = NextSlot(n),
                   !.id = leaderProposalID[n], !.view = view,
                   !.waiting = IF needsPreparePhase[n] THEN view \ {n} ELSE {},
                   !.acks = {n}]]
  /\ needsPreparePhase' = [needsPreparePhase EXCEPT ![n] = FALSE]
  /\ UNCHANGED <<leadershipVars, acceptorVars, late, syncs, restarts, historyVars>>

(* ListAll fails: the call returns false, needsPreparePhase stays cleared. *)
RegistryFails(p, n) ==
  /\ prop[p].pc = "new"
  /\ isLeader[n]
  /\ MayStart(n)
  /\ prop' = [prop EXCEPT ![p] = NotRunning(p, "failed")]
  /\ needsPreparePhase' = [needsPreparePhase EXCEPT ![n] = FALSE]
  /\ UNCHANGED <<leadershipVars, acceptorVars, late, syncs, restarts, historyVars>>

(* A node that is not the leader refuses the request.                      *)
RefuseProposal(p, n) ==
  /\ prop[p].pc = "new"
  /\ ~isLeader[n]
  /\ prop' = [prop EXCEPT ![p] = NotRunning(p, "failed")]
  /\ UNCHANGED <<leadershipVars, acceptorVars, needsPreparePhase, late, syncs,
                 restarts, historyVars>>

(* Acceptor m runs Prepare and its answer reaches the proposer, which      *)
(* keeps the command accepted under the highest ID.                        *)
DeliverPrepare(p, m) ==
  LET r == prop[p]
      st == slots[m][r.slot]
      higher == Grants(st, r.id) /\ st.accepted > r.topId
  IN /\ r.pc = "prepare"
     /\ m \in r.waiting
     /\ Prepare(m, r.slot, r.id)
     /\ prop' = [prop EXCEPT ![p] =
          [r EXCEPT !.waiting = @ \ {m},
                    !.acks = IF Grants(st, r.id) THEN @ \cup {m} ELSE @,
                    !.topId = IF higher THEN st.accepted ELSE @,
                    !.topCmd = IF higher THEN st.cmd ELSE @]]
     /\ UNCHANGED <<leadershipVars, kvStore, highestSlotID, needsPreparePhase,
                    late, syncs, restarts, historyVars>>

(* Acceptor m runs Accept and its answer reaches the proposer.  A refusal  *)
(* is only logged: the text the proposer searches it for is never sent.    *)
DeliverAccept(p, m) ==
  LET r == prop[p] IN
  /\ r.pc = "accept"
  /\ m \in r.waiting
  /\ Accept(m, r.slot, r.id, r.cmd)
  /\ prop' = [prop EXCEPT ![p] =
       [r EXCEPT !.waiting = @ \ {m},
                 !.acks = IF Admits(slots[m][r.slot], r.id)
                          THEN @ \cup {m} ELSE @]]
  /\ UNCHANGED <<leadershipVars, needsPreparePhase, late, syncs, restarts, decided>>

(* The RPC to m fails or times out; the request may still arrive.          *)
RequestTo(r, m) ==
  IF r.pc = "prepare"
  THEN [type |-> "prepare", to |-> m, slot |-> r.slot, id |-> r.id]
  ELSE [type |-> "accept", to |-> m, slot |-> r.slot, id |-> r.id, cmd |-> r.cmd]

TimeOut(p, m) ==
  /\ prop[p].pc \in {"prepare", "accept"}
  /\ m \in prop[p].waiting
  /\ prop' = [prop EXCEPT ![p].waiting = @ \ {m}]
  /\ late' = late \cup {RequestTo(prop[p], m)}
  /\ UNCHANGED <<leadershipVars, acceptorVars, needsPreparePhase, syncs,
                 restarts, historyVars>>

HasQuorum(r) == Cardinality(r.acks) >= QuorumSize(r.view)

(* Too few promises: the call returns false and the next one skips phase 1. *)
AbandonPrepare(p) ==
  /\ prop[p].pc = "prepare"
  /\ prop[p].waiting = {}
  /\ ~HasQuorum(prop[p])
  /\ prop' = [prop EXCEPT ![p] = NotRunning(p, "failed")]
  /\ UNCHANGED <<leadershipVars, acceptorVars, needsPreparePhase, late, syncs,
                 restarts, historyVars>>

SecondPhase_Broken(r, c) ==
  [r EXCEPT !.pc = "accept", !.waiting = r.view \ {r.node},
            !.acks = {r.node}, !.topId = 0, !.topCmd = Nil]

SecondPhase(r, c) ==
  [r EXCEPT !.pc = "accept", !.cmd = c, !.waiting = r.view \ {r.node},
            !.acks = {r.node}, !.topId = 0, !.topCmd = Nil]

(* Phase 2 begins: the leader accepts the final command itself, whatever   *)
(* it has promised meanwhile, applies it, and sends it to the others.      *)
ProposeToSelf(p) ==
  LET r == prop[p]
      c == FinalCommand(r)
  IN /\ \/ r.pc = "propose"
        \/ r.pc = "prepare" /\ r.waiting = {} /\ HasQuorum(r)
     /\ Install(r.node, r.slot, r.id, c)
     /\ CastVote(r.node, r.slot, r.id, c)
     /\ prop' = [prop EXCEPT ![p] = SecondPhase(r, c)]
     /\ UNCHANGED <<leadershipVars, needsPreparePhase, late, syncs, restarts, decided>>

(* A quorum accepted: the call returns true.                               *)
Decide(p) ==
  LET r == prop[p] IN
  /\ r.pc = "accept"
  /\ r.waiting = {}
  /\ HasQuorum(r)
  /\ prop' = [prop EXCEPT ![p] = NotRunning(p, "decided")]
  /\ decided' = decided \cup
          {[prop |-> p, node |-> r.node, slot |-> r.slot, id |-> r.id,
            cmd |-> r.cmd, view |-> r.view]}
  /\ UNCHANGED <<leadershipVars, acceptorVars, needsPreparePhase, late, syncs,
                 restarts, votes>>

TooFewAccepts_Broken(r) == r.waiting = {} /\ r.acks = {}
TooFewAccepts(r) == r.waiting = {} /\ ~HasQuorum(r)

(* Too few acceptances: the call returns false, what was accepted and      *)
(* applied stays.                                                          *)
LeaveUndecided(p) ==
  LET r == prop[p] IN
  /\ r.pc = "accept"
  /\ TooFewAccepts(r)
  /\ prop' = [prop EXCEPT ![p] = NotRunning(p, "failed")]
  /\ needsPreparePhase' = [needsPreparePhase EXCEPT ![r.node] = TRUE]
  /\ UNCHANGED <<leadershipVars, acceptorVars, late, syncs, restarts, historyVars>>

-----------------------------------------------------------------------------
(* Requests that run after their caller has given up.                      *)

LatePrepare(q) ==
  /\ q.type = "prepare"
  /\ Prepare(q.to, q.slot, q.id)
  /\ late' = late \ {q}
  /\ UNCHANGED <<leadershipVars, kvStore, highestSlotID, needsPreparePhase,
                 prop, syncs, restarts, historyVars>>

LateAccept(q) ==
  /\ q.type = "accept"
  /\ Accept(q.to, q.slot, q.id, q.cmd)
  /\ late' = late \ {q}
  /\ UNCHANGED <<leadershipVars, needsPreparePhase, prop, syncs, restarts, decided>>

-----------------------------------------------------------------------------
(* SynchronizeLog, started when a heartbeat or the promises of an election *)
(* show a longer log.  A heartbeat that reports an older highestSlotID of  *)
(* node l only makes the loop stop earlier, which StopSync allows.         *)

StartSync(y, n, l) ==
  /\ syncs[y] = NoSync
  /\ highestSlotID[l] > highestSlotID[n]
  /\ syncs' = [syncs EXCEPT ![y] =
       [@ EXCEPT !.node = n, !.slot = NextSlot(n), !.target = highestSlotID[l]]]
  /\ UNCHANGED <<leadershipVars, acceptorVars, needsPreparePhase, prop, late,
                 restarts, historyVars>>

(* What the learner asks for is the slot of its loop.                      *)
AskedSlot_Broken(g) == NextSlot(g.node)
AskedSlot(g) == g.slot

(* Learn at node m answers Decided with whatever it has accepted.          *)
Learn(y, m) ==
  LET g == syncs[y] IN
  /\ g.node # Nil
  /\ g.cmd = Nil
  /\ m # g.node
  /\ AskedSlot(g) \in Slot
  /\ slots[m][AskedSlot(g)].cmd # Nil
  /\ syncs' = [syncs EXCEPT ![y] =
       [@ EXCEPT !.id = slots[m][AskedSlot(g)].accepted,
                 !.cmd = slots[m][AskedSlot(g)].cmd]]
  /\ UNCHANGED <<leadershipVars, acceptorVars, needsPreparePhase, prop, late,
                 restarts, historyVars>>

(* The answer replaces the slot, whatever it holds by now.                 *)
WriteLearned(y) ==
  LET g == syncs[y] IN
  /\ g.cmd # Nil
  /\ Install(g.node, g.slot, g.id, g.cmd)
  /\ syncs' = [syncs EXCEPT ![y] =
       IF g.slot = g.target THEN NoSync
       ELSE [g EXCEPT !.slot = @ + 1, !.id = 0, !.cmd = Nil]]
  /\ UNCHANGED <<leadershipVars, needsPreparePhase, prop, late, restarts, historyVars>>

(* No node answered for the slot: the loop ends short of its target.       *)
StopSync(y) ==
  /\ syncs[y].node # Nil
  /\ syncs[y].cmd = Nil
  /\ syncs' = [syncs EXCEPT ![y] = NoSync]
  /\ UNCHANGED <<leadershipVars, acceptorVars, needsPreparePhase, prop, late,
                 restarts, historyVars>>

-----------------------------------------------------------------------------
(* The process of node n is killed and started again.  Nothing is on disk, *)
(* and the requests it was sent die with its connections.                  *)
Restart(n) ==
  /\ restarts < MaxRestarts
  /\ restarts' = restarts + 1
  /\ Forget(n)
  /\ slots' = [slots EXCEPT ![n] = [s \in Slot |-> ZeroState]]
  /\ kvStore' = [kvStore EXCEPT ![n] = [k \in Key |-> Nil]]
  /\ highestSlotID' = [highestSlotID EXCEPT ![n] = 0]
  /\ needsPreparePhase' = [needsPreparePhase EXCEPT ![n] = TRUE]
  /\ prop' = [p \in Proposal |->
                IF Running(p) /\ prop[p].node = n
                THEN NotRunning(p, "failed") ELSE prop[p]]
  /\ syncs' = [y \in Syncer |-> IF syncs[y].node = n THEN NoSync ELSE syncs[y]]
  /\ late' = {q \in late : q.to # n}
  /\ UNCHANGED historyVars

(* A step of the election, see module Leadership.                          *)
Elect(n) ==
  /\ Campaign(n) \/ Win(n) \/ StepDown(n)
  /\ UNCHANGED <<acceptorVars, needsPreparePhase, prop, late, syncs, restarts,
                 historyVars>>

ProposalStep(p) ==
  \/ AbandonPrepare(p)
  \/ ProposeToSelf(p)
  \/ Decide(p)
  \/ LeaveUndecided(p)
  \/ \E m \in Node : DeliverPrepare(p, m) \/ DeliverAccept(p, m) \/ TimeOut(p, m)

Next ==
  \/ \E p \in Proposal, n \in Node :
       StartProposal(p, n) \/ RegistryFails(p, n) \/ RefuseProposal(p, n)
  \/ \E p \in Proposal : ProposalStep(p)
  \/ \E q \in late : LatePrepare(q) \/ LateAccept(q)
  \/ \E y \in Syncer :
       \/ \E n, l \in Node : StartSync(y, n, l)
       \/ \E m \in Node : Learn(y, m)
       \/ WriteLearned(y)
       \/ StopSync(y)
  \/ \E n \in Node : Elect(n) \/ Restart(n)

Spec == Init /\ [][Next]_vars

(* Every wait of ProposeCommand ends: an RPC has a deadline of 10 s, and   *)
(* ListAll is taken to answer.                                             *)
Fairness == \A p \in Proposal : WF_vars(ProposalStep(p))

FairSpec == Spec /\ Fairness

-----------------------------------------------------------------------------
(* Properties of every run.                                                *)

Voters(s, b, c) ==
  {n \in Node : [node |-> n, slot |-> s, id |-> b, cmd |-> c] \in votes}

(* A client is told "decided" (ProposeCommand returns true) only when more *)
(* than half of the nodes the registry listed have accepted that very      *)
(* command, in that slot, under that ID.  The proposer counts even when it *)
(* is missing from the list.                                               *)
DecidedByQuorum ==
  \A d \in decided :
    2 * Cardinality(Voters(d.slot, d.id, d.cmd) \cap (d.view \cup {d.node}))
      > Cardinality(d.view)

(* highestSlotID, from which proposals and SynchronizeLog start, is the    *)
(* greatest slot with an accepted command, whichever of Accept,            *)
(* ProposeCommand and SynchronizeLog wrote last.                           *)
HighestSlotIsTop ==
  \A n \in Node :
    /\ \A s \in Slot : slots[n][s].cmd # Nil => s <= highestSlotID[n]
    /\ highestSlotID[n] > 0 => slots[n][highestSlotID[n]].cmd # Nil

(* Whatever command a node holds in a slot, by Accept or by                *)
(* SynchronizeLog, the owner of its proposal ID accepted first, in that    *)
(* slot and under that ID; so did every acceptance ever counted.           *)
ProposedByOwner(s, b, c) ==
  \E n \in Voters(s, b, c) : <<n, b>> \in campaigns

EntriesHaveAnOwner ==
  /\ \A n \in Node, s \in Slot :
       slots[n][s].cmd # Nil =>
         ProposedByOwner(s, slots[n][s].accepted, slots[n][s].cmd)
  /\ \A v \in votes : ProposedByOwner(v.slot, v.id, v.cmd)

-----------------------------------------------------------------------------
(* Properties of nodes with serial clients.                                *)

(* Two acceptances in one slot under one ID are for the same command,      *)
(* whatever elections, restarts, timeouts and late requests come between.  *)
OneCommandPerBallot ==
  \A v, w \in votes : v.slot = w.slot /\ v.id = w.id => v.cmd = w.cmd

(* The log implements BallotLog.                                           *)
Chosen == {[slot |-> d.slot, id |-> d.id, cmd |-> d.cmd] : d \in decided}

BL == INSTANCE BallotLog WITH Ballot <- Id, chosen <- Chosen

BallotLogSpec == BL!Spec

-----------------------------------------------------------------------------
(* Properties of serial clients under one stable leader (MaxId = 1).       *)

(* The logs of two nodes agree wherever both have a command, and a decided *)
(* command is what every node that has its slot holds there.               *)
Agreement ==
  /\ \A n, m \in Node, s \in Slot :
       slots[n][s].cmd # Nil /\ slots[m][s].cmd # Nil
         => slots[n][s].cmd = slots[m][s].cmd
  /\ \A d \in decided, n \in Node :
       slots[n][d.slot].cmd # Nil => slots[n][d.slot].cmd = d.cmd

(* The store of one that applies the commands of a log, slot by slot.      *)
ReplayTo(log, top) ==
  LET upTo[s \in {0} \cup Slot] ==
        IF s = 0 THEN [k \in Key |-> Nil]
        ELSE ApplyCommand(upTo[s - 1], log[s].cmd)
  IN upTo[top]

Replay(n) == ReplayTo(slots[n], highestSlotID[n])

(* The leader applies commands in slot order: its store is the replay of   *)
(* its log from slot 1 without a gap.                                      *)
LeaderStoreIsReplay ==
  \A n \in Node :
    isLeader[n] =>
      /\ \A s \in 1..highestSlotID[n] : slots[n][s].cmd # Nil
      /\ kvStore[n] = Replay(n)

(* No step but a restart takes a command out of a slot or replaces it.     *)
EntriesAreFinal ==
  [][\A n \in Node, s \in Slot :
       slots[n][s].cmd # Nil /\ restarts' = restarts
         => slots'[n][s].cmd = slots[n][s].cmd]_vars

-----------------------------------------------------------------------------
(* Liveness, under FairSpec.                                               *)

(* Every call of ProposeCommand returns.                                   *)
ProposalReturns == \A p \in Proposal : Running(p) ~> ~Running(p)

-----------------------------------------------------------------------------
(* What the program says of itself, and does not keep.                     *)

(* "DECIDIDO com sucesso": one slot is not decided twice.                  *)
SlotDecidedOnce ==
  \A d, e \in decided : d.slot = e.slot => d.cmd = e.cmd
=============================================================================
