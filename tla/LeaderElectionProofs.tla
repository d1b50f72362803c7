------------------------- MODULE LeaderElectionProofs -------------------------
(***************************************************************************)
(* Theorems about LeaderElection, for any nodes, bounds and lists of the   *)
(* registry: its types, that it implements Leadership, and the safety      *)
(* properties that hold whoever calls LeaderElection.                      *)
(***************************************************************************)
EXTENDS LeaderElection, FiniteSetTheorems, TLAPS

-----------------------------------------------------------------------------
(* The inductive invariant.                                                *)

(* A call that has drawn its ID knows it, and so does its node.            *)
CallHasId(n, r) ==
  r.pc \in {"voting", "won"} => r.id \in Id /\ leaderProposalID[n] \in Id

CallsHaveIds == \A n \in Node, k \in Caller : CallHasId(n, call[n][k])

LeadersHaveIds == \A n \in Node : isLeader[n] => leaderProposalID[n] \in Id

(* No node sends a heartbeat to itself.                                    *)
EndsDiffer == \A q \in beats \cup late : q.type = "beat" => q.to # q.from

TypeInv == TypeOK /\ CallsHaveIds /\ LeadersHaveIds /\ EndsDiffer

LEMMA TypeInvInit == Init => TypeInv
BY ElectionAssumption
DEF ElectionAssumption, Init, TypeInv, TypeOK, CallsHaveIds, CallHasId,
    LeadersHaveIds, EndsDiffer, CallState, NoCall, Beaters

-----------------------------------------------------------------------------
(* What the steps have in common.                                          *)

(* A step that gives one call new locals and leaves the IDs alone.         *)
LEMMA CallUpdate ==
  ASSUME TypeInv, NEW n \in Node, NEW k \in Caller, NEW r \in CallState,
         call' = [call EXCEPT ![n][k] = r], CallHasId(n, r),
         UNCHANGED leaderProposalID
  PROVE  call' \in [Node -> [Caller -> CallState]] /\ CallsHaveIds'
<1>1. call \in [Node -> [Caller -> CallState]]
  BY DEF TypeInv, TypeOK
<1>2. call' \in [Node -> [Caller -> CallState]]
  BY <1>1
<1>3. ASSUME NEW i \in Node, NEW j \in Caller
      PROVE  CallHasId(i, call[i][j])'
  <2>1. CASE i = n /\ j = k
    BY <1>1, <2>1 DEF CallHasId
  <2>2. CASE ~(i = n /\ j = k)
    <3>1. call'[i][j] = call[i][j]
      BY <1>1, <2>2
    <3>2. QED BY <3>1 DEF TypeInv, CallsHaveIds, CallHasId
  <2>3. QED BY <2>1, <2>2
<1>4. QED BY <1>2, <1>3 DEF CallsHaveIds

(* A step after which a call only stands elsewhere.                        *)
LEMMA CallMoves ==
  ASSUME TypeInv, NEW n \in Node, NEW k \in Caller,
         NEW pc \in {"idle", "delay", "check", "draw", "voting", "won"},
         pc = "won" => call[n][k].pc = "voting",
         pc = "voting" => call[n][k].pc = "voting",
         call' = [call EXCEPT ![n][k].pc = pc],
         UNCHANGED leaderProposalID
  PROVE  call' \in [Node -> [Caller -> CallState]] /\ CallsHaveIds'
<1> DEFINE r == [call[n][k] EXCEPT !.pc = pc]
<1>1. call[n][k] \in CallState /\ CallHasId(n, call[n][k])
  BY DEF TypeInv, TypeOK, CallsHaveIds
<1>2. r \in CallState /\ CallHasId(n, r)
  BY <1>1 DEF CallState, CallHasId
<1>3. call' = [call EXCEPT ![n][k] = r]
  BY DEF TypeInv, TypeOK
<1>4. QED BY <1>2, <1>3, CallUpdate

LEMMA CallEnds ==
  ASSUME TypeInv, NEW n \in Node, NEW k \in Caller,
         call' = [call EXCEPT ![n][k] = NoCall],
         UNCHANGED leaderProposalID
  PROVE  call' \in [Node -> [Caller -> CallState]] /\ CallsHaveIds'
<1>1. NoCall \in CallState /\ CallHasId(n, NoCall)
  BY DEF NoCall, CallState, CallHasId
<1>2. QED BY <1>1, CallUpdate

LEMMA PromiseType ==
  ASSUME TypeInv, NEW m \in Node, NEW b \in Id, ProposeLeader(m, b)
  PROVE  promised' \in [Node -> {0} \cup Id] /\ grants' \subseteq Node \X Id
BY DEF ProposeLeader, Promise, TypeInv, TypeOK

(* A request that is given up adds at most itself to late.                 *)
LEMMA GiveUpType ==
  ASSUME TypeInv, NEW q \in Request, q.type = "beat" => q.to # q.from,
         GiveUpOn(q)
  PROVE  /\ late' \subseteq Request
         /\ \A x \in late' : x.type = "beat" => x.to # x.from
BY DEF GiveUpOn, TypeInv, TypeOK, EndsDiffer

(* A heartbeat leaves the receiver well typed and not leading.             *)
LEMMA HeartbeatType ==
  ASSUME TypeInv, NEW q \in Beat, q.to # q.from, SendHeartbeat(q)
  PROVE  /\ isLeader' \in [Node -> BOOLEAN]
         /\ \A n \in Node : isLeader'[n] => isLeader[n]
         /\ isLeader' = [isLeader EXCEPT ![q.to] = FALSE] \/ UNCHANGED isLeader
         /\ currentLeader' \in [Node -> Node \cup {Nil}]
         /\ silent' \in [Node -> BOOLEAN]
         /\ promised' \in [Node -> {0} \cup Id]
         /\ wedged' \in [Node -> BOOLEAN]
         /\ UNCHANGED <<leaderProposalID, campaigns>>
<1>1. q.to \in Node /\ q.from \in Node /\ q.id \in Id /\ LeadsAfter(q) = FALSE
  BY DEF Beat, LeadsAfter
<1>2. CASE RefuseHeartbeat(q)
  BY <1>2 DEF RefuseHeartbeat, leadershipVars, followerVars, TypeInv, TypeOK
<1>3. CASE FollowHeartbeat(q)
  BY <1>1, <1>3 DEF FollowHeartbeat, Promise, TypeInv, TypeOK
<1>4. CASE RenewHeartbeat(q)
  BY <1>1, <1>4 DEF RenewHeartbeat, TypeInv, TypeOK
<1>5. QED BY <1>2, <1>3, <1>4 DEF SendHeartbeat

-----------------------------------------------------------------------------
(* The steps of one call of LeaderElection.                                *)
LEMMA ElectionStepType ==
  ASSUME TypeInv, NEW n \in Node, NEW k \in Caller, ElectionStep(n, k)
  PROVE  TypeInv'
<1>1. call[n][k] \in CallState /\ CallHasId(n, call[n][k])
  BY DEF TypeInv, TypeOK, CallsHaveIds
<1>2. CASE CheckLeader(n, k)
  <2>1. call' \in [Node -> [Caller -> CallState]] /\ CallsHaveIds'
    <3>1. CASE isLeader[n]
      BY <1>2, <3>1, CallMoves DEF CheckLeader, leadershipVars
    <3>2. CASE ~isLeader[n]
      BY <1>2, <3>2, CallMoves DEF CheckLeader, leadershipVars
    <3>3. QED BY <3>1, <3>2
  <2>2. QED
    BY <1>2, <2>1
    DEF CheckLeader, leadershipVars, followerVars, TypeInv, TypeOK,
        LeadersHaveIds, EndsDiffer
<1>3. CASE DrawId(n, k)
  <2>1. PICK b \in Id :
          /\ leaderProposalID' = [leaderProposalID EXCEPT ![n] = b]
          /\ campaigns' = campaigns \cup {<<n, b>>}
          /\ \/ \E view \in Views :
                  call' = [call EXCEPT ![n][k] =
                    [pc |-> "voting", id |-> b, view |-> view,
                     waiting |-> view \ {n}, promises |-> {}]]
             \/ call' = [call EXCEPT ![n][k] = NoCall]
    BY <1>3 DEF DrawId
  <2>2. PICK r \in CallState :
          call' = [call EXCEPT ![n][k] = r] /\ (r.pc = "idle" \/ r.id = b)
    <3>1. ASSUME NEW view \in Views
          PROVE  [pc |-> "voting", id |-> b, view |-> view,
                  waiting |-> view \ {n}, promises |-> {}] \in CallState
      <4>1. view \subseteq Node
        BY ElectionAssumption DEF ElectionAssumption
      <4>2. QED BY <4>1 DEF CallState
    <3>2. NoCall \in CallState /\ NoCall.pc = "idle"
      BY DEF NoCall, CallState
    <3>3. CASE \E view \in Views :
                 call' = [call EXCEPT ![n][k] =
                   [pc |-> "voting", id |-> b, view |-> view,
                    waiting |-> view \ {n}, promises |-> {}]]
      BY <3>1, <3>3
    <3>4. CASE call' = [call EXCEPT ![n][k] = NoCall]
      BY <3>2, <3>4
    <3>5. QED BY <2>1, <3>3, <3>4
  <2>3. leaderProposalID' \in [Node -> {0} \cup Id] /\ leaderProposalID'[n] = b
        /\ \A i \in Node : i # n => leaderProposalID'[i] = leaderProposalID[i]
    BY <2>1 DEF TypeInv, TypeOK
  <2>4. call' \in [Node -> [Caller -> CallState]]
    BY <2>2 DEF TypeInv, TypeOK
  <2>5. ASSUME NEW i \in Node, NEW j \in Caller
        PROVE  CallHasId(i, call[i][j])'
    <3>1. call[i][j] \in CallState /\ CallHasId(i, call[i][j])
      BY DEF TypeInv, TypeOK, CallsHaveIds
    <3>2. CASE i = n /\ j = k
      <4>1. call'[i][j] = r
        BY <2>2, <3>2 DEF TypeInv, TypeOK
      <4>2. r.pc \in {"voting", "won"} => r.id \in Id
        BY <2>2
      <4>3. QED BY <2>3, <3>2, <4>1, <4>2 DEF CallHasId
    <3>3. CASE ~(i = n /\ j = k)
      <4>1. call'[i][j] = call[i][j]
        BY <2>2, <3>3 DEF TypeInv, TypeOK
      <4>2. leaderProposalID[i] \in Id => leaderProposalID'[i] \in Id
        BY <2>3
      <4>3. QED BY <3>1, <4>1, <4>2 DEF CallHasId
    <3>4. QED BY <3>2, <3>3
  <2>6. LeadersHaveIds'
    BY <1>3, <2>3 DEF DrawId, TypeInv, LeadersHaveIds
  <2>7. QED
    BY <1>3, <2>1, <2>3, <2>4, <2>5, <2>6
    DEF DrawId, followerVars, TypeInv, TypeOK, CallsHaveIds, EndsDiffer
<1>4. CASE Lose(n, k)
  <2>1. call' \in [Node -> [Caller -> CallState]] /\ CallsHaveIds'
    BY <1>4, CallEnds DEF Lose
  <2>2. QED
    BY <1>4, <2>1
    DEF Lose, followerVars, TypeInv, TypeOK, LeadersHaveIds, EndsDiffer
<1>5. CASE Win(n, k)
  <2>1. call' \in [Node -> [Caller -> CallState]] /\ CallsHaveIds'
    BY <1>5, CallMoves DEF Win
  <2>2. call[n][k].id \in Id /\ leaderProposalID[n] \in Id
    BY <1>1, <1>5 DEF Win, CallHasId
  <2>3. promised' \in [Node -> {0} \cup Id]
    BY <1>5, <2>2 DEF Win, Promise, TypeInv, TypeOK
  <2>4. QED
    BY <1>5, <2>1, <2>2, <2>3
    DEF Win, TypeInv, TypeOK, LeadersHaveIds, EndsDiffer
<1>6. CASE StartBeating(n, k)
  <2>1. call' \in [Node -> [Caller -> CallState]] /\ CallsHaveIds'
    BY <1>6, CallEnds DEF StartBeating, leadershipVars
  <2>2. beaters' \in [Node -> Beaters]
    <3>1. PICK taken \in {0, 1} :
            /\ taken <= beaters[n].listening
            /\ beaters' = [beaters EXCEPT ![n] = Respawned(@, taken)]
      BY <1>6 DEF StartBeating
    <3>2. beaters[n] \in Beaters
      BY DEF TypeInv, TypeOK
    <3>3. Respawned(beaters[n], taken) \in Beaters
      BY <3>1, <3>2 DEF Respawned, Beaters
    <3>4. QED BY <3>1, <3>3 DEF TypeInv, TypeOK
  <2>3. QED
    BY <1>6, <2>1, <2>2
    DEF StartBeating, leadershipVars, followerVars, TypeInv, TypeOK,
        LeadersHaveIds, EndsDiffer
<1>7. ASSUME NEW m \in Node, DeliverProposeLeader(n, k, m)
      PROVE  TypeInv'
  <2> DEFINE r == [call[n][k] EXCEPT
                     !.waiting = @ \ {m},
                     !.promises = IF Grants(m, call[n][k].id)
                                  THEN @ \cup {m} ELSE @]
  <2>1. call[n][k].id \in Id
    BY <1>1, <1>7 DEF DeliverProposeLeader, CallHasId
  <2>2. promised' \in [Node -> {0} \cup Id] /\ grants' \subseteq Node \X Id
    BY <1>7, <2>1, PromiseType DEF DeliverProposeLeader
  <2>3. call' = [call EXCEPT ![n][k] = r]
    BY <1>7 DEF DeliverProposeLeader, TypeInv, TypeOK
  <2>4. r \in CallState /\ CallHasId(n, r)
    BY <1>1 DEF CallState, CallHasId
  <2>5. UNCHANGED leaderProposalID
    BY <1>7 DEF DeliverProposeLeader, leadershipVars
  <2>6. call' \in [Node -> [Caller -> CallState]] /\ CallsHaveIds'
    BY <2>3, <2>4, <2>5, CallUpdate
  <2>7. QED
    BY <1>7, <2>2, <2>6
    DEF DeliverProposeLeader, leadershipVars, followerVars, TypeInv, TypeOK,
        LeadersHaveIds, EndsDiffer
<1>8. ASSUME NEW m \in Node, TimeOut(n, k, m)
      PROVE  TypeInv'
  <2> DEFINE r == [call[n][k] EXCEPT !.waiting = @ \ {m}]
             q == [type |-> "propose", to |-> m, id |-> call[n][k].id]
  <2>1. call[n][k].id \in Id
    BY <1>1, <1>8 DEF TimeOut, CallHasId
  <2>2. q \in Request /\ q.type # "beat"
    BY <2>1 DEF Request
  <2>3. late' \subseteq Request /\ \A x \in late' : x.type = "beat" => x.to # x.from
    BY <1>8, <2>2, GiveUpType DEF TimeOut
  <2>4. call' = [call EXCEPT ![n][k] = r]
    BY <1>8 DEF TimeOut, TypeInv, TypeOK
  <2>5. r \in CallState /\ CallHasId(n, r)
    BY <1>1 DEF CallState, CallHasId
  <2>6. call' \in [Node -> [Caller -> CallState]] /\ CallsHaveIds'
    BY <1>8, <2>4, <2>5, CallUpdate DEF TimeOut, leadershipVars
  <2>7. QED
    BY <1>8, <2>3, <2>6
    DEF TimeOut, leadershipVars, followerVars, TypeInv, TypeOK,
        LeadersHaveIds, EndsDiffer
<1>9. QED
  BY <1>2, <1>3, <1>4, <1>5, <1>6, <1>7, <1>8 DEF ElectionStep

(* The steps of a node outside of LeaderElection.                          *)
LEMMA NodeStepType ==
  ASSUME TypeInv, NEW n \in Node,
         \/ MonitorTick(n)
         \/ DelayEnds(n)
         \/ RequestElection(n)
         \/ TryElectSelfAsLeader(n)
         \/ SendBeats(n)
         \/ BeaterStops(n)
         \/ FallSilent(n)
         \/ Restart(n)
  PROVE  TypeInv'
<1>1. CASE MonitorTick(n)
  <2>1. call' \in [Node -> [Caller -> CallState]] /\ CallsHaveIds'
    BY <1>1, CallMoves DEF MonitorTick, leadershipVars
  <2>2. QED
    BY <1>1, <2>1
    DEF MonitorTick, leadershipVars, followerVars, TypeInv, TypeOK,
        LeadersHaveIds, EndsDiffer
<1>2. CASE DelayEnds(n)
  <2>1. call' \in [Node -> [Caller -> CallState]] /\ CallsHaveIds'
    <3>1. CASE NoLeader(n)
      BY <1>2, <3>1, CallMoves DEF DelayEnds, leadershipVars
    <3>2. CASE ~NoLeader(n)
      BY <1>2, <3>2, CallMoves DEF DelayEnds, leadershipVars
    <3>3. QED BY <3>1, <3>2
  <2>2. QED
    BY <1>2, <2>1
    DEF DelayEnds, leadershipVars, followerVars, TypeInv, TypeOK,
        LeadersHaveIds, EndsDiffer
<1>3. CASE RequestElection(n)
  <2>1. call' \in [Node -> [Caller -> CallState]] /\ CallsHaveIds'
    BY <1>3, CallMoves DEF RequestElection, leadershipVars
  <2>2. QED
    BY <1>3, <2>1
    DEF RequestElection, leadershipVars, followerVars, TypeInv, TypeOK,
        LeadersHaveIds, EndsDiffer
<1>4. CASE TryElectSelfAsLeader(n)
  BY <1>4
  DEF TryElectSelfAsLeader, leadershipVars, followerVars, TypeInv, TypeOK,
      CallsHaveIds, CallHasId, LeadersHaveIds, EndsDiffer
<1>5. CASE SendBeats(n)
  <2>1. PICK view \in Views :
          beats' = beats \cup {[type |-> "beat", from |-> n, to |-> m,
                               id |-> leaderProposalID[n]] : m \in view \ {n}}
    BY <1>5 DEF SendBeats
  <2>2. view \subseteq Node
    BY ElectionAssumption DEF ElectionAssumption
  <2>3. leaderProposalID[n] \in Id
    BY <1>5 DEF SendBeats, TypeInv, LeadersHaveIds
  <2>4. beats' \subseteq Beat
    BY <2>1, <2>2, <2>3 DEF Beat, TypeInv, TypeOK
  <2>5. \A q \in beats' : q.type = "beat" => q.to # q.from
    BY <2>1 DEF TypeInv, EndsDiffer
  <2>6. QED
    BY <1>5, <2>4, <2>5
    DEF SendBeats, leadershipVars, followerVars, TypeInv, TypeOK,
        CallsHaveIds, CallHasId, LeadersHaveIds, EndsDiffer
<1>6. CASE BeaterStops(n)
  <2>1. PICK which \in {"listening", "deaf"} :
          /\ beaters[n][which] > 0
          /\ beaters' = [beaters EXCEPT ![n][which] = @ - 1]
    BY <1>6 DEF BeaterStops
  <2>2. beaters[n] \in Beaters
    BY DEF TypeInv, TypeOK
  <2>3. [beaters[n] EXCEPT ![which] = @ - 1] \in Beaters
    BY <2>1, <2>2 DEF Beaters
  <2>4. beaters' \in [Node -> Beaters]
    BY <2>1, <2>3 DEF TypeInv, TypeOK
  <2>5. QED
    BY <1>6, <2>4
    DEF BeaterStops, leadershipVars, followerVars, TypeInv, TypeOK,
        CallsHaveIds, CallHasId, LeadersHaveIds, EndsDiffer
<1>7. CASE FallSilent(n)
  BY <1>7
  DEF FallSilent, leadershipVars, TypeInv, TypeOK, CallsHaveIds, CallHasId,
      LeadersHaveIds, EndsDiffer
<1>8. CASE Restart(n)
  <2>1. restarts' \in 0..MaxRestarts
    BY <1>8, ElectionAssumption
    DEF Restart, ElectionAssumption, TypeInv, TypeOK
  <2>2. call' \in [Node -> [Caller -> CallState]]
    BY <1>8 DEF Restart, TypeInv, TypeOK, CallState, NoCall
  <2>3. beaters' \in [Node -> Beaters]
    BY <1>8 DEF Restart, TypeInv, TypeOK, Beaters
  <2>4. ASSUME NEW i \in Node, NEW k \in Caller
        PROVE  CallHasId(i, call[i][k])'
    <3>1. CASE i = n
      BY <1>8, <3>1 DEF Restart, TypeInv, TypeOK, CallHasId, NoCall
    <3>2. CASE i # n
      BY <1>8, <3>2
      DEF Restart, TypeInv, TypeOK, CallsHaveIds, CallHasId
    <3>3. QED BY <3>1, <3>2
  <2>5. LeadersHaveIds' /\ EndsDiffer'
    BY <1>8 DEF Restart, TypeInv, TypeOK, LeadersHaveIds, EndsDiffer
  <2>6. QED
    BY <1>8, <2>1, <2>2, <2>3, <2>4, <2>5
    DEF Restart, TypeInv, TypeOK, CallsHaveIds
<1>9. QED
  BY <1>1, <1>2, <1>3, <1>4, <1>5, <1>6, <1>7, <1>8

(* The steps of a request under way.                                       *)
LEMMA BeatStepType ==
  ASSUME TypeInv, NEW q \in beats, DeliverBeat(q) \/ TimeOutBeat(q)
  PROVE  TypeInv'
<1>1. q \in Beat /\ q \in Request /\ q.to # q.from
  BY DEF TypeInv, TypeOK, EndsDiffer, Beat, Request
<1>2. CASE DeliverBeat(q)
  <2>1. UNCHANGED leaderProposalID /\ \A n \in Node : isLeader'[n] => isLeader[n]
    BY <1>1, <1>2, HeartbeatType DEF DeliverBeat
  <2>2. CallsHaveIds' /\ LeadersHaveIds' /\ EndsDiffer'
    BY <1>2, <2>1
    DEF DeliverBeat, TypeInv, CallsHaveIds, CallHasId, LeadersHaveIds, EndsDiffer
  <2>3. TypeOK'
    BY <1>1, <1>2, HeartbeatType DEF DeliverBeat, TypeInv, TypeOK
  <2>4. QED BY <2>2, <2>3 DEF TypeInv
<1>3. CASE TimeOutBeat(q)
  <2>1. /\ late' \subseteq Request
        /\ \A x \in late' : x.type = "beat" => x.to # x.from
    BY <1>1, <1>3, GiveUpType DEF TimeOutBeat
  <2>2. QED
    BY <1>3, <2>1
    DEF TimeOutBeat, leadershipVars, followerVars, TypeInv, TypeOK,
        CallsHaveIds, CallHasId, LeadersHaveIds, EndsDiffer
<1>4. QED BY <1>2, <1>3

LEMMA LateStepType ==
  ASSUME TypeInv, NEW q \in late, LateBeat(q) \/ LateProposeLeader(q)
  PROVE  TypeInv'
<1>1. q \in Request
  BY DEF TypeInv, TypeOK
<1>2. CASE LateBeat(q)
  <2>1. q \in Beat /\ q.to # q.from
    BY <1>1, <1>2 DEF LateBeat, Request, Beat, TypeInv, EndsDiffer
  <2>2. UNCHANGED leaderProposalID /\ \A n \in Node : isLeader'[n] => isLeader[n]
    BY <1>2, <2>1, HeartbeatType DEF LateBeat
  <2>3. CallsHaveIds' /\ LeadersHaveIds' /\ EndsDiffer'
    BY <1>2, <2>2
    DEF LateBeat, TypeInv, CallsHaveIds, CallHasId, LeadersHaveIds, EndsDiffer
  <2>4. TypeOK'
    BY <1>2, <2>1, HeartbeatType DEF LateBeat, TypeInv, TypeOK
  <2>5. QED BY <2>3, <2>4 DEF TypeInv
<1>3. CASE LateProposeLeader(q)
  <2>1. q.to \in Node /\ q.id \in Id
    BY <1>1 DEF Request, Beat
  <2>2. promised' \in [Node -> {0} \cup Id] /\ grants' \subseteq Node \X Id
    BY <1>3, <2>1, PromiseType DEF LateProposeLeader
  <2>3. QED
    BY <1>3, <2>2
    DEF LateProposeLeader, leadershipVars, followerVars, TypeInv, TypeOK,
        CallsHaveIds, CallHasId, LeadersHaveIds, EndsDiffer
<1>4. QED BY <1>2, <1>3

LEMMA TypeInvStep == TypeInv /\ [Next]_vars => TypeInv'
<1> SUFFICES ASSUME TypeInv, [Next]_vars PROVE TypeInv'
  OBVIOUS
<1>1. CASE Next
  BY <1>1, ElectionStepType, NodeStepType, BeatStepType, LateStepType DEF Next
<1>2. CASE UNCHANGED vars
  BY <1>2
  DEF vars, leadershipVars, followerVars, TypeInv, TypeOK, CallsHaveIds,
      CallHasId, LeadersHaveIds, EndsDiffer
<1>3. QED BY <1>1, <1>2

LEMMA TypeInvHolds == Spec => []TypeInv
BY TypeInvInit, TypeInvStep, PTL DEF Spec

(* Every field, call and request of the election keeps its type: no        *)
(* heartbeat carries the zero ID of a node that never ran for leader, and  *)
(* the counts of heartbeat goroutines never go below zero.                 *)
THEOREM ElectionTypeCorrect == Spec => []TypeOK
<1>1. TypeInv => TypeOK
  BY DEF TypeInv
<1>2. QED BY <1>1, TypeInvHolds, PTL

-----------------------------------------------------------------------------
(* The election is what the log takes it to be: every step is one of       *)
(* Leadership, or one the log does not see.                                *)

LEMMA ElectionStepRefines ==
  ASSUME TypeInv, NEW n \in Node, NEW k \in Caller, ElectionStep(n, k)
  PROVE  Abstract!LeadershipNext \/ UNCHANGED leadershipVars
<1>1. CASE CheckLeader(n, k)
  BY <1>1 DEF CheckLeader
<1>2. CASE DrawId(n, k)
  <2>1. Abstract!Campaign(n)
    BY <1>2 DEF DrawId, Fresh, Id, Abstract!Campaign, Abstract!Fresh, Abstract!Id
  <2>2. QED BY <2>1 DEF Abstract!LeadershipNext
<1>3. CASE Lose(n, k)
  <2>1. Abstract!StepDown(n)
    BY <1>3 DEF Lose, Abstract!StepDown
  <2>2. QED BY <2>1 DEF Abstract!LeadershipNext
<1>4. CASE Win(n, k)
  <2>1. leaderProposalID[n] \in Id
    BY <1>4 DEF Win, TypeInv, CallsHaveIds, CallHasId
  <2>2. leaderProposalID[n] # 0
    BY <2>1 DEF Id
  <2>3. Abstract!Win(n)
    BY <1>4, <2>2 DEF Win, Abstract!Win
  <2>4. QED BY <2>3 DEF Abstract!LeadershipNext
<1>5. CASE StartBeating(n, k)
  BY <1>5 DEF StartBeating
<1>6. CASE \E m \in Node : DeliverProposeLeader(n, k, m) \/ TimeOut(n, k, m)
  BY <1>6 DEF DeliverProposeLeader, TimeOut
<1>7. QED BY <1>1, <1>2, <1>3, <1>4, <1>5, <1>6 DEF ElectionStep

LEMMA NodeStepRefines ==
  ASSUME NEW n \in Node,
         \/ MonitorTick(n)
         \/ DelayEnds(n)
         \/ RequestElection(n)
         \/ TryElectSelfAsLeader(n)
         \/ SendBeats(n)
         \/ BeaterStops(n)
         \/ FallSilent(n)
         \/ Restart(n)
  PROVE  Abstract!LeadershipNext \/ UNCHANGED leadershipVars
<1>1. CASE Restart(n)
  <2>1. Abstract!Forget(n)
    BY <1>1 DEF Restart, Abstract!Forget
  <2>2. QED BY <2>1 DEF Abstract!LeadershipNext
<1>2. CASE ~Restart(n)
  BY <1>2
  DEF MonitorTick, DelayEnds, RequestElection, TryElectSelfAsLeader, SendBeats,
      BeaterStops, FallSilent
<1>3. QED BY <1>1, <1>2

(* A heartbeat demotes its receiver, or the log does not see it.           *)
LEMMA HeartbeatRefines ==
  ASSUME TypeInv, NEW q \in Beat, q.to # q.from, SendHeartbeat(q)
  PROVE  Abstract!LeadershipNext \/ UNCHANGED leadershipVars
<1>1. q.to \in Node
  BY DEF Beat
<1>2. UNCHANGED <<leaderProposalID, campaigns>>
  BY HeartbeatType
<1>3. CASE isLeader' = [isLeader EXCEPT ![q.to] = FALSE]
  <2>1. Abstract!StepDown(q.to)
    BY <1>2, <1>3 DEF Abstract!StepDown
  <2>2. QED BY <1>1, <2>1 DEF Abstract!LeadershipNext
<1>4. CASE UNCHANGED isLeader
  BY <1>2, <1>4 DEF leadershipVars
<1>5. QED BY <1>3, <1>4, HeartbeatType

(* Elections, heartbeats, failed elections and restarts, in any order and  *)
(* with any number of calls under way, do to isLeader and                  *)
(* leaderProposalID only what the replication layer was checked against.   *)
THEOREM ElectionImplementsLeadership == Spec => LeadershipSpec
<1>1. Init => Abstract!LeadershipInit
  BY DEF Init, Abstract!LeadershipInit
<1>2. TypeInv /\ [Next]_vars => [Abstract!LeadershipNext]_Abstract!leadershipVars
  <2> SUFFICES ASSUME TypeInv, [Next]_vars
               PROVE  Abstract!LeadershipNext \/ UNCHANGED leadershipVars
    BY DEF leadershipVars, Abstract!leadershipVars
  <2>1. ASSUME NEW n \in Node, NEW k \in Caller, ElectionStep(n, k)
        PROVE  Abstract!LeadershipNext \/ UNCHANGED leadershipVars
    BY <2>1, ElectionStepRefines
  <2>2. ASSUME NEW q \in beats, DeliverBeat(q) \/ TimeOutBeat(q)
        PROVE  Abstract!LeadershipNext \/ UNCHANGED leadershipVars
    <3>1. q \in Beat /\ q.to # q.from
      BY DEF TypeInv, TypeOK, EndsDiffer, Beat
    <3>2. QED
      BY <2>2, <3>1, HeartbeatRefines DEF DeliverBeat, TimeOutBeat
  <2>3. ASSUME NEW q \in late, LateBeat(q) \/ LateProposeLeader(q)
        PROVE  Abstract!LeadershipNext \/ UNCHANGED leadershipVars
    <3>1. q \in Request /\ (q.type = "beat" => q.to # q.from)
      BY DEF TypeInv, TypeOK, EndsDiffer
    <3>2. CASE LateBeat(q)
      <4>1. q \in Beat /\ q.to # q.from /\ SendHeartbeat(q)
        BY <3>1, <3>2 DEF LateBeat, Request, Beat
      <4>2. QED BY <4>1, HeartbeatRefines
    <3>3. CASE LateProposeLeader(q)
      BY <3>3 DEF LateProposeLeader
    <3>4. QED BY <2>3, <3>2, <3>3
  <2>4. CASE UNCHANGED vars
    BY <2>4 DEF vars
  <2>5. QED BY <2>1, <2>2, <2>3, <2>4, NodeStepRefines DEF Next
<1>3. QED
  BY <1>1, <1>2, TypeInvHolds, PTL
  DEF Spec, LeadershipSpec, Abstract!LeadershipSpec

-----------------------------------------------------------------------------
(* Safety.                                                                 *)

-----------------------------------------------------------------------------
(* The inductive invariant.                                                *)

(* Node n won, or could have won, an election.                             *)
Elected(n) == \E b \in Id : <<n, b>> \in campaigns /\ HasMandate(n, b)

(* A call under way asks other nodes of a list the registry gave, under an *)
(* ID its node drew, and counts the promises they gave.                    *)
CallCounts(n, r) ==
  r.pc = "voting" =>
    /\ r.view \in Views
    /\ r.waiting \subseteq r.view \ {n}
    /\ r.promises \subseteq r.view \ {n}
    /\ <<n, r.id>> \in campaigns
    /\ \A m \in r.promises : <<m, r.id>> \in grants

CallsCount == \A n \in Node, k \in Caller : CallCounts(n, call[n][k])

LeadersElected == \A n \in Node : isLeader[n] => Elected(n)

SendersElected ==
  \A q \in beats \cup late : q.type = "beat" => Elected(q.from)

FollowedElected ==
  \A n \in Node : currentLeader[n] # Nil => Elected(currentLeader[n])

ElectedInv == LeadersElected /\ SendersElected /\ FollowedElected

SafetyInv ==
  TypeInv /\ CallsCount /\ ElectedInv /\ LeaderNamesItself /\ LeaderBeats

LEMMA SafetyInvInit == Init => SafetyInv
<1> SUFFICES ASSUME Init PROVE SafetyInv
  OBVIOUS
<1>1. TypeInv
  BY TypeInvInit
<1>2. CallsCount
  BY DEF Init, CallsCount, CallCounts, NoCall
<1>3. ElectedInv
  BY DEF Init, ElectedInv, LeadersElected, SendersElected, FollowedElected
<1>4. LeaderNamesItself /\ LeaderBeats
  BY DEF Init, LeaderNamesItself, LeaderBeats
<1>5. QED BY <1>1, <1>2, <1>3, <1>4 DEF SafetyInv

-----------------------------------------------------------------------------
(* Elections are not undone: the histories only grow.                      *)

LEMMA HistoryGrows ==
  ASSUME [Next]_vars
  PROVE  campaigns \subseteq campaigns' /\ grants \subseteq grants'
<1>1. ASSUME NEW m, NEW b, ProposeLeader(m, b)
      PROVE  grants \subseteq grants'
  BY <1>1 DEF ProposeLeader
<1>2. ASSUME NEW q, SendHeartbeat(q)
      PROVE  UNCHANGED campaigns
  BY <1>2
  DEF SendHeartbeat, RefuseHeartbeat, FollowHeartbeat, RenewHeartbeat,
      leadershipVars
<1>3. ASSUME NEW n \in Node, NEW k \in Caller, ElectionStep(n, k)
      PROVE  campaigns \subseteq campaigns' /\ grants \subseteq grants'
  <2>1. CASE \E m \in Node : DeliverProposeLeader(n, k, m)
    BY <1>1, <2>1 DEF DeliverProposeLeader, leadershipVars
  <2>2. CASE CheckLeader(n, k) \/ StartBeating(n, k) \/ \E m \in Node : TimeOut(n, k, m)
    BY <2>2 DEF CheckLeader, StartBeating, TimeOut, leadershipVars
  <2>3. CASE DrawId(n, k)
    BY <2>3 DEF DrawId
  <2>4. CASE Lose(n, k) \/ Win(n, k)
    BY <2>4 DEF Lose, Win
  <2>5. QED BY <1>3, <2>1, <2>2, <2>3, <2>4 DEF ElectionStep
<1>4. CASE \E n \in Node : \/ MonitorTick(n)
                           \/ DelayEnds(n)
                           \/ RequestElection(n)
                           \/ TryElectSelfAsLeader(n)
                           \/ SendBeats(n)
                           \/ BeaterStops(n)
                           \/ FallSilent(n)
                           \/ Restart(n)
  BY <1>4
  DEF MonitorTick, DelayEnds, RequestElection, TryElectSelfAsLeader, SendBeats,
      BeaterStops, FallSilent, Restart, leadershipVars
<1>5. CASE \E q \in beats : DeliverBeat(q) \/ TimeOutBeat(q)
  BY <1>2, <1>5 DEF DeliverBeat, TimeOutBeat, leadershipVars
<1>6. CASE \E q \in late : LateBeat(q) \/ LateProposeLeader(q)
  BY <1>1, <1>2, <1>6 DEF LateBeat, LateProposeLeader, leadershipVars
<1>7. CASE UNCHANGED vars
  BY <1>7 DEF vars, leadershipVars
<1>8. QED BY <1>3, <1>4, <1>5, <1>6, <1>7 DEF Next

LEMMA ViewsAreFinite == \A view \in Views : view \subseteq Node /\ IsFiniteSet(view)
BY ElectionAssumption, FS_Subset DEF ElectionAssumption

LEMMA MandateLasts ==
  ASSUME [Next]_vars, NEW n, NEW b, HasMandate(n, b)
  PROVE  HasMandate(n, b)'
<1> DEFINE V(view) == {m \in view \ {n} : <<m, b>> \in grants}
           W(view) == {m \in view \ {n} : <<m, b>> \in grants'}
<1>1. PICK view \in Views : 2 * Cardinality(V(view)) > Cardinality(view)
  BY DEF HasMandate
<1>2. IsFiniteSet(view)
  BY ViewsAreFinite
<1>3. V(view) \subseteq W(view) /\ W(view) \subseteq view
  BY HistoryGrows
<1>4. /\ Cardinality(V(view)) <= Cardinality(W(view))
      /\ Cardinality(V(view)) \in Nat
      /\ Cardinality(W(view)) \in Nat
      /\ Cardinality(view) \in Nat
  BY <1>2, <1>3, FS_Subset, FS_CardinalityType
<1>5. 2 * Cardinality(W(view)) > Cardinality(view)
  BY <1>1, <1>4
<1>6. QED BY <1>5 DEF HasMandate

LEMMA ElectedLasts ==
  ASSUME [Next]_vars, NEW n, Elected(n)
  PROVE  Elected(n)'
BY HistoryGrows, MandateLasts DEF Elected

(* The count of a call that wins is a mandate.                             *)
LEMMA QuorumIsMandate ==
  ASSUME SafetyInv, NEW n \in Node, NEW k \in Caller,
         call[n][k].pc = "voting", HasQuorum(call[n][k])
  PROVE  HasMandate(n, call[n][k].id) /\ Elected(n)
<1> DEFINE c == call[n][k]
           V == {m \in c.view \ {n} : <<m, c.id>> \in grants}
<1>1. CallCounts(n, c)
  BY DEF SafetyInv, CallsCount
<1>2. c.id \in Id
  BY DEF SafetyInv, TypeInv, CallsHaveIds, CallHasId
<1>3. IsFiniteSet(c.view) /\ c.promises \subseteq V /\ V \subseteq c.view
  BY <1>1, ViewsAreFinite DEF CallCounts
<1>4. /\ Cardinality(c.promises) <= Cardinality(V)
      /\ Cardinality(c.promises) \in Nat
      /\ Cardinality(V) \in Nat
      /\ Cardinality(c.view) \in Nat
  BY <1>3, FS_Subset, FS_CardinalityType
<1>5. Cardinality(c.promises) >= (Cardinality(c.view) \div 2) + 1
  BY DEF HasQuorum, QuorumSize
<1>6. 2 * Cardinality(V) > Cardinality(c.view)
  <2> DEFINE p == Cardinality(c.promises)
             v == Cardinality(V)
             w == Cardinality(c.view)
  <2> HIDE DEF p, v, w
  <2>1. p \in Nat /\ v \in Nat /\ w \in Nat /\ p <= v /\ p >= (w \div 2) + 1
    BY <1>4, <1>5 DEF p, v, w
  <2>2. 2 * v > w
    BY <2>1
  <2>3. QED BY <2>2 DEF v, w
<1>7. QED BY <1>1, <1>2, <1>6 DEF CallCounts, Elected, HasMandate

-----------------------------------------------------------------------------
(* What the steps have in common.                                          *)

LEMMA CountsKept ==
  ASSUME SafetyInv, [Next]_vars,
         \A n \in Node, k \in Caller :
           call'[n][k] = call[n][k] \/ call'[n][k].pc # "voting"
  PROVE  CallsCount'
<1>1. ASSUME NEW n \in Node, NEW k \in Caller
      PROVE  CallCounts(n, call[n][k])'
  BY HistoryGrows DEF SafetyInv, CallsCount, CallCounts
<1>2. QED BY <1>1 DEF CallsCount

LEMMA ElectedKept ==
  ASSUME SafetyInv, [Next]_vars,
         \A n \in Node : isLeader'[n] => isLeader[n] \/ Elected(n),
         \A q \in beats' \cup late' :
           q.type = "beat" => q \in beats \cup late \/ Elected(q.from),
         \A n \in Node :
           currentLeader'[n] \in {Nil, currentLeader[n]} \/ Elected(currentLeader'[n])
  PROVE  ElectedInv'
<1>1. LeadersElected'
  BY ElectedLasts DEF SafetyInv, ElectedInv, LeadersElected
<1>2. SendersElected'
  BY ElectedLasts DEF SafetyInv, ElectedInv, SendersElected
<1>3. FollowedElected'
  <2>1. ASSUME NEW n \in Node, currentLeader'[n] # Nil
        PROVE  Elected(currentLeader'[n])
    BY <2>1 DEF SafetyInv, ElectedInv, FollowedElected
  <2>2. ASSUME NEW n \in Node, currentLeader'[n] # Nil
        PROVE  Elected(currentLeader[n])'
    <3>1. PICK m : m = currentLeader'[n]
      OBVIOUS
    <3>2. Elected(m)
      BY <2>1, <2>2, <3>1
    <3>3. Elected(m)'
      BY <3>2, ElectedLasts
    <3>4. QED BY <3>1, <3>3 DEF Elected, HasMandate
  <2>3. QED BY <2>2 DEF FollowedElected
<1>4. QED BY <1>1, <1>2, <1>3 DEF ElectedInv

LEMMA BeatsKept ==
  ASSUME SafetyInv, UNCHANGED beaters,
         \A n \in Node : isLeader'[n] => isLeader[n],
         \A n \in Node, k \in Caller :
           call[n][k].pc = "won" => call'[n][k].pc = "won"
  PROVE  LeaderBeats'
BY DEF SafetyInv, LeaderBeats, BeatersOf

LEMMA NamesKept ==
  ASSUME SafetyInv,
         \A n \in Node :
           isLeader'[n] => isLeader[n] /\ currentLeader'[n] = currentLeader[n]
  PROVE  LeaderNamesItself'
BY DEF SafetyInv, LeaderNamesItself

(* A step that gives one call new locals.                                  *)
LEMMA CountUpdate ==
  ASSUME SafetyInv, [Next]_vars, NEW n \in Node, NEW k \in Caller, NEW r,
         call' = [call EXCEPT ![n][k] = r], CallCounts(n, r)'
  PROVE  CallsCount'
<1>1. call \in [Node -> [Caller -> CallState]]
  BY DEF SafetyInv, TypeInv, TypeOK
<1>2. ASSUME NEW i \in Node, NEW j \in Caller
      PROVE  CallCounts(i, call[i][j])'
  <2>1. CASE i = n /\ j = k
    BY <1>1, <2>1 DEF CallCounts
  <2>2. CASE ~(i = n /\ j = k)
    <3>1. call'[i][j] = call[i][j]
      BY <1>1, <2>2
    <3>2. QED BY <3>1, HistoryGrows DEF SafetyInv, CallsCount, CallCounts
  <2>3. QED BY <2>1, <2>2
<1>3. QED BY <1>2 DEF CallsCount

-----------------------------------------------------------------------------
(* The steps of one call of LeaderElection.                                *)
LEMMA ElectionStepSafe ==
  ASSUME SafetyInv, [Next]_vars, NEW n \in Node, NEW k \in Caller,
         ElectionStep(n, k)
  PROVE  SafetyInv'
<1>1. call \in [Node -> [Caller -> CallState]] /\ TypeInv'
  BY TypeInvStep DEF SafetyInv, TypeInv, TypeOK
<1>2. CallCounts(n, call[n][k])
  BY DEF SafetyInv, CallsCount
<1>3. CASE CheckLeader(n, k)
  <2>1. CallsCount'
    BY <1>1, <1>3, CountsKept DEF CheckLeader
  <2>2. ElectedInv' /\ LeaderNamesItself' /\ LeaderBeats'
    BY <1>1, <1>3, ElectedKept, NamesKept, BeatsKept
    DEF CheckLeader, leadershipVars, followerVars
  <2>3. QED BY <1>1, <2>1, <2>2 DEF SafetyInv
<1>4. CASE DrawId(n, k)
  <2>1. CallsCount'
    <3>1. PICK b \in Id :
            /\ campaigns' = campaigns \cup {<<n, b>>}
            /\ \/ \E view \in Views :
                    call' = [call EXCEPT ![n][k] =
                      [pc |-> "voting", id |-> b, view |-> view,
                       waiting |-> view \ {n}, promises |-> {}]]
               \/ call' = [call EXCEPT ![n][k] = NoCall]
      BY <1>4 DEF DrawId
    <3>2. CASE call' = [call EXCEPT ![n][k] = NoCall]
      BY <1>1, <3>2, CountsKept DEF NoCall
    <3>3. ASSUME NEW view \in Views,
                 call' = [call EXCEPT ![n][k] =
                   [pc |-> "voting", id |-> b, view |-> view,
                    waiting |-> view \ {n}, promises |-> {}]]
          PROVE  CallsCount'
      <4> DEFINE r == [pc |-> "voting", id |-> b, view |-> view,
                       waiting |-> view \ {n}, promises |-> {}]
      <4>1. CallCounts(n, r)'
        BY <3>1 DEF CallCounts
      <4>2. QED BY <3>3, <4>1, CountUpdate
    <3>4. QED BY <3>1, <3>2, <3>3
  <2>2. ElectedInv' /\ LeaderNamesItself'
    BY <1>1, <1>4, ElectedKept, NamesKept DEF DrawId, followerVars
  <2>3. LeaderBeats'
    <3>1. ASSUME NEW i \in Node, NEW j \in Caller, call[i][j].pc = "won"
          PROVE  call'[i][j].pc = "won"
      BY <1>1, <1>4, <3>1 DEF DrawId
    <3>2. QED BY <1>4, <3>1, BeatsKept DEF DrawId
  <2>4. QED BY <1>1, <2>1, <2>2, <2>3 DEF SafetyInv
<1>5. CASE Lose(n, k)
  <2>1. CallsCount'
    BY <1>1, <1>5, CountsKept DEF Lose, NoCall
  <2>2. \A i \in Node : isLeader'[i] => isLeader[i]
    BY <1>5 DEF Lose, SafetyInv, TypeInv, TypeOK
  <2>3. ElectedInv' /\ LeaderNamesItself' /\ LeaderBeats'
    BY <1>1, <1>5, <2>2, ElectedKept, NamesKept, BeatsKept
    DEF Lose, followerVars
  <2>4. QED BY <1>1, <2>1, <2>3 DEF SafetyInv
<1>6. CASE Win(n, k)
  <2>1. CallsCount'
    BY <1>1, <1>6, CountsKept DEF Win
  <2>2. Elected(n)
    BY <1>6, QuorumIsMandate DEF Win
  <2>3. \A i \in Node : /\ isLeader'[i] => isLeader[i] \/ i = n
                        /\ currentLeader'[i] = IF i = n THEN n ELSE currentLeader[i]
    BY <1>6 DEF Win, SafetyInv, TypeInv, TypeOK
  <2>4. ElectedInv'
    BY <1>6, <2>2, <2>3, ElectedKept DEF Win
  <2>5. LeaderNamesItself'
    BY <2>3 DEF SafetyInv, LeaderNamesItself
  <2>6. LeaderBeats'
    BY <1>1, <1>6, <2>3 DEF Win, SafetyInv, LeaderBeats, BeatersOf
  <2>7. QED BY <1>1, <2>1, <2>4, <2>5, <2>6 DEF SafetyInv
<1>7. CASE StartBeating(n, k)
  <2>1. CallsCount'
    BY <1>1, <1>7, CountsKept DEF StartBeating, NoCall
  <2>2. ElectedInv' /\ LeaderNamesItself'
    BY <1>7, ElectedKept, NamesKept
    DEF StartBeating, leadershipVars, followerVars
  <2>3. LeaderBeats'
    <3>1. PICK taken \in {0, 1} :
            /\ taken <= beaters[n].listening
            /\ beaters' = [beaters EXCEPT ![n] = Respawned(@, taken)]
      BY <1>7 DEF StartBeating
    <3>2. beaters \in [Node -> Beaters]
      BY DEF SafetyInv, TypeInv, TypeOK
    <3>3. BeatersOf(n)' > 0
      BY <3>1, <3>2 DEF BeatersOf, Beaters, Respawned
    <3>4. ASSUME NEW i \in Node, i # n, isLeader'[i]
          PROVE  BeatersOf(i)' > 0 \/ \E j \in Caller : call'[i][j].pc = "won"
      <4>1. beaters'[i] = beaters[i] /\ call'[i] = call[i] /\ isLeader[i]
        BY <1>1, <1>7, <3>1, <3>2, <3>4 DEF StartBeating, leadershipVars
      <4>2. QED BY <4>1 DEF SafetyInv, LeaderBeats, BeatersOf
    <3>5. QED BY <3>3, <3>4 DEF LeaderBeats
  <2>4. QED BY <1>1, <2>1, <2>2, <2>3 DEF SafetyInv
<1>8. ASSUME NEW m \in Node, DeliverProposeLeader(n, k, m)
      PROVE  SafetyInv'
  <2>1. CallsCount'
    <3>1. PICK r : r = [call[n][k] EXCEPT
                          !.waiting = @ \ {m},
                          !.promises = IF Grants(m, call[n][k].id)
                                       THEN @ \cup {m} ELSE @]
      OBVIOUS
    <3>2. call' = [call EXCEPT ![n][k] = r]
      BY <1>1, <1>8, <3>1 DEF DeliverProposeLeader
    <3>3. call[n][k] \in CallState
      BY <1>1
    <3>4. /\ r.view = call[n][k].view
          /\ r.id = call[n][k].id
          /\ r.waiting \subseteq call[n][k].waiting
          /\ r.promises \subseteq call[n][k].promises \cup {m}
          /\ m \in r.promises => \/ m \in call[n][k].promises
                                 \/ Grants(m, call[n][k].id)
      BY <3>1, <3>3 DEF CallState
    <3>5. Grants(m, call[n][k].id) => <<m, call[n][k].id>> \in grants'
      BY <1>8 DEF DeliverProposeLeader, ProposeLeader
    <3>6. CallCounts(n, r)'
      BY <1>2, <1>8, <3>4, <3>5, HistoryGrows
      DEF DeliverProposeLeader, CallCounts
    <3>7. QED BY <3>2, <3>6, CountUpdate
  <2>2. ElectedInv' /\ LeaderNamesItself'
    BY <1>8, ElectedKept, NamesKept
    DEF DeliverProposeLeader, leadershipVars, followerVars
  <2>3. LeaderBeats'
    BY <1>1, <1>8, BeatsKept DEF DeliverProposeLeader, leadershipVars
  <2>4. QED BY <1>1, <2>1, <2>2, <2>3 DEF SafetyInv
<1>9. ASSUME NEW m \in Node, TimeOut(n, k, m)
      PROVE  SafetyInv'
  <2>1. CallsCount'
    <3>1. PICK r : r = [call[n][k] EXCEPT !.waiting = @ \ {m}]
      OBVIOUS
    <3>2. call' = [call EXCEPT ![n][k] = r]
      BY <1>1, <1>9, <3>1 DEF TimeOut
    <3>3. CallCounts(n, r)'
      BY <1>1, <1>2, <3>1, HistoryGrows DEF CallCounts, CallState
    <3>4. QED BY <3>2, <3>3, CountUpdate
  <2>2. late' \subseteq late \cup {[type |-> "propose", to |-> m, id |-> call[n][k].id]}
    BY <1>9 DEF TimeOut, GiveUpOn
  <2>3. ElectedInv' /\ LeaderNamesItself'
    BY <1>9, <2>2, ElectedKept, NamesKept DEF TimeOut, leadershipVars, followerVars
  <2>4. LeaderBeats'
    BY <1>1, <1>9, BeatsKept DEF TimeOut, leadershipVars
  <2>5. QED BY <1>1, <2>1, <2>3, <2>4 DEF SafetyInv
<1>10. QED
  BY <1>3, <1>4, <1>5, <1>6, <1>7, <1>8, <1>9 DEF ElectionStep

(* The steps of a node outside of LeaderElection.                          *)
LEMMA NodeStepSafe ==
  ASSUME SafetyInv, [Next]_vars, NEW n \in Node,
         \/ MonitorTick(n)
         \/ DelayEnds(n)
         \/ RequestElection(n)
         \/ TryElectSelfAsLeader(n)
         \/ SendBeats(n)
         \/ BeaterStops(n)
         \/ FallSilent(n)
         \/ Restart(n)
  PROVE  SafetyInv'
<1>1. /\ call \in [Node -> [Caller -> CallState]]
      /\ isLeader \in [Node -> BOOLEAN]
      /\ currentLeader \in [Node -> Node \cup {Nil}]
      /\ beaters \in [Node -> Beaters]
      /\ TypeInv'
  BY TypeInvStep DEF SafetyInv, TypeInv, TypeOK
<1>2. CASE MonitorTick(n) \/ DelayEnds(n) \/ RequestElection(n)
  <2>1. \A i \in Node, k \in Caller :
          \/ call'[i][k] = call[i][k]
          \/ call[i][k].pc \notin {"voting", "won"}
             /\ call'[i][k].pc \notin {"voting", "won"}
    <3>1. CASE MonitorTick(n)
      BY <1>1, <3>1 DEF MonitorTick
    <3>2. CASE DelayEnds(n)
      BY <1>1, <3>2 DEF DelayEnds
    <3>3. CASE RequestElection(n)
      BY <1>1, <3>3 DEF RequestElection
    <3>4. QED BY <1>2, <3>1, <3>2, <3>3
  <2>2. UNCHANGED <<leadershipVars, followerVars, beaters, beats, late>>
    BY <1>2 DEF MonitorTick, DelayEnds, RequestElection
  <2>3. CallsCount' /\ ElectedInv' /\ LeaderNamesItself' /\ LeaderBeats'
    BY <2>1, <2>2, CountsKept, ElectedKept, NamesKept, BeatsKept
    DEF leadershipVars, followerVars
  <2>4. QED BY <1>1, <2>3 DEF SafetyInv
<1>3. CASE TryElectSelfAsLeader(n) \/ FallSilent(n)
  <2>1. UNCHANGED <<leadershipVars, currentLeader, call, beaters, beats, late>>
    BY <1>3 DEF TryElectSelfAsLeader, FallSilent, followerVars
  <2>2. CallsCount'
    BY <2>1, CountsKept
  <2>3. ElectedInv' /\ LeaderNamesItself' /\ LeaderBeats'
    BY <2>1, ElectedKept, NamesKept, BeatsKept DEF leadershipVars
  <2>4. QED BY <1>1, <2>2, <2>3 DEF SafetyInv
<1>4. CASE SendBeats(n)
  <2>1. UNCHANGED <<leadershipVars, followerVars, call, beaters, late>>
    BY <1>4 DEF SendBeats
  <2>2. \A q \in beats' : q \in beats \/ q.from = n
    BY <1>4 DEF SendBeats
  <2>3. Elected(n)
    BY <1>4 DEF SendBeats, SafetyInv, ElectedInv, LeadersElected
  <2>4. CallsCount'
    BY <2>1, CountsKept
  <2>5. ElectedInv'
    BY <2>1, <2>2, <2>3, ElectedKept DEF leadershipVars, followerVars
  <2>6. LeaderNamesItself' /\ LeaderBeats'
    BY <2>1, NamesKept, BeatsKept DEF leadershipVars, followerVars
  <2>7. QED BY <1>1, <2>4, <2>5, <2>6 DEF SafetyInv
<1>5. CASE BeaterStops(n)
  <2>1. UNCHANGED <<leadershipVars, followerVars, call, beats, late>>
    BY <1>5 DEF BeaterStops
  <2>2. CallsCount'
    BY <2>1, CountsKept
  <2>3. ElectedInv' /\ LeaderNamesItself'
    BY <2>1, ElectedKept, NamesKept DEF leadershipVars, followerVars
  <2>4. ASSUME NEW i \in Node, isLeader'[i]
        PROVE  BeatersOf(i)' > 0 \/ \E k \in Caller : call'[i][k].pc = "won"
    <3>1. isLeader[i] /\ i # n
      BY <1>5, <2>1, <2>4 DEF BeaterStops, Demoted, leadershipVars
    <3>2. beaters'[i] = beaters[i]
      BY <1>1, <1>5, <3>1 DEF BeaterStops
    <3>3. QED BY <2>1, <3>1, <3>2 DEF SafetyInv, LeaderBeats, BeatersOf
  <2>5. QED BY <1>1, <2>2, <2>3, <2>4 DEF SafetyInv, LeaderBeats
<1>6. CASE Restart(n)
  <2>1. \A i \in Node :
          IF i = n
          THEN /\ ~isLeader'[i] /\ currentLeader'[i] = Nil
               /\ \A k \in Caller : call'[i][k] = NoCall
          ELSE /\ isLeader'[i] = isLeader[i] /\ currentLeader'[i] = currentLeader[i]
               /\ call'[i] = call[i] /\ beaters'[i] = beaters[i]
    BY <1>1, <1>6 DEF Restart
  <2>2. CallsCount'
    BY <2>1, CountsKept DEF NoCall
  <2>3. beats' \subseteq beats /\ late' \subseteq late
    BY <1>6 DEF Restart
  <2>4. ElectedInv'
    BY <2>1, <2>3, ElectedKept
  <2>5. LeaderNamesItself'
    BY <2>1, NamesKept
  <2>6. LeaderBeats'
    BY <2>1 DEF SafetyInv, LeaderBeats, BeatersOf
  <2>7. QED BY <1>1, <2>2, <2>4, <2>5, <2>6 DEF SafetyInv
<1>7. QED BY <1>2, <1>3, <1>4, <1>5, <1>6

-----------------------------------------------------------------------------
(* A heartbeat on the way: whoever follows its sender follows a node that  *)
(* was elected, and leads no more.                                         *)
LEMMA HeartbeatSafe ==
  ASSUME SafetyInv, [Next]_vars, NEW q \in beats \cup late, q.type = "beat",
         SendHeartbeat(q), UNCHANGED <<call, beaters>>,
         beats' \subseteq beats, late' \subseteq late
  PROVE  SafetyInv'
<1>1. q \in Beat /\ q.to # q.from /\ Elected(q.from)
  BY DEF SafetyInv, TypeInv, TypeOK, EndsDiffer, Beat, Request, ElectedInv,
         SendersElected
<1>2. q.to \in Node
  BY <1>1 DEF Beat
<1>3. \/ UNCHANGED <<isLeader, currentLeader>>
      \/ /\ isLeader' = [isLeader EXCEPT ![q.to] = FALSE]
         /\ currentLeader' = [currentLeader EXCEPT ![q.to] = q.from]
  BY <1>1
  DEF SendHeartbeat, RefuseHeartbeat, FollowHeartbeat, RenewHeartbeat,
      LeadsAfter, leadershipVars, followerVars
<1>4. \A n \in Node :
        /\ isLeader'[n] => isLeader[n] /\ currentLeader'[n] = currentLeader[n]
        /\ currentLeader'[n] \in {currentLeader[n], q.from}
  BY <1>2, <1>3 DEF SafetyInv, TypeInv, TypeOK
<1>5. CallsCount'
  BY CountsKept
<1>6. ElectedInv'
  BY <1>1, <1>4, ElectedKept
<1>7. LeaderNamesItself' /\ LeaderBeats'
  BY <1>4, NamesKept, BeatsKept
<1>8. TypeInv'
  BY TypeInvStep DEF SafetyInv
<1>9. QED BY <1>5, <1>6, <1>7, <1>8 DEF SafetyInv

LEMMA RequestSafe ==
  ASSUME SafetyInv, [Next]_vars,
         \/ \E q \in beats : DeliverBeat(q) \/ TimeOutBeat(q)
         \/ \E q \in late : LateBeat(q) \/ LateProposeLeader(q)
  PROVE  SafetyInv'
<1>1. ASSUME NEW q \in beats, DeliverBeat(q)
      PROVE  SafetyInv'
  BY <1>1, HeartbeatSafe DEF DeliverBeat, SafetyInv, TypeInv, TypeOK, Beat
<1>2. ASSUME NEW q \in late, LateBeat(q)
      PROVE  SafetyInv'
  BY <1>2, HeartbeatSafe DEF LateBeat
<1>3. ASSUME UNCHANGED <<leadershipVars, followerVars, call, beaters>>,
             beats' \cup late' \subseteq beats \cup late
      PROVE  SafetyInv'
  <2>1. CallsCount'
    BY <1>3, CountsKept
  <2>2. ElectedInv' /\ LeaderNamesItself' /\ LeaderBeats'
    BY <1>3, ElectedKept, NamesKept, BeatsKept DEF leadershipVars, followerVars
  <2>3. QED BY <2>1, <2>2, TypeInvStep DEF SafetyInv
<1>4. ASSUME NEW q \in beats, TimeOutBeat(q)
      PROVE  SafetyInv'
  BY <1>3, <1>4 DEF TimeOutBeat, GiveUpOn
<1>5. ASSUME NEW q \in late, LateProposeLeader(q)
      PROVE  SafetyInv'
  BY <1>3, <1>5 DEF LateProposeLeader
<1>6. QED BY <1>1, <1>2, <1>4, <1>5

LEMMA SafetyInvStep == SafetyInv /\ [Next]_vars => SafetyInv'
<1> SUFFICES ASSUME SafetyInv, [Next]_vars PROVE SafetyInv'
  OBVIOUS
<1>1. CASE Next
  BY <1>1, ElectionStepSafe, NodeStepSafe, RequestSafe DEF Next
<1>2. CASE UNCHANGED vars
  <2>1. CallsCount'
    BY <1>2, CountsKept DEF vars
  <2>2. ElectedInv' /\ LeaderNamesItself' /\ LeaderBeats'
    BY <1>2, ElectedKept, NamesKept, BeatsKept
    DEF vars, leadershipVars, followerVars
  <2>3. QED BY <2>1, <2>2, TypeInvStep DEF SafetyInv
<1>3. QED BY <1>1, <1>2

LEMMA SafetyInvHolds == Spec => []SafetyInv
BY SafetyInvInit, SafetyInvStep, PTL DEF Spec

-----------------------------------------------------------------------------
(* The theorems.                                                           *)

(* A node that leads names itself when asked for the leader (GetStatus),   *)
(* through elections, heartbeats and failed elections in any order.        *)
THEOREM LeadersNameThemselves == Spec => []LeaderNamesItself
<1>1. SafetyInv => LeaderNamesItself
  BY DEF SafetyInv
<1>2. QED BY <1>1, SafetyInvHolds, PTL

(* Whoever a node takes for its leader has won an election: more than half *)
(* of some list of the registry promised it an ID.                         *)
THEOREM LeadersWereElected == Spec => []FollowedWereElected
<1>1. SafetyInv => FollowedWereElected
  BY DEF SafetyInv, ElectedInv, FollowedElected, Elected, FollowedWereElected
<1>2. QED BY <1>1, SafetyInvHolds, PTL

(* A leader has a goroutine that sends its heartbeats, or is about to      *)
(* start one, whichever signals of stopHeartbeats are taken or missed.     *)
THEOREM LeadersBeat == Spec => []LeaderBeats
<1>1. SafetyInv => LeaderBeats
  BY DEF SafetyInv
<1>2. QED BY <1>1, SafetyInvHolds, PTL

LEMMA PromiseStep ==
  ASSUME SafetyInv, Next, NEW m \in Node, promised'[m] < promised[m]
  PROVE  <<m, promised'[m]>> \in campaigns \/ restarts' # restarts
<1>1. promised \in [Node -> {0} \cup Id] /\ restarts \in Nat
  BY DEF SafetyInv, TypeInv, TypeOK
<1>2. promised[m] \in Int /\ ~(promised[m] < promised[m])
  BY <1>1 DEF Id
<1>3. promised' # promised
  BY <1>2
<1>4. ASSUME NEW i \in Node, NEW b \in Id, ProposeLeader(i, b)
      PROVE  FALSE
  <2>1. i # m => promised'[m] = promised[m]
    BY <1>1, <1>4 DEF ProposeLeader, Promise
  <2>2. promised[i] \in Int /\ b \in Int
    BY <1>1, <1>4 DEF Id
  <2>3. CASE Grants(i, b)
    <3>1. promised'[i] = b /\ b > promised[i]
      BY <1>1, <1>4, <2>3 DEF ProposeLeader, Promise, Grants
    <3>2. i # m
      BY <2>2, <3>1
    <3>3. QED BY <1>2, <2>1, <3>2
  <2>4. CASE ~Grants(i, b)
    BY <1>3, <1>4, <2>4 DEF ProposeLeader
  <2>5. QED BY <2>3, <2>4
<1>5. ASSUME NEW q \in Beat, SendHeartbeat(q)
      PROVE  FALSE
  <2>1. q.id \in Id /\ q.to \in Node
    BY DEF Beat
  <2>2. FollowHeartbeat(q)
    BY <1>3, <1>5 DEF SendHeartbeat, RefuseHeartbeat, RenewHeartbeat
  <2>3. promised' = [promised EXCEPT ![q.to] = q.id] /\ ~(q.id < promised[q.to])
    BY <2>2 DEF FollowHeartbeat, Promise, Refuses
  <2>4. QED BY <1>1, <1>2, <2>1, <2>3
<1>6. ASSUME NEW n \in Node, NEW k \in Caller, ElectionStep(n, k)
      PROVE  <<m, promised'[m]>> \in campaigns
  <2>1. call[n][k].pc = "voting" =>
          call[n][k].id \in Id /\ <<n, call[n][k].id>> \in campaigns
    BY DEF SafetyInv, TypeInv, CallsHaveIds, CallHasId, CallsCount, CallCounts
  <2>2. CASE Win(n, k)
    BY <1>1, <1>2, <2>1, <2>2 DEF Win, Promise
  <2>3. CASE \E i \in Node : DeliverProposeLeader(n, k, i)
    BY <1>4, <2>1, <2>3 DEF DeliverProposeLeader
  <2>4. QED
    BY <1>3, <1>6, <2>2, <2>3
    DEF ElectionStep, CheckLeader, DrawId, Lose, StartBeating, TimeOut
<1>7. ASSUME NEW n \in Node, Restart(n)
      PROVE  restarts' # restarts
  BY <1>1, <1>7 DEF Restart
<1>8. ASSUME NEW n \in Node,
             \/ MonitorTick(n)
             \/ DelayEnds(n)
             \/ RequestElection(n)
             \/ TryElectSelfAsLeader(n)
             \/ SendBeats(n)
             \/ BeaterStops(n)
             \/ FallSilent(n)
      PROVE  FALSE
  BY <1>3, <1>8
  DEF MonitorTick, DelayEnds, RequestElection, TryElectSelfAsLeader, SendBeats,
      BeaterStops, FallSilent
<1>9. ASSUME NEW q \in beats, DeliverBeat(q) \/ TimeOutBeat(q)
      PROVE  FALSE
  BY <1>3, <1>5, <1>9 DEF DeliverBeat, TimeOutBeat, SafetyInv, TypeInv, TypeOK
<1>10. ASSUME NEW q \in late, LateBeat(q) \/ LateProposeLeader(q)
       PROVE  FALSE
  <2>1. q \in Request
    BY DEF SafetyInv, TypeInv, TypeOK
  <2>2. CASE LateBeat(q)
    BY <1>5, <2>1, <2>2 DEF LateBeat, Request, Beat
  <2>3. CASE LateProposeLeader(q)
    <3>1. q.to \in Node /\ q.id \in Id
      BY <2>1 DEF Request, Beat
    <3>2. QED BY <1>4, <2>3, <3>1 DEF LateProposeLeader
  <2>4. QED BY <1>10, <2>2, <2>3
<1>11. QED BY <1>6, <1>7, <1>8, <1>9, <1>10 DEF Next

(* A node goes back on a promise only for an ID of its own, when it wins   *)
(* with it, or by restarting: no request, late or repeated, lowers it.     *)
THEOREM PromisesAreKept == Spec => PromisesKept
<1> DEFINE Kept == \A n \in Node :
                     promised'[n] < promised[n] =>
                       <<n, promised'[n]>> \in campaigns \/ restarts' # restarts
<1>1. SafetyInv /\ [Next]_vars => [Kept]_vars
  BY PromiseStep
<1>2. QED BY <1>1, SafetyInvHolds, PTL DEF Spec, PromisesKept

-----------------------------------------------------------------------------
(* Nodes on which only the monitor calls LeaderElection.                   *)

(* A leader's monitor has no election under way, so that nobody replaces   *)
(* leaderProposalID behind its back.                                       *)
SoleCall(n, r) ==
  /\ isLeader[n] => r.pc \in {"idle", "won"}
  /\ r.pc = "voting" => r.id = leaderProposalID[n]

SoleInv ==
  /\ SafetyInv
  /\ \A n \in Node : SoleCall(n, call[n]["monitor"])
  /\ LeaderHasMandate

(* A step that changes the call, the leadership and the ID of one node     *)
(* only.                                                                   *)
LEMMA SoleUpdate ==
  ASSUME SoleInv, [Next]_vars, NEW n \in Node,
         \A i \in Node :
           i # n => /\ call'[i] = call[i]
                    /\ isLeader'[i] => isLeader[i]
                    /\ leaderProposalID'[i] = leaderProposalID[i],
         SoleCall(n, call[n]["monitor"])',
         isLeader'[n] => HasMandate(n, leaderProposalID[n])'
  PROVE  SoleInv'
<1>1. SafetyInv'
  BY SafetyInvStep DEF SoleInv
<1>2. \A i \in Node : SoleCall(i, call[i]["monitor"])'
  BY DEF SoleInv, SoleCall
<1>3. ASSUME NEW i \in Node, isLeader'[i]
      PROVE  HasMandate(i, leaderProposalID[i])'
  <2>1. CASE i = n
    BY <1>3, <2>1
  <2>2. CASE i # n
    <3>1. PICK b : b = leaderProposalID[i]
      OBVIOUS
    <3>2. HasMandate(i, b)
      BY <1>3, <2>2, <3>1 DEF SoleInv, LeaderHasMandate
    <3>3. HasMandate(i, b)' /\ b = leaderProposalID'[i]
      BY <2>2, <3>1, <3>2, MandateLasts
    <3>4. QED BY <3>3 DEF HasMandate
  <2>3. QED BY <2>1, <2>2
<1>4. QED BY <1>1, <1>2, <1>3 DEF SoleInv, LeaderHasMandate

(* A step after which node n leads only if it did, with the same ID and    *)
(* the same call.                                                          *)
LEMMA SoleKept ==
  ASSUME SoleInv, [Next]_vars, UNCHANGED <<call, leaderProposalID>>,
         \A i \in Node : isLeader'[i] => isLeader[i]
  PROVE  SoleInv'
<1>1. SafetyInv'
  BY SafetyInvStep DEF SoleInv
<1>2. \A i \in Node : SoleCall(i, call[i]["monitor"])'
  BY DEF SoleInv, SoleCall
<1>3. ASSUME NEW i \in Node, isLeader'[i]
      PROVE  HasMandate(i, leaderProposalID[i])'
  <2>1. HasMandate(i, leaderProposalID[i])
    BY <1>3 DEF SoleInv, LeaderHasMandate
  <2>2. PICK b : b = leaderProposalID[i]
    OBVIOUS
  <2>3. HasMandate(i, b)'
    BY <2>1, <2>2, MandateLasts
  <2>4. QED BY <2>2, <2>3 DEF HasMandate
<1>4. QED BY <1>1, <1>2, <1>3 DEF SoleInv, LeaderHasMandate

LEMMA SoleElectionStep ==
  ASSUME SoleInv, [Next]_vars, NEW n \in Node, "monitor" \in Caller,
         ElectionStep(n, "monitor")
  PROVE  SoleInv'
<1> DEFINE k == "monitor"
<1>1. /\ call \in [Node -> [Caller -> CallState]]
      /\ isLeader \in [Node -> BOOLEAN]
      /\ leaderProposalID \in [Node -> {0} \cup Id]
  BY DEF SoleInv, SafetyInv, TypeInv, TypeOK
<1>2. SoleCall(n, call[n][k])
  BY DEF SoleInv
<1>3. CASE CheckLeader(n, k)
  <2>1. SoleCall(n, call[n][k])' /\ ~isLeader'[n]
    BY <1>1, <1>2, <1>3 DEF CheckLeader, SoleCall, leadershipVars
  <2>2. QED
    BY <1>1, <1>3, <2>1, SoleUpdate DEF CheckLeader, leadershipVars
<1>4. CASE DrawId(n, k)
  <2>1. ~isLeader[n]
    BY <1>2, <1>4 DEF DrawId, SoleCall
  <2>2. SoleCall(n, call[n][k])' /\ ~isLeader'[n]
    BY <1>1, <1>4, <2>1 DEF DrawId, SoleCall, NoCall
  <2>3. QED BY <1>1, <1>4, <2>2, SoleUpdate DEF DrawId
<1>5. CASE Lose(n, k)
  <2>1. SoleCall(n, call[n][k])' /\ ~isLeader'[n]
    BY <1>1, <1>5 DEF Lose, SoleCall, NoCall
  <2>2. QED BY <1>1, <1>5, <2>1, SoleUpdate DEF Lose
<1>6. CASE Win(n, k)
  <2>1. SoleCall(n, call[n][k])'
    BY <1>1, <1>6 DEF Win, SoleCall
  <2>2. PICK b : b = leaderProposalID[n]
    OBVIOUS
  <2>3. HasMandate(n, b)
    BY <1>2, <1>6, <2>2, QuorumIsMandate DEF Win, SoleCall, SoleInv
  <2>4. HasMandate(n, b)' /\ leaderProposalID'[n] = b
    BY <1>6, <2>2, <2>3, MandateLasts DEF Win
  <2>5. HasMandate(n, leaderProposalID[n])'
    BY <2>4 DEF HasMandate
  <2>6. QED BY <1>1, <1>6, <2>1, <2>5, SoleUpdate DEF Win
<1>7. CASE StartBeating(n, k)
  <2>1. SoleCall(n, call[n][k])'
    BY <1>1, <1>7 DEF StartBeating, SoleCall, NoCall
  <2>2. UNCHANGED <<isLeader, leaderProposalID>>
    BY <1>7 DEF StartBeating, leadershipVars
  <2>3. isLeader'[n] => HasMandate(n, leaderProposalID[n])'
    <3>1. PICK b : b = leaderProposalID[n]
      OBVIOUS
    <3>2. HasMandate(n, b) => HasMandate(n, b)'
      BY MandateLasts
    <3>3. QED
      BY <2>2, <3>1, <3>2 DEF SoleInv, LeaderHasMandate, HasMandate
  <2>4. QED BY <1>1, <1>7, <2>1, <2>2, <2>3, SoleUpdate DEF StartBeating
<1>8. ASSUME NEW m \in Node, DeliverProposeLeader(n, k, m) \/ TimeOut(n, k, m)
      PROVE  SoleInv'
  <2>1. /\ UNCHANGED <<isLeader, leaderProposalID>>
        /\ call[n][k].pc = "voting"
    BY <1>8 DEF DeliverProposeLeader, TimeOut, leadershipVars
  <2>2. /\ call'[n][k].pc = "voting" /\ call'[n][k].id = call[n][k].id
        /\ \A i \in Node : i # n => call'[i] = call[i]
    <3>1. call[n][k] \in CallState
      BY <1>1
    <3>2. CASE DeliverProposeLeader(n, k, m)
      BY <1>1, <2>1, <3>1, <3>2 DEF DeliverProposeLeader, CallState
    <3>3. CASE TimeOut(n, k, m)
      BY <1>1, <2>1, <3>1, <3>3 DEF TimeOut, CallState
    <3>4. QED BY <1>8, <3>2, <3>3
  <2>3. SoleCall(n, call[n][k])' /\ ~isLeader'[n]
    BY <1>2, <2>1, <2>2 DEF SoleCall
  <2>4. QED BY <2>1, <2>2, <2>3, SoleUpdate
<1>9. QED BY <1>3, <1>4, <1>5, <1>6, <1>7, <1>8 DEF ElectionStep

LEMMA SoleNodeStep ==
  ASSUME SoleInv, [Next]_vars, NEW n \in Node, Caller = {"monitor"},
         \/ MonitorTick(n)
         \/ DelayEnds(n)
         \/ RequestElection(n)
         \/ TryElectSelfAsLeader(n)
         \/ SendBeats(n)
         \/ BeaterStops(n)
         \/ FallSilent(n)
         \/ Restart(n)
  PROVE  SoleInv'
<1>1. /\ call \in [Node -> [Caller -> CallState]]
      /\ isLeader \in [Node -> BOOLEAN]
      /\ leaderProposalID \in [Node -> {0} \cup Id]
      /\ SoleCall(n, call[n]["monitor"])
  BY DEF SoleInv, SafetyInv, TypeInv, TypeOK
<1>2. CASE MonitorTick(n)
  <2>1. SoleCall(n, call[n]["monitor"])' /\ ~isLeader'[n]
    BY <1>1, <1>2 DEF MonitorTick, SoleCall, leadershipVars
  <2>2. QED
    BY <1>1, <1>2, <2>1, SoleUpdate DEF MonitorTick, leadershipVars
<1>3. CASE DelayEnds(n)
  <2>1. SoleCall(n, call[n]["monitor"])' /\ ~isLeader'[n]
    BY <1>1, <1>3 DEF DelayEnds, SoleCall, leadershipVars
  <2>2. QED
    BY <1>1, <1>3, <2>1, SoleUpdate DEF DelayEnds, leadershipVars
<1>4. CASE SendBeats(n) \/ BeaterStops(n) \/ FallSilent(n)
  BY <1>4, SoleKept DEF SendBeats, BeaterStops, FallSilent, leadershipVars
<1>5. CASE Restart(n)
  <2>1. SoleCall(n, call[n]["monitor"])' /\ ~isLeader'[n]
    BY <1>1, <1>5 DEF Restart, SoleCall, NoCall
  <2>2. QED BY <1>1, <1>5, <2>1, SoleUpdate DEF Restart
<1>6. QED
  BY <1>2, <1>3, <1>4, <1>5 DEF RequestElection, TryElectSelfAsLeader

LEMMA SoleRequest ==
  ASSUME SoleInv, [Next]_vars,
         \/ \E q \in beats : DeliverBeat(q) \/ TimeOutBeat(q)
         \/ \E q \in late : LateBeat(q) \/ LateProposeLeader(q)
  PROVE  SoleInv'
<1>1. ASSUME NEW q \in Beat, q.to # q.from, SendHeartbeat(q), UNCHANGED call
      PROVE  SoleInv'
  BY <1>1, HeartbeatType, SoleKept DEF SoleInv, SafetyInv
<1>2. \A q \in beats : q \in Beat /\ q.to # q.from
  BY DEF SoleInv, SafetyInv, TypeInv, TypeOK, EndsDiffer, Beat
<1>3. \A q \in late : q.type = "beat" => q \in Beat /\ q.to # q.from
  BY DEF SoleInv, SafetyInv, TypeInv, TypeOK, EndsDiffer, Beat, Request
<1>4. ASSUME NEW q \in beats, DeliverBeat(q)
      PROVE  SoleInv'
  BY <1>1, <1>2, <1>4 DEF DeliverBeat
<1>5. ASSUME NEW q \in late, LateBeat(q)
      PROVE  SoleInv'
  BY <1>1, <1>3, <1>5 DEF LateBeat
<1>6. ASSUME NEW q, TimeOutBeat(q) \/ LateProposeLeader(q)
      PROVE  SoleInv'
  BY <1>6, SoleKept DEF TimeOutBeat, LateProposeLeader, leadershipVars
<1>7. QED BY <1>4, <1>5, <1>6

(* Where only the monitor calls LeaderElection, the ID a leader puts in    *)
(* its heartbeats and proposals is one a majority promised to it, through  *)
(* restarts and late requests too.                                         *)
THEOREM LeadersHaveMandates ==
  Caller = {"monitor"} => (Spec => []LeaderHasMandate)
<1> SUFFICES ASSUME Caller = {"monitor"} PROVE Spec => []LeaderHasMandate
  OBVIOUS
<1>1. Init => SoleInv
  BY SafetyInvInit
  DEF Init, SoleInv, SoleCall, LeaderHasMandate, NoCall
<1>2. SoleInv /\ [Next]_vars => SoleInv'
  <2> SUFFICES ASSUME SoleInv, [Next]_vars PROVE SoleInv'
    OBVIOUS
  <2>1. CASE Next
    BY <2>1, SoleElectionStep, SoleNodeStep, SoleRequest DEF Next
  <2>2. CASE UNCHANGED vars
    BY <2>2, SoleKept DEF vars, leadershipVars
  <2>3. QED BY <2>1, <2>2
<1>3. SoleInv => LeaderHasMandate
  BY DEF SoleInv
<1>4. QED BY <1>1, <1>2, <1>3, PTL DEF Spec
=============================================================================
