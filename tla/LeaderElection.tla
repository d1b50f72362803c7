---------------------------- MODULE LeaderElection ----------------------------
(***************************************************************************)
(* The leader election of paxos/internal/leader.go: LeaderElection and     *)
(* ProposeLeader, the heartbeats of the leader, StartLeaderMonitor, and    *)
(* TryElectSelf of kv_server.go.                                           *)
(*                                                                         *)
(* As in Replication, a step is what a goroutine does between two waits    *)
(* (on the network, the registry, a timer or PaxosServer.mu), a handler    *)
(* and its caller's reaction to the answer are one step, and a request     *)
(* whose caller has given up stays in "late".                              *)
(*                                                                         *)
(* The election also starts SynchronizeLog; the log is in Replication.     *)
(* AcceptedProposedID and AcceptedLeaderAddr of LeaderPaxosState are       *)
(* written and reported but no decision reads them: they are left out.     *)
(***************************************************************************)
EXTENDS Integers, FiniteSets

CONSTANTS
  Node,         \* the Paxos nodes, by address
  Views,        \* the sets of addresses the registry may answer (ListAll)
  Caller,       \* who calls LeaderElection: "monitor", and "client" for
                \* TryElectSelf, the CLI and main; each one call at a time
  Candidate,    \* bound: the nodes that ever call LeaderElection
  MaxId,        \* bound: the number of proposal IDs ever drawn
  MaxLate,      \* bound: the requests under way whose caller has given up
  MaxRestarts,  \* bound: how many times a node restarts
  Nil           \* the empty leader address

ASSUME ElectionAssumption ==
  /\ IsFiniteSet(Node)
  /\ Views \subseteq SUBSET Node
  /\ Caller \subseteq {"monitor", "client"}
  /\ Candidate \subseteq Node
  /\ MaxId \in Nat
  /\ MaxLate \in Nat
  /\ MaxRestarts \in Nat
  /\ Nil \notin Node

Id == 1..MaxId

VARIABLES
  isLeader,          \* PaxosServer.isLeader
  leaderProposalID,  \* PaxosServer.leaderProposalID
  currentLeader,     \* PaxosServer.currentLeader
  silent,            \* time.Since(lastHeartbeat) > leaderTimeout
  promised,          \* PaxosServer.leaderState.HighestPromisedID
  wedged,            \* PaxosServer.mu is held and will not be released
  call,              \* the local variables of each call of LeaderElection
  beaters,           \* how many StartLeaderHeartbeats goroutines run
  beats,             \* heartbeats under way, their sender waits
  late,              \* requests under way, nobody waits for the answer
  restarts,          \* history: restarts so far
  campaigns,         \* history: <<n, b>> when node n drew the ID b
  grants             \* history: <<m, b>> when node m promised the ID b

leadershipVars == <<isLeader, leaderProposalID, campaigns>>
followerVars == <<currentLeader, silent>>
vars == <<leadershipVars, followerVars, promised, wedged, call, beaters, beats,
          late, restarts, grants>>

-----------------------------------------------------------------------------
(* One call of LeaderElection.  pc is where it stands:                     *)
(*   "idle"    no call                                                     *)
(*   "delay"   the monitor's random delay before the call                  *)
(*   "check"   about to look whether the node leads already                *)
(*   "draw"    about to draw a proposal ID                                 *)
(*   "voting"  for the answers of the peers in waiting                     *)
(*   "won"     isLeader is set, the heartbeats are not started yet         *)
CallState ==
  [pc : {"idle", "delay", "check", "draw", "voting", "won"},
   id : {0} \cup Id, view : SUBSET Node, waiting : SUBSET Node,
   promises : SUBSET Node]
NoCall == [pc |-> "idle", id |-> 0, view |-> {}, waiting |-> {}, promises |-> {}]

(* The goroutines of StartLeaderHeartbeats: those on the present           *)
(* heartBeatStopChan, and those on a channel that was replaced while they  *)
(* were busy, which no signal reaches any more.                            *)
Beaters == [listening : Nat, deaf : Nat]

(* ProposeLeaderRequest and LeaderHeartbeat.                               *)
Beat == [type : {"beat"}, from : Node, to : Node, id : Id]
Request == Beat \cup [type : {"propose"}, to : Node, id : Id]

TypeOK ==
  /\ isLeader \in [Node -> BOOLEAN]
  /\ leaderProposalID \in [Node -> {0} \cup Id]
  /\ currentLeader \in [Node -> Node \cup {Nil}]
  /\ silent \in [Node -> BOOLEAN]
  /\ promised \in [Node -> {0} \cup Id]
  /\ wedged \in [Node -> BOOLEAN]
  /\ call \in [Node -> [Caller -> CallState]]
  /\ beaters \in [Node -> Beaters]
  /\ beats \subseteq Beat
  /\ late \subseteq Request
  /\ restarts \in 0..MaxRestarts
  /\ campaigns \subseteq Node \X Id
  /\ grants \subseteq Node \X Id

Init ==
  /\ isLeader = [n \in Node |-> FALSE]
  /\ leaderProposalID = [n \in Node |-> 0]
  /\ currentLeader = [n \in Node |-> Nil]
  /\ silent = [n \in Node |-> FALSE]
  /\ promised = [n \in Node |-> 0]
  /\ wedged = [n \in Node |-> FALSE]
  /\ call = [n \in Node |-> [k \in Caller |-> NoCall]]
  /\ beaters = [n \in Node |-> [listening |-> 0, deaf |-> 0]]
  /\ beats = {}
  /\ late = {}
  /\ restarts = 0
  /\ campaigns = {}
  /\ grants = {}

-----------------------------------------------------------------------------
(* Who calls LeaderElection.                                               *)

NoLeader(n) == currentLeader[n] = Nil \/ silent[n]

(* Bound: no call starts that could find the MaxId proposal IDs used up.   *)
IdLeft ==
  Cardinality(campaigns)
    + Cardinality({c \in Node \X Caller :
                     call[c[1]][c[2]].pc \in {"delay", "check", "draw"}}) < MaxId

(* StartLeaderMonitor finds no leader; electionSignal is free.             *)
MonitorTick(n) ==
  /\ n \in Candidate
  /\ "monitor" \in Caller
  /\ call[n]["monitor"].pc = "idle"
  /\ IdLeft
  /\ ~wedged[n]
  /\ ~isLeader[n]
  /\ NoLeader(n)
  /\ call' = [call EXCEPT ![n]["monitor"].pc = "delay"]
  /\ UNCHANGED <<leadershipVars, followerVars, promised, wedged, beaters, beats,
                 late, restarts, grants>>

(* The delay is over; a leader may have shown up meanwhile.                *)
DelayEnds(n) ==
  /\ "monitor" \in Caller
  /\ call[n]["monitor"].pc = "delay"
  /\ ~wedged[n]
  /\ call' = [call EXCEPT ![n]["monitor"].pc =
                IF NoLeader(n) THEN "check" ELSE "idle"]
  /\ UNCHANGED <<leadershipVars, followerVars, promised, wedged, beaters, beats,
                 late, restarts, grants>>

(* The CLI, main, or TryElectSelf at a node that does not lead.            *)
RequestElection(n) ==
  /\ n \in Candidate
  /\ "client" \in Caller
  /\ call[n]["client"].pc = "idle"
  /\ IdLeft
  /\ ~wedged[n]
  /\ call' = [call EXCEPT ![n]["client"].pc = "check"]
  /\ UNCHANGED <<leadershipVars, followerVars, promised, wedged, beaters, beats,
                 late, restarts, grants>>

(* TryElectSelf at the leader returns without releasing the lock.          *)
TryElectSelfAsLeader(n) ==
  /\ "client" \in Caller
  /\ ~wedged[n]
  /\ isLeader[n]
  /\ wedged' = [wedged EXCEPT ![n] = TRUE]
  /\ UNCHANGED <<leadershipVars, followerVars, promised, call, beaters, beats,
                 late, restarts, grants>>

-----------------------------------------------------------------------------
(* LeaderElection                                                          *)

(* First critical section.                                                 *)
CheckLeader(n, k) ==
  /\ call[n][k].pc = "check"
  /\ ~wedged[n]
  /\ call' = [call EXCEPT ![n][k].pc = IF isLeader[n] THEN "idle" ELSE "draw"]
  /\ UNCHANGED <<leadershipVars, followerVars, promised, wedged, beaters, beats,
                 late, restarts, grants>>

(* Broken variants of the operators that follow them carry the suffix      *)
(* _Broken; no specification uses them.                                    *)
Fresh_Broken(b) == TRUE

(* UnixNano()<<8 and the last byte of the address: taken to be unique, not *)
(* to be above the IDs drawn elsewhere.                                    *)
Fresh(b) == \A c \in campaigns : c[2] # b

(* Second critical section, and ListAll: it answers a view, or fails and   *)
(* the call returns false.                                                 *)
DrawId(n, k) ==
  /\ call[n][k].pc = "draw"
  /\ ~wedged[n]
  /\ \E b \in Id :
       /\ Fresh(b)
       /\ leaderProposalID' = [leaderProposalID EXCEPT ![n] = b]
       /\ campaigns' = campaigns \cup {<<n, b>>}
       /\ \/ \E view \in Views :
               call' = [call EXCEPT ![n][k] =
                 [pc |-> "voting", id |-> b, view |-> view,
                  waiting |-> view \ {n}, promises |-> {}]]
          \/ call' = [call EXCEPT ![n][k] = NoCall]
  /\ UNCHANGED <<isLeader, followerVars, promised, wedged, beaters, beats, late,
                 restarts, grants>>

(* ProposeLeader at node m.                                                *)
Grants(m, b) == b > promised[m]

Promise_Broken(m, b) == [promised EXCEPT ![m] = b + 1]
Promise(m, b) == [promised EXCEPT ![m] = b]

ProposeLeader(m, b) ==
  /\ ~wedged[m]
  /\ IF Grants(m, b)
     THEN /\ promised' = Promise(m, b)
          /\ grants' = grants \cup {<<m, b>>}
     ELSE UNCHANGED <<promised, grants>>

(* The answer of m reaches the candidate.  A refusal comes with a gRPC     *)
(* error, so the candidate never reads the higher ID in it and does not    *)
(* abort the election.                                                     *)
DeliverProposeLeader(n, k, m) ==
  /\ call[n][k].pc = "voting"
  /\ m \in call[n][k].waiting
  /\ ProposeLeader(m, call[n][k].id)
  /\ call' = [call EXCEPT
       ![n][k].waiting = @ \ {m},
       ![n][k].promises = IF Grants(m, call[n][k].id) THEN @ \cup {m} ELSE @]
  /\ UNCHANGED <<leadershipVars, followerVars, wedged, beaters, beats, late,
                 restarts>>

(* A request whose caller gives up is lost, or arrives later.              *)
GiveUpOn(q) ==
  \/ UNCHANGED late
  \/ Cardinality(late) < MaxLate /\ late' = late \cup {q}

(* The RPC to m fails, or the 15 s of electionCtx are over.                *)
TimeOut(n, k, m) ==
  /\ call[n][k].pc = "voting"
  /\ m \in call[n][k].waiting
  /\ call' = [call EXCEPT ![n][k].waiting = @ \ {m}]
  /\ GiveUpOn([type |-> "propose", to |-> m, id |-> call[n][k].id])
  /\ UNCHANGED <<leadershipVars, followerVars, promised, wedged, beaters, beats,
                 restarts, grants>>

QuorumSize_Broken(view) == Cardinality(view) \div 2
QuorumSize(view) == (Cardinality(view) \div 2) + 1

HasQuorum_Broken(c) == Cardinality(c.promises) + 1 >= QuorumSize(c.view)

(* The candidate does not count itself.                                    *)
HasQuorum(c) == Cardinality(c.promises) >= QuorumSize(c.view)

Defeated_Broken(c) == c.waiting = {} /\ c.promises = {}
Defeated(c) == c.waiting = {} /\ ~HasQuorum(c)

(* Too few promises: the node does not lead, whatever another call of      *)
(* LeaderElection has set meanwhile.                                       *)
Lose(n, k) ==
  /\ call[n][k].pc = "voting"
  /\ ~wedged[n]
  /\ Defeated(call[n][k])
  /\ isLeader' = [isLeader EXCEPT ![n] = FALSE]
  /\ call' = [call EXCEPT ![n][k] = NoCall]
  /\ UNCHANGED <<leaderProposalID, campaigns, followerVars, promised, wedged,
                 beaters, beats, late, restarts, grants>>

(* A quorum promised: the node leads and overwrites its own promise.       *)
Win(n, k) ==
  /\ call[n][k].pc = "voting"
  /\ ~wedged[n]
  /\ call[n][k].waiting = {}
  /\ HasQuorum(call[n][k])
  /\ isLeader' = [isLeader EXCEPT ![n] = TRUE]
  /\ currentLeader' = [currentLeader EXCEPT ![n] = n]
  /\ silent' = [silent EXCEPT ![n] = FALSE]
  /\ promised' = Promise(n, call[n][k].id)
  /\ call' = [call EXCEPT ![n][k].pc = "won"]
  /\ UNCHANGED <<leaderProposalID, campaigns, wedged, beaters, beats, late,
                 restarts, grants>>

(* stopHeartbeats replaces the channel and offers the old one a signal,    *)
(* which a goroutine takes only if it waits for its ticker just then; then *)
(* a new goroutine starts.                                                 *)
Respawned_Broken(bt, taken) ==
  [listening |-> 0, deaf |-> bt.deaf + bt.listening - taken]
Respawned(bt, taken) ==
  [listening |-> 1, deaf |-> bt.deaf + bt.listening - taken]

StartBeating(n, k) ==
  /\ call[n][k].pc = "won"
  /\ ~wedged[n]
  /\ \E taken \in {0, 1} :
       /\ taken <= beaters[n].listening
       /\ beaters' = [beaters EXCEPT ![n] = Respawned(@, taken)]
  /\ call' = [call EXCEPT ![n][k] = NoCall]
  /\ UNCHANGED <<leadershipVars, followerVars, promised, wedged, beats, late,
                 restarts, grants>>

-----------------------------------------------------------------------------
(* StartLeaderHeartbeats                                                   *)

BeatersOf(n) == beaters[n].listening + beaters[n].deaf

(* A tick at the leader.  The goroutine waits for all the answers of a     *)
(* tick before the next; a second goroutine does not wait for the first.   *)
SendBeats(n) ==
  /\ BeatersOf(n) > 0
  /\ ~wedged[n]
  /\ isLeader[n]
  /\ BeatersOf(n) > 1 \/ \A q \in beats : q.from # n
  /\ \E view \in Views :
       beats' = beats \cup {[type |-> "beat", from |-> n, to |-> m,
                             id |-> leaderProposalID[n]] : m \in view \ {n}}
  /\ UNCHANGED <<leadershipVars, followerVars, promised, wedged, call, beaters,
                 late, restarts, grants>>

Demoted_Broken(n) == ~isLeader[n] /\ currentLeader[n] # n
Demoted(n) == ~isLeader[n]

(* A tick at a node that does not lead any more ends the goroutine.        *)
BeaterStops(n) ==
  /\ ~wedged[n]
  /\ Demoted(n)
  /\ \E which \in {"listening", "deaf"} :
       /\ beaters[n][which] > 0
       /\ beaters' = [beaters EXCEPT ![n][which] = @ - 1]
  /\ UNCHANGED <<leadershipVars, followerVars, promised, wedged, call, beats,
                 late, restarts, grants>>

-----------------------------------------------------------------------------
(* SendHeartbeat at node q.to, one operator per branch.  beats and late    *)
(* are left to the caller.                                                 *)

Refuses_Broken(m, b) == FALSE
Refuses(m, b) == b < promised[m]

LeadsAfter_Broken(q) == isLeader[q.to]
LeadsAfter(q) == q.to = q.from

(* The refusal changes nothing here, and nothing at the sender: the text   *)
(* it searches the answer for is not in it.                                *)
RefuseHeartbeat(q) ==
  /\ Refuses(q.to, q.id)
  /\ UNCHANGED <<leadershipVars, followerVars, promised, wedged>>

(* An ID above the promise: q.to follows the sender.  If it was leading,   *)
(* the handler calls stopHeartbeats, which waits for the lock the handler  *)
(* holds.                                                                  *)
FollowHeartbeat(q) ==
  /\ ~Refuses(q.to, q.id)
  /\ q.id # promised[q.to]
  /\ currentLeader' = [currentLeader EXCEPT ![q.to] = q.from]
  /\ silent' = [silent EXCEPT ![q.to] = FALSE]
  /\ promised' = Promise(q.to, q.id)
  /\ isLeader' = [isLeader EXCEPT ![q.to] = LeadsAfter(q)]
  /\ wedged' = [wedged EXCEPT ![q.to] = isLeader[q.to] /\ ~LeadsAfter(q)]
  /\ UNCHANGED <<leaderProposalID, campaigns>>

(* The promised ID: isLeader is recomputed before the test that would      *)
(* stop the heartbeats, which therefore never holds.                       *)
RenewHeartbeat(q) ==
  /\ q.id = promised[q.to]
  /\ currentLeader' = [currentLeader EXCEPT ![q.to] = q.from]
  /\ silent' = [silent EXCEPT ![q.to] = FALSE]
  /\ isLeader' = [isLeader EXCEPT ![q.to] = LeadsAfter(q)]
  /\ UNCHANGED <<leaderProposalID, campaigns, promised, wedged>>

SendHeartbeat(q) ==
  /\ ~wedged[q.to]
  /\ RefuseHeartbeat(q) \/ FollowHeartbeat(q) \/ RenewHeartbeat(q)

DeliverBeat(q) ==
  /\ SendHeartbeat(q)
  /\ beats' = beats \ {q}
  /\ UNCHANGED <<call, beaters, late, restarts, grants>>

(* The 8 s of a heartbeat are over.                                        *)
TimeOutBeat(q) ==
  /\ beats' = beats \ {q}
  /\ GiveUpOn(q)
  /\ UNCHANGED <<leadershipVars, followerVars, promised, wedged, call, beaters,
                 restarts, grants>>

LateBeat(q) ==
  /\ q.type = "beat"
  /\ SendHeartbeat(q)
  /\ late' = late \ {q}
  /\ UNCHANGED <<call, beaters, beats, restarts, grants>>

LateProposeLeader(q) ==
  /\ q.type = "propose"
  /\ ProposeLeader(q.to, q.id)
  /\ late' = late \ {q}
  /\ UNCHANGED <<leadershipVars, followerVars, wedged, call, beaters, beats,
                 restarts>>

-----------------------------------------------------------------------------
(* leaderTimeout passes at node n without a heartbeat.  Only the monitor   *)
(* looks.                                                                  *)
FallSilent(n) ==
  /\ n \in Candidate
  /\ "monitor" \in Caller
  /\ ~silent[n]
  /\ silent' = [silent EXCEPT ![n] = TRUE]
  /\ UNCHANGED <<leadershipVars, currentLeader, promised, wedged, call, beaters,
                 beats, late, restarts, grants>>

(* The process of node n is killed and started again.                      *)
Restart(n) ==
  /\ restarts < MaxRestarts
  /\ restarts' = restarts + 1
  /\ isLeader' = [isLeader EXCEPT ![n] = FALSE]
  /\ leaderProposalID' = [leaderProposalID EXCEPT ![n] = 0]
  /\ currentLeader' = [currentLeader EXCEPT ![n] = Nil]
  /\ silent' = [silent EXCEPT ![n] = FALSE]
  /\ promised' = [promised EXCEPT ![n] = 0]
  /\ wedged' = [wedged EXCEPT ![n] = FALSE]
  /\ call' = [call EXCEPT ![n] = [k \in Caller |-> NoCall]]
  /\ beaters' = [beaters EXCEPT ![n] = [listening |-> 0, deaf |-> 0]]
  /\ beats' = {q \in beats : q.from # n /\ q.to # n}
  /\ late' = {q \in late : q.to # n}
  /\ UNCHANGED <<campaigns, grants>>

ElectionStep(n, k) ==
  \/ CheckLeader(n, k)
  \/ DrawId(n, k)
  \/ Lose(n, k)
  \/ Win(n, k)
  \/ StartBeating(n, k)
  \/ \E m \in Node : DeliverProposeLeader(n, k, m) \/ TimeOut(n, k, m)

Next ==
  \/ \E n \in Node, k \in Caller : ElectionStep(n, k)
  \/ \E n \in Node :
       \/ MonitorTick(n)
       \/ DelayEnds(n)
       \/ RequestElection(n)
       \/ TryElectSelfAsLeader(n)
       \/ SendBeats(n)
       \/ BeaterStops(n)
       \/ FallSilent(n)
       \/ Restart(n)
  \/ \E q \in beats : DeliverBeat(q) \/ TimeOutBeat(q)
  \/ \E q \in late : LateBeat(q) \/ LateProposeLeader(q)

Spec == Init /\ [][Next]_vars

(* RPCs, sleeps and ListAll end, and the heartbeat ticker goes on.         *)
Fairness ==
  /\ \A n \in Node, k \in Caller : WF_vars(ElectionStep(n, k))
  /\ \A n \in Node : WF_vars(DelayEnds(n)) /\ WF_vars(BeaterStops(n))

FairSpec == Spec /\ Fairness

-----------------------------------------------------------------------------
(* Properties of every run.                                                *)

(* The election is what the log takes it to be.                            *)
Abstract == INSTANCE Leadership

LeadershipSpec == Abstract!LeadershipSpec

(* A node that leads names itself when asked for the leader (GetStatus),   *)
(* through elections, heartbeats and failed elections in any order.        *)
LeaderNamesItself == \A n \in Node : isLeader[n] => currentLeader[n] = n

(* More than half of the nodes of some list the registry gives promised b  *)
(* to n, n itself not counted.                                             *)
HasMandate(n, b) ==
  \E view \in Views :
    2 * Cardinality({m \in view \ {n} : <<m, b>> \in grants}) > Cardinality(view)

(* Nobody takes for its leader a node that did not win an election.        *)
FollowedWereElected ==
  \A n \in Node :
    currentLeader[n] # Nil =>
      \E b \in Id : <<currentLeader[n], b>> \in campaigns
                    /\ HasMandate(currentLeader[n], b)

(* A leader has a goroutine that sends its heartbeats: none is stopped by  *)
(* a signal meant for its predecessor without being replaced.              *)
LeaderBeats ==
  \A n \in Node :
    isLeader[n] => \/ BeatersOf(n) > 0
                   \/ \E k \in Caller : call[n][k].pc = "won"

(* A node goes back on a promise only for an ID of its own, when it wins   *)
(* with it, or by restarting.                                              *)
PromisesKept ==
  [][\A n \in Node :
       promised'[n] < promised[n] =>
         <<n, promised'[n]>> \in campaigns \/ restarts' # restarts]_vars

-----------------------------------------------------------------------------
(* Properties of nodes on which only the monitor calls LeaderElection.     *)

(* The ID a leader puts in its heartbeats and proposals is one a majority  *)
(* promised to it.                                                         *)
LeaderHasMandate ==
  \A n \in Node : isLeader[n] => HasMandate(n, leaderProposalID[n])

-----------------------------------------------------------------------------
(* Liveness, under FairSpec.                                               *)

(* Every call of LeaderElection returns, unless the node is wedged.        *)
ElectionReturns ==
  \A n \in Node, k \in Caller :
    call[n][k].pc # "idle" ~> call[n][k].pc = "idle" \/ wedged[n]

(* The heartbeat goroutines of a node that stays demoted come to an end,   *)
(* those included that missed the signal of stopHeartbeats.                *)
DemotedFallsQuiet ==
  \A n \in Node :
    ~isLeader[n] ~> isLeader[n] \/ wedged[n] \/ BeatersOf(n) = 0
=============================================================================
