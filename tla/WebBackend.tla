------------------------------ MODULE WebBackend ------------------------------
(***************************************************************************)
(* The web backend (backend/cmd/main.go): every ten seconds it asks the    *)
(* registry for the nodes and each node for its status, and keeps the list *)
(* and the leader it found; requests for the page, each in a goroutine of  *)
(* its own, sort that list in place, after they have given the lock back,  *)
(* and send it.                                                            *)
(*                                                                         *)
(* What the nodes do is seen through what GetStatus answers: whether a     *)
(* node leads, and with which proposal ID.                                 *)
(***************************************************************************)
EXTENDS Integers, FiniteSets, SequencesExt

CONSTANTS
  Node,   \* the nodes, numbers ordered as their addresses
  Viewer, \* requests for the page that may run at once
  MaxId   \* bound: proposal IDs

ASSUME BackendAssumption ==
  /\ Node \subseteq Nat \ {0}
  /\ IsFiniteSet(Node)
  /\ MaxId \in Nat

Nobody == 0   \* leaderAddress ""
Id == 1..MaxId

(* The slice ws.nodes is replaced by every poll; requests that took the    *)
(* last one before go on with it.  Bound: no more than two are in use.     *)
Array == {1, 2}

VARIABLES
  claim,         \* the ID a node leads with, 0 if it does not lead
  remaining,     \* updateNodesInfo: the services it has not asked yet
  newNodes,      \* the addresses in newNodes
  candidate,     \* currentLeaderAddr and currentLeaderID
  polling,       \* updateNodesInfo runs
  expired,       \* its context, of ten seconds, has expired
  arrays,        \* the slices
  nodes,         \* ws.nodes: which slice
  leaderAddress, \* ws.leaderAddress
  view,          \* the requests in indexHandler
  listing,       \* history: whom the registry lists in this poll
  listed,        \* history: whom the registry had listed, per slice
  raced,         \* history: slices that two requests sorted at once
  calm,          \* history: nothing has gone wrong or changed in this poll
  settled        \* history: nor in the last one and since

poll == <<remaining, newNodes, candidate, polling, expired>>
cached == <<arrays, nodes, leaderAddress>>
vars == <<claim, poll, cached, view, listing, listed, raced, calm, settled>>

NoCandidate == [address |-> Nobody, id |-> 0]
Idle == [at |-> "idle", array |-> 1, i |-> 2, j |-> 2, left |-> 0, right |-> 0]

(* One indexHandler: the element j of the first i it compares, and the two *)
(* elements of a swap it has read and not yet written.                     *)
ViewState ==
  [at : {"idle", "compare", "read", "write", "rewrite", "encode"},
   array : Array, i : Nat, j : Nat \ {0, 1},
   left : {0} \cup Node, right : {0} \cup Node]

TypeOK ==
  /\ claim \in [Node -> {0} \cup Id]
  /\ remaining \in Seq(Node) /\ newNodes \in Seq(Node)
  /\ candidate \in [address : {Nobody} \cup Node, id : {0} \cup Id]
  /\ polling \in BOOLEAN /\ expired \in BOOLEAN
  /\ arrays \in [Array -> Seq(Node)]
  /\ nodes \in Array
  /\ leaderAddress \in {Nobody} \cup Node
  /\ view \in [Viewer -> ViewState]
  /\ listing \subseteq Node
  /\ listed \in [Array -> SUBSET Node]
  /\ raced \subseteq Array
  /\ calm \in BOOLEAN /\ settled \in BOOLEAN

Init ==
  /\ claim = [n \in Node |-> 0]
  /\ remaining = <<>> /\ newNodes = <<>>
  /\ candidate = NoCandidate
  /\ polling = FALSE /\ expired = FALSE
  /\ arrays = [a \in Array |-> <<>>]
  /\ nodes = 1
  /\ leaderAddress = Nobody
  /\ view = [v \in Viewer |-> Idle]
  /\ listing = {}
  /\ listed = [a \in Array |-> {}]
  /\ raced = {}
  /\ calm = FALSE /\ settled = FALSE

-----------------------------------------------------------------------------
(* A node wins an election or stops leading; IDs are unique.               *)
Lead(n, b) ==
  /\ b # claim[n]
  /\ \A m \in Node : claim[m] = b => b = 0
  /\ claim' = [claim EXCEPT ![n] = b]
  /\ calm' = FALSE /\ settled' = FALSE
  /\ UNCHANGED <<poll, cached, view, listing, listed, raced>>

-----------------------------------------------------------------------------
(* updateNodesInfo.  The registry lists the nodes in the order of a Go map, *)
(* any order.  If ListAll fails nothing happens until the next tick.       *)
Lists == UNION {SetToSeqs(S) : S \in SUBSET Node}

StartPoll_Broken(list) ==
  /\ ~polling
  /\ polling' = TRUE
  /\ remaining' = list
  /\ newNodes' = <<>> /\ candidate' = NoCandidate
  /\ calm' = (ToSet(list) = Node)
  /\ listing' = ToSet(list)
  /\ UNCHANGED <<claim, expired, cached, view, listed, raced, settled>>

StartPoll(list) ==
  /\ ~polling
  /\ polling' = TRUE /\ expired' = FALSE
  /\ remaining' = list
  /\ newNodes' = <<>> /\ candidate' = NoCandidate
  /\ calm' = (ToSet(list) = Node)
  /\ listing' = ToSet(list)
  /\ UNCHANGED <<claim, cached, view, listed, raced, settled>>

(* The loop goes on to the next service and lists this one, whatever came. *)
NextService ==
  /\ polling
  /\ remaining # <<>>
  /\ remaining' = Tail(remaining)
  /\ newNodes' = Append(newNodes, Head(remaining))
  /\ UNCHANGED <<claim, polling, cached, view, listing, listed, raced, settled>>

Outranks(id) == id > candidate.id

Answer ==
  /\ NextService
  /\ ~expired
  /\ LET n == Head(remaining)
     IN  candidate' = IF Outranks(claim[n]) THEN [address |-> n, id |-> claim[n]]
                                            ELSE candidate
  /\ UNCHANGED <<expired, calm>>

(* GetStatus fails at once, or takes up the rest of the ten seconds, ...   *)
Trouble ==
  /\ NextService
  /\ ~expired
  /\ expired' \in BOOLEAN
  /\ calm' = FALSE
  /\ UNCHANGED candidate

(* ... after which it fails for every node that is still to be asked.      *)
AskTooLate ==
  /\ NextService
  /\ expired
  /\ UNCHANGED <<candidate, expired, calm>>

InUse(a) == \E v \in Viewer : view[v].at # "idle" /\ view[v].array = a

(* The slice before the one that is shown.                                 *)
Older == 3 - nodes

NewArray_Broken == nodes
NewArray == Older

(* The older slice is garbage, by the bound, when a poll ends.             *)
Publish ==
  /\ polling
  /\ remaining = <<>>
  /\ ~InUse(Older)
  /\ polling' = FALSE
  /\ arrays' = [a \in Array |-> IF a = NewArray THEN newNodes
                                ELSE IF InUse(a) THEN arrays[a] ELSE <<>>]
  /\ listed' = [a \in Array |-> IF a = NewArray THEN listing
                                ELSE IF InUse(a) THEN listed[a] ELSE {}]
  /\ raced' = raced \ {NewArray}
  /\ nodes' = NewArray
  /\ leaderAddress' = candidate.address
  /\ newNodes' = <<>> /\ candidate' = NoCandidate /\ listing' = {}
  /\ calm' = FALSE
  /\ settled' = calm
  /\ UNCHANGED <<claim, remaining, expired, view>>

-----------------------------------------------------------------------------
(* indexHandler: the slice and the leader are taken under the lock, and    *)
(* then sort.Slice, an insertion sort on up to twelve nodes, works on the  *)
(* slice.                                                                  *)
View(v, at) == view' = [view EXCEPT ![v].at = at]
Slice(v) == arrays[view[v].array]

Sorting(v) == view[v].at \notin {"idle", "encode"}

(* The sort goes on at element j of the first i, or is done.               *)
SortFrom(v, a, i, j) ==
  view' = [view EXCEPT ![v] =
             [Idle EXCEPT !.array = a, !.i = i, !.j = j,
                          !.at = IF i > Len(arrays[a]) THEN "encode" ELSE "compare"]]

Take(v) ==
  /\ view[v].at = "idle"
  /\ SortFrom(v, nodes, 2, 2)
  /\ raced' = IF \E w \in Viewer : Sorting(w) /\ view[w].array = nodes
                THEN raced \cup {nodes} ELSE raced
  /\ UNCHANGED <<claim, poll, cached, listing, listed, calm, settled>>

Precedes(m, n) == m < n

(* Element j is to be swapped with the one before, or has found its place. *)
Compare(v) ==
  LET i == view[v].i
      j == view[v].j
  IN  /\ view[v].at = "compare"
      /\ IF Precedes(Slice(v)[j], Slice(v)[j - 1])
           THEN View(v, "read")
           ELSE SortFrom(v, view[v].array, i + 1, i + 1)
      /\ UNCHANGED <<claim, poll, cached, listing, listed, raced, calm, settled>>

(* A swap reads both elements and writes one after the other.              *)
Read(v) ==
  /\ view[v].at = "read"
  /\ view' = [view EXCEPT ![v].at = "write",
                          ![v].left = Slice(v)[view[v].j - 1],
                          ![v].right = Slice(v)[view[v].j]]
  /\ UNCHANGED <<claim, poll, cached, listing, listed, raced, calm, settled>>

IsFirst_Broken(j) == j = 0
IsFirst(j) == j = 1

WriteSlice(v, k, n) == arrays' = [arrays EXCEPT ![view[v].array][k] = n]

Write(v) ==
  LET i == view[v].i
      j == view[v].j
  IN  /\ \/ /\ view[v].at = "write"
            /\ WriteSlice(v, j, view[v].left)
            /\ view' = [view EXCEPT ![v].at = "rewrite", ![v].left = 0]
         \/ /\ view[v].at = "rewrite"
            /\ WriteSlice(v, j - 1, view[v].right)
            /\ IF IsFirst(j - 1) THEN SortFrom(v, view[v].array, i + 1, i + 1)
                                 ELSE SortFrom(v, view[v].array, i, j - 1)
      /\ UNCHANGED <<claim, poll, nodes, leaderAddress, listing, listed, raced,
                     calm, settled>>

Encode(v) ==
  /\ view[v].at = "encode"
  /\ view' = [view EXCEPT ![v] = Idle]
  /\ LET garbage == {Older} \ {view[w].array : w \in {u \in Viewer \ {v} : view[u].at # "idle"}}
     IN  /\ arrays' = [a \in Array |-> IF a \in garbage THEN <<>> ELSE arrays[a]]
         /\ listed' = [a \in Array |-> IF a \in garbage THEN {} ELSE listed[a]]
         /\ raced' = raced \ garbage
  /\ UNCHANGED <<claim, poll, nodes, leaderAddress, listing, calm, settled>>

-----------------------------------------------------------------------------
Poll == (\E list \in Lists : StartPoll(list)) \/ Answer \/ Trouble \/ AskTooLate \/ Publish
Show(v) == Take(v) \/ Compare(v) \/ Read(v) \/ Write(v) \/ Encode(v)

Next ==
  \/ \E n \in Node, b \in {0} \cup Id : Lead(n, b)
  \/ Poll
  \/ \E v \in Viewer : Show(v)

Spec == Init /\ [][Next]_vars

-----------------------------------------------------------------------------
(* The node that leads with the highest ID.                                *)
Leading ==
  LET leaders == {n \in Node : claim[n] # 0}
  IN  IF leaders = {} THEN Nobody
      ELSE CHOOSE n \in leaders : \A m \in leaders : claim[m] <= claim[n]

(* If no leadership has changed since the last finished poll began, in     *)
(* which the registry listed all nodes and none failed to answer, then the *)
(* leader shown is the one with the highest ID, in whichever order they    *)
(* were asked and whatever went wrong in the polls before.                 *)
ShownLeaderLeads == settled => leaderAddress = Leading

(* A request sends each node that the registry had listed once, in order,  *)
(* those included that did not answer, and a poll that ends meanwhile does *)
(* not mix its results in.  Only two requests that sort one slice at once  *)
(* can spoil it (main.go:105 "consistent display").                        *)
PagesAreConsistent ==
  \A v \in Viewer :
    view[v].at = "encode" /\ view[v].array \notin raced
    => /\ \A k \in 1..(Len(Slice(v)) - 1) : Slice(v)[k] < Slice(v)[k + 1]
       /\ ToSet(Slice(v)) = listed[view[v].array]
=============================================================================
