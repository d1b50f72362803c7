--------------------------- MODULE WebBackendProofs ---------------------------
(***************************************************************************)
(* Theorems about WebBackend, for any nodes, IDs and number of requests:   *)
(* the leader shown is the one that leads, and a page that nobody else     *)
(* sorts lists every node once and in order.                               *)
(***************************************************************************)
EXTENDS WebBackend, FiniteSetTheorems, SequenceTheorems, TLAPS

-----------------------------------------------------------------------------
(* Sequences of nodes.                                                     *)
Distinct(s) == \A k, l \in 1..Len(s) : k # l => s[k] # s[l]

LEMMA Elements ==
  ASSUME NEW s \in Seq(Node)
  PROVE  /\ Len(s) \in Nat
         /\ \A k \in 1..Len(s) : s[k] \in Node
         /\ \A n : n \in ToSet(s) <=> \E k \in 1..Len(s) : s[k] = n
BY DEF ToSet

LEMMA NoElements == <<>> \in Seq(Node) /\ Distinct(<<>>) /\ ToSet(<<>>) = {}
BY DEF ToSet, Distinct

(* What the registry answers: each node of a set once.                     *)
LEMMA ListsAreDistinct == \A list \in Lists : list \in Seq(Node) /\ Distinct(list)
<1>1. ASSUME NEW S \in SUBSET Node, NEW list \in SetToSeqs(S)
      PROVE  list \in Seq(Node) /\ Distinct(list)
  <2>1. Cardinality(S) \in Nat
    BY BackendAssumption, FS_Subset, FS_CardinalityType DEF BackendAssumption
  <2>2. /\ list \in [1..Cardinality(S) -> S]
        /\ \A k, l \in 1..Cardinality(S) : k # l => list[k] # list[l]
    BY DEF SetToSeqs
  <2>3. list \in Seq(Node) /\ Len(list) = Cardinality(S)
    BY <2>1, <2>2
  <2>4. QED BY <2>2, <2>3 DEF Distinct
<1>2. QED BY <1>1 DEF Lists

(* One service moves from the list to the nodes found.                     *)
LEMMA Moved ==
  ASSUME NEW s \in Seq(Node), NEW t \in Seq(Node), s # <<>>
  PROVE  /\ Head(s) \in Node /\ Tail(s) \in Seq(Node)
         /\ Append(t, Head(s)) \in Seq(Node)
         /\ ToSet(s) = {Head(s)} \cup ToSet(Tail(s))
         /\ ToSet(Append(t, Head(s))) = ToSet(t) \cup {Head(s)}
         /\ Distinct(s) => Distinct(Tail(s)) /\ Head(s) \notin ToSet(Tail(s))
         /\ Distinct(t) /\ Head(s) \notin ToSet(t) => Distinct(Append(t, Head(s)))
<1> DEFINE u == Append(t, Head(s))
<1>1. /\ Head(s) \in Node /\ Tail(s) \in Seq(Node) /\ Head(s) = s[1]
      /\ Len(s) \in Nat \ {0} /\ Len(Tail(s)) = Len(s) - 1
      /\ \A k \in 1..Len(Tail(s)) : Tail(s)[k] = s[k + 1]
  BY HeadTailProperties, EmptySeq
<1>2. /\ u \in Seq(Node) /\ Len(t) \in Nat /\ Len(u) = Len(t) + 1
      /\ u[Len(t) + 1] = Head(s) /\ \A k \in 1..Len(t) : u[k] = t[k]
  BY <1>1
<1>3. ToSet(s) = {Head(s)} \cup ToSet(Tail(s))
  <2>1. ASSUME NEW n \in ToSet(s) PROVE n \in {Head(s)} \cup ToSet(Tail(s))
    <3>1. PICK k \in 1..Len(s) : s[k] = n
      BY Elements
    <3>2. CASE k = 1
      BY <1>1, <3>1, <3>2
    <3>3. CASE k # 1
      <4>1. k - 1 \in 1..Len(Tail(s)) /\ Tail(s)[k - 1] = n
        BY <1>1, <3>1, <3>3
      <4>2. QED BY <1>1, <4>1, Elements
    <3>4. QED BY <3>2, <3>3
  <2>2. ASSUME NEW n \in ToSet(Tail(s)) PROVE n \in ToSet(s)
    <3>1. PICK k \in 1..Len(Tail(s)) : Tail(s)[k] = n
      BY <1>1, Elements
    <3>2. k + 1 \in 1..Len(s) /\ s[k + 1] = n
      BY <1>1, <3>1
    <3>3. QED BY <3>2, Elements
  <2>3. Head(s) \in ToSet(s)
    BY <1>1, Elements
  <2>4. QED BY <2>1, <2>2, <2>3
<1>4. ToSet(u) = ToSet(t) \cup {Head(s)}
  <2>1. ASSUME NEW n \in ToSet(u) PROVE n \in ToSet(t) \cup {Head(s)}
    <3>1. PICK k \in 1..Len(u) : u[k] = n
      BY <1>2, Elements
    <3>2. k = Len(t) + 1 \/ k \in 1..Len(t)
      BY <1>2
    <3>3. QED BY <1>2, <3>1, <3>2, Elements
  <2>2. ASSUME NEW n \in ToSet(t) PROVE n \in ToSet(u)
    <3>1. PICK k \in 1..Len(t) : t[k] = n
      BY Elements
    <3>2. k \in 1..Len(u) /\ u[k] = n
      BY <1>2, <3>1
    <3>3. QED BY <1>2, <3>2, Elements
  <2>3. Head(s) \in ToSet(u)
    <3>1. Len(t) + 1 \in 1..Len(u)
      BY <1>2
    <3>2. QED BY <1>2, <3>1, Elements
  <2>4. QED BY <2>1, <2>2, <2>3
<1>5. ASSUME Distinct(s) PROVE Distinct(Tail(s)) /\ Head(s) \notin ToSet(Tail(s))
  <2>1. Distinct(Tail(s))
    BY <1>1, <1>5 DEF Distinct
  <2>2. ASSUME Head(s) \in ToSet(Tail(s)) PROVE FALSE
    <3>1. PICK k \in 1..Len(Tail(s)) : Tail(s)[k] = Head(s)
      BY <1>1, <2>2, Elements
    <3>2. k + 1 \in 1..Len(s) /\ 1 \in 1..Len(s) /\ s[k + 1] = s[1] /\ k + 1 # 1
      BY <1>1, <3>1
    <3>3. QED BY <1>5, <3>2 DEF Distinct
  <2>3. QED BY <2>1, <2>2
<1>6. ASSUME Distinct(t), Head(s) \notin ToSet(t) PROVE Distinct(u)
  <2>1. \A k \in 1..Len(t) : t[k] # Head(s)
    BY <1>6, Elements
  <2>2. QED BY <1>2, <1>6, <2>1 DEF Distinct
<1>7. QED BY <1>1, <1>2, <1>3, <1>4, <1>5, <1>6

-----------------------------------------------------------------------------
(* Type correctness.                                                       *)

(* A request that sorts works inside its slice, and a swap it has begun is *)
(* of two nodes.                                                           *)
InRange(r, s) ==
  /\ r.at \in {"compare", "read", "write", "rewrite"}
       => r.i \in 2..Len(s) /\ r.j \in 2..r.i
  /\ r.at = "write" => r.left \in Node
  /\ r.at \in {"write", "rewrite"} => r.right \in Node

ViewsInRange == \A v \in Viewer : InRange(view[v], Slice(v))

TypeInv == TypeOK /\ ViewsInRange

LEMMA IdleType == Idle \in ViewState
BY DEF Idle, ViewState, Array

LEMMA TypeInvInit == Init => TypeInv
<1> SUFFICES ASSUME Init PROVE TypeInv
  OBVIOUS
<1>1. view \in [Viewer -> ViewState]
  BY IdleType DEF Init
<1>2. TypeOK
  BY <1>1, NoElements DEF Init, TypeOK, NoCandidate, Array
<1>3. ViewsInRange
  BY DEF Init, ViewsInRange, InRange, Idle
<1>4. QED BY <1>2, <1>3 DEF TypeInv

(* A request goes on to another state, and its slice stays as long as it   *)
(* was.                                                                    *)
SlicesKeep ==
  /\ arrays' \in [Array -> Seq(Node)]
  /\ \A v \in Viewer : view[v].at # "idle" =>
       Len(arrays'[view[v].array]) = Len(Slice(v))

LEMMA ViewMoves ==
  ASSUME TypeInv, SlicesKeep, NEW v \in Viewer, NEW r \in ViewState,
         view' = [view EXCEPT ![v] = r], InRange(r, arrays'[r.array])
  PROVE  view' \in [Viewer -> ViewState] /\ ViewsInRange'
<1>1. view' \in [Viewer -> ViewState]
  BY DEF TypeInv, TypeOK
<1>2. ASSUME NEW w \in Viewer, w # v PROVE InRange(view'[w], arrays'[view'[w].array])
  <2>1. view'[w] = view[w]
    BY <1>2 DEF TypeInv, TypeOK
  <2>2. view[w].at # "idle" => Len(arrays'[view[w].array]) = Len(arrays[view[w].array])
    BY DEF SlicesKeep, Slice
  <2>3. QED BY <2>1, <2>2 DEF TypeInv, ViewsInRange, InRange, Slice
<1>3. view'[v] = r
  BY DEF TypeInv, TypeOK
<1>4. QED BY <1>1, <1>2, <1>3 DEF ViewsInRange, Slice

LEMMA ViewsStay ==
  ASSUME TypeInv, SlicesKeep, UNCHANGED view
  PROVE  view' \in [Viewer -> ViewState] /\ ViewsInRange'
<1>1. ASSUME NEW w \in Viewer PROVE InRange(view[w], arrays'[view[w].array])
  <2>1. view[w].at # "idle" => Len(arrays'[view[w].array]) = Len(arrays[view[w].array])
    BY DEF SlicesKeep, Slice
  <2>2. QED BY <2>1 DEF TypeInv, ViewsInRange, InRange, Slice
<1>2. QED BY <1>1 DEF ViewsInRange, Slice, TypeInv, TypeOK

LEMMA SortContinues ==
  ASSUME TypeInv, NEW v \in Viewer, NEW a \in Array, NEW i \in Nat, NEW j \in 2..i,
         SortFrom(v, a, i, j)
  PROVE  \E r \in ViewState :
           /\ view' = [view EXCEPT ![v] = r]
           /\ r.array = a /\ r.i = i /\ r.j = j
           /\ r.at = IF i > Len(arrays[a]) THEN "encode" ELSE "compare"
           /\ \A s \in Seq(Node) : Len(s) = Len(arrays[a]) => InRange(r, s)
<1> DEFINE r == [Idle EXCEPT !.array = a, !.i = i, !.j = j,
                             !.at = IF i > Len(arrays[a]) THEN "encode" ELSE "compare"]
<1>1. view' = [view EXCEPT ![v] = r]
  BY DEF SortFrom
<1>2. /\ r.array = a /\ r.i = i /\ r.j = j
      /\ r.at = IF i > Len(arrays[a]) THEN "encode" ELSE "compare"
      /\ r \in ViewState
  <2>1. /\ r.array = a /\ r.i = i /\ r.j = j
        /\ r.at = IF i > Len(arrays[a]) THEN "encode" ELSE "compare"
    BY IdleType DEF Idle
  <2>2. j \in Nat \ {0, 1}
    OBVIOUS
  <2>3. r \in ViewState
    <3>1. /\ [Idle EXCEPT !.array = a] \in ViewState
          /\ [Idle EXCEPT !.array = a, !.i = i] \in ViewState
      BY IdleType DEF ViewState
    <3>2. [Idle EXCEPT !.array = a, !.i = i, !.j = j] \in ViewState
      BY <2>2, <3>1 DEF ViewState
    <3>3. QED BY <3>2 DEF ViewState
  <2>4. QED BY <2>1, <2>3
<1>3. Len(arrays[a]) \in Nat
  BY Elements DEF TypeInv, TypeOK
<1>4. ASSUME NEW s \in Seq(Node), Len(s) = Len(arrays[a]) PROVE InRange(r, s)
  BY <1>2, <1>3, <1>4 DEF InRange
<1>5. QED BY <1>1, <1>2, <1>4

(* The two writes of a swap.                                               *)
LEMMA WriteKeeps ==
  ASSUME TypeInv, NEW v \in Viewer, view[v].at # "idle", NEW k \in 1..Len(Slice(v)),
         NEW n \in Node, WriteSlice(v, k, n)
  PROVE  /\ SlicesKeep
         /\ arrays'[view[v].array] = [Slice(v) EXCEPT ![k] = n]
         /\ \A a \in Array : a # view[v].array => arrays'[a] = arrays[a]
<1> DEFINE a == view[v].array
<1>1. a \in Array /\ Slice(v) = arrays[a] /\ arrays[a] \in Seq(Node)
  BY DEF TypeInv, TypeOK, ViewState, Slice
<1>2. arrays' = [arrays EXCEPT ![a] = [arrays[a] EXCEPT ![k] = n]]
  BY <1>1 DEF WriteSlice, TypeInv, TypeOK
<1>3. /\ [arrays[a] EXCEPT ![k] = n] \in Seq(Node)
      /\ Len([arrays[a] EXCEPT ![k] = n]) = Len(arrays[a])
  BY <1>1, ExceptSeq
<1>4. /\ arrays'[a] = [arrays[a] EXCEPT ![k] = n]
      /\ \A c \in Array : c # a => arrays'[c] = arrays[c]
  BY <1>1, <1>2 DEF TypeInv, TypeOK
<1>5. SlicesKeep
  <2>1. arrays' \in [Array -> Seq(Node)]
    BY <1>1, <1>2, <1>3 DEF TypeInv, TypeOK
  <2>2. ASSUME NEW w \in Viewer
        PROVE  Len(arrays'[view[w].array]) = Len(Slice(w))
    <3>1. view[w].array \in Array
      BY DEF TypeInv, TypeOK, ViewState
    <3>2. QED BY <1>1, <1>3, <1>4, <3>1 DEF Slice
  <2>3. QED BY <2>1, <2>2 DEF SlicesKeep
<1>6. QED BY <1>1, <1>4, <1>5

LEMMA UnusedFreed ==
  ASSUME TypeInv, NEW garbage \in SUBSET Array,
         arrays' = [a \in Array |-> IF a \in garbage THEN <<>> ELSE arrays[a]]
  PROVE  arrays' \in [Array -> Seq(Node)]
BY NoElements DEF TypeInv, TypeOK

(* Every step keeps the types.                                             *)
LEMMA TypeInvStep == TypeInv /\ [Next]_vars => TypeInv'
<1> SUFFICES ASSUME TypeInv, [Next]_vars PROVE TypeInv'
  OBVIOUS
<1> USE DEF TypeInv
<1>e. UNCHANGED arrays => SlicesKeep
  BY DEF SlicesKeep, TypeOK, Slice
<1>1. ASSUME NEW n \in Node, NEW b \in {0} \cup Id, Lead(n, b)
      PROVE  TypeInv'
  BY <1>1, <1>e, ViewsStay DEF Lead, TypeOK, poll, cached
<1>2. ASSUME NEW list \in Lists, StartPoll(list)
      PROVE  TypeInv'
  <2>1. list \in Seq(Node) /\ ToSet(list) \subseteq Node
    BY ListsAreDistinct, Elements
  <2>2. QED
    BY <1>2, <1>e, <2>1, ViewsStay, NoElements DEF StartPoll, NoCandidate, TypeOK, cached
<1>3. ASSUME Answer \/ Trouble \/ AskTooLate
      PROVE  TypeInv'
  <2>1. /\ remaining' \in Seq(Node) /\ newNodes' \in Seq(Node)
        /\ Head(remaining) \in Node
        /\ UNCHANGED <<claim, polling, cached, view, listing, listed, raced, settled>>
    <3>1. NextService
      BY <1>3 DEF Answer, Trouble, AskTooLate
    <3>2. remaining \in Seq(Node) /\ newNodes \in Seq(Node) /\ remaining # <<>>
      BY <3>1 DEF NextService, TypeOK
    <3>3. /\ Tail(remaining) \in Seq(Node) /\ Head(remaining) \in Node
          /\ Append(newNodes, Head(remaining)) \in Seq(Node)
      BY <3>2, Moved
    <3>4. QED BY <3>1, <3>3 DEF NextService
  <2>2. candidate' \in [address : {Nobody} \cup Node, id : {0} \cup Id]
    BY <1>3, <2>1 DEF Answer, Trouble, AskTooLate, TypeOK
  <2>3. expired' \in BOOLEAN /\ calm' \in BOOLEAN
    BY <1>3 DEF Answer, Trouble, AskTooLate, TypeOK
  <2>4. QED
    BY <1>e, <2>1, <2>2, <2>3, ViewsStay DEF TypeOK, cached
<1>4. ASSUME Publish
      PROVE  TypeInv'
  <2>1. Older \in Array
    BY DEF Older, TypeOK, Array
  <2>2. /\ arrays' = [a \in Array |-> IF a = Older THEN newNodes
                                      ELSE IF InUse(a) THEN arrays[a] ELSE <<>>]
        /\ listed' = [a \in Array |-> IF a = Older THEN listing
                                      ELSE IF InUse(a) THEN listed[a] ELSE {}]
        /\ raced' = raced \ {Older} /\ nodes' = Older
        /\ leaderAddress' = candidate.address
        /\ newNodes' = <<>> /\ candidate' = NoCandidate /\ listing' = {}
        /\ polling' = FALSE /\ calm' = FALSE /\ settled' = calm
        /\ UNCHANGED <<claim, remaining, expired, view>> /\ ~InUse(Older)
    BY <1>4 DEF Publish, NewArray
  <2>3. arrays' \in [Array -> Seq(Node)]
    BY <2>2, NoElements DEF TypeOK
  <2>4. SlicesKeep
    BY <2>2, <2>3 DEF SlicesKeep, InUse, Slice, TypeOK, ViewState
  <2>5. listed' \in [Array -> SUBSET Node]
    BY <2>2 DEF TypeOK
  <2>6. QED
    BY <2>1, <2>2, <2>3, <2>4, <2>5, ViewsStay, NoElements DEF TypeOK, NoCandidate
<1>5. ASSUME NEW v \in Viewer, Take(v)
      PROVE  TypeInv'
  <2>1. UNCHANGED <<claim, poll, cached, listing, listed, calm, settled>>
    BY <1>5 DEF Take
  <2>2. PICK r \in ViewState :
          view' = [view EXCEPT ![v] = r] /\ r.array = nodes /\ InRange(r, arrays[nodes])
    <3>1. nodes \in Array /\ arrays[nodes] \in Seq(Node) /\ 2 \in 2..2
      BY DEF TypeOK
    <3>2. SortFrom(v, nodes, 2, 2)
      BY <1>5 DEF Take
    <3>3. QED BY <3>1, <3>2, SortContinues
  <2>3. view' \in [Viewer -> ViewState] /\ ViewsInRange'
    BY <1>e, <2>1, <2>2, ViewMoves DEF cached
  <2>4. raced' \subseteq Array
    BY <1>5 DEF Take, TypeOK
  <2>5. QED BY <2>1, <2>3, <2>4 DEF TypeOK, poll, cached
<1>6. ASSUME NEW v \in Viewer, Compare(v)
      PROVE  TypeInv'
  <2> DEFINE a == view[v].array
             i == view[v].i
             j == view[v].j
  <2>1. UNCHANGED <<claim, poll, cached, listing, listed, raced, calm, settled>>
    BY <1>6 DEF Compare
  <2>2. /\ view[v] \in ViewState /\ a \in Array /\ arrays[a] \in Seq(Node)
        /\ InRange(view[v], arrays[a]) /\ view[v].at = "compare"
    BY <1>6 DEF Compare, TypeOK, ViewState, ViewsInRange, Slice
  <2>3. CASE View(v, "read")
    <3> DEFINE r == [view[v] EXCEPT !.at = "read"]
    <3>1. r \in ViewState /\ r.array = a /\ InRange(r, arrays[a])
      BY <2>2 DEF ViewState, InRange
    <3>2. view' = [view EXCEPT ![v] = r]
      BY <2>3 DEF View, TypeOK
    <3>3. view' \in [Viewer -> ViewState] /\ ViewsInRange'
      BY <1>e, <2>1, <3>1, <3>2, ViewMoves DEF cached
    <3>4. QED BY <2>1, <3>3 DEF TypeOK, poll, cached
  <2>4. CASE SortFrom(v, a, i + 1, i + 1)
    <3>1. i + 1 \in Nat /\ i + 1 \in 2..(i + 1)
      BY <2>2 DEF InRange, ViewState
    <3>2. PICK r \in ViewState :
            view' = [view EXCEPT ![v] = r] /\ r.array = a /\ InRange(r, arrays[a])
      BY <2>2, <2>4, <3>1, SortContinues
    <3>3. view' \in [Viewer -> ViewState] /\ ViewsInRange'
      BY <1>e, <2>1, <3>2, ViewMoves DEF cached
    <3>4. QED BY <2>1, <3>3 DEF TypeOK, poll, cached
  <2>5. QED BY <1>6, <2>3, <2>4 DEF Compare
<1>7. ASSUME NEW v \in Viewer, Read(v)
      PROVE  TypeInv'
  <2> DEFINE a == view[v].array
             j == view[v].j
             r == [view[v] EXCEPT !.at = "write", !.left = Slice(v)[j - 1],
                                  !.right = Slice(v)[j]]
  <2>1. UNCHANGED <<claim, poll, cached, listing, listed, raced, calm, settled>>
    BY <1>7 DEF Read
  <2>2. /\ view[v] \in ViewState /\ a \in Array /\ Slice(v) = arrays[a]
        /\ arrays[a] \in Seq(Node)
        /\ InRange(view[v], arrays[a]) /\ view[v].at = "read"
    BY <1>7 DEF Read, TypeOK, ViewState, ViewsInRange, Slice
  <2>3. j - 1 \in 1..Len(arrays[a]) /\ j \in 1..Len(arrays[a])
    <3>1. Len(arrays[a]) \in Nat
      BY <2>2, Elements
    <3>2. view[v].i \in 2..Len(arrays[a]) /\ j \in 2..view[v].i
      BY <2>2 DEF InRange
    <3>3. QED BY <3>1, <3>2
  <2>4. Slice(v)[j - 1] \in Node /\ Slice(v)[j] \in Node
    BY <2>2, <2>3, Elements
  <2>5. r \in ViewState /\ r.array = a /\ InRange(r, arrays[a])
    BY <2>2, <2>4 DEF ViewState, InRange
  <2>6. view' = [view EXCEPT ![v] = r]
    BY <1>7 DEF Read, TypeOK
  <2>7. view' \in [Viewer -> ViewState] /\ ViewsInRange'
    BY <1>e, <2>1, <2>5, <2>6, ViewMoves DEF cached
  <2>8. QED BY <2>1, <2>7 DEF TypeOK, poll, cached
<1>8. ASSUME NEW v \in Viewer, Write(v)
      PROVE  TypeInv'
  <2> DEFINE a == view[v].array
             i == view[v].i
             j == view[v].j
  <2>1. UNCHANGED <<claim, poll, nodes, leaderAddress, listing, listed, raced, calm, settled>>
    BY <1>8 DEF Write
  <2>2. /\ view[v] \in ViewState /\ a \in Array /\ Slice(v) = arrays[a]
        /\ arrays[a] \in Seq(Node) /\ Len(arrays[a]) \in Nat
        /\ InRange(view[v], arrays[a]) /\ view[v].at \in {"write", "rewrite"}
    BY <1>8, Elements DEF Write, TypeOK, ViewState, ViewsInRange, Slice
  <2>3. /\ j - 1 \in 1..Len(Slice(v)) /\ j \in 1..Len(Slice(v)) /\ j \in 2..i /\ i \in Nat
    <3>1. i \in 2..Len(arrays[a]) /\ j \in 2..i
      BY <2>2 DEF InRange
    <3>2. QED BY <2>2, <3>1
  <2>4. CASE /\ view[v].at = "write"
             /\ WriteSlice(v, j, view[v].left)
             /\ view' = [view EXCEPT ![v].at = "rewrite", ![v].left = 0]
    <3> DEFINE r == [view[v] EXCEPT !.at = "rewrite", !.left = 0]
    <3>1. view[v].left \in Node
      BY <2>2, <2>4 DEF InRange
    <3>2. SlicesKeep
      BY <2>3, <2>4, <3>1, WriteKeeps
    <3>3. Len(arrays'[a]) = Len(arrays[a])
      BY <2>2, <2>4, <3>2 DEF SlicesKeep
    <3>4. r \in ViewState /\ r.array = a /\ InRange(r, arrays'[a])
      BY <2>2, <2>4, <3>3 DEF ViewState, InRange
    <3>5. view' = [view EXCEPT ![v] = r]
      BY <2>4 DEF TypeOK
    <3>6. view' \in [Viewer -> ViewState] /\ ViewsInRange'
      BY <3>2, <3>4, <3>5, ViewMoves
    <3>7. QED BY <2>1, <3>2, <3>6 DEF TypeOK, poll, SlicesKeep
  <2>5. CASE /\ view[v].at = "rewrite"
             /\ WriteSlice(v, j - 1, view[v].right)
             /\ IF IsFirst(j - 1) THEN SortFrom(v, a, i + 1, i + 1)
                                  ELSE SortFrom(v, a, i, j - 1)
    <3>1. view[v].right \in Node
      BY <2>2, <2>5 DEF InRange
    <3>2. SlicesKeep
      BY <2>3, <2>5, <3>1, WriteKeeps
    <3>3. Len(arrays'[a]) = Len(arrays[a]) /\ arrays'[a] \in Seq(Node)
      BY <2>2, <2>5, <3>2 DEF SlicesKeep
    <3>4. PICK r \in ViewState :
            view' = [view EXCEPT ![v] = r] /\ r.array = a /\ InRange(r, arrays'[a])
      <4>1. CASE IsFirst(j - 1)
        <5>1. i + 1 \in Nat /\ i + 1 \in 2..(i + 1)
          BY <2>3
        <5>2. QED BY <2>2, <2>5, <3>3, <4>1, <5>1, SortContinues
      <4>2. CASE ~IsFirst(j - 1)
        <5>1. j - 1 \in 2..i
          BY <2>3, <4>2 DEF IsFirst
        <5>2. QED BY <2>2, <2>3, <2>5, <3>3, <4>2, <5>1, SortContinues
      <4>3. QED BY <4>1, <4>2
    <3>5. view' \in [Viewer -> ViewState] /\ ViewsInRange'
      BY <3>2, <3>4, ViewMoves
    <3>6. QED BY <2>1, <3>2, <3>5 DEF TypeOK, poll, SlicesKeep
  <2>6. QED BY <1>8, <2>4, <2>5 DEF Write
<1>9. ASSUME NEW v \in Viewer, Encode(v)
      PROVE  TypeInv'
  <2> DEFINE garbage == {Older} \ {view[w].array : w \in {u \in Viewer \ {v} : view[u].at # "idle"}}
  <2>1. /\ UNCHANGED <<claim, poll, nodes, leaderAddress, listing, calm, settled>>
        /\ view' = [view EXCEPT ![v] = Idle]
        /\ arrays' = [a \in Array |-> IF a \in garbage THEN <<>> ELSE arrays[a]]
        /\ listed' = [a \in Array |-> IF a \in garbage THEN {} ELSE listed[a]]
        /\ raced' = raced \ garbage
    BY <1>9 DEF Encode
  <2>2. arrays' \in [Array -> Seq(Node)]
    BY <2>1, NoElements DEF TypeOK
  <2>3. ASSUME NEW w \in Viewer PROVE InRange(view'[w], arrays'[view'[w].array])
    <3>1. CASE w = v
      BY <2>1, <3>1 DEF InRange, Idle, TypeOK
    <3>2. CASE w # v
      <4>1. view'[w] = view[w] /\ view[w].array \in Array
        BY <2>1, <3>2 DEF TypeOK, ViewState
      <4>2. view[w].at # "idle" => arrays'[view[w].array] = arrays[view[w].array]
        BY <2>1, <3>2, <4>1
      <4>3. QED BY <4>1, <4>2 DEF ViewsInRange, InRange, Slice
    <3>3. QED BY <3>1, <3>2
  <2>4. view' \in [Viewer -> ViewState]
    BY <2>1, IdleType DEF TypeOK
  <2>5. listed' \in [Array -> SUBSET Node]
    BY <2>1 DEF TypeOK
  <2>6. QED
    BY <2>1, <2>2, <2>3, <2>4, <2>5 DEF TypeOK, poll, ViewsInRange, Slice
<1>10. CASE UNCHANGED vars
  BY <1>10, <1>e, ViewsStay DEF vars, poll, cached, TypeOK
<1>11. QED
  BY <1>1, <1>2, <1>3, <1>4, <1>5, <1>6, <1>7, <1>8, <1>9, <1>10
  DEF Next, Poll, Show

(* Every field of the backend keeps its type.  It rests on no request      *)
(* comparing or swapping beyond the end of its slice, whoever sorts it at  *)
(* the same time and however many polls end meanwhile.                     *)
THEOREM BackendTypeCorrect == Spec => []TypeOK
<1>1. Spec => []TypeInv
  BY TypeInvInit, TypeInvStep, PTL DEF Spec
<1>2. TypeInv => TypeOK
  BY DEF TypeInv
<1>3. QED BY <1>1, <1>2, PTL

-----------------------------------------------------------------------------
(* The leader shown.                                                       *)

ClaimsUnique == \A m, n \in Node : claim[m] # 0 /\ claim[m] = claim[n] => m = n

(* The candidate is the best of those asked so far.                        *)
BestSoFar ==
  IF candidate.id = 0
  THEN candidate.address = Nobody /\ \A n \in ToSet(newNodes) : claim[n] = 0
  ELSE /\ candidate.address \in Node
       /\ claim[candidate.address] = candidate.id
       /\ \A n \in ToSet(newNodes) : claim[n] <= candidate.id

CalmPoll ==
  calm => /\ polling /\ ~expired
          /\ ToSet(newNodes) \cup ToSet(remaining) = Node
          /\ BestSoFar

LeaderInv == ClaimsUnique /\ CalmPoll /\ ShownLeaderLeads

LEMMA LeaderInvInit == Init => LeaderInv
BY DEF Init, LeaderInv, ClaimsUnique, CalmPoll, ShownLeaderLeads

LEMMA ClaimType ==
  ASSUME TypeInv
  PROVE  candidate.id \in Nat /\ \A n \in Node : claim[n] \in Nat
<1>1. {0} \cup Id = 0..MaxId /\ MaxId \in Nat
  BY BackendAssumption DEF BackendAssumption, Id
<1>2. claim \in [Node -> 0..MaxId] /\ candidate.id \in 0..MaxId
  BY <1>1 DEF TypeInv, TypeOK
<1>3. QED BY <1>1, <1>2

(* The best of all nodes leads.                                            *)
LEMMA BestLeads ==
  ASSUME TypeInv, ClaimsUnique, BestSoFar, ToSet(newNodes) = Node
  PROVE  candidate.address = Leading
<1> DEFINE leaders == {n \in Node : claim[n] # 0}
<1>1. CASE candidate.id = 0
  BY <1>1 DEF BestSoFar, Leading
<1>2. CASE candidate.id # 0
  <2> DEFINE a == candidate.address
  <2>1. a \in leaders /\ \A m \in leaders : claim[m] <= claim[a]
    BY <1>2 DEF BestSoFar
  <2>2. ASSUME NEW n \in leaders, \A m \in leaders : claim[m] <= claim[n]
        PROVE  n = a
    <3>1. claim[n] <= claim[a] /\ claim[a] <= claim[n]
      BY <2>1, <2>2
    <3>2. claim[n] = claim[a]
      <4>1. n \in Node /\ a \in Node
        BY <2>1
      <4>2. claim[n] \in Nat /\ claim[a] \in Nat
        BY <4>1, ClaimType
      <4>3. QED BY <3>1, <4>2
    <3>3. QED BY <2>1, <3>2 DEF ClaimsUnique
  <2>3. a = CHOOSE n \in leaders : \A m \in leaders : claim[m] <= claim[n]
    BY <2>1, <2>2
  <2>4. QED BY <2>1, <2>3 DEF Leading
<1>3. QED BY <1>1, <1>2

(* Leading looks at the claims only.                                       *)
LEMMA LeadersStay ==
  ASSUME LeaderInv, UNCHANGED <<claim, settled, leaderAddress>>
  PROVE  ClaimsUnique' /\ ShownLeaderLeads'
BY DEF LeaderInv, ClaimsUnique, ShownLeaderLeads, Leading

(* Every step keeps the invariant.                                         *)
LEMMA LeaderInvStep == TypeInv /\ LeaderInv /\ [Next]_vars => LeaderInv'
<1> SUFFICES ASSUME TypeInv, LeaderInv, [Next]_vars PROVE LeaderInv'
  OBVIOUS
<1> USE DEF LeaderInv
<1>p. ASSUME UNCHANGED <<claim, poll, calm, settled, leaderAddress>>
      PROVE  LeaderInv'
  BY <1>p, LeadersStay DEF CalmPoll, BestSoFar, poll
<1>1. ASSUME NEW n \in Node, NEW b \in {0} \cup Id, Lead(n, b)
      PROVE  LeaderInv'
  <2>1. ClaimsUnique'
    BY <1>1 DEF Lead, ClaimsUnique, TypeInv, TypeOK
  <2>2. QED BY <1>1, <2>1 DEF Lead, CalmPoll, ShownLeaderLeads
<1>2. ASSUME NEW list \in Lists, StartPoll(list)
      PROVE  LeaderInv'
  <2>1. CalmPoll'
    BY <1>2, NoElements DEF StartPoll, CalmPoll, BestSoFar, NoCandidate
  <2>2. QED BY <1>2, <2>1, LeadersStay DEF StartPoll, cached
<1>3. ASSUME Answer \/ Trouble \/ AskTooLate
      PROVE  LeaderInv'
  <2>1. ClaimsUnique' /\ ShownLeaderLeads'
    BY <1>3, LeadersStay DEF Answer, Trouble, AskTooLate, NextService, cached
  <2>2. ASSUME calm' PROVE CalmPoll'
    <3>1. Answer /\ calm /\ NextService /\ polling' /\ ~expired'
      <4>1. ~Trouble
        BY <2>2 DEF Trouble
      <4>2. ASSUME AskTooLate PROVE FALSE
        BY <2>2, <4>2 DEF AskTooLate, CalmPoll
      <4>3. Answer
        BY <1>3, <4>1, <4>2
      <4>4. QED BY <2>2, <4>3 DEF Answer, NextService, CalmPoll
    <3> DEFINE n == Head(remaining)
    <3>2. remaining \in Seq(Node) /\ newNodes \in Seq(Node) /\ remaining # <<>>
      BY <3>1 DEF NextService, TypeInv, TypeOK
    <3>3. /\ n \in Node /\ ToSet(remaining) = {n} \cup ToSet(remaining')
          /\ ToSet(newNodes') = ToSet(newNodes) \cup {n}
      BY <3>1, <3>2, Moved DEF NextService
    <3>4. ToSet(newNodes') \cup ToSet(remaining') = Node
      BY <3>1, <3>3 DEF CalmPoll
    <3>5. /\ BestSoFar /\ claim' = claim
          /\ candidate' = IF claim[n] > candidate.id
                          THEN [address |-> n, id |-> claim[n]] ELSE candidate
      BY <3>1 DEF CalmPoll, Answer, NextService, Outranks
    <3>6. /\ claim[n] \in Nat /\ candidate.id \in Nat
          /\ \A m \in ToSet(newNodes) : claim[m] \in Nat
      <4>1. ToSet(newNodes) \subseteq Node
        BY <3>2, Elements
      <4>2. QED BY <3>3, <4>1, ClaimType
    <3>7. CASE claim[n] > candidate.id
      <4>1. candidate'.id = claim[n] /\ candidate'.address = n /\ candidate'.id # 0
        BY <3>5, <3>6, <3>7
      <4>2. \A m \in ToSet(newNodes) : claim[m] <= claim[n]
        BY <3>5, <3>6, <3>7 DEF BestSoFar
      <4>3. BestSoFar'
        BY <3>3, <3>5, <3>6, <4>1, <4>2 DEF BestSoFar
      <4>4. QED BY <3>1, <3>4, <4>3 DEF CalmPoll
    <3>8. CASE ~(claim[n] > candidate.id)
      <4>1. candidate' = candidate /\ claim[n] <= candidate.id
        BY <3>5, <3>6, <3>8
      <4>2. BestSoFar'
        BY <3>3, <3>5, <3>6, <4>1 DEF BestSoFar
      <4>3. QED BY <3>1, <3>4, <4>2 DEF CalmPoll
    <3>9. QED BY <3>7, <3>8
  <2>3. QED BY <2>1, <2>2 DEF CalmPoll
<1>4. ASSUME Publish
      PROVE  LeaderInv'
  <2>1. /\ UNCHANGED claim /\ leaderAddress' = candidate.address
        /\ settled' = calm /\ ~calm' /\ remaining = <<>>
    BY <1>4 DEF Publish
  <2>2. ClaimsUnique' /\ CalmPoll'
    BY <2>1 DEF ClaimsUnique, CalmPoll
  <2>3. calm => candidate.address = Leading
    <3>1. calm => ToSet(newNodes) = Node /\ BestSoFar
      BY <2>1, NoElements DEF CalmPoll
    <3>2. QED BY <3>1, BestLeads
  <2>4. ShownLeaderLeads'
    BY <2>1, <2>3 DEF ShownLeaderLeads, Leading
  <2>5. QED BY <2>2, <2>4
<1>5. ASSUME NEW v \in Viewer, Show(v)
      PROVE  LeaderInv'
  BY <1>5, <1>p DEF Show, Take, Compare, Read, Write, Encode, cached
<1>6. CASE UNCHANGED vars
  BY <1>6, <1>p DEF vars, cached
<1>7. QED BY <1>1, <1>2, <1>3, <1>4, <1>5, <1>6 DEF Next, Poll

(* After a poll that reached every node, during and since which nobody won *)
(* or lost a leadership, the page names the node that leads with the       *)
(* highest ID: whatever order the registry listed the nodes in, whatever   *)
(* earlier polls went through, and although the context of one poll may    *)
(* expire in the middle of another list.                                   *)
THEOREM TheLeaderIsShown == Spec => []ShownLeaderLeads
<1>1. Spec => []TypeInv
  BY TypeInvInit, TypeInvStep, PTL DEF Spec
<1>2. Init => LeaderInv
  BY LeaderInvInit
<1>3. TypeInv /\ LeaderInv /\ [Next]_vars => LeaderInv'
  BY LeaderInvStep
<1>4. LeaderInv => ShownLeaderLeads
  BY DEF LeaderInv
<1>5. QED BY <1>1, <1>2, <1>3, <1>4, PTL DEF Spec

-----------------------------------------------------------------------------
(* The insertion sort.                                                     *)

(* The first i elements are in order but for element j, which is smaller   *)
(* than those it has passed.                                               *)
Inserting(s, i, j) ==
  /\ \A k, l \in 1..i : k < l /\ k # j /\ l # j => s[k] < s[l]
  /\ \A l \in (j + 1)..i : s[j] < s[l]

Ordered(s, i) == \A k, l \in 1..i : k < l => s[k] < s[l]

(* Slice s holds the nodes of S, each once.                                *)
Whole(s, S) == Distinct(s) /\ ToSet(s) = S

LEMMA NumberedElements ==
  ASSUME NEW s \in Seq(Node), NEW k \in 1..Len(s)
  PROVE  s[k] \in Nat
BY Elements, BackendAssumption DEF BackendAssumption

LEMMA PlaceFound ==
  ASSUME NEW s \in Seq(Node), Distinct(s), NEW i \in 2..Len(s), NEW j \in 2..i,
         Inserting(s, i, j), ~(s[j] < s[j - 1])
  PROVE  Ordered(s, i)
<1>1. Len(s) \in Nat /\ \A k \in 1..Len(s) : s[k] \in Nat
  BY Elements, NumberedElements
<1>2. j - 1 \in 1..i /\ j \in 1..i /\ \A k \in 1..i : k \in 1..Len(s)
  BY <1>1
<1>3. s[j - 1] < s[j]
  <2>1. s[j - 1] # s[j]
    BY <1>1, <1>2 DEF Distinct
  <2>2. s[j - 1] \in Nat /\ s[j] \in Nat
    BY <1>1, <1>2
  <2>3. QED BY <2>1, <2>2
<1>4. ASSUME NEW k \in 1..i, NEW l \in 1..i, k < l PROVE s[k] < s[l]
  <2>1. CASE k # j /\ l # j
    BY <1>4, <2>1 DEF Inserting
  <2>2. CASE k = j
    <3>1. l \in (j + 1)..i
      BY <1>1, <1>4, <2>2
    <3>2. QED BY <2>2, <3>1 DEF Inserting
  <2>3. CASE l = j /\ k = j - 1
    BY <1>3, <2>3
  <2>4. CASE l = j /\ k # j - 1
    <3>1. k < j - 1 /\ k # j /\ j - 1 # j
      BY <1>1, <1>4, <2>4
    <3>2. s[k] < s[j - 1]
      BY <1>2, <3>1 DEF Inserting
    <3>3. s[k] \in Nat /\ s[j - 1] \in Nat /\ s[j] \in Nat
      BY <1>1, <1>2
    <3>4. QED BY <1>3, <2>4, <3>2, <3>3
  <2>5. QED BY <2>1, <2>2, <2>3, <2>4
<1>5. QED BY <1>4 DEF Ordered

LEMMA FirstPlace ==
  ASSUME NEW s, NEW i \in Nat, Inserting(s, i, 1)
  PROVE  Ordered(s, i)
<1>1. ASSUME NEW k \in 1..i, NEW l \in 1..i, k < l PROVE s[k] < s[l]
  <2>1. CASE k = 1
    <3>1. l \in (1 + 1)..i
      BY <1>1, <2>1
    <3>2. QED BY <2>1, <3>1 DEF Inserting
  <2>2. CASE k # 1
    <3>1. l # 1
      BY <1>1
    <3>2. QED BY <1>1, <2>2, <3>1 DEF Inserting
  <2>3. QED BY <2>1, <2>2
<1>2. QED BY <1>1 DEF Ordered

LEMMA NextElement ==
  ASSUME NEW s, NEW i \in Nat, Ordered(s, i)
  PROVE  Inserting(s, i + 1, i + 1)
<1>1. ASSUME NEW k \in 1..(i + 1), NEW l \in 1..(i + 1), k < l, k # i + 1, l # i + 1
      PROVE  s[k] < s[l]
  <2>1. k \in 1..i /\ l \in 1..i
    BY <1>1
  <2>2. QED BY <1>1, <2>1 DEF Ordered
<1>2. (i + 1 + 1)..(i + 1) = {}
  OBVIOUS
<1>3. QED BY <1>1, <1>2 DEF Inserting

(* Half a swap leaves element j twice and the smaller one in the hands of  *)
(* the request; the whole swap keeps the nodes and goes on inserting.      *)
LEMMA Swap ==
  ASSUME NEW s \in Seq(Node), NEW S, Whole(s, S), NEW i \in 2..Len(s), NEW j \in 2..i,
         Inserting(s, i, j), s[j] < s[j - 1],
         NEW h
  PROVE  h = [s EXCEPT ![j] = s[j - 1]]
         => /\ h[j] = h[j - 1]
            /\ Whole([h EXCEPT ![j - 1] = s[j]], S)
            /\ Inserting([h EXCEPT ![j - 1] = s[j]], i, j - 1)
<1> SUFFICES ASSUME h = [s EXCEPT ![j] = s[j - 1]],
                    NEW t, t = [h EXCEPT ![j - 1] = s[j]]
             PROVE  h[j] = h[j - 1] /\ Whole(t, S) /\ Inserting(t, i, j - 1)
  OBVIOUS
<1>1. Len(s) \in Nat /\ \A k \in 1..Len(s) : s[k] \in Node
  BY Elements
<1>2. j - 1 \in 1..Len(s) /\ j \in 1..Len(s) /\ j - 1 # j
  BY <1>1
<1>3. /\ h \in Seq(Node) /\ Len(h) = Len(s)
      /\ \A k \in 1..Len(s) : h[k] = IF k = j THEN s[j - 1] ELSE s[k]
  BY <1>1, <1>2, ExceptSeq
<1>4. /\ t \in Seq(Node) /\ Len(t) = Len(s)
      /\ \A k \in 1..Len(s) : t[k] = IF k = j - 1 THEN s[j] ELSE h[k]
  <2>1. s[j] \in Node /\ j - 1 \in 1..Len(h)
    BY <1>1, <1>2, <1>3
  <2>2. QED BY <1>3, <2>1, ExceptSeq
<1>5. \A k \in 1..Len(s) :
        t[k] = IF k = j - 1 THEN s[j] ELSE IF k = j THEN s[j - 1] ELSE s[k]
  BY <1>3, <1>4
<1>6. Distinct(t)
  <2>1. Distinct(s)
    BY DEF Whole
  <2>2. QED BY <1>2, <1>4, <1>5, <2>1 DEF Distinct
<1>7. ToSet(t) = S
  <2>1. ASSUME NEW n \in ToSet(t) PROVE n \in ToSet(s)
    <3>1. PICK k \in 1..Len(s) : t[k] = n
      BY <1>4, Elements
    <3>2. \E l \in 1..Len(s) : s[l] = n
      BY <1>2, <1>5, <3>1
    <3>3. QED BY <3>2, Elements
  <2>2. ASSUME NEW n \in ToSet(s) PROVE n \in ToSet(t)
    <3>1. PICK k \in 1..Len(s) : s[k] = n
      BY Elements
    <3>2. \E l \in 1..Len(s) : t[l] = n
      BY <1>2, <1>5, <3>1
    <3>3. QED BY <1>4, <3>2, Elements
  <2>3. QED BY <2>1, <2>2 DEF Whole
<1>8. \A k \in 1..i : k \in 1..Len(s)
  BY <1>1
<1>9. ASSUME NEW k \in 1..i, NEW l \in 1..i, k < l, k # j - 1, l # j - 1
      PROVE  t[k] < t[l]
  <2>1. CASE k # j /\ l # j
    BY <1>5, <1>8, <1>9, <2>1 DEF Inserting
  <2>2. CASE k = j
    <3>1. t[k] = s[j - 1] /\ t[l] = s[l] /\ l # j
      BY <1>2, <1>5, <1>8, <1>9, <2>2
    <3>2. j - 1 \in 1..i /\ j - 1 < l
      BY <1>1, <1>9, <2>2
    <3>3. QED BY <1>2, <3>1, <3>2 DEF Inserting
  <2>3. CASE l = j
    <3>1. t[l] = s[j - 1] /\ t[k] = s[k] /\ k # j
      BY <1>2, <1>5, <1>8, <1>9, <2>3
    <3>2. j - 1 \in 1..i /\ k < j - 1
      BY <1>1, <1>9, <2>3
    <3>3. QED BY <1>2, <3>1, <3>2 DEF Inserting
  <2>4. QED BY <2>1, <2>2, <2>3
<1>10. ASSUME NEW l \in (j - 1 + 1)..i PROVE t[j - 1] < t[l]
  <2>1. t[j - 1] = s[j] /\ l \in 1..i /\ l # j - 1 /\ l \in j..i
    BY <1>1, <1>2, <1>5
  <2>2. CASE l = j
    BY <1>2, <1>5, <2>1, <2>2
  <2>3. CASE l # j
    <3>1. l \in (j + 1)..i /\ t[l] = s[l]
      BY <1>1, <1>5, <1>8, <2>1, <2>3
    <3>2. QED BY <2>1, <3>1 DEF Inserting
  <2>4. QED BY <2>2, <2>3
<1>11. Inserting(t, i, j - 1)
  BY <1>9, <1>10 DEF Inserting
<1>12. QED BY <1>2, <1>3, <1>6, <1>7, <1>11 DEF Whole

-----------------------------------------------------------------------------
(* The pages.                                                              *)

(* How far request r has sorted slice s, which is to hold the nodes of S.  *)
Placed(r, s, S) ==
  /\ r.at \in {"compare", "read", "write"} => Inserting(s, r.i, r.j)
  /\ r.at \in {"read", "write"} => s[r.j] < s[r.j - 1]
  /\ r.at = "write" => r.left = s[r.j - 1] /\ r.right = s[r.j]
  /\ r.at = "rewrite" =>
       /\ s[r.j] = s[r.j - 1]
       /\ Whole([s EXCEPT ![r.j - 1] = r.right], S)
       /\ Inserting([s EXCEPT ![r.j - 1] = r.right], r.i, r.j - 1)
  /\ r.at = "encode" => Ordered(s, Len(s))

Busy(v) == view[v].at # "idle"

Placing == \A v \in Viewer :
  Busy(v) /\ view[v].array \notin raced => Placed(view[v], Slice(v), listed[view[v].array])

SoleSorter == \A v, w \in Viewer :
  v # w /\ Sorting(v) /\ Sorting(w) /\ view[v].array = view[w].array
  => view[v].array \in raced

HalfSwapped(a) == \E v \in Viewer : view[v].at = "rewrite" /\ view[v].array = a

Contents == \A a \in Array \ raced : ~HalfSwapped(a) => Whole(arrays[a], listed[a])

(* The nodes found and those still to be asked are the ones listed.        *)
PollWhole ==
  /\ Distinct(newNodes) /\ Distinct(remaining)
  /\ ToSet(newNodes) \cap ToSet(remaining) = {}
  /\ ToSet(newNodes) \cup ToSet(remaining) = listing

SortInv == Placing /\ SoleSorter /\ Contents

PagesInv == PollWhole /\ SortInv

LEMMA PagesInvInit == Init => PagesInv
<1> SUFFICES ASSUME Init PROVE PagesInv
  OBVIOUS
<1>1. PollWhole
  BY NoElements DEF Init, PollWhole
<1>2. \A v \in Viewer : view[v].at = "idle"
  BY DEF Init, Idle
<1>3. Placing /\ SoleSorter
  BY <1>2 DEF Placing, SoleSorter, Busy, Sorting
<1>4. Contents
  BY NoElements DEF Init, Contents, Whole
<1>5. QED BY <1>1, <1>3, <1>4 DEF PagesInv, SortInv

(* Request v goes on with slice r.array, alone if it changes the slice.    *)
LEMMA PageMoves ==
  ASSUME TypeInv, SortInv, NEW v \in Viewer, NEW r \in ViewState,
         view' = [view EXCEPT ![v] = r], r.at # "idle",
         UNCHANGED listed, raced \subseteq raced',
         \A b \in Array : b # r.array => arrays'[b] = arrays[b],
         Busy(v) => view[v].array = r.array,
         \A w \in Viewer \ {v} :
           Sorting(w) /\ view[w].array = r.array /\ r.at # "encode" => r.array \in raced',
         r.array \notin raced' =>
           /\ Placed(r, arrays'[r.array], listed[r.array])
           /\ r.at # "rewrite" => Whole(arrays'[r.array], listed[r.array])
           /\ \/ arrays'[r.array] = arrays[r.array]
              \/ \A w \in Viewer \ {v} : Busy(w) => view[w].array # r.array
  PROVE  SortInv'
<1> DEFINE a == r.array
<1>1. /\ a \in Array /\ view'[v] = r
      /\ \A w \in Viewer \ {v} : view'[w] = view[w]
      /\ \A w \in Viewer : view[w].array \in Array
  BY DEF TypeInv, TypeOK, ViewState
<1>2. Placing'
  <2>1. ASSUME NEW w \in Viewer, Busy(w)', view'[w].array \notin raced'
        PROVE  Placed(view'[w], arrays'[view'[w].array], listed'[view'[w].array])
    <3>1. CASE w = v
      BY <1>1, <2>1, <3>1
    <3>2. CASE w # v
      <4>1. view'[w] = view[w] /\ Busy(w) /\ view[w].array \notin raced'
        BY <1>1, <2>1, <3>2 DEF Busy
      <4>2. Placed(view[w], arrays[view[w].array], listed[view[w].array])
        BY <4>1 DEF SortInv, Placing, Slice
      <4>3. arrays'[view[w].array] = arrays[view[w].array]
        BY <1>1, <3>2, <4>1
      <4>4. QED BY <4>1, <4>2, <4>3
    <3>3. QED BY <3>1, <3>2
  <2>2. QED BY <2>1 DEF Placing, Slice
<1>3. SoleSorter'
  <2>1. ASSUME NEW u \in Viewer, NEW w \in Viewer, u # w, Sorting(u)', Sorting(w)',
               view'[u].array = view'[w].array
        PROVE  view'[u].array \in raced'
    <3>1. CASE u # v /\ w # v
      BY <1>1, <2>1, <3>1 DEF SortInv, SoleSorter, Sorting
    <3>2. CASE u = v
      BY <1>1, <2>1, <3>2 DEF Sorting
    <3>3. CASE w = v
      BY <1>1, <2>1, <3>3 DEF Sorting
    <3>4. QED BY <3>1, <3>2, <3>3
  <2>2. QED BY <2>1 DEF SoleSorter
<1>4. Contents'
  <2>1. ASSUME NEW b \in Array, b \notin raced', ~HalfSwapped(b)'
        PROVE  Whole(arrays'[b], listed'[b])
    <3>1. CASE b = a
      <4>1. r.at # "rewrite"
        BY <1>1, <2>1, <3>1 DEF HalfSwapped
      <4>2. QED BY <2>1, <3>1, <4>1
    <3>2. CASE b # a
      <4>1. ~HalfSwapped(b)
        BY <1>1, <2>1, <3>2 DEF HalfSwapped, Busy
      <4>2. QED BY <2>1, <3>2, <4>1 DEF SortInv, Contents
    <3>3. QED BY <3>1, <3>2
  <2>2. QED BY <2>1 DEF Contents
<1>5. QED BY <1>2, <1>3, <1>4 DEF SortInv

(* A slice nobody uses is filled anew or freed.                            *)
LEMMA PagesReplaced ==
  ASSUME TypeInv, SortInv, NEW gone \in SUBSET Array,
         \A w \in Viewer : view'[w] = view[w] \/ view'[w] = Idle,
         \A w \in Viewer : view'[w].at # "idle" => view'[w].array \notin gone,
         \A w \in Viewer : view'[w] # view[w] => view[w].at = "encode",
         \A b \in Array \ gone : arrays'[b] = arrays[b] /\ listed'[b] = listed[b],
         \A b \in gone : Whole(arrays'[b], listed'[b]) \/ b \in raced',
         raced \ gone \subseteq raced'
  PROVE  SortInv'
<1>1. \A w \in Viewer : view[w].array \in Array
  BY DEF TypeInv, TypeOK, ViewState
<1>2. \A w \in Viewer : view'[w].at # "idle" =>
        view'[w] = view[w] /\ view[w].array \in Array \ gone
  BY <1>1 DEF Idle
<1>3. Placing'
  <2>1. ASSUME NEW w \in Viewer, view'[w].at # "idle", view'[w].array \notin raced'
        PROVE  Placed(view'[w], arrays'[view'[w].array], listed'[view'[w].array])
    <3>1. view'[w] = view[w] /\ view[w].array \in Array \ gone /\ view[w].at # "idle"
      BY <1>2, <2>1
    <3>2. view[w].array \notin raced
      BY <2>1, <3>1
    <3>3. Placed(view[w], arrays[view[w].array], listed[view[w].array])
      BY <3>1, <3>2 DEF SortInv, Placing, Slice, Busy
    <3>4. QED BY <3>1, <3>3
  <2>2. QED BY <2>1 DEF Placing, Slice, Busy
<1>4. SoleSorter'
  <2>1. ASSUME NEW u \in Viewer, NEW w \in Viewer, u # w, Sorting(u)', Sorting(w)',
               view'[u].array = view'[w].array
        PROVE  view'[u].array \in raced'
    <3>1. view'[u] = view[u] /\ view'[w] = view[w] /\ view[u].array \in Array \ gone
      BY <1>2, <2>1 DEF Sorting
    <3>2. QED BY <2>1, <3>1 DEF SortInv, SoleSorter, Sorting
  <2>2. QED BY <2>1 DEF SoleSorter
<1>5. Contents'
  <2>1. ASSUME NEW b \in Array, b \notin raced', ~HalfSwapped(b)'
        PROVE  Whole(arrays'[b], listed'[b])
    <3>1. CASE b \in gone
      BY <2>1, <3>1
    <3>2. CASE b \notin gone
      <4>1. ~HalfSwapped(b)
        BY <2>1 DEF HalfSwapped
      <4>2. QED BY <2>1, <3>2, <4>1 DEF SortInv, Contents
    <3>3. QED BY <3>1, <3>2
  <2>2. QED BY <2>1 DEF Contents
<1>6. QED BY <1>3, <1>4, <1>5 DEF SortInv

LEMMA PagesStay ==
  ASSUME SortInv, UNCHANGED <<view, arrays, listed, raced>>
  PROVE  SortInv'
BY DEF SortInv, Placing, SoleSorter, Contents, Slice, Busy, Sorting, HalfSwapped

(* What a request that sorts a slice alone knows of it.                    *)
LEMMA SortedAlone ==
  ASSUME TypeInv, SortInv, NEW v \in Viewer, Sorting(v), view[v].array \notin raced
  PROVE  /\ view[v] \in ViewState /\ view[v].array \in Array
         /\ Slice(v) = arrays[view[v].array] /\ Slice(v) \in Seq(Node)
         /\ Len(Slice(v)) \in Nat
         /\ view[v].i \in 2..Len(Slice(v)) /\ view[v].j \in 2..view[v].i
         /\ Placed(view[v], Slice(v), listed[view[v].array])
         /\ view[v].at # "rewrite" => Whole(Slice(v), listed[view[v].array])
         /\ view[v].at \in {"write", "rewrite"} =>
              \A w \in Viewer \ {v} : Busy(w) => view[w].array # view[v].array
<1> DEFINE a == view[v].array
           s == Slice(v)
           i == view[v].i
           j == view[v].j
<1>1. /\ view[v] \in ViewState /\ a \in Array /\ s = arrays[a] /\ s \in Seq(Node)
      /\ view[v].at \in {"compare", "read", "write", "rewrite"}
  BY DEF TypeInv, TypeOK, ViewState, Slice, Sorting
<1>2. Len(s) \in Nat /\ i \in 2..Len(s) /\ j \in 2..i
  BY <1>1, Elements DEF TypeInv, ViewsInRange, InRange
<1>3. Placed(view[v], s, listed[a])
  BY DEF SortInv, Placing, Busy, Sorting
<1>4. ASSUME view[v].at # "rewrite" PROVE Whole(s, listed[a])
  <2>1. ~HalfSwapped(a)
    BY <1>4 DEF HalfSwapped, SortInv, SoleSorter, Sorting
  <2>2. QED BY <1>1, <2>1 DEF SortInv, Contents
<1>5. ASSUME view[v].at \in {"write", "rewrite"}, NEW w \in Viewer \ {v}, Busy(w),
             view[w].array = a
      PROVE  FALSE
  <2>1. view[w].at = "encode"
    BY <1>5 DEF SortInv, SoleSorter, Sorting, Busy
  <2>2. Ordered(s, Len(s))
    BY <1>5, <2>1 DEF SortInv, Placing, Placed, Slice
  <2>3. j \in 1..Len(s) /\ j - 1 \in 1..Len(s) /\ j - 1 < j
    BY <1>2
  <2>4. s[j - 1] < s[j]
    BY <2>2, <2>3 DEF Ordered
  <2>5. s[j] < s[j - 1] \/ s[j] = s[j - 1]
    BY <1>3, <1>5 DEF Placed
  <2>6. s[j] \in Nat /\ s[j - 1] \in Nat
    BY <1>1, <2>3, NumberedElements
  <2>7. QED BY <2>4, <2>5, <2>6
<1>6. QED BY <1>1, <1>2, <1>3, <1>4, <1>5

(* The sort goes on where it has come to.                                  *)
LEMMA PlacedOn ==
  ASSUME NEW r, NEW s, NEW S, Len(s) \in Nat, r.i \in 2..(Len(s) + 1) \/ Len(s) < 2,
         r.at = IF r.i > Len(s) THEN "encode" ELSE "compare",
         r.i \in Nat,
         r.i <= Len(s) => Inserting(s, r.i, r.j),
         r.i > Len(s) => Ordered(s, Len(s))
  PROVE  Placed(r, s, S) /\ r.at # "rewrite" /\ r.at # "idle"
<1>1. CASE r.i > Len(s)
  BY <1>1 DEF Placed
<1>2. CASE ~(r.i > Len(s))
  BY <1>2 DEF Placed
<1>3. QED BY <1>1, <1>2

(* Requests keep it.                                                       *)
LEMMA TakePlaces ==
  ASSUME TypeInv, SortInv, NEW v \in Viewer, Take(v)
  PROVE  SortInv'
<1> DEFINE s == arrays[nodes]
<1>1. /\ nodes \in Array /\ s \in Seq(Node) /\ 2 \in 2..2 /\ Len(s) \in Nat
      /\ UNCHANGED <<arrays, listed>> /\ ~Busy(v) /\ raced \subseteq raced'
      /\ \A w \in Viewer : Sorting(w) /\ view[w].array = nodes => nodes \in raced'
  BY Elements DEF Take, TypeInv, TypeOK, cached, Busy
<1>2. PICK r \in ViewState :
        /\ view' = [view EXCEPT ![v] = r]
        /\ r.array = nodes /\ r.i = 2 /\ r.j = 2
        /\ r.at = IF 2 > Len(s) THEN "encode" ELSE "compare"
  <2>1. SortFrom(v, nodes, 2, 2)
    BY DEF Take
  <2>2. QED BY <1>1, <2>1, SortContinues
<1>3. Ordered(s, 1)
  BY DEF Ordered
<1>4. Inserting(s, 2, 2)
  BY <1>3, NextElement
<1>5. 2 > Len(s) => Ordered(s, Len(s))
  BY <1>1 DEF Ordered
<1>6. Placed(r, s, listed[nodes]) /\ r.at # "rewrite" /\ r.at # "idle"
  BY <1>1, <1>2, <1>4, <1>5, PlacedOn
<1>7. ASSUME nodes \notin raced' PROVE Whole(s, listed[nodes])
  <2>1. nodes \notin raced /\ ~HalfSwapped(nodes)
    BY <1>1, <1>7 DEF HalfSwapped, Sorting
  <2>2. QED BY <1>1, <2>1 DEF SortInv, Contents
<1>8. QED BY <1>1, <1>2, <1>6, <1>7, PageMoves

(* A request that sorts goes on without a write.                           *)
LEMMA PageLooks ==
  ASSUME TypeInv, SortInv, NEW v \in Viewer, Sorting(v), NEW r \in ViewState,
         view' = [view EXCEPT ![v] = r], r.at # "idle", r.at # "rewrite",
         r.array = view[v].array, UNCHANGED <<arrays, listed, raced>>,
         r.array \notin raced =>
           Placed(r, arrays[r.array], listed[r.array]) /\ Whole(arrays[r.array], listed[r.array])
  PROVE  SortInv'
<1>1. \A w \in Viewer \ {v} : Sorting(w) /\ view[w].array = r.array => r.array \in raced'
  BY DEF SortInv, SoleSorter
<1>2. /\ UNCHANGED listed /\ raced \subseteq raced'
      /\ \A b \in Array : b # r.array => arrays'[b] = arrays[b]
      /\ Busy(v) => view[v].array = r.array
  OBVIOUS
<1>3. r.array \notin raced' =>
        /\ Placed(r, arrays'[r.array], listed[r.array])
        /\ r.at # "rewrite" => Whole(arrays'[r.array], listed[r.array])
        /\ arrays'[r.array] = arrays[r.array]
  OBVIOUS
<1>4. QED BY <1>1, <1>2, <1>3, PageMoves

LEMMA ComparePlaces ==
  ASSUME TypeInv, SortInv, NEW v \in Viewer, Compare(v)
  PROVE  SortInv'
<1> DEFINE a == view[v].array
           s == Slice(v)
           i == view[v].i
           j == view[v].j
<1>1. /\ UNCHANGED <<arrays, listed, raced>> /\ view[v].at = "compare" /\ Busy(v)
      /\ Sorting(v) /\ view[v] \in ViewState /\ a \in Array /\ s = arrays[a]
      /\ s \in Seq(Node) /\ i \in 2..Len(s) /\ j \in 2..i /\ Len(s) \in Nat
  BY Elements DEF Compare, TypeInv, TypeOK, ViewState, ViewsInRange, InRange, Slice,
                  cached, Busy, Sorting
<1>3. CASE s[j] < s[j - 1] /\ View(v, "read")
  <2> DEFINE r == [view[v] EXCEPT !.at = "read"]
  <2>1. r \in ViewState /\ r.array = a /\ r.at = "read" /\ r.i = i /\ r.j = j
    BY <1>1 DEF ViewState
  <2>2. view' = [view EXCEPT ![v] = r]
    BY <1>3 DEF View, TypeInv, TypeOK
  <2>3. ASSUME a \notin raced PROVE Placed(r, s, listed[a]) /\ Whole(s, listed[a])
    <3>1. Placed(view[v], s, listed[a]) /\ Whole(s, listed[a])
      BY <1>1, <2>3, SortedAlone
    <3>2. QED BY <1>1, <1>3, <2>1, <3>1 DEF Placed
  <2>4. QED BY <1>1, <2>1, <2>2, <2>3, PageLooks
<1>4. CASE ~(s[j] < s[j - 1]) /\ SortFrom(v, a, i + 1, i + 1)
  <2>1. i + 1 \in Nat /\ i + 1 \in 2..(i + 1) /\ i \in Nat
    BY <1>1
  <2>2. PICK r \in ViewState :
          /\ view' = [view EXCEPT ![v] = r]
          /\ r.array = a /\ r.i = i + 1 /\ r.j = i + 1
          /\ r.at = IF i + 1 > Len(arrays[a]) THEN "encode" ELSE "compare"
    BY <1>1, <1>4, <2>1, SortContinues
  <2>3. ASSUME a \notin raced PROVE Placed(r, s, listed[a]) /\ Whole(s, listed[a])
    <3>1. Placed(view[v], s, listed[a]) /\ Whole(s, listed[a])
      BY <1>1, <2>3, SortedAlone
    <3>2. Ordered(s, i)
      BY <1>1, <1>4, <3>1, PlaceFound DEF Placed, Whole
    <3>3. Inserting(s, i + 1, i + 1)
      BY <2>1, <3>2, NextElement
    <3>4. i + 1 > Len(s) => i = Len(s)
      BY <1>1
    <3>5. QED BY <1>1, <2>1, <2>2, <3>1, <3>2, <3>3, <3>4, PlacedOn
  <2>4. r.at # "idle" /\ r.at # "rewrite"
    BY <2>2
  <2>5. QED BY <1>1, <2>2, <2>3, <2>4, PageLooks
<1>5. QED BY <1>3, <1>4 DEF Compare, Precedes

LEMMA ReadPlaces ==
  ASSUME TypeInv, SortInv, NEW v \in Viewer, Read(v)
  PROVE  SortInv'
<1> DEFINE a == view[v].array
           s == Slice(v)
           i == view[v].i
           j == view[v].j
           r == [view[v] EXCEPT !.at = "write", !.left = s[j - 1], !.right = s[j]]
<1>1. /\ UNCHANGED <<arrays, listed, raced>> /\ view[v].at = "read" /\ Busy(v)
      /\ Sorting(v) /\ view[v] \in ViewState /\ a \in Array /\ s = arrays[a]
      /\ s \in Seq(Node) /\ i \in 2..Len(s) /\ j \in 2..i /\ Len(s) \in Nat
  BY Elements DEF Read, TypeInv, TypeOK, ViewState, ViewsInRange, InRange, Slice,
                  cached, Busy, Sorting
<1>3. s[j - 1] \in Node /\ s[j] \in Node
  <2>1. j - 1 \in 1..Len(s) /\ j \in 1..Len(s)
    BY <1>1
  <2>2. QED BY <1>1, <2>1, Elements
<1>4. /\ r \in ViewState /\ r.array = a /\ r.at = "write" /\ r.i = i /\ r.j = j
      /\ r.left = s[j - 1] /\ r.right = s[j]
  BY <1>1, <1>3 DEF ViewState
<1>5. view' = [view EXCEPT ![v] = r]
  BY DEF Read, TypeInv, TypeOK
<1>6. ASSUME a \notin raced PROVE Placed(r, s, listed[a]) /\ Whole(s, listed[a])
  <2>1. Placed(view[v], s, listed[a]) /\ Whole(s, listed[a])
    BY <1>1, <1>6, SortedAlone
  <2>2. QED BY <1>1, <1>4, <2>1 DEF Placed
<1>7. QED BY <1>1, <1>4, <1>5, <1>6, PageLooks

LEMMA WritePlaces ==
  ASSUME TypeInv, SortInv, NEW v \in Viewer, Write(v)
  PROVE  SortInv'
<1> DEFINE a == view[v].array
           s == Slice(v)
           i == view[v].i
           j == view[v].j
           S == listed[a]
<1>1. /\ UNCHANGED <<listed, raced>> /\ view[v].at \in {"write", "rewrite"} /\ Busy(v)
      /\ Sorting(v) /\ view[v] \in ViewState /\ a \in Array /\ s = arrays[a]
      /\ s \in Seq(Node) /\ i \in 2..Len(s) /\ j \in 2..i /\ Len(s) \in Nat
      /\ InRange(view[v], s)
  BY Elements DEF Write, TypeInv, TypeOK, ViewState, ViewsInRange, InRange, Slice,
                  Busy, Sorting
<1>2. \A w \in Viewer \ {v} : Sorting(w) /\ view[w].array = a => a \in raced'
  BY <1>1 DEF SortInv, SoleSorter
<1>3. j \in 1..Len(s) /\ j - 1 \in 1..Len(s) /\ i \in Nat /\ j # j - 1
  BY <1>1
<1>4. ASSUME a \notin raced
      PROVE  /\ Placed(view[v], s, S)
             /\ view[v].at # "rewrite" => Whole(s, S)
             /\ \A w \in Viewer \ {v} : Busy(w) => view[w].array # a
  BY <1>1, <1>4, SortedAlone
<1>5. CASE /\ view[v].at = "write"
           /\ WriteSlice(v, j, view[v].left)
           /\ view' = [view EXCEPT ![v].at = "rewrite", ![v].left = 0]
  <2> DEFINE r == [view[v] EXCEPT !.at = "rewrite", !.left = 0]
             h == arrays'[a]
  <2>1. /\ h = [s EXCEPT ![j] = view[v].left]
        /\ \A b \in Array : b # a => arrays'[b] = arrays[b]
    <3>1. view[v].left \in Node
      BY <1>1, <1>5 DEF InRange
    <3>2. QED BY <1>1, <1>3, <1>5, <3>1, WriteKeeps
  <2>2. /\ r \in ViewState /\ r.array = a /\ r.at = "rewrite" /\ r.i = i /\ r.j = j
        /\ r.right = view[v].right
    BY <1>1 DEF ViewState
  <2>3. view' = [view EXCEPT ![v] = r]
    BY <1>5 DEF TypeInv, TypeOK
  <2>4. ASSUME a \notin raced PROVE Placed(r, h, S)
    <3>1. /\ Inserting(s, i, j) /\ s[j] < s[j - 1] /\ Whole(s, S)
          /\ view[v].left = s[j - 1] /\ view[v].right = s[j]
      BY <1>4, <1>5, <2>4 DEF Placed
    <3> DEFINE t == [h EXCEPT ![j - 1] = s[j]]
    <3>2. h = [s EXCEPT ![j] = s[j - 1]]
      BY <2>1, <3>1
    <3>3. h[j] = h[j - 1] /\ Whole(t, S) /\ Inserting(t, i, j - 1)
      <4>1. s \in Seq(Node) /\ i \in 2..Len(s) /\ j \in 2..i
        BY <1>1
      <4> HIDE DEF h, s, i, j, S
      <4>2. QED BY <3>1, <3>2, <4>1, Swap
    <3>4. QED BY <2>2, <3>1, <3>3 DEF Placed
  <2>5. QED
    <3> HIDE DEF r
    <3>1. \A b \in Array : b # r.array => arrays'[b] = arrays[b]
      BY <2>1, <2>2
    <3>2. /\ r.array \notin raced' =>
              /\ Placed(r, arrays'[r.array], listed[r.array])
              /\ r.at # "rewrite" => Whole(arrays'[r.array], listed[r.array])
              /\ \A w \in Viewer \ {v} : Busy(w) => view[w].array # r.array
          /\ r.at # "idle" /\ raced \subseteq raced' /\ listed' = listed
          /\ Busy(v) => view[v].array = r.array
      BY <1>1, <1>4, <2>2, <2>4
    <3>3. \A w \in Viewer \ {v} : Sorting(w) /\ view[w].array = r.array => r.array \in raced'
      BY <1>2, <2>2
    <3>4. r \in ViewState
      BY <2>2
    <3>5. QED BY <2>3, <3>1, <3>2, <3>3, <3>4, PageMoves
<1>6. CASE /\ view[v].at = "rewrite"
           /\ WriteSlice(v, j - 1, view[v].right)
           /\ IF IsFirst(j - 1) THEN SortFrom(v, a, i + 1, i + 1)
                                ELSE SortFrom(v, a, i, j - 1)
  <2> DEFINE t == arrays'[a]
  <2>1. view[v].right \in Node
    BY <1>1, <1>6 DEF InRange
  <2>2. /\ t = [s EXCEPT ![j - 1] = view[v].right]
        /\ \A b \in Array : b # a => arrays'[b] = arrays[b]
        /\ t \in Seq(Node) /\ Len(t) = Len(s)
    <3>1. t = [s EXCEPT ![j - 1] = view[v].right]
          /\ \A b \in Array : b # a => arrays'[b] = arrays[b]
      BY <1>1, <1>3, <1>6, <2>1, WriteKeeps
    <3>2. QED BY <1>1, <1>3, <2>1, <3>1, ExceptSeq
  <2>3. ASSUME a \notin raced
        PROVE  Whole(t, S) /\ Inserting(t, i, j - 1)
    BY <1>4, <1>6, <2>2, <2>3 DEF Placed
  <2>4. PICK r \in ViewState :
          /\ view' = [view EXCEPT ![v] = r] /\ r.array = a
          /\ r.at # "idle" /\ r.at # "rewrite"
          /\ a \notin raced => Placed(r, t, S)
    <3>1. CASE IsFirst(j - 1)
      <4>1. i + 1 \in Nat /\ i + 1 \in 2..(i + 1) /\ j - 1 = 1
        BY <1>3, <1>1, <3>1 DEF IsFirst
      <4>2. PICK r \in ViewState :
              /\ view' = [view EXCEPT ![v] = r]
              /\ r.array = a /\ r.i = i + 1 /\ r.j = i + 1
              /\ r.at = IF i + 1 > Len(arrays[a]) THEN "encode" ELSE "compare"
        BY <1>1, <1>6, <3>1, <4>1, SortContinues
      <4>3. ASSUME a \notin raced PROVE Placed(r, t, S)
        <5>1. Inserting(t, i, 1)
          BY <2>3, <4>1, <4>3
        <5>2. Ordered(t, i)
          BY <1>3, <5>1, FirstPlace
        <5>3. Inserting(t, i + 1, i + 1)
          BY <1>3, <5>2, NextElement
        <5>4. i + 1 > Len(t) => i = Len(t)
          BY <1>1, <2>2
        <5>5. Len(t) \in Nat /\ Len(t) = Len(arrays[a])
          BY <1>1, <2>2
        <5>6. i + 1 \in 2..(Len(t) + 1)
          BY <1>1, <5>5
        <5> HIDE DEF t, i
        <5>7. QED BY <4>1, <4>2, <5>2, <5>3, <5>4, <5>5, <5>6, PlacedOn
      <4>4. QED BY <4>2, <4>3
    <3>2. CASE ~IsFirst(j - 1)
      <4>1. j - 1 \in 2..i
        BY <1>1, <1>3, <3>2 DEF IsFirst
      <4>2. PICK r \in ViewState :
              /\ view' = [view EXCEPT ![v] = r]
              /\ r.array = a /\ r.i = i /\ r.j = j - 1
              /\ r.at = IF i > Len(arrays[a]) THEN "encode" ELSE "compare"
        BY <1>1, <1>3, <1>6, <3>2, <4>1, SortContinues
      <4>3. ~(i > Len(t)) /\ Len(t) \in Nat /\ i \in 2..(Len(t) + 1) /\ r.at = "compare"
        BY <1>1, <2>2, <4>2
      <4>4. ASSUME a \notin raced PROVE Placed(r, t, S)
        BY <2>3, <4>2, <4>3, <4>4 DEF Placed
      <4>5. QED BY <4>2, <4>3, <4>4
    <3>3. QED BY <3>1, <3>2
  <2>5. /\ r.array \notin raced' =>
            /\ Placed(r, arrays'[r.array], listed[r.array])
            /\ r.at # "rewrite" => Whole(arrays'[r.array], listed[r.array])
            /\ \A w \in Viewer \ {v} : Busy(w) => view[w].array # r.array
        /\ r.at # "idle" /\ raced \subseteq raced' /\ listed' = listed
        /\ Busy(v) => view[v].array = r.array
    BY <1>1, <1>4, <2>3, <2>4
  <2>6. \A w \in Viewer \ {v} : Sorting(w) /\ view[w].array = r.array => r.array \in raced'
    BY <1>2, <2>4
  <2>7. \A b \in Array : b # r.array => arrays'[b] = arrays[b]
    BY <2>2, <2>4
  <2>8. QED BY <2>4, <2>5, <2>6, <2>7, PageMoves
<1>7. QED BY <1>5, <1>6 DEF Write

LEMMA EncodePlaces ==
  ASSUME TypeInv, SortInv, NEW v \in Viewer, Encode(v)
  PROVE  SortInv'
<1> DEFINE garbage == {Older} \ {view[w].array : w \in {u \in Viewer \ {v} : view[u].at # "idle"}}
           gone == garbage \cap Array
<1>1. /\ view[v].at = "encode" /\ view' = [view EXCEPT ![v] = Idle]
      /\ arrays' = [a \in Array |-> IF a \in garbage THEN <<>> ELSE arrays[a]]
      /\ listed' = [a \in Array |-> IF a \in garbage THEN {} ELSE listed[a]]
      /\ raced' = raced \ garbage
  BY DEF Encode
<1>2. /\ view'[v] = Idle /\ \A w \in Viewer : w # v => view'[w] = view[w]
      /\ Idle.at = "idle" /\ raced \subseteq Array
  BY <1>1 DEF TypeInv, TypeOK, Idle
<1>3. \A w \in Viewer : w # v /\ view[w].at # "idle" => view[w].array \notin gone
  OBVIOUS
<1>4. \A w \in Viewer : view'[w] = view[w] \/ view'[w] = Idle
  BY <1>2
<1>5. \A w \in Viewer : view'[w].at # "idle" => view'[w].array \notin gone
  BY <1>2, <1>3
<1>6. \A w \in Viewer : view'[w] # view[w] => view[w].at = "encode"
  BY <1>1, <1>2
<1>7. \A b \in Array \ gone : arrays'[b] = arrays[b] /\ listed'[b] = listed[b]
  BY <1>1
<1>8. \A b \in gone : Whole(arrays'[b], listed'[b])
  BY <1>1, NoElements DEF Whole
<1>9. raced \ gone \subseteq raced'
  BY <1>1, <1>2
<1>10. QED
  <2> HIDE DEF garbage, gone
  <2>1. gone \in SUBSET Array
    BY DEF gone
  <2>2. QED BY <1>4, <1>5, <1>6, <1>7, <1>8, <1>9, <2>1, PagesReplaced

(* The nodes found by a poll that has asked all are the ones listed.       *)
LEMMA PublishPlaces ==
  ASSUME TypeInv, PagesInv, Publish
  PROVE  SortInv'
<1> DEFINE gone == {a \in Array : a = Older \/ ~InUse(a)}
<1>1. /\ arrays' = [a \in Array |-> IF a = Older THEN newNodes
                                    ELSE IF InUse(a) THEN arrays[a] ELSE <<>>]
      /\ listed' = [a \in Array |-> IF a = Older THEN listing
                                    ELSE IF InUse(a) THEN listed[a] ELSE {}]
      /\ raced' = raced \ {Older} /\ remaining = <<>> /\ view' = view /\ ~InUse(Older)
  BY DEF Publish, NewArray
<1>2. Whole(newNodes, listing)
  BY <1>1, NoElements DEF PagesInv, PollWhole, Whole
<1>3. \A w \in Viewer : view'[w] = view[w]
  BY <1>1
<1>4. \A w \in Viewer : view'[w].at # "idle" => view'[w].array \notin gone
  BY <1>1 DEF InUse
<1>5. \A b \in Array \ gone : arrays'[b] = arrays[b] /\ listed'[b] = listed[b]
  BY <1>1
<1>6. \A b \in gone : Whole(arrays'[b], listed'[b])
  BY <1>1, <1>2, NoElements DEF Whole
<1>7. raced \ gone \subseteq raced'
  BY <1>1 DEF TypeInv, TypeOK
<1>8. QED
  <2>1. gone \in SUBSET Array /\ SortInv
    BY DEF PagesInv
  <2> HIDE DEF gone
  <2>2. QED BY <1>3, <1>4, <1>5, <1>6, <1>7, <2>1, PagesReplaced

(* Every step keeps the invariant.                                         *)
LEMMA PollWholeStep == TypeInv /\ PollWhole /\ [Next]_vars => PollWhole'
<1> SUFFICES ASSUME TypeInv, PollWhole, [Next]_vars PROVE PollWhole'
  OBVIOUS
<1>p. ASSUME UNCHANGED <<newNodes, remaining, listing>> PROVE PollWhole'
  BY <1>p DEF PollWhole
<1>1. ASSUME NEW list \in Lists, StartPoll(list) PROVE PollWhole'
  <2>1. Distinct(list)
    BY ListsAreDistinct
  <2>2. QED BY <1>1, <2>1, NoElements DEF StartPoll, PollWhole
<1>2. ASSUME NextService PROVE PollWhole'
  <2>1. /\ remaining \in Seq(Node) /\ newNodes \in Seq(Node) /\ remaining # <<>>
        /\ remaining' = Tail(remaining) /\ newNodes' = Append(newNodes, Head(remaining))
        /\ listing' = listing
    BY <1>2 DEF NextService, TypeInv, TypeOK
  <2>2. /\ ToSet(remaining) = {Head(remaining)} \cup ToSet(Tail(remaining))
        /\ ToSet(newNodes') = ToSet(newNodes) \cup {Head(remaining)}
        /\ Distinct(Tail(remaining)) /\ Head(remaining) \notin ToSet(Tail(remaining))
        /\ Head(remaining) \notin ToSet(newNodes) => Distinct(newNodes')
    BY <2>1, Moved DEF PollWhole
  <2>3. QED BY <2>1, <2>2 DEF PollWhole
<1>3. ASSUME Publish PROVE PollWhole'
  <2>1. remaining = <<>> /\ remaining' = remaining /\ newNodes' = <<>> /\ listing' = {}
    BY <1>3 DEF Publish
  <2>2. QED BY <2>1, NoElements DEF PollWhole
<1>4. ASSUME NEW n \in Node, NEW b \in {0} \cup Id, Lead(n, b) PROVE PollWhole'
  BY <1>4, <1>p DEF Lead, poll
<1>5. ASSUME NEW v \in Viewer, Show(v) PROVE PollWhole'
  BY <1>5, <1>p DEF Show, Take, Compare, Read, Write, Encode, poll
<1>6. CASE UNCHANGED vars
  BY <1>6, <1>p DEF vars, poll
<1>7. QED
  BY <1>1, <1>2, <1>3, <1>4, <1>5, <1>6 DEF Next, Poll, Answer, Trouble, AskTooLate

LEMMA SortInvStep == TypeInv /\ PagesInv /\ [Next]_vars => SortInv'
<1> SUFFICES ASSUME TypeInv, PagesInv, [Next]_vars PROVE SortInv'
  OBVIOUS
<1>s. SortInv
  BY DEF PagesInv
<1>1. ASSUME NEW n \in Node, NEW b \in {0} \cup Id, Lead(n, b) PROVE SortInv'
  BY <1>s, <1>1, PagesStay DEF Lead, cached
<1>2. ASSUME NEW list \in Lists, StartPoll(list) PROVE SortInv'
  BY <1>s, <1>2, PagesStay DEF StartPoll, cached
<1>3. ASSUME NextService PROVE SortInv'
  BY <1>s, <1>3, PagesStay DEF NextService, cached
<1>4. ASSUME Publish PROVE SortInv'
  BY <1>4, PublishPlaces
<1>5. ASSUME NEW v \in Viewer, Show(v) PROVE SortInv'
  BY <1>s, <1>5, TakePlaces, ComparePlaces, ReadPlaces, WritePlaces, EncodePlaces DEF Show
<1>6. CASE UNCHANGED vars
  BY <1>s, <1>6, PagesStay DEF vars, cached
<1>7. QED
  BY <1>1, <1>2, <1>3, <1>4, <1>5, <1>6 DEF Next, Poll, Answer, Trouble, AskTooLate

(* A page sends every node the registry had listed for its slice, each     *)
(* once and in order, although the request sorts the slice without the     *)
(* lock while polls publish others, unless another request sorted the same *)
(* slice meanwhile.  A request may take a slice while another sends it: a  *)
(* sort writes nothing to a slice that is in order.                        *)
THEOREM PagesStayConsistent == Spec => []PagesAreConsistent
<1>1. Spec => []TypeInv
  BY TypeInvInit, TypeInvStep, PTL DEF Spec
<1>2. Init => PagesInv
  BY PagesInvInit
<1>3. TypeInv /\ PagesInv /\ [Next]_vars => PagesInv'
  BY PollWholeStep, SortInvStep DEF PagesInv
<1>4. TypeInv /\ PagesInv => PagesAreConsistent
  <2> SUFFICES ASSUME TypeInv, PagesInv, NEW v \in Viewer,
                      view[v].at = "encode", view[v].array \notin raced
               PROVE  /\ \A k \in 1..(Len(Slice(v)) - 1) : Slice(v)[k] < Slice(v)[k + 1]
                      /\ ToSet(Slice(v)) = listed[view[v].array]
    BY DEF PagesAreConsistent
  <2>1. /\ view[v].array \in Array /\ Slice(v) = arrays[view[v].array]
        /\ Len(Slice(v)) \in Nat
    BY Elements DEF TypeInv, TypeOK, ViewState, Slice
  <2>2. Ordered(Slice(v), Len(Slice(v)))
    BY DEF PagesInv, SortInv, Placing, Placed, Busy
  <2>3. \A k \in 1..(Len(Slice(v)) - 1) : Slice(v)[k] < Slice(v)[k + 1]
    <3>1. \A k \in 1..(Len(Slice(v)) - 1) :
            k \in 1..Len(Slice(v)) /\ k + 1 \in 1..Len(Slice(v)) /\ k < k + 1
      BY <2>1
    <3>2. QED BY <2>2, <3>1 DEF Ordered
  <2>4. ~HalfSwapped(view[v].array)
    <3>1. ASSUME NEW w \in Viewer, view[w].at = "rewrite", view[w].array = view[v].array
          PROVE  FALSE
      <4>1. Sorting(w) /\ view[w].array \notin raced
        BY <3>1 DEF Sorting
      <4>2. \A u \in Viewer \ {w} : Busy(u) => view[u].array # view[w].array
        BY <3>1, <4>1, SortedAlone DEF PagesInv
      <4>3. QED BY <3>1, <4>2 DEF Busy
    <3>2. QED BY <3>1 DEF HalfSwapped
  <2>5. Whole(arrays[view[v].array], listed[view[v].array])
    BY <2>1, <2>4 DEF PagesInv, SortInv, Contents
  <2>6. QED BY <2>1, <2>3, <2>5 DEF Whole
<1>5. QED BY <1>1, <1>2, <1>3, <1>4, PTL DEF Spec
=============================================================================
