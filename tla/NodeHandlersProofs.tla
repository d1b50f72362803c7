-------------------------- MODULE NodeHandlersProofs --------------------------
(***************************************************************************)
(* Theorems about NodeHandlers, for any number of calls, slots and IDs.    *)
(*                                                                         *)
(* The list of steps that a call has left is typed, as the rest of a       *)
(* program is by a proof of it: a mode says which locks the call holds and *)
(* how far it has come, each step leads from one mode to another, and      *)
(* lists are typed as they are composed.  What the handlers know in each   *)
(* mode is then an invariant.                                              *)
(***************************************************************************)
EXTENDS NodeHandlers, FiniteSetTheorems, TLAPS

-----------------------------------------------------------------------------
(* The names of the steps.                                                 *)
Step ==
  {"RLock", "RUnlock", "Lock", "Enter", "Unlock", "check", "insert", "take",
   "promise?", "accept?", "setPromise", "setAccepted", "setCommand", "reply", "learn",
   "top?", "raise", "raiseMax", "leader?", "draw", "ask", "count", "copy", "render",
   "free?", "follower?", "elect", "lose", "win", "heed"}

(* Modes.  The stage of a call is                                          *)
(*   0  it has no slot           5  it has set the promise                 *)
(*   1  it has a slot            6  ... and the accepted ID                *)
(*   2  the slot is in the map   7  ... and the command                    *)
(*   3  it has the entry         8  it has raised highestSlotID            *)
(*   4  it has passed the test   9  it is done                             *)
(*  10  it has found that the slot is not in the map                       *)
(* A call that asks for a lock it already holds gets stuck.                *)
Mode == [reads : 0..2, writes : {"no", "announced", "entered", "stuck"}, stage : 0..10]

In(reads, writes, stage) == [reads |-> reads, writes |-> writes, stage |-> stage]

Free(a) == a.reads = 0 /\ a.writes = "no"
Reads(a) == a.reads # 0 /\ a.writes = "no"
Owns(a) == a.reads = 0 /\ a.writes = "entered"

(* Calls that look for an entry, and those that write a command there.     *)
Enters(o) == o \in {"Prepare", "Accept", "Learn"} \cup Proposing
Writes(o) == o \in {"Accept"} \cup Proposing

LockStep(o, x, a, b) ==
  /\ a.stage \notin {4, 5, 6, 10}
  /\ a.stage = 9 => o = "SynchronizeLog"
  /\ \/ /\ x = "RLock" /\ a.writes = "no"
        /\ a.reads = 0 \/ (a.reads = 1 /\ o \in {"List", "ListLog"})
        /\ b = In(a.reads + 1, "no", a.stage)
     \/ x = "RUnlock" /\ Reads(a) /\ b = In(a.reads - 1, "no", a.stage)
     \/ x = "Lock" /\ Free(a) /\ b = In(0, "announced", a.stage)
     \/ x = "Lock" /\ Owns(a) /\ o = "SendHeartbeat" /\ b = In(0, "stuck", a.stage)
     \/ x = "Enter" /\ a.reads = 0 /\ a.writes = "announced" /\ b = In(0, "entered", a.stage)
     \/ x = "Unlock" /\ Owns(a) /\ b = In(0, "no", a.stage)

To(a, b, from, to) == a.stage = from /\ b = In(a.reads, a.writes, to)

EntryStep(o, x, a, b) ==
  \/ x = "check" /\ Enters(o) /\ Reads(a) /\ To(a, b, 1, 2)
  \/ x = "insert" /\ Enters(o) /\ Reads(a) /\ To(a, b, 10, 2)
  \/ x = "take" /\ Enters(o) /\ Reads(a) /\ To(a, b, 2, 3)
  \/ x = "promise?" /\ o = "Prepare" /\ Free(a) /\ To(a, b, 3, 4)
  \/ x = "accept?" /\ o = "Accept" /\ Free(a) /\ To(a, b, 3, 4)
  \/ x = "setPromise" /\ o \in {"Prepare", "Accept"} /\ Free(a) /\ To(a, b, 4, 5)
  \/ x = "setPromise" /\ o \in Proposing /\ Free(a) /\ To(a, b, 3, 5)
  \/ x = "setAccepted" /\ Writes(o) /\ Free(a) /\ To(a, b, 5, 6)
  \/ x = "setCommand" /\ Writes(o) /\ Free(a) /\ To(a, b, 6, 7)
  \/ x = "learn" /\ o = "SynchronizeLog" /\ Owns(a) /\ To(a, b, 1, 9)
  \/ x = "reply" /\ o = "Learn" /\ Free(a) /\ To(a, b, 3, 9)
  \/ x = "reply" /\ o = "Prepare" /\ Free(a) /\ To(a, b, 5, 9)
  \/ x = "reply" /\ o = "Accept" /\ Free(a) /\ To(a, b, 7, 9)

OtherStep(o, x, a, b) ==
  \/ x = "top?" /\ o = "Accept" /\ Free(a) /\ To(a, b, 7, 7)
  \/ x = "raise" /\ o = "Accept" /\ Owns(a) /\ To(a, b, 7, 7)
  \/ x = "leader?" /\ o \in Proposing /\ Owns(a) /\ To(a, b, 0, 0)
  \/ x = "draw" /\ o \in Proposing /\ Owns(a) /\ To(a, b, 0, 1)
  \/ x = "ask" /\ o \in Proposing /\ Free(a) /\ To(a, b, 1, 1)
  \/ x = "raiseMax" /\ o \in Proposing /\ Owns(a) /\ To(a, b, 7, 8)
  \/ x = "count" /\ o \in Proposing /\ Free(a) /\ To(a, b, 8, 9)
  \/ x \in {"copy", "render"} /\ Reads(a) /\ To(a, b, 0, 0)
  \/ x = "free?" /\ o = "TryElectSelf" /\ Owns(a) /\ To(a, b, 0, 0)
  \/ x \in {"follower?", "lose", "win"} /\ Owns(a) /\ To(a, b, 0, 0)
  \/ x = "elect" /\ Free(a) /\ To(a, b, 0, 0)
  \/ x = "heed" /\ o = "SendHeartbeat" /\ Owns(a) /\ To(a, b, 0, 0)

Can(o, x, a, b) ==
  \/ a.writes = "stuck" /\ b = a
  \/ LockStep(o, x, a, b)
  \/ EntryStep(o, x, a, b)
  \/ OtherStep(o, x, a, b)

(* List t takes a call of operation o from mode a to mode b.               *)
Path(o, t, a, b, h) ==
  /\ h \in [1..(Len(t) + 1) -> Mode]
  /\ h[1] = a /\ h[Len(t) + 1] = b
  /\ \A i \in 1..Len(t) : Can(o, t[i], h[i], h[i + 1])

Leads(o, t, a, b) == t \in Seq(Step) /\ \E h : Path(o, t, a, b, h)

LEMMA ModeType ==
  ASSUME NEW m \in 0..2, NEW w \in {"no", "announced", "entered", "stuck"}, NEW n \in 0..10
  PROVE  /\ In(m, w, n) \in Mode
         /\ In(m, w, n).reads = m /\ In(m, w, n).writes = w /\ In(m, w, n).stage = n
BY DEF In, Mode

LEMMA LeadsNone == \A o, a : a \in Mode => Leads(o, <<>>, a, a)
<1> SUFFICES ASSUME NEW o, NEW a \in Mode PROVE Leads(o, <<>>, a, a)
  OBVIOUS
<1> DEFINE h == [i \in 1..1 |-> a]
<1>1. Path(o, <<>>, a, a, h)
  BY DEF Path
<1>2. QED BY <1>1 DEF Leads

LEMMA Tuples ==
  ASSUME NEW S, NEW w \in S, NEW x \in S, NEW y \in S, NEW z \in S
  PROVE  /\ <<w>> \in Seq(S) /\ <<w, x>> \in Seq(S) /\ <<w, x, y>> \in Seq(S)
         /\ <<w, x, y, z>> \in Seq(S)
OBVIOUS

LEMMA Words ==
  /\ \A w \in Step : <<w>> \in Seq(Step)
  /\ \A w, x \in Step : <<w, x>> \in Seq(Step)
  /\ \A w, x, y \in Step : <<w, x, y>> \in Seq(Step)
  /\ \A w, x, y, z \in Step : <<w, x, y, z>> \in Seq(Step)
BY Tuples

LEMMA LeadsOne ==
  ASSUME NEW o, NEW w \in Step,
         NEW a \in Mode, NEW b \in Mode,
         Can(o, w, a, b)
  PROVE  Leads(o, <<w>>, a, b)
<1> DEFINE t == <<w>>
           h == [i \in 1..2 |-> IF i = 1 THEN a ELSE b]
<1>1. t \in Seq(Step)
  BY Words
<1>2. Len(t) = 1 /\ t[1] = w
  OBVIOUS
<1>3. h \in [1..2 -> Mode] /\ h[1] = a /\ h[2] = b
  OBVIOUS
<1>4. \A i \in 1..1 : (i = 1 /\ i + 1 = 2)
  OBVIOUS
<1>5. 1 + 1 = 2
  OBVIOUS
<1>6. Path(o, t, a, b, h)
  <2> HIDE DEF h, t
  <2>1. QED BY <1>2, <1>3, <1>4, <1>5 DEF Path
<1>7. QED
  <2> HIDE DEF h
  <2>1. QED BY <1>1, <1>6 DEF Leads

LEMMA LeadsTwo ==
  ASSUME NEW o, NEW w \in Step, NEW x \in Step,
         NEW a \in Mode, NEW b \in Mode, NEW c \in Mode,
         Can(o, w, a, b), Can(o, x, b, c)
  PROVE  Leads(o, <<w, x>>, a, c)
<1> DEFINE t == <<w, x>>
           h == [i \in 1..3 |-> IF i = 1 THEN a ELSE IF i = 2 THEN b ELSE c]
<1>1. t \in Seq(Step)
  BY Words
<1>2. Len(t) = 2 /\ t[1] = w /\ t[2] = x
  OBVIOUS
<1>3. h \in [1..3 -> Mode] /\ h[1] = a /\ h[2] = b /\ h[3] = c
  OBVIOUS
<1>4. \A i \in 1..2 : (i = 1 /\ i + 1 = 2) \/ (i = 2 /\ i + 1 = 3)
  OBVIOUS
<1>5. 2 + 1 = 3
  OBVIOUS
<1>6. Path(o, t, a, c, h)
  <2> HIDE DEF h, t
  <2>1. QED BY <1>2, <1>3, <1>4, <1>5 DEF Path
<1>7. QED
  <2> HIDE DEF h
  <2>1. QED BY <1>1, <1>6 DEF Leads

LEMMA LeadsThree ==
  ASSUME NEW o, NEW w \in Step, NEW x \in Step, NEW y \in Step,
         NEW a \in Mode, NEW b \in Mode, NEW c \in Mode, NEW d \in Mode,
         Can(o, w, a, b), Can(o, x, b, c), Can(o, y, c, d)
  PROVE  Leads(o, <<w, x, y>>, a, d)
<1> DEFINE t == <<w, x, y>>
           h == [i \in 1..4 |-> IF i = 1 THEN a ELSE IF i = 2 THEN b ELSE IF i = 3 THEN c ELSE d]
<1>1. t \in Seq(Step)
  BY Words
<1>2. Len(t) = 3 /\ t[1] = w /\ t[2] = x /\ t[3] = y
  OBVIOUS
<1>3. h \in [1..4 -> Mode] /\ h[1] = a /\ h[2] = b /\ h[3] = c /\ h[4] = d
  OBVIOUS
<1>4. \A i \in 1..3 : (i = 1 /\ i + 1 = 2) \/ (i = 2 /\ i + 1 = 3) \/ (i = 3 /\ i + 1 = 4)
  OBVIOUS
<1>5. 3 + 1 = 4
  OBVIOUS
<1>6. Path(o, t, a, d, h)
  <2> HIDE DEF h, t
  <2>1. QED BY <1>2, <1>3, <1>4, <1>5 DEF Path
<1>7. QED
  <2> HIDE DEF h
  <2>1. QED BY <1>1, <1>6 DEF Leads

LEMMA LeadsFour ==
  ASSUME NEW o, NEW w \in Step, NEW x \in Step, NEW y \in Step, NEW z \in Step,
         NEW a \in Mode, NEW b \in Mode, NEW c \in Mode, NEW d \in Mode, NEW e \in Mode,
         Can(o, w, a, b), Can(o, x, b, c), Can(o, y, c, d), Can(o, z, d, e)
  PROVE  Leads(o, <<w, x, y, z>>, a, e)
<1> DEFINE t == <<w, x, y, z>>
           h == [i \in 1..5 |-> IF i = 1 THEN a ELSE IF i = 2 THEN b ELSE IF i = 3 THEN c ELSE IF i = 4 THEN d ELSE e]
<1>1. t \in Seq(Step)
  BY Words
<1>2. Len(t) = 4 /\ t[1] = w /\ t[2] = x /\ t[3] = y /\ t[4] = z
  OBVIOUS
<1>3. h \in [1..5 -> Mode] /\ h[1] = a /\ h[2] = b /\ h[3] = c /\ h[4] = d /\ h[5] = e
  OBVIOUS
<1>4. \A i \in 1..4 : (i = 1 /\ i + 1 = 2) \/ (i = 2 /\ i + 1 = 3) \/ (i = 3 /\ i + 1 = 4) \/ (i = 4 /\ i + 1 = 5)
  OBVIOUS
<1>5. 4 + 1 = 5
  OBVIOUS
<1>6. Path(o, t, a, e, h)
  <2> HIDE DEF h, t
  <2>1. QED BY <1>2, <1>3, <1>4, <1>5 DEF Path
<1>7. QED
  <2> HIDE DEF h
  <2>1. QED BY <1>1, <1>6 DEF Leads

LEMMA LeadsJoin ==
  ASSUME NEW o, NEW s, NEW t, NEW a, NEW b, NEW c, Leads(o, s, a, b), Leads(o, t, b, c)
  PROVE  Leads(o, s \o t, a, c)
<1>1. PICK f : Path(o, s, a, b, f)
  BY DEF Leads
<1>2. PICK g : Path(o, t, b, c, g)
  BY DEF Leads
<1>3. /\ s \in Seq(Step) /\ t \in Seq(Step) /\ s \o t \in Seq(Step)
      /\ Len(s) \in Nat /\ Len(t) \in Nat /\ Len(s \o t) = Len(s) + Len(t)
      /\ \A i \in 1..(Len(s) + Len(t)) :
           (s \o t)[i] = IF i <= Len(s) THEN s[i] ELSE t[i - Len(s)]
  BY DEF Leads
<1> DEFINE m == Len(s)
           n == Len(t)
           h == [i \in 1..(m + n + 1) |-> IF i <= m THEN f[i] ELSE g[i - m]]
<1>4. h \in [1..(m + n + 1) -> Mode]
  BY <1>1, <1>2, <1>3 DEF Path
<1>5. h[1] = a /\ h[m + n + 1] = c
  BY <1>1, <1>2, <1>3 DEF Path
<1>6. ASSUME NEW i \in 1..(m + n) PROVE Can(o, (s \o t)[i], h[i], h[i + 1])
  <2>1. CASE i < m
    <3>1. i \in 1..m /\ h[i] = f[i] /\ h[i + 1] = f[i + 1] /\ (s \o t)[i] = s[i]
      BY <1>3, <2>1
    <3>2. QED BY <1>1, <3>1 DEF Path
  <2>2. CASE i = m
    <3>1. i \in 1..m /\ h[i] = f[i] /\ h[i + 1] = g[1] /\ (s \o t)[i] = s[i]
      BY <1>3, <2>2
    <3>2. g[1] = f[i + 1]
      BY <1>1, <1>2, <2>2 DEF Path
    <3>3. QED BY <1>1, <3>1, <3>2 DEF Path
  <2>3. CASE i > m
    <3>1. i - m \in 1..n /\ (i + 1) - m = (i - m) + 1 /\ ~(i <= m) /\ ~(i + 1 <= m)
      BY <1>3, <2>3
    <3>2. i \in 1..(m + n + 1) /\ i + 1 \in 1..(m + n + 1)
      BY <1>3
    <3>3. h[i] = g[i - m] /\ h[i + 1] = g[(i - m) + 1]
      BY <3>1, <3>2
    <3>4. (s \o t)[i] = t[i - m]
      BY <1>3, <3>1
    <3>5. QED BY <1>2, <3>1, <3>3, <3>4 DEF Path
  <2>4. QED BY <1>3, <2>1, <2>2, <2>3
<1>7. Path(o, s \o t, a, c, h)
  <2> HIDE DEF h
  <2>1. QED BY <1>3, <1>4, <1>5, <1>6 DEF Path
<1>8. QED BY <1>3, <1>7 DEF Leads

(* The first step leads to a mode from which the others go on.             *)
LEMMA LeadsOn ==
  ASSUME NEW o, NEW t, NEW a, NEW c, Leads(o, t, a, c), t # <<>>
  PROVE  \E b \in Mode : Can(o, Head(t), a, b) /\ Leads(o, Tail(t), b, c)
<1>1. PICK h : Path(o, t, a, c, h)
  BY DEF Leads
<1>2. /\ t \in Seq(Step) /\ Len(t) \in Nat \ {0} /\ Head(t) = t[1]
      /\ Tail(t) \in Seq(Step) /\ Len(Tail(t)) = Len(t) - 1
      /\ \A i \in 1..(Len(t) - 1) : Tail(t)[i] = t[i + 1]
  BY DEF Leads
<1> DEFINE g == [i \in 1..Len(t) |-> h[i + 1]]
<1>3. h[2] \in Mode /\ Can(o, Head(t), a, h[2])
  BY <1>1, <1>2 DEF Path
<1>4. g \in [1..(Len(Tail(t)) + 1) -> Mode] /\ g[1] = h[2] /\ g[Len(Tail(t)) + 1] = c
  BY <1>1, <1>2 DEF Path
<1>5. ASSUME NEW i \in 1..Len(Tail(t)) PROVE Can(o, Tail(t)[i], g[i], g[i + 1])
  <2>1. i + 1 \in 1..Len(t) /\ Tail(t)[i] = t[i + 1] /\ g[i] = h[i + 1] /\ g[i + 1] = h[i + 1 + 1]
    BY <1>2
  <2>2. QED BY <1>1, <2>1 DEF Path
<1>6. Path(o, Tail(t), h[2], c, g)
  <2> HIDE DEF g
  <2>1. QED BY <1>4, <1>5 DEF Path
<1>7. QED BY <1>2, <1>3, <1>6 DEF Leads

LEMMA LeadsEmpty ==
  ASSUME NEW o, NEW a, NEW b, Leads(o, <<>>, a, b)
  PROVE  a = b
BY DEF Leads, Path

-----------------------------------------------------------------------------
(* The programs are typed.                                                 *)

(* Stages in which a call may take and give back locks.                    *)
Rests(o, n) == n \in 0..9 /\ n \notin {4, 5, 6} /\ (n = 9 => o = "SynchronizeLog")

LEMMA LockedLeads ==
  ASSUME NEW o, NEW n, NEW m, Rests(o, n), Rests(o, m),
         NEW body, Leads(o, body, In(0, "entered", n), In(0, "entered", m))
  PROVE  Leads(o, Locked(body), In(0, "no", n), In(0, "no", m))
<1>1. /\ In(0, "no", n) \in Mode /\ In(0, "announced", n) \in Mode
      /\ In(0, "entered", n) \in Mode /\ In(0, "entered", m) \in Mode
      /\ In(0, "no", m) \in Mode
  BY DEF Rests, In, Mode
<1>2. /\ Can(o, "Lock", In(0, "no", n), In(0, "announced", n))
      /\ Can(o, "Enter", In(0, "announced", n), In(0, "entered", n))
      /\ Can(o, "Unlock", In(0, "entered", m), In(0, "no", m))
  BY DEF Can, LockStep, Rests, In, Free, Owns
<1>3. Leads(o, <<"Lock", "Enter">>, In(0, "no", n), In(0, "entered", n))
  BY <1>1, <1>2, LeadsTwo DEF Step
<1>4. Leads(o, <<"Unlock">>, In(0, "entered", m), In(0, "no", m))
  BY <1>1, <1>2, LeadsOne DEF Step
<1>5. Leads(o, <<"Lock", "Enter">> \o body, In(0, "no", n), In(0, "entered", m))
  BY <1>3, LeadsJoin
<1>6. QED BY <1>4, <1>5, LeadsJoin DEF Locked

LEMMA RLockedLeads ==
  ASSUME NEW o, NEW k \in {0, 1}, k = 1 => o \in {"List", "ListLog"},
         NEW n, NEW m, Rests(o, n), Rests(o, m),
         NEW body, Leads(o, body, In(k + 1, "no", n), In(k + 1, "no", m))
  PROVE  Leads(o, RLocked(body), In(k, "no", n), In(k, "no", m))
<1>1. /\ In(k, "no", n) \in Mode /\ In(k, "no", m) \in Mode
      /\ In(k + 1, "no", n) \in Mode /\ In(k + 1, "no", m) \in Mode
  BY DEF Rests, In, Mode
<1>2. /\ Can(o, "RLock", In(k, "no", n), In(k + 1, "no", n))
      /\ Can(o, "RUnlock", In(k + 1, "no", m), In(k, "no", m))
  BY DEF Can, LockStep, Rests, In, Reads
<1>3. Leads(o, <<"RLock">>, In(k, "no", n), In(k + 1, "no", n))
  BY <1>1, <1>2, LeadsOne DEF Step
<1>4. Leads(o, <<"RUnlock">>, In(k + 1, "no", m), In(k, "no", m))
  BY <1>1, <1>2, LeadsOne DEF Step
<1>5. Leads(o, <<"RLock">> \o body, In(k, "no", n), In(k + 1, "no", m))
  BY <1>3, LeadsJoin
<1>6. QED BY <1>4, <1>5, LeadsJoin DEF RLocked

LEMMA LockedNone ==
  ASSUME NEW o, NEW n, Rests(o, n)
  PROVE  Leads(o, Locked(<<>>), In(0, "no", n), In(0, "no", n))
<1>1. In(0, "entered", n) \in Mode
  BY DEF Rests, In, Mode
<1>2. QED BY <1>1, LeadsNone, LockedLeads

LEMMA LockedOne ==
  ASSUME NEW o, NEW n, NEW m, Rests(o, n), Rests(o, m), NEW x \in Step,
         Can(o, x, In(0, "entered", n), In(0, "entered", m))
  PROVE  Leads(o, Locked(<<x>>), In(0, "no", n), In(0, "no", m))
<1>1. In(0, "entered", n) \in Mode /\ In(0, "entered", m) \in Mode
  BY DEF Rests, In, Mode
<1>2. QED BY <1>1, LeadsOne, LockedLeads

LEMMA GetSlotStateLeads ==
  ASSUME NEW o, Enters(o)
  PROVE  Leads(o, GetSlotState, In(0, "no", 1), In(0, "no", 3))
<1>1. /\ In(1, "no", 1) \in Mode /\ In(1, "no", 2) \in Mode /\ In(1, "no", 3) \in Mode
      /\ Rests(o, 1) /\ Rests(o, 3)
  BY DEF Rests, In, Mode
<1>2. /\ Can(o, "check", In(1, "no", 1), In(1, "no", 2))
      /\ Can(o, "take", In(1, "no", 2), In(1, "no", 3))
  BY DEF Can, EntryStep, To, In, Reads
<1>3. Leads(o, <<"check", "take">>, In(1, "no", 1), In(1, "no", 3))
  BY <1>1, <1>2, LeadsTwo DEF Step
<1>4. QED BY <1>1, <1>3, RLockedLeads DEF GetSlotState

(* Prepare goes from its test to the promise, Accept to all three fields,  *)
(* a proposal without a test.                                              *)
LEMMA WriteEntryLeads ==
  ASSUME NEW o, NEW n, (o = "Accept" /\ n = 4) \/ (o \in Proposing /\ n = 3)
  PROVE  Leads(o, WriteEntry, In(0, "no", n), In(0, "no", 7))
<1>1. /\ In(0, "no", n) \in Mode /\ In(0, "no", 5) \in Mode
      /\ In(0, "no", 6) \in Mode /\ In(0, "no", 7) \in Mode
  BY DEF In, Mode
<1>2. /\ Can(o, "setPromise", In(0, "no", n), In(0, "no", 5))
      /\ Can(o, "setAccepted", In(0, "no", 5), In(0, "no", 6))
      /\ Can(o, "setCommand", In(0, "no", 6), In(0, "no", 7))
  BY DEF Can, EntryStep, To, In, Free, Writes
<1>3. "setPromise" \in Step /\ "setAccepted" \in Step /\ "setCommand" \in Step
  BY DEF Step
<1>4. QED BY <1>1, <1>2, <1>3, LeadsThree DEF WriteEntry

LEMMA PrepareLeads == Leads("Prepare", Prepare, In(0, "no", 1), In(0, "no", 9))
<1> DEFINE o == "Prepare"
<1>1. /\ In(0, "no", 3) \in Mode /\ In(0, "no", 4) \in Mode /\ In(0, "no", 5) \in Mode
      /\ In(0, "no", 9) \in Mode /\ Enters(o)
  BY DEF In, Mode, Enters
<1>2. /\ Can(o, "promise?", In(0, "no", 3), In(0, "no", 4))
      /\ Can(o, "setPromise", In(0, "no", 4), In(0, "no", 5))
      /\ Can(o, "reply", In(0, "no", 5), In(0, "no", 9))
  BY DEF Can, EntryStep, To, In, Free
<1>3. Leads(o, <<"promise?", "setPromise", "reply">>, In(0, "no", 3), In(0, "no", 9))
  <2>1. "promise?" \in Step /\ "setPromise" \in Step /\ "reply" \in Step
    BY DEF Step
  <2>2. QED BY <1>1, <1>2, <2>1, LeadsThree
<1>4. Leads(o, GetSlotState, In(0, "no", 1), In(0, "no", 3))
  BY <1>1, GetSlotStateLeads
<1>5. QED BY <1>3, <1>4, LeadsJoin DEF Prepare

LEMMA AcceptLeads == Leads("Accept", Accept, In(0, "no", 1), In(0, "no", 9))
<1> DEFINE o == "Accept"
<1>1. /\ In(0, "no", 3) \in Mode /\ In(0, "no", 4) \in Mode /\ In(0, "no", 7) \in Mode
      /\ In(0, "no", 9) \in Mode /\ In(0, "entered", 7) \in Mode /\ Enters(o) /\ Rests(o, 7)
  BY DEF In, Mode, Enters, Rests
<1>2. /\ Can(o, "accept?", In(0, "no", 3), In(0, "no", 4))
      /\ Can(o, "top?", In(0, "no", 7), In(0, "no", 7))
      /\ Can(o, "raise", In(0, "entered", 7), In(0, "entered", 7))
      /\ Can(o, "reply", In(0, "no", 7), In(0, "no", 9))
  BY DEF Can, EntryStep, OtherStep, To, In, Free, Owns
<1>3. Leads(o, GetSlotState, In(0, "no", 1), In(0, "no", 3))
  BY <1>1, GetSlotStateLeads
<1>4. Leads(o, <<"accept?">>, In(0, "no", 3), In(0, "no", 4))
  BY <1>1, <1>2, LeadsOne DEF Step
<1>5. Leads(o, WriteEntry, In(0, "no", 4), In(0, "no", 7))
  BY WriteEntryLeads
<1>6. Leads(o, Locked(<<>>), In(0, "no", 7), In(0, "no", 7))
  BY <1>1, LockedNone
<1>7. Leads(o, <<"top?">>, In(0, "no", 7), In(0, "no", 7))
  BY <1>1, <1>2, LeadsOne DEF Step
<1>8. Leads(o, Locked(<<"raise">>), In(0, "no", 7), In(0, "no", 7))
  BY <1>1, <1>2, LockedOne DEF Step
<1>9. Leads(o, <<"reply">>, In(0, "no", 7), In(0, "no", 9))
  BY <1>1, <1>2, LeadsOne DEF Step
<1>10. Leads(o, GetSlotState \o <<"accept?">> \o WriteEntry, In(0, "no", 1), In(0, "no", 7))
  <2>1. Leads(o, GetSlotState \o <<"accept?">>, In(0, "no", 1), In(0, "no", 4))
    BY <1>3, <1>4, LeadsJoin
  <2>2. QED BY <1>5, <2>1, LeadsJoin
<1>11. Leads(o, GetSlotState \o <<"accept?">> \o WriteEntry \o Locked(<<>>) \o <<"top?">>,
             In(0, "no", 1), In(0, "no", 7))
  <2>1. Leads(o, GetSlotState \o <<"accept?">> \o WriteEntry \o Locked(<<>>),
              In(0, "no", 1), In(0, "no", 7))
    BY <1>6, <1>10, LeadsJoin
  <2>2. QED BY <1>7, <2>1, LeadsJoin
<1>12. Leads(o, GetSlotState \o <<"accept?">> \o WriteEntry \o Locked(<<>>) \o <<"top?">>
                  \o Locked(<<"raise">>), In(0, "no", 1), In(0, "no", 7))
  BY <1>8, <1>11, LeadsJoin
<1>13. QED BY <1>9, <1>12, LeadsJoin DEF Accept

LEMMA ProposeLeads ==
  ASSUME NEW o \in Proposing
  PROVE  Leads(o, ProposeCommand, In(0, "no", 0), In(0, "no", 9))
<1>1. /\ In(0, "no", 0) \in Mode /\ In(0, "no", 1) \in Mode /\ In(0, "no", 8) \in Mode
      /\ In(0, "no", 9) \in Mode /\ Enters(o)
      /\ Rests(o, 0) /\ Rests(o, 1) /\ Rests(o, 7) /\ Rests(o, 8)
  BY DEF In, Mode, Enters, Rests
<1>2. /\ Can(o, "draw", In(0, "entered", 0), In(0, "entered", 1))
      /\ Can(o, "ask", In(0, "no", 1), In(0, "no", 1))
      /\ Can(o, "raiseMax", In(0, "entered", 7), In(0, "entered", 8))
      /\ Can(o, "count", In(0, "no", 8), In(0, "no", 9))
  BY DEF Can, OtherStep, To, In, Free, Owns
<1>3. Leads(o, Locked(<<"draw">>), In(0, "no", 0), In(0, "no", 1))
  BY <1>1, <1>2, LockedOne DEF Step
<1>4. Leads(o, <<"ask">>, In(0, "no", 1), In(0, "no", 1))
  BY <1>1, <1>2, LeadsOne DEF Step
<1>5. Leads(o, GetSlotState, In(0, "no", 1), In(0, "no", 3))
  BY <1>1, GetSlotStateLeads
<1>6. Leads(o, WriteEntry, In(0, "no", 3), In(0, "no", 7))
  BY WriteEntryLeads
<1>7. Leads(o, Locked(<<"raiseMax">>), In(0, "no", 7), In(0, "no", 8))
  BY <1>1, <1>2, LockedOne DEF Step
<1>8. Leads(o, <<"count">>, In(0, "no", 8), In(0, "no", 9))
  BY <1>1, <1>2, LeadsOne DEF Step
<1>9. Leads(o, Locked(<<"draw">>) \o <<"ask">> \o GetSlotState, In(0, "no", 0), In(0, "no", 3))
  <2>1. Leads(o, Locked(<<"draw">>) \o <<"ask">>, In(0, "no", 0), In(0, "no", 1))
    BY <1>3, <1>4, LeadsJoin
  <2>2. QED BY <1>5, <2>1, LeadsJoin
<1>10. Leads(o, Locked(<<"draw">>) \o <<"ask">> \o GetSlotState \o WriteEntry,
             In(0, "no", 0), In(0, "no", 7))
  BY <1>6, <1>9, LeadsJoin
<1>11. Leads(o, Locked(<<"draw">>) \o <<"ask">> \o GetSlotState \o WriteEntry
                  \o Locked(<<"raiseMax">>), In(0, "no", 0), In(0, "no", 8))
  BY <1>7, <1>10, LeadsJoin
<1>12. QED BY <1>8, <1>11, LeadsJoin DEF ProposeCommand

Start(o) == In(0, "no", IF o \in OfSlot THEN 1 ELSE 0)
(* No call ends between its test of an entry and its last write there.     *)
InEntry(a) == a.stage \in {4, 5, 6}
Ends(a) == (Free(a) /\ ~InEntry(a)) \/ a.writes = "stuck"

(* List t is what a call of operation o may have left in mode a.           *)
Fits(o, t, a) == \E b \in Mode : Leads(o, t, a, b) /\ Ends(b)

LEMMA FitsFree ==
  ASSUME NEW o, NEW t, NEW a, NEW n \in 0..10, n \notin {4, 5, 6},
         Leads(o, t, a, In(0, "no", n))
  PROVE  Fits(o, t, a)
<1>1. In(0, "no", n) \in Mode /\ Ends(In(0, "no", n))
  BY DEF In, Mode, Ends, Free, InEntry
<1>2. QED BY <1>1 DEF Fits

LEMMA ReadOnce ==
  ASSUME NEW o, NEW k \in {0, 1}, k = 1 => o \in {"List", "ListLog"},
         NEW x \in {"copy", "none"},
         NEW body, body = IF x = "copy" THEN <<"copy">> ELSE <<>>
  PROVE  Leads(o, RLocked(body), In(k, "no", 0), In(k, "no", 0))
<1>1. In(k + 1, "no", 0) \in Mode /\ Rests(o, 0)
  BY DEF In, Mode, Rests
<1>2. CASE x = "none"
  <2>1. Leads(o, body, In(k + 1, "no", 0), In(k + 1, "no", 0))
    BY <1>1, <1>2, LeadsNone
  <2>2. QED BY <1>1, <2>1, RLockedLeads
<1>3. CASE x = "copy"
  <2>1. Can(o, "copy", In(k + 1, "no", 0), In(k + 1, "no", 0))
    BY DEF Can, OtherStep, To, In, Reads
  <2>2. "copy" \in Step
    BY DEF Step
  <2>3. Leads(o, body, In(k + 1, "no", 0), In(k + 1, "no", 0))
    BY <1>1, <1>3, <2>1, <2>2, LeadsOne
  <2>4. QED BY <1>1, <2>3, RLockedLeads
<1>4. QED BY <1>2, <1>3

LEMMA ElectionLeads ==
  ASSUME NEW o
  PROVE  Leads(o, LeaderElection, In(0, "no", 0), In(0, "no", 0))
<1>1. In(0, "no", 0) \in Mode /\ In(0, "entered", 0) \in Mode /\ Rests(o, 0)
  BY DEF In, Mode, Rests
<1>2. /\ Can(o, "follower?", In(0, "entered", 0), In(0, "entered", 0))
      /\ Can(o, "elect", In(0, "no", 0), In(0, "no", 0))
  BY DEF Can, OtherStep, To, In, Owns, Free
<1>3. "follower?" \in Step /\ "elect" \in Step
  BY DEF Step
<1>4. Leads(o, Locked(<<"follower?">>), In(0, "no", 0), In(0, "no", 0))
  BY <1>1, <1>2, <1>3, LockedOne
<1>5. Leads(o, Locked(<<>>), In(0, "no", 0), In(0, "no", 0))
  BY <1>1, LockedNone
<1>6. Leads(o, <<"elect">>, In(0, "no", 0), In(0, "no", 0))
  BY <1>1, <1>2, <1>3, LeadsOne
<1>7. Leads(o, Locked(<<"follower?">>) \o Locked(<<>>), In(0, "no", 0), In(0, "no", 0))
  BY <1>4, <1>5, LeadsJoin
<1>8. QED BY <1>6, <1>7, LeadsJoin DEF LeaderElection

LEMMA LearnLeads == Leads("Learn", Learn, In(0, "no", 1), In(0, "no", 9))
<1>1. /\ In(0, "no", 3) \in Mode /\ In(0, "no", 9) \in Mode /\ Enters("Learn")
      /\ "reply" \in Step
  BY DEF In, Mode, Enters, Step
<1>2. Can("Learn", "reply", In(0, "no", 3), In(0, "no", 9))
  BY DEF Can, EntryStep, To, In, Free
<1>3. Leads("Learn", <<"reply">>, In(0, "no", 3), In(0, "no", 9))
  BY <1>1, <1>2, LeadsOne
<1>4. Leads("Learn", GetSlotState, In(0, "no", 1), In(0, "no", 3))
  BY <1>1, GetSlotStateLeads
<1>5. QED BY <1>3, <1>4, LeadsJoin DEF Learn

LEMMA WriteLearnedLeads ==
  Leads("SynchronizeLog", WriteLearned, In(0, "no", 1), In(0, "no", 9))
<1>1. Rests("SynchronizeLog", 1) /\ Rests("SynchronizeLog", 9) /\ "learn" \in Step
  BY DEF Rests, Step
<1>2. Can("SynchronizeLog", "learn", In(0, "entered", 1), In(0, "entered", 9))
  BY DEF Can, EntryStep, To, In, Owns
<1>3. QED BY <1>1, <1>2, LockedOne DEF WriteLearned

LEMMA SetLeads ==
  ASSUME NEW o \in Proposing
  PROVE  Leads(o, Locked(<<"leader?">>) \o ProposeCommand, In(0, "no", 0), In(0, "no", 9))
<1>1. Rests(o, 0) /\ "leader?" \in Step
  BY DEF Rests, Step
<1>2. Can(o, "leader?", In(0, "entered", 0), In(0, "entered", 0))
  BY DEF Can, OtherStep, To, In, Owns
<1>3. Leads(o, Locked(<<"leader?">>), In(0, "no", 0), In(0, "no", 0))
  BY <1>1, <1>2, LockedOne
<1>4. QED BY <1>3, ProposeLeads, LeadsJoin

LEMMA HeartbeatLeads ==
  Leads("SendHeartbeat", SendHeartbeat, In(0, "no", 0), In(0, "no", 0))
<1>1. Rests("SendHeartbeat", 0) /\ "heed" \in Step
  BY DEF Rests, Step
<1>2. Can("SendHeartbeat", "heed", In(0, "entered", 0), In(0, "entered", 0))
  BY DEF Can, OtherStep, To, In, Owns
<1>3. QED BY <1>1, <1>2, LockedOne DEF SendHeartbeat

LEMMA TryElectLeads ==
  Leads("TryElectSelf", TryElectSelf, In(0, "no", 0), In(0, "no", 0))
<1> DEFINE o == "TryElectSelf"
<1>1. /\ In(0, "no", 0) \in Mode /\ In(0, "announced", 0) \in Mode
      /\ In(0, "entered", 0) \in Mode
  BY DEF In, Mode
<1>2. /\ Can(o, "Lock", In(0, "no", 0), In(0, "announced", 0))
      /\ Can(o, "Enter", In(0, "announced", 0), In(0, "entered", 0))
      /\ Can(o, "Unlock", In(0, "entered", 0), In(0, "no", 0))
  BY DEF Can, LockStep, In, Free, Owns
<1>3. Can(o, "free?", In(0, "entered", 0), In(0, "entered", 0))
  BY DEF Can, OtherStep, To, In, Owns
<1>4. "Lock" \in Step /\ "Enter" \in Step /\ "free?" \in Step /\ "Unlock" \in Step
  BY DEF Step
<1>5. Leads(o, <<"Lock", "Enter", "free?", "Unlock">>, In(0, "no", 0), In(0, "no", 0))
  BY <1>1, <1>2, <1>3, <1>4, LeadsFour
<1>6. Leads(o, LeaderElection, In(0, "no", 0), In(0, "no", 0))
  BY ElectionLeads
<1>7. QED BY <1>5, <1>6, LeadsJoin DEF TryElectSelf

LEMMA ListLogLeads ==
  /\ Leads("ListLog", ListLog, In(0, "no", 0), In(0, "no", 0))
  /\ Leads("List", List, In(0, "no", 0), In(0, "no", 0))
<1>1. /\ In(1, "no", 0) \in Mode /\ "render" \in Step
      /\ Rests("ListLog", 0) /\ Rests("List", 0) /\ 0 + 1 = 1
  BY DEF In, Mode, Step, Rests
<1>2. Can("ListLog", "render", In(1, "no", 0), In(1, "no", 0))
  BY DEF Can, OtherStep, To, In, Reads
<1>3. Leads("ListLog", GetAllSlots, In(1, "no", 0), In(1, "no", 0))
  BY ReadOnce DEF GetAllSlots
<1>4. Leads("ListLog", <<"render">>, In(1, "no", 0), In(1, "no", 0))
  BY <1>1, <1>2, LeadsOne
<1>5. Leads("ListLog", GetAllSlots \o <<"render">>, In(1, "no", 0), In(1, "no", 0))
  BY <1>3, <1>4, LeadsJoin
<1>6. Leads("List", GetKVStore, In(1, "no", 0), In(1, "no", 0))
  BY ReadOnce DEF GetKVStore
<1>7. QED BY <1>1, <1>5, <1>6, RLockedLeads DEF ListLog, List

(* What runs in Next.                                                      *)
LEMMA OpNames ==
  /\ OfSlot = {"Prepare", "Accept", "Learn", "SynchronizeLog"}
  /\ Proposing = {"Set", "Delete", "cliPropose"}
  /\ OfWeb = {"Set", "Delete", "List", "ListLog", "TryElectSelf"}
  /\ OfCli = {"cliPropose", "cliPrint", "cliElect", "cliPrintlog"}
  /\ WaitedFor = {"Set", "Delete"}
<1>1. OfWeb = {"Set", "Delete", "List", "ListLog", "TryElectSelf"}
  BY DEF OfWeb, Routes
<1>2. OfCli = {"cliPropose", "cliPrint", "cliElect", "cliPrintlog"}
  BY DEF OfCli, Commands
<1>3. QED BY <1>1, <1>2 DEF OfSlot, Proposing, WaitedFor


LEMMA ProgramsFit ==
  ASSUME NEW o \in DOMAIN Program
  PROVE  Fits(o, Program[o], Start(o)) /\ o # "none"
<1>1. /\ Start(o) = In(0, "no", IF o \in OfSlot THEN 1 ELSE 0)
      /\ OfSlot = {"Prepare", "Accept", "Learn", "SynchronizeLog"}
  BY DEF Start, OfSlot
<1>2. o \in {"Prepare", "Accept", "Learn", "SynchronizeLog", "SendHeartbeat", "GetStatus",
             "Get", "List", "ListLog", "Set", "Delete", "TryElectSelf", "cliPropose",
             "cliPrint", "cliElect", "cliPrintlog"}
  BY DEF Program
<1>3. CASE o = "Prepare"
  BY <1>1, <1>3, PrepareLeads, FitsFree DEF Program
<1>4. CASE o = "Accept"
  BY <1>1, <1>4, AcceptLeads, FitsFree DEF Program
<1>5. CASE o = "Learn"
  BY <1>1, <1>5, LearnLeads, FitsFree DEF Program
<1>6. CASE o = "SynchronizeLog"
  BY <1>1, <1>6, WriteLearnedLeads, FitsFree DEF Program
<1>7. CASE o = "SendHeartbeat"
  BY <1>1, <1>7, HeartbeatLeads, FitsFree DEF Program
<1>8. CASE o \in {"GetStatus", "Get", "cliPrint"}
  <2>1. Leads(o, RLocked(<<>>), In(0, "no", 0), In(0, "no", 0))
    BY ReadOnce
  <2>2. Program[o] = RLocked(<<>>)
    BY <1>8 DEF Program, GetStatus, Get, GetKVStore
  <2>3. QED BY <1>1, <1>8, <2>1, <2>2, FitsFree
<1>9. CASE o = "cliPrintlog"
  <2>1. Leads(o, RLocked(<<"copy">>), In(0, "no", 0), In(0, "no", 0))
    BY ReadOnce
  <2>2. Program[o] = RLocked(<<"copy">>)
    BY <1>9 DEF Program, GetAllSlots
  <2>3. QED BY <1>1, <1>9, <2>1, <2>2, FitsFree
<1>10. CASE o \in {"List", "ListLog"}
  BY <1>1, <1>10, ListLogLeads, FitsFree DEF Program
<1>11. CASE o \in {"Set", "Delete"}
  <2>1. o \in Proposing
    BY <1>11 DEF Proposing
  <2>2. Program[o] = Locked(<<"leader?">>) \o ProposeCommand
    BY <1>11 DEF Program, Set, Delete
  <2>3. QED BY <1>1, <1>11, <2>1, <2>2, SetLeads, FitsFree
<1>12. CASE o = "cliPropose"
  <2>1. o \in Proposing /\ Program[o] = ProposeCommand
    BY <1>12 DEF Proposing, Program
  <2>2. QED BY <1>1, <1>12, <2>1, ProposeLeads, FitsFree
<1>13. CASE o = "TryElectSelf"
  BY <1>1, <1>13, TryElectLeads, FitsFree DEF Program
<1>14. CASE o = "cliElect"
  <2>1. Program[o] = LeaderElection
    BY <1>14 DEF Program
  <2>2. QED BY <1>1, <1>14, <2>1, ElectionLeads, FitsFree
<1>15. QED
  BY <1>2, <1>3, <1>4, <1>5, <1>6, <1>7, <1>8, <1>9, <1>10, <1>11, <1>12, <1>13, <1>14

-----------------------------------------------------------------------------
(* Every call is typed.  h names the mode of each call.                    *)

Agrees(r, a) ==
  /\ readers[r] = a.reads
  /\ a.writes # "stuck"
  /\ writer = r <=> a.writes # "no"
  /\ a.writes = "entered" => NoReaders

(* TryElectSelf has returned with the lock held.                           *)
Leaked(r) ==
  ~Running(r) /\ call[r].op = "TryElectSelf" /\ writer = r /\ readers[r] = 0

TypedCall(r, a) ==
  \/ Fits(call[r].op, todo[r], a) /\ Agrees(r, a)
  \/ Leaked(r) /\ a.stage = 0

Typed(h) == h \in [Call -> Mode] /\ \A r \in Call : TypedCall(r, h[r])

Types ==
  /\ todo \in [Call -> Seq(Step)]
  /\ readers \in [Call -> Nat]
  /\ writer \in Call \cup {Nil}
  /\ call \in [Call -> [op : Op \cup {"none"}, slot : Nat, id : {0} \cup Id]]

(* Call r has gone to mode c: it made a step and keeps its place in the    *)
(* program, or it jumped and did nothing else.                             *)
Advances(h, r, c) ==
  /\ GoOn(r)
  /\ Can(call[r].op, Head(todo[r]), h[r], c)

MayJump(r) ==
  \/ Refuse(r) \/ TestTop(r) \/ RefuseToPropose(r)
  \/ Ask(r) \/ TestFree(r) \/ Elect(r) \/ Heed(r)
  \/ Check(r) /\ slots[SlotOf(r)] = Nil

Jumps(h, r, c) ==
  /\ MayJump(r)
  /\ IF Check(r) THEN c = In(h[r].reads, h[r].writes, 10) /\ h[r].stage = 1 ELSE c = h[r]
  /\ UNCHANGED <<call, result, ptr, slots, state, highestSlotID, overtaken, history>>

LEMMA RunningTyped ==
  ASSUME NEW h, Types, Typed(h), NEW r \in Call, Running(r)
  PROVE  /\ h[r] \in Mode /\ Agrees(r, h[r]) /\ todo[r] \in Seq(Step)
         /\ Fits(call[r].op, todo[r], h[r])
         /\ \E c \in Mode : /\ Can(call[r].op, Head(todo[r]), h[r], c)
                            /\ Fits(call[r].op, Tail(todo[r]), c)
<1>1. h[r] \in Mode /\ Agrees(r, h[r]) /\ Fits(call[r].op, todo[r], h[r]) /\ todo[r] \in Seq(Step)
  BY DEF Typed, TypedCall, Leaked, Types
<1>2. PICK b \in Mode : Leads(call[r].op, todo[r], h[r], b) /\ Ends(b)
  BY <1>1 DEF Fits
<1>3. PICK c \in Mode : /\ Can(call[r].op, Head(todo[r]), h[r], c)
                        /\ Leads(call[r].op, Tail(todo[r]), c, b)
  BY <1>2, LeadsOn DEF Running
<1>4. QED BY <1>1, <1>2, <1>3 DEF Fits

(* A call that has ended holds no lock, or TryElectSelf the one it leaks.  *)
LEMMA EndedTyped ==
  ASSUME NEW h, Types, Typed(h), NEW r \in Call, ~Running(r)
  PROVE  readers[r] = 0 /\ (writer = r => Leaked(r))
<1>1. CASE ~Leaked(r)
  <2>1. Fits(call[r].op, <<>>, h[r]) /\ Agrees(r, h[r])
    BY <1>1 DEF Typed, TypedCall, Running
  <2>2. Free(h[r])
    BY <2>1, LeadsEmpty DEF Fits, Ends, Agrees
  <2>3. QED BY <2>1, <2>2 DEF Agrees, Free
<1>2. QED BY <1>1 DEF Leaked

LEMMA InEntryRuns ==
  ASSUME NEW h, Types, Typed(h), NEW r \in Call, InEntry(h[r])
  PROVE  Running(r)
<1> SUFFICES ASSUME ~Running(r) PROVE FALSE
  OBVIOUS
<1>1. ~(Leaked(r) /\ h[r].stage = 0)
  BY DEF InEntry
<1>2. Fits(call[r].op, <<>>, h[r]) /\ Agrees(r, h[r])
  BY <1>1 DEF Typed, TypedCall, Running
<1>3. Ends(h[r])
  BY <1>2, LeadsEmpty DEF Fits
<1>4. QED BY <1>2, <1>3 DEF Ends, Agrees

(* A call that does something leaves the others typed.                     *)
LEMMA OthersTyped ==
  ASSUME NEW h, Types, Typed(h), NEW r \in Call, NEW c \in Mode, TypedCall(r, c)',
         \A q \in Call \ {r} : /\ call'[q].op = call[q].op /\ todo'[q] = todo[q]
                               /\ readers'[q] = readers[q] /\ (writer' = q <=> writer = q),
         writer # Nil /\ NoReaders => NoReaders'
  PROVE  Typed([h EXCEPT ![r] = c])'
<1> DEFINE g == [h EXCEPT ![r] = c]
<1>1. /\ g \in [Call -> Mode] /\ g[r] = c
      /\ \A q \in Call \ {r} : g[q] = h[q]
  BY DEF Typed
<1>2. ASSUME NEW q \in Call, q # r PROVE TypedCall(q, g[q])'
  <2>1. g[q] = h[q] /\ q # Nil
    BY <1>1, <1>2, HandlersAssumption DEF HandlersAssumption
  <2>2. CASE Leaked(q) /\ h[q].stage = 0
    BY <1>2, <2>1, <2>2 DEF TypedCall, Leaked, Running
  <2>3. CASE Fits(call[q].op, todo[q], h[q]) /\ Agrees(q, h[q])
    <3>1. Agrees(q, h[q])'
      BY <1>2, <2>1, <2>3 DEF Agrees
    <3>2. Fits(call'[q].op, todo'[q], g[q])
      BY <1>2, <2>1, <2>3
    <3>3. QED BY <2>1, <3>1, <3>2 DEF TypedCall
  <2>4. QED BY <2>2, <2>3 DEF Typed, TypedCall
<1>3. QED
  <2> HIDE DEF g
  <2>1. \A q \in Call : TypedCall(q, g[q])'
    BY <1>1, <1>2
  <2>2. QED BY <1>1, <2>1 DEF Typed, g

LEMMA GoingOn ==
  ASSUME Types, NEW r \in Call, Running(r), GoOn(r)
  PROVE  /\ todo'[r] = Tail(todo[r]) /\ todo' \in [Call -> Seq(Step)]
         /\ \A q \in Call \ {r} : todo'[q] = todo[q]
<1>1. Tail(todo[r]) \in Seq(Step)
  BY DEF Types, Running
<1>2. QED BY <1>1 DEF GoOn, Types

LEMMA GoingTo ==
  ASSUME Types, NEW r \in Call, NEW t \in Seq(Step), GoTo(r, t)
  PROVE  /\ todo'[r] = t /\ todo' \in [Call -> Seq(Step)]
         /\ \A q \in Call \ {r} : todo'[q] = todo[q]
BY DEF GoTo, Types

LockName == {"RLock", "RUnlock", "Lock", "Enter", "Unlock"}

(* A step that is none of the lock's.                                      *)
LEMMA WorkTyped ==
  ASSUME NEW h, Types, Typed(h), NEW r \in Call, Running(r), GoOn(r),
         Head(todo[r]) \notin LockName, UNCHANGED lock,
         \A q \in Call : call'[q].op = call[q].op
  PROVE  \E c \in Mode : Advances(h, r, c) /\ Typed([h EXCEPT ![r] = c])'
<1>1. PICK c \in Mode : /\ Can(call[r].op, Head(todo[r]), h[r], c)
                        /\ Fits(call[r].op, Tail(todo[r]), c)
  BY RunningTyped
<1>2. Agrees(r, h[r])
  BY RunningTyped
<1>3. c.reads = h[r].reads /\ c.writes = h[r].writes
  BY <1>1, <1>2 DEF Can, LockStep, EntryStep, OtherStep, To, In, LockName, Agrees
<1>4. readers' = readers /\ writer' = writer
  BY DEF lock
<1>5. Agrees(r, c)'
  BY <1>2, <1>3, <1>4 DEF Agrees, NoReaders
<1>6. TypedCall(r, c)'
  BY <1>1, <1>5, GoingOn DEF TypedCall
<1>7. Typed([h EXCEPT ![r] = c])'
  BY <1>4, <1>6, GoingOn, OthersTyped DEF NoReaders
<1>8. QED BY <1>1, <1>7 DEF Advances

(* A jump to steps that fit.                                               *)
LEMMA JumpTyped ==
  ASSUME NEW h, Types, Typed(h), NEW r \in Call, NEW t \in Seq(Step), GoTo(r, t),
         UNCHANGED <<call, lock>>, Agrees(r, h[r]),
         NEW c \in Mode, c.reads = h[r].reads, c.writes = h[r].writes,
         Fits(call[r].op, t, c)
  PROVE  Typed([h EXCEPT ![r] = c])'
<1>1. readers' = readers /\ writer' = writer /\ call' = call
  BY DEF lock
<1>2. Agrees(r, c)'
  BY <1>1 DEF Agrees, NoReaders
<1>3. TypedCall(r, c)'
  BY <1>1, <1>2, GoingTo DEF TypedCall
<1>4. QED BY <1>1, <1>3, GoingTo, OthersTyped DEF NoReaders

(* The operations of the lock.                                             *)
LEMMA LockTyped ==
  ASSUME NEW h, Types, Typed(h), NEW r \in Call, Running(r),
         RLock(r) \/ RUnlock(r) \/ Announce(r) \/ Enter(r) \/ Unlock(r)
  PROVE  \E c \in Mode : Advances(h, r, c) /\ Typed([h EXCEPT ![r] = c])'
<1> DEFINE a == h[r]
           x == Head(todo[r])
<1>1. PICK c \in Mode : Can(call[r].op, x, a, c) /\ Fits(call[r].op, Tail(todo[r]), c)
  BY RunningTyped
<1>2. a \in Mode /\ Agrees(r, a) /\ r # Nil
  BY RunningTyped, HandlersAssumption DEF HandlersAssumption
<1>3. GoOn(r) /\ UNCHANGED call
  BY DEF RLock, RUnlock, Announce, Enter, Unlock
<1>4. x \in LockName => LockStep(call[r].op, x, a, c)
  BY <1>1, <1>2 DEF Can, EntryStep, OtherStep, LockName, Agrees
<1>5. ASSUME /\ Agrees(r, c)'
             /\ \A q \in Call \ {r} : readers'[q] = readers[q] /\ (writer' = q <=> writer = q)
             /\ writer # Nil /\ NoReaders => NoReaders'
      PROVE  \E d \in Mode : Advances(h, r, d) /\ Typed([h EXCEPT ![r] = d])'
  <2>1. TypedCall(r, c)'
    BY <1>1, <1>3, <1>5, GoingOn DEF TypedCall
  <2>2. Typed([h EXCEPT ![r] = c])'
    BY <1>3, <1>5, <2>1, GoingOn, OthersTyped
  <2>3. QED BY <1>1, <1>3, <2>2 DEF Advances
<1>6. CASE RLock(r)
  <2>1. /\ x = "RLock" /\ writer = Nil /\ writer' = writer
        /\ readers' = [readers EXCEPT ![r] = @ + 1]
    BY <1>6 DEF RLock, At
  <2>2. c = In(a.reads + 1, "no", a.stage)
    BY <1>4, <2>1 DEF LockStep, LockName
  <2>3. readers'[r] = readers[r] + 1 /\ \A q \in Call \ {r} : readers'[q] = readers[q]
    BY <2>1 DEF Types
  <2>4. Agrees(r, c)'
    BY <1>2, <2>1, <2>2, <2>3 DEF Agrees, In
  <2>5. QED BY <1>5, <2>1, <2>3, <2>4
<1>7. CASE RUnlock(r)
  <2>1. x = "RUnlock" /\ writer' = writer /\ readers' = [readers EXCEPT ![r] = @ - 1]
    BY <1>7 DEF RUnlock, At
  <2>2. Reads(a) /\ c = In(a.reads - 1, "no", a.stage)
    BY <1>4, <2>1 DEF LockStep, LockName
  <2>3. readers'[r] = readers[r] - 1 /\ \A q \in Call \ {r} : readers'[q] = readers[q]
    BY <2>1 DEF Types
  <2>4. Agrees(r, c)'
    BY <1>2, <2>1, <2>2, <2>3 DEF Agrees, In, Reads
  <2>5. NoReaders => NoReaders'
    BY <1>2, <2>2 DEF NoReaders, Agrees, Reads
  <2>6. QED BY <1>5, <2>1, <2>3, <2>4, <2>5
<1>8. CASE Announce(r)
  <2>1. x = "Lock" /\ writer = Nil /\ writer' = r /\ readers' = readers
    BY <1>8 DEF Announce, At
  <2>2. c = In(0, "announced", a.stage) /\ Free(a)
    <3>1. ~Owns(a)
      BY <1>2, <2>1 DEF Agrees, Owns
    <3>2. QED BY <1>4, <2>1, <3>1 DEF LockStep, LockName
  <2>3. Agrees(r, c)'
    BY <1>2, <2>1, <2>2 DEF Agrees, In, Free
  <2>4. \A q \in Call \ {r} : q # Nil
    BY HandlersAssumption DEF HandlersAssumption
  <2>5. QED BY <1>5, <2>1, <2>3, <2>4
<1>9. CASE Enter(r)
  <2>1. x = "Enter" /\ NoReaders /\ writer' = writer /\ readers' = readers
    BY <1>9 DEF Enter, At, lock
  <2>2. a.reads = 0 /\ a.writes = "announced" /\ c = In(0, "entered", a.stage)
    BY <1>4, <2>1 DEF LockStep, LockName
  <2>3. Agrees(r, c)' /\ NoReaders'
    BY <1>2, <2>1, <2>2 DEF Agrees, In, NoReaders
  <2>4. QED BY <1>5, <2>1, <2>3
<1>10. CASE Unlock(r)
  <2>1. x = "Unlock" /\ writer' = Nil /\ readers' = readers
    BY <1>10 DEF Unlock, At
  <2>2. Owns(a) /\ c = In(0, "no", a.stage)
    BY <1>4, <2>1 DEF LockStep, LockName
  <2>3. writer = r /\ Agrees(r, c)'
    BY <1>2, <2>1, <2>2 DEF Agrees, In, Owns
  <2>4. NoReaders => NoReaders'
    BY <2>1 DEF NoReaders
  <2>5. \A q \in Call \ {r} : q # Nil
    BY HandlersAssumption DEF HandlersAssumption
  <2>6. QED BY <1>5, <2>1, <2>3, <2>4, <2>5
<1>11. QED BY <1>6, <1>7, <1>8, <1>9, <1>10

(* The short ends that calls jump to.                                      *)
LEMMA FitsNothing ==
  ASSUME NEW o, NEW a \in Mode, Free(a), ~InEntry(a)
  PROVE  Fits(o, <<>>, a)
BY LeadsNone DEF Fits, Ends

LEMMA InMode ==
  ASSUME NEW a \in Mode
  PROVE  /\ Free(a) => a = In(0, "no", a.stage)
         /\ Owns(a) => a = In(0, "entered", a.stage)
         /\ a.stage \in 0..10
BY DEF Mode, In, Free, Owns

LEMMA FitsUnlock ==
  ASSUME NEW o, NEW a \in Mode, Owns(a), Rests(o, a.stage)
  PROVE  Fits(o, <<"Unlock">>, a) /\ <<"Unlock">> \in Seq(Step)
<1>1. In(0, "no", a.stage) \in Mode /\ "Unlock" \in Step /\ a.stage \in 0..10
  BY DEF In, Mode, Step
<1>2. Can(o, "Unlock", a, In(0, "no", a.stage))
  BY DEF Can, LockStep, Rests
<1>3. Leads(o, <<"Unlock">>, a, In(0, "no", a.stage))
  BY <1>1, <1>2, LeadsOne
<1>4. QED BY <1>1, <1>3, FitsFree DEF Leads, Rests

LEMMA FitsLocked ==
  ASSUME NEW o, NEW a \in Mode, Free(a), Rests(o, a.stage)
  PROVE  Fits(o, Locked(<<>>), a) /\ Locked(<<>>) \in Seq(Step)
<1>1. Leads(o, Locked(<<>>), a, a) /\ a = In(0, "no", a.stage) /\ a.stage \in 0..10
  BY LockedNone, InMode
<1>2. Leads(o, Locked(<<>>), a, In(0, "no", a.stage))
  BY <1>1
<1>3. QED BY <1>1, <1>2, FitsFree DEF Leads, Rests

LEMMA FitsOutcome ==
  ASSUME NEW o, NEW a \in Mode, Free(a), a.stage = 0,
         NEW t \in {<<>>, Locked(<<"lose">>), Locked(<<"win">>) \o StopHeartbeats}
  PROVE  Fits(o, t, a) /\ t \in Seq(Step)
<1>1. /\ Rests(o, 0) /\ "lose" \in Step /\ "win" \in Step
      /\ a = In(0, "no", 0) /\ 0 \in 0..10
  BY InMode DEF Rests, Step
<1>2. /\ Can(o, "lose", In(0, "entered", 0), In(0, "entered", 0))
      /\ Can(o, "win", In(0, "entered", 0), In(0, "entered", 0))
  BY DEF Can, OtherStep, To, In, Owns
<1>3. Leads(o, Locked(<<"lose">>), In(0, "no", 0), In(0, "no", 0))
  BY <1>1, <1>2, LockedOne
<1>4. Leads(o, Locked(<<"win">>), In(0, "no", 0), In(0, "no", 0))
  BY <1>1, <1>2, LockedOne
<1>5. Leads(o, StopHeartbeats, In(0, "no", 0), In(0, "no", 0))
  BY <1>1, LockedNone DEF StopHeartbeats
<1>6. Leads(o, Locked(<<"win">>) \o StopHeartbeats, In(0, "no", 0), In(0, "no", 0))
  BY <1>4, <1>5, LeadsJoin
<1>7. Leads(o, <<>>, In(0, "no", 0), In(0, "no", 0))
  BY <1>1, LeadsNone
<1>8. Leads(o, t, a, In(0, "no", 0))
  BY <1>1, <1>3, <1>6, <1>7
<1>9. QED BY <1>1, <1>8, FitsFree DEF Leads

(* A heartbeat that deposes a leader gets stuck, one with news lets go of  *)
(* the lock for a while.                                                   *)
LEMMA StuckStays ==
  ASSUME NEW o, NEW t \in Seq(Step)
  PROVE  Leads(o, t, In(0, "stuck", 0), In(0, "stuck", 0))
<1> DEFINE a == In(0, "stuck", 0)
           h == [i \in 1..(Len(t) + 1) |-> a]
<1>1. a \in Mode /\ a.writes = "stuck"
  BY DEF In, Mode
<1> HIDE DEF a
<1>2. h \in [1..(Len(t) + 1) -> Mode] /\ \A i \in 1..(Len(t) + 1) : h[i] = a
  BY <1>1
<1>3. Len(t) \in Nat
  OBVIOUS
<1> HIDE DEF h
<1>4. \A i \in 1..Len(t) : Can(o, t[i], h[i], h[i + 1])
  BY <1>1, <1>2, <1>3 DEF Can
<1>5. Path(o, t, a, a, h)
  BY <1>2, <1>3, <1>4 DEF Path
<1>6. QED BY <1>5 DEF Leads, a

LEMMA FitsHeeded ==
  ASSUME NEW a \in Mode, Owns(a), a.stage = 0,
         NEW rest, Fits("SendHeartbeat", rest, a),
         NEW stop \in {<<>>, StopHeartbeats}, NEW sync \in {<<>>, <<"Unlock", "Lock", "Enter">>}
  PROVE  /\ Fits("SendHeartbeat", stop \o sync \o rest, a)
         /\ stop \o sync \o rest \in Seq(Step)
<1> DEFINE o == "SendHeartbeat"
           dead == In(0, "stuck", 0)
<1>1. a = In(0, "entered", 0) /\ dead \in Mode /\ Ends(dead)
      /\ In(0, "no", 0) \in Mode /\ In(0, "announced", 0) \in Mode
  BY InMode DEF In, Mode, Ends
<1>2. "Unlock" \in Step /\ "Lock" \in Step /\ "Enter" \in Step
  BY DEF Step
<1>3. Leads(o, sync, a, a) /\ sync \in Seq(Step)
  <2>1. Leads(o, <<>>, a, a)
    BY LeadsNone
  <2>2. /\ Can(o, "Unlock", a, In(0, "no", 0))
        /\ Can(o, "Lock", In(0, "no", 0), In(0, "announced", 0))
        /\ Can(o, "Enter", In(0, "announced", 0), a)
    BY <1>1 DEF Can, LockStep, In, Free, Owns
  <2>3. Leads(o, <<"Unlock", "Lock", "Enter">>, a, a)
    BY <1>1, <1>2, <2>2, LeadsThree
  <2>4. QED BY <2>1, <2>3 DEF Leads
<1>4. PICK b \in Mode : Leads(o, rest, a, b) /\ Ends(b)
  BY DEF Fits
<1>5. CASE stop = <<>>
  <2>1. Leads(o, stop, a, a)
    BY <1>5, LeadsNone
  <2>2. Leads(o, stop \o sync, a, a)
    BY <1>3, <2>1, LeadsJoin
  <2>3. Leads(o, stop \o sync \o rest, a, b)
    BY <1>4, <2>2, LeadsJoin
  <2>4. QED BY <1>4, <2>3 DEF Fits, Leads
<1>6. CASE stop = StopHeartbeats
  <2>1. Can(o, "Lock", a, dead) /\ Can(o, "Enter", dead, dead)
    BY <1>1 DEF Can, LockStep, In, Owns
  <2>2. Leads(o, <<"Lock", "Enter">>, a, dead)
    BY <1>1, <1>2, <2>1, LeadsTwo
  <2>3. <<>> \in Seq(Step) /\ <<"Unlock">> \in Seq(Step) /\ rest \in Seq(Step)
    BY <1>2, <1>4, Words DEF Leads
  <2>4. Leads(o, <<"Lock", "Enter">> \o <<>>, a, dead)
    BY <2>2, <2>3, StuckStays, LeadsJoin
  <2>5. Leads(o, stop, a, dead)
    BY <1>6, <2>3, <2>4, StuckStays, LeadsJoin DEF StopHeartbeats, Locked
  <2>6. Leads(o, stop \o sync, a, dead)
    BY <1>3, <2>5, StuckStays, LeadsJoin
  <2>7. Leads(o, stop \o sync \o rest, a, dead)
    BY <2>3, <2>6, StuckStays, LeadsJoin
  <2>8. QED BY <1>1, <2>7 DEF Fits, Leads
<1>7. QED BY <1>5, <1>6

(* What the mode of a call tells before its jumps.                         *)
LEMMA JumpModes ==
  ASSUME NEW h, Types, Typed(h), NEW r \in Call, Running(r)
  PROVE  /\ Head(todo[r]) \in {"promise?", "accept?", "ask", "elect", "count"} => Free(h[r])
         /\ Head(todo[r]) \in {"leader?", "draw", "free?", "follower?", "heed"} => Owns(h[r])
         /\ Head(todo[r]) \in {"leader?", "draw", "free?", "follower?", "heed", "elect"}
              => h[r].stage = 0
         /\ Head(todo[r]) \in {"promise?", "accept?", "ask"} => ~InEntry(h[r])
         /\ Head(todo[r]) \in {"promise?", "accept?"} => h[r].stage = 3
         /\ Head(todo[r]) = "top?" => /\ Free(h[r]) /\ h[r].stage = 7
                                      /\ call[r].op = "Accept"
         /\ Head(todo[r]) = "count" => h[r].stage = 8
         /\ Head(todo[r]) = "heed" => call[r].op = "SendHeartbeat"
         /\ Head(todo[r]) = "free?" => call[r].op = "TryElectSelf"
<1>1. PICK c \in Mode : Can(call[r].op, Head(todo[r]), h[r], c)
  BY RunningTyped
<1>2. h[r].writes # "stuck"
  BY RunningTyped DEF Agrees
<1>3. Head(todo[r]) \notin LockName =>
        \/ EntryStep(call[r].op, Head(todo[r]), h[r], c)
        \/ OtherStep(call[r].op, Head(todo[r]), h[r], c)
  BY <1>1, <1>2 DEF Can, LockStep, LockName
<1>4. QED BY <1>3 DEF EntryStep, OtherStep, LockName, To, InEntry

(* And what it tells before it works.                                      *)
Told(o, x, a) ==
  /\ x = "check" => Enters(o) /\ Reads(a) /\ a.stage = 1
  /\ x = "insert" <=> a.stage = 10
  /\ x = "insert" => Enters(o) /\ Reads(a)
  /\ x = "take" => Enters(o) /\ Reads(a) /\ a.stage = 2
  /\ a.stage = 4 => x = "setPromise"
  /\ x = "setPromise" => Free(a) /\ \/ o \in {"Prepare", "Accept"} /\ a.stage = 4
                                    \/ o \in Proposing /\ a.stage = 3
  /\ x = "setAccepted" => Writes(o) /\ a.stage = 5 /\ Free(a)
  /\ x = "setCommand" <=> a.stage = 6
  /\ x = "setCommand" => Writes(o) /\ Free(a)
  /\ a.stage = 5 /\ Writes(o) => x = "setAccepted"
  /\ x = "learn" => o = "SynchronizeLog" /\ a.stage = 1 /\ Owns(a)
  /\ x = "raise" => o = "Accept" /\ a.stage = 7 /\ Owns(a)
  /\ x = "raiseMax" => o \in Proposing /\ a.stage = 7 /\ Owns(a)
  /\ x = "reply" => \/ o = "Learn" /\ a.stage = 3
                    \/ o = "Prepare" /\ a.stage = 5
                    \/ o = "Accept" /\ a.stage = 7
  /\ x = "copy" => a.stage = 0
  /\ a.stage = 9 => o = "SynchronizeLog"

LEMMA StepTells ==
  ASSUME NEW o, NEW x, NEW a, NEW c,
         LockStep(o, x, a, c) \/ EntryStep(o, x, a, c) \/ OtherStep(o, x, a, c)
  PROVE  Told(o, x, a)
<1>1. /\ ~Writes("Prepare") /\ \A p \in Proposing : Writes(p)
      /\ Writes(o) \in BOOLEAN /\ Enters(o) \in BOOLEAN
      /\ Free(a) \in BOOLEAN /\ Reads(a) \in BOOLEAN /\ Owns(a) \in BOOLEAN
  BY DEF Writes, Proposing, Enters, Free, Reads, Owns
<1>2. CASE LockStep(o, x, a, c)
  <2>1. /\ x \in LockName /\ a.stage \notin {4, 5, 6, 10}
        /\ a.stage = 9 => o = "SynchronizeLog"
    BY <1>2 DEF LockStep, LockName
  <2>2. QED BY <2>1 DEF LockName, Told
<1>3. CASE EntryStep(o, x, a, c)
  <2>1. \/ x = "check" /\ Enters(o) /\ Reads(a) /\ a.stage = 1
        \/ x = "insert" /\ Enters(o) /\ Reads(a) /\ a.stage = 10
        \/ x = "take" /\ Enters(o) /\ Reads(a) /\ a.stage = 2
        \/ x \in {"promise?", "accept?"} /\ a.stage = 3
        \/ x = "setPromise" /\ o \in {"Prepare", "Accept"} /\ Free(a) /\ a.stage = 4
        \/ x = "setPromise" /\ o \in Proposing /\ Free(a) /\ a.stage = 3
        \/ x = "setAccepted" /\ Writes(o) /\ Free(a) /\ a.stage = 5
        \/ x = "setCommand" /\ Writes(o) /\ Free(a) /\ a.stage = 6
        \/ x = "learn" /\ o = "SynchronizeLog" /\ Owns(a) /\ a.stage = 1
        \/ x = "reply" /\ o = "Learn" /\ a.stage = 3
        \/ x = "reply" /\ o = "Prepare" /\ a.stage = 5
        \/ x = "reply" /\ o = "Accept" /\ a.stage = 7
    BY <1>3 DEF EntryStep, To
  <2>2. QED BY <1>1, <2>1 DEF Told
<1>4. CASE OtherStep(o, x, a, c)
  <2>1. \/ /\ x \in {"top?", "leader?", "draw", "ask", "count", "render", "free?", "follower?",
                      "lose", "win", "elect", "heed"}
           /\ a.stage \in {0, 1, 7, 8}
        \/ x = "raise" /\ o = "Accept" /\ Owns(a) /\ a.stage = 7
        \/ x = "raiseMax" /\ o \in Proposing /\ Owns(a) /\ a.stage = 7
        \/ x = "copy" /\ a.stage = 0
    BY <1>4 DEF OtherStep, To
  <2>2. QED BY <1>1, <2>1 DEF Told
<1>5. QED BY <1>2, <1>3, <1>4

LEMMA HeadModes ==
  ASSUME NEW h, Types, Typed(h), NEW r \in Call, Running(r)
  PROVE  Told(call[r].op, Head(todo[r]), h[r])
<1>1. PICK c \in Mode : Can(call[r].op, Head(todo[r]), h[r], c)
  BY RunningTyped
<1>2. h[r].writes # "stuck"
  BY RunningTyped DEF Agrees
<1>3. QED BY <1>1, <1>2, StepTells DEF Can

LEMMA CheckTyped ==
  ASSUME NEW h, Types, Typed(h), NEW r \in Call, Running(r), Check(r),
         slots[SlotOf(r)] = Nil, NEW c, c = In(h[r].reads, h[r].writes, 10)
  PROVE  /\ c \in Mode /\ Typed([h EXCEPT ![r] = c])' /\ h[r].stage = 1
         /\ todo' \in [Call -> Seq(Step)]
<1> DEFINE o == call[r].op
           t == <<"insert">> \o Tail(todo[r])
<1>1. /\ At(r, "check") /\ GoTo(r, t)
      /\ UNCHANGED <<call, lock>>
  BY DEF Check
<1>2. PICK d \in Mode : Can(o, "check", h[r], d) /\ Fits(o, Tail(todo[r]), d)
  BY <1>1, RunningTyped DEF At
<1>3. Agrees(r, h[r]) /\ h[r] \in Mode /\ h[r].writes # "stuck"
  BY RunningTyped DEF Agrees
<1>4. EntryStep(o, "check", h[r], d)
  BY <1>2, <1>3 DEF Can, LockStep, OtherStep
<1>5. /\ Can(o, "insert", c, d) /\ h[r].stage = 1 /\ c \in Mode
      /\ c.reads = h[r].reads /\ c.writes = h[r].writes
  <2>1. /\ c.reads = h[r].reads /\ c.writes = h[r].writes /\ c.stage = 10
        /\ 10 \in 0..10
    BY DEF In
  <2>2. c \in Mode
    BY <1>3, <2>1 DEF Mode, In
  <2>3. QED BY <1>4, <2>1, <2>2 DEF Can, EntryStep, To, Reads, In
<1>6. "insert" \in Step
  BY DEF Step
<1>7. Leads(o, <<"insert">>, c, d)
  BY <1>2, <1>5, <1>6, LeadsOne
<1>8. PICK b \in Mode : Leads(o, Tail(todo[r]), d, b) /\ Ends(b)
  BY <1>2 DEF Fits
<1>9. Leads(o, t, c, b)
  BY <1>7, <1>8, LeadsJoin
<1>10. Fits(o, t, c) /\ t \in Seq(Step)
  BY <1>8, <1>9 DEF Fits, Leads
<1>11. Typed([h EXCEPT ![r] = c])' /\ todo' \in [Call -> Seq(Step)]
  BY <1>1, <1>3, <1>5, <1>10, JumpTyped, GoingTo
<1>12. QED BY <1>5, <1>11

(* The call was not refused, and not sent round by the slot it looked for. *)
Proceeds(r) ==
  /\ Head(todo[r]) \in {"promise?", "accept?"} => Pass(r)
  /\ Head(todo[r]) = "draw" => DrawSlot(r)
  /\ Head(todo[r]) = "check" => slots[SlotOf(r)] # Nil

(* Every step of a call.                                                   *)
Steps(r) == PrivateStep(r) \/ SharedStep(r)

LEMMA StepTyped ==
  ASSUME NEW h, Types, Typed(h), NEW r \in Call, Running(r), Steps(r)
  PROVE  \E c \in Mode : /\ (Advances(h, r, c) /\ Proceeds(r)) \/ Jumps(h, r, c)
                         /\ Typed([h EXCEPT ![r] = c])' /\ todo' \in [Call -> Seq(Step)]
<1> DEFINE a == h[r]
           o == call[r].op
           x == Head(todo[r])
<1>1. a \in Mode /\ Agrees(r, a) /\ Fits(o, todo[r], a) /\ todo[r] \in Seq(Step)
  BY RunningTyped
<1>2. ASSUME GoOn(r), Proceeds(r), x \notin LockName, UNCHANGED lock,
             \A q \in Call : call'[q].op = call[q].op
      PROVE  \E c \in Mode : /\ (Advances(h, r, c) /\ Proceeds(r)) \/ Jumps(h, r, c)
                             /\ Typed([h EXCEPT ![r] = c])' /\ todo' \in [Call -> Seq(Step)]
  BY <1>2, WorkTyped, GoingOn
<1>3. ASSUME NEW t, MayJump(r), ~Check(r), GoTo(r, t), t \in Seq(Step), Fits(o, t, a), UNCHANGED lock,
             UNCHANGED <<call, result, ptr, slots, state, highestSlotID, overtaken, history>>
      PROVE  \E c \in Mode : /\ (Advances(h, r, c) /\ Proceeds(r)) \/ Jumps(h, r, c)
                             /\ Typed([h EXCEPT ![r] = c])' /\ todo' \in [Call -> Seq(Step)]
  <2>1. Typed([h EXCEPT ![r] = a])'
    <3>1. UNCHANGED <<call, lock>>
      BY <1>3
    <3>2. QED BY <1>1, <1>3, <3>1, JumpTyped
  <2>2. todo' \in [Call -> Seq(Step)]
    BY <1>3, GoingTo
  <2>3. Jumps(h, r, a)
    BY <1>3 DEF Jumps
  <2>4. QED BY <1>1, <2>1, <2>2, <2>3
<1>e. <<>> \in Seq(Step)
  OBVIOUS
<1>4. CASE RLock(r) \/ RUnlock(r) \/ Announce(r) \/ Enter(r) \/ Unlock(r)
  <2>1. GoOn(r)
    BY <1>4 DEF RLock, RUnlock, Announce, Enter, Unlock
  <2>2. Proceeds(r)
    BY <1>4 DEF RLock, RUnlock, Announce, Enter, Unlock, At, Proceeds
  <2>3. QED BY <1>4, <2>1, <2>2, LockTyped, GoingOn
<1>5. CASE \/ Insert(r) \/ Take(r) \/ Pass(r) \/ SetField(r) \/ Reply(r) \/ Copy(r)
           \/ Render(r) \/ ConfirmLeader(r) \/ EndElection(r) \/ Raise(r)
           \/ WriteLearnedValue(r)
  <2>1. GoOn(r) /\ UNCHANGED lock /\ call' = call
    BY <1>5 DEF Insert, Take, Pass, SetField, Reply, Copy, Render, ConfirmLeader,
                EndElection, Raise, WriteLearnedValue, SetTop
  <2>2. x \notin LockName
    BY <1>5 DEF Insert, Take, Pass, SetField, Reply, Copy, Render, ConfirmLeader,
                EndElection, Raise, WriteLearnedValue, At, LockName
  <2>3. Proceeds(r)
    <3>1. CASE Pass(r)
      BY <3>1 DEF Proceeds, Pass, At
    <3>2. CASE ~Pass(r)
      BY <1>5, <3>2 DEF Insert, Take, SetField, Reply, Copy, Render, ConfirmLeader,
                        EndElection, Raise, WriteLearnedValue, At, Proceeds
    <3>3. QED BY <3>1, <3>2
  <2>4. QED BY <1>2, <2>1, <2>2, <2>3
<1>6. CASE DrawSlot(r)
  <2>1. GoOn(r) /\ UNCHANGED lock /\ x \notin LockName
    BY <1>6 DEF DrawSlot, At, LockName
  <2>2. PICK b \in Id : call' = [call EXCEPT ![r].slot = NextSlot, ![r].id = b]
    BY <1>6 DEF DrawSlot
  <2>3. \A q \in Call : call'[q].op = call[q].op
    BY <2>2 DEF Types
  <2>4. Proceeds(r)
    BY <1>6 DEF DrawSlot, At, Proceeds
  <2>5. QED BY <1>2, <2>1, <2>3, <2>4
<1>7. CASE Check(r)
  <2>1. CASE slots[SlotOf(r)] = Nil
    <3> DEFINE c == In(a.reads, a.writes, 10)
    <3>1. /\ c \in Mode /\ Typed([h EXCEPT ![r] = c])' /\ a.stage = 1
          /\ todo' \in [Call -> Seq(Step)]
      BY <1>7, <2>1, CheckTyped
    <3>2. UNCHANGED <<call, result, ptr, slots, state, highestSlotID, overtaken, history>>
      BY <1>7 DEF Check, memory
    <3>3. Jumps(h, r, c)
      BY <1>7, <2>1, <3>1, <3>2 DEF Jumps, MayJump
    <3>4. QED BY <3>1, <3>3
  <2>2. CASE slots[SlotOf(r)] # Nil
    <3>1. GoOn(r) /\ UNCHANGED lock /\ x \notin LockName /\ call' = call /\ Proceeds(r)
      BY <1>7, <2>2 DEF Check, At, LockName, Proceeds
    <3>2. QED BY <1>2, <3>1
  <2>3. QED BY <2>1, <2>2
<1>8. CASE Refuse(r)
  <2>1. x \in {"promise?", "accept?"} /\ GoTo(r, <<>>)
    BY <1>8 DEF Refuse, At
  <2>2. Fits(o, <<>>, a)
    BY <1>1, <2>1, JumpModes, FitsNothing
  <2>3. /\ UNCHANGED lock
        /\ UNCHANGED <<call, result, ptr, slots, state, highestSlotID, overtaken, history>>
    BY <1>8 DEF Refuse, memory
  <2>4. MayJump(r) /\ ~Check(r)
    BY <1>8, <2>1 DEF MayJump, Check, At
  <2>5. QED BY <1>3, <1>e, <2>1, <2>2, <2>3, <2>4
<1>9. CASE TestTop(r)
  <2>1. /\ UNCHANGED lock /\ x = "top?"
        /\ UNCHANGED <<call, result, ptr, slots, state, highestSlotID, overtaken, history>>
        /\ MayJump(r) /\ ~Check(r)
    BY <1>9 DEF TestTop, memory, At, MayJump, Check
  <2>2. CASE GoOn(r)
    BY <1>2, <2>1, <2>2 DEF LockName, Proceeds
  <2>3. CASE GoTo(r, <<"reply">>)
    <3>1. Free(a) /\ a.stage = 7 /\ o = "Accept"
      BY <2>1, JumpModes
    <3>2. /\ "reply" \in Step /\ In(0, "no", 9) \in Mode
          /\ Can(o, "reply", a, In(0, "no", 9))
      BY <3>1 DEF Step, In, Mode, Can, EntryStep, To, Free
    <3>3. Leads(o, <<"reply">>, a, In(0, "no", 9))
      BY <1>1, <3>2, LeadsOne
    <3>4. Fits(o, <<"reply">>, a) /\ <<"reply">> \in Seq(Step)
      <4>1. 9 \in 0..10 /\ 9 \notin {4, 5, 6}
        OBVIOUS
      <4>2. QED BY <3>3, <4>1, FitsFree DEF Leads
    <3>5. QED BY <1>3, <2>1, <2>3, <3>4
  <2>4. QED BY <1>9, <2>2, <2>3 DEF TestTop
<1>10. CASE RefuseToPropose(r)
  <2>1. /\ UNCHANGED lock /\ x \in {"leader?", "draw"} /\ GoTo(r, <<"Unlock">>)
        /\ MayJump(r) /\ ~Check(r)
        /\ UNCHANGED <<call, result, ptr, slots, state, highestSlotID, overtaken, history>>
    BY <1>10 DEF RefuseToPropose, memory, At, MayJump, Check
  <2>2. Owns(a) /\ Rests(o, a.stage)
    BY <2>1, JumpModes DEF Rests
  <2>3. QED BY <1>1, <1>3, <2>1, <2>2, FitsUnlock
<1>11. CASE Ask(r)
  <2>1. /\ UNCHANGED lock /\ MayJump(r) /\ ~Check(r)
        /\ UNCHANGED <<call, ptr, slots, state, highestSlotID, overtaken, history>>
    BY <1>11 DEF Ask, memory, MayJump, Check, At
  <2>2. CASE x \in {"ask", "count"} /\ GoOn(r)
    BY <1>2, <2>1, <2>2 DEF LockName, Proceeds
  <2>3. CASE x = "ask" /\ GoTo(r, <<>>) /\ UNCHANGED result
    <3>1. Fits(o, <<>>, a)
      BY <1>1, <2>3, JumpModes, FitsNothing
    <3>2. QED BY <1>3, <1>e, <2>1, <2>3, <3>1
  <2>4. CASE x = "count" /\ GoTo(r, Locked(<<>>)) /\ UNCHANGED result
    <3>1. Free(a) /\ Rests(o, a.stage)
      BY <2>4, JumpModes DEF Rests
    <3>2. QED BY <1>1, <1>3, <2>1, <2>4, <3>1, FitsLocked
  <2>5. QED BY <1>11, <2>2, <2>3, <2>4 DEF Ask, At
<1>12. CASE TestFree(r)
  <2>1. /\ UNCHANGED lock /\ x \in {"free?", "follower?"} /\ MayJump(r) /\ ~Check(r)
        /\ UNCHANGED <<call, result, ptr, slots, state, highestSlotID, overtaken, history>>
    BY <1>12 DEF TestFree, memory, At, MayJump, Check
  <2>2. CASE GoOn(r)
    BY <1>2, <2>1, <2>2 DEF LockName, Proceeds
  <2>3. CASE x = "follower?" /\ GoTo(r, <<"Unlock">>)
    <3>1. Owns(a) /\ Rests(o, a.stage)
      BY <2>1, JumpModes DEF Rests
    <3>2. QED BY <1>1, <1>3, <2>1, <2>3, <3>1, FitsUnlock
  <2>4. CASE x = "free?" /\ GoTo(r, <<>>)
    <3>1. Owns(a) /\ a.stage = 0 /\ o = "TryElectSelf"
      BY <2>4, JumpModes
    <3>2. writer = r /\ readers[r] = 0
      BY <1>1, <3>1 DEF Agrees, Owns
    <3>3. /\ todo'[r] = <<>> /\ todo' \in [Call -> Seq(Step)]
          /\ \A q \in Call \ {r} : todo'[q] = todo[q]
      BY <1>e, <2>4, GoingTo
    <3>4. TypedCall(r, a)'
      BY <2>1, <3>1, <3>2, <3>3 DEF TypedCall, Leaked, Running, lock
    <3>5. Typed([h EXCEPT ![r] = a])'
      BY <1>1, <2>1, <3>3, <3>4, OthersTyped DEF lock, NoReaders
    <3>6. Jumps(h, r, a)
      BY <2>1 DEF Jumps
    <3>7. QED BY <1>1, <3>3, <3>5, <3>6
  <2>5. QED BY <1>12, <2>2, <2>3, <2>4 DEF TestFree, At
<1>13. CASE Elect(r)
  <2>1. /\ UNCHANGED lock /\ x = "elect" /\ MayJump(r) /\ ~Check(r)
        /\ UNCHANGED <<call, result, ptr, slots, state, highestSlotID, overtaken, history>>
    BY <1>13 DEF Elect, memory, At, MayJump, Check
  <2>2. PICK t \in {<<>>, Locked(<<"lose">>), Locked(<<"win">>) \o StopHeartbeats} : GoTo(r, t)
    BY <1>13 DEF Elect
  <2>3. Free(a) /\ a.stage = 0
    BY <2>1, JumpModes
  <2>4. QED BY <1>1, <1>3, <2>1, <2>2, <2>3, FitsOutcome
<1>14. CASE Heed(r)
  <2>1. /\ UNCHANGED lock /\ x = "heed" /\ MayJump(r) /\ ~Check(r)
        /\ UNCHANGED <<call, result, ptr, slots, state, highestSlotID, overtaken, history>>
    BY <1>14 DEF Heed, At, MayJump, Check
  <2>2. CASE GoOn(r)
    BY <1>2, <2>1, <2>2 DEF LockName, Proceeds
  <2>3. CASE ~GoOn(r)
    <3>1. PICK stop \in {<<>>, StopHeartbeats}, sync \in {<<>>, <<"Unlock", "Lock", "Enter">>} :
            GoTo(r, stop \o sync \o Tail(todo[r]))
      BY <1>14, <2>3 DEF Heed
    <3>2. Owns(a) /\ a.stage = 0 /\ o = "SendHeartbeat"
      BY <2>1, JumpModes
    <3>3. Fits(o, Tail(todo[r]), a)
      <4>1. PICK c \in Mode : Can(o, x, a, c) /\ Fits(o, Tail(todo[r]), c)
        BY RunningTyped
      <4>2. c = In(a.reads, a.writes, 0)
        BY <1>1, <2>1, <4>1 DEF Can, LockStep, EntryStep, OtherStep, To, Agrees
      <4>3. c = a
        BY <1>1, <3>2, <4>2, InMode DEF Owns
      <4>4. QED BY <4>1, <4>3
    <3>4. QED BY <1>1, <1>3, <2>1, <3>1, <3>2, <3>3, FitsHeeded
  <2>4. QED BY <2>2, <2>3
<1>15. QED
  BY <1>4, <1>5, <1>6, <1>7, <1>8, <1>9, <1>10, <1>11, <1>12, <1>13, <1>14
  DEF Steps, PrivateStep, SharedStep

(* The steps that do something for their operation, but draw.              *)
Works == {"check", "insert", "take", "setPromise", "setAccepted", "setCommand", "learn",
          "reply", "raise", "raiseMax", "copy"}

(* What a step does, and how far it gets the call.                         *)
From(h, r, c, n, m) == h[r].stage = n /\ c.stage = m

Kinds(h, r, c) ==
  LET o == call[r].op
      x == Head(todo[r])
  IN
  \/ DrawSlot(r) /\ o \in Proposing /\ Owns(h[r]) /\ From(h, r, c, 0, 1)
  \/ /\ Check(r) /\ Enters(o) /\ Reads(h[r])
     /\ IF slots[SlotOf(r)] = Nil THEN From(h, r, c, 1, 10) ELSE From(h, r, c, 1, 2)
  \/ Insert(r) /\ Enters(o) /\ Reads(h[r]) /\ From(h, r, c, 10, 2)
  \/ Take(r) /\ Enters(o) /\ Reads(h[r]) /\ From(h, r, c, 2, 3)
  \/ Pass(r) /\ o \in {"Prepare", "Accept"} /\ From(h, r, c, 3, 4)
     /\ x = IF o = "Prepare" THEN "promise?" ELSE "accept?"
  \/ SetField(r) /\ x = "setPromise" /\ o \in {"Prepare", "Accept"} /\ From(h, r, c, 4, 5)
  \/ SetField(r) /\ x = "setPromise" /\ o \in Proposing /\ From(h, r, c, 3, 5)
  \/ SetField(r) /\ x = "setAccepted" /\ Writes(o) /\ From(h, r, c, 5, 6)
  \/ SetField(r) /\ x = "setCommand" /\ Writes(o) /\ From(h, r, c, 6, 7)
  \/ WriteLearnedValue(r) /\ o = "SynchronizeLog" /\ Owns(h[r]) /\ From(h, r, c, 1, 9)
  \/ Reply(r) /\ o = "Learn" /\ From(h, r, c, 3, 9)
  \/ Reply(r) /\ o = "Prepare" /\ From(h, r, c, 5, 9)
  \/ Reply(r) /\ o = "Accept" /\ From(h, r, c, 7, 9)
  \/ Raise(r) /\ x = "raise" /\ o = "Accept" /\ From(h, r, c, 7, 7)
  \/ Raise(r) /\ x = "raiseMax" /\ o \in Proposing /\ From(h, r, c, 7, 8)
  \/ Ask(r) /\ x = "count" /\ o \in Proposing /\ From(h, r, c, 8, 9)
  \/ Copy(r) /\ From(h, r, c, 0, 0)
  \/ /\ x \notin Works /\ ~DrawSlot(r) /\ c.stage = h[r].stage
     /\ UNCHANGED <<call, result, ptr, slots, state, highestSlotID, overtaken, history>>

LEMMA StepKinds ==
  ASSUME NEW h, Types, Typed(h), NEW r \in Call, Running(r), Steps(r), NEW c \in Mode,
         (Advances(h, r, c) /\ Proceeds(r)) \/ Jumps(h, r, c)
  PROVE  Kinds(h, r, c)
<1> DEFINE a == h[r]
           o == call[r].op
           x == Head(todo[r])
           Kept == UNCHANGED <<call, result, ptr, slots, state, highestSlotID, overtaken, history>>
<1>1. a \in Mode /\ Agrees(r, a) /\ a.writes # "stuck"
  BY RunningTyped DEF Agrees
<1>2. CASE Jumps(h, r, c)
  <2>1. CASE Check(r)
    <3>1. /\ slots[SlotOf(r)] = Nil /\ c = In(a.reads, a.writes, 10) /\ a.stage = 1
      BY <1>2, <2>1 DEF Jumps, MayJump, Refuse, TestTop, RefuseToPropose, Ask, TestFree,
                        Elect, Heed, Check, At
    <3>2. PICK d \in Mode : Can(o, x, a, d)
      BY RunningTyped
    <3>3. Enters(o) /\ Reads(a)
      BY <1>1, <2>1, <3>2 DEF Check, At, Can, LockStep, EntryStep, OtherStep
    <3>4. c.stage = 10
      BY <3>1 DEF In
    <3>5. QED BY <2>1, <3>1, <3>3, <3>4 DEF Kinds, From
  <2>2. CASE ~Check(r)
    <3>1. x \notin Works /\ ~DrawSlot(r)
      BY <1>2, <2>2 DEF Jumps, MayJump, Refuse, TestTop, RefuseToPropose, Ask, TestFree,
                        Elect, Heed, At, Works, DrawSlot
    <3>2. QED BY <1>2, <2>2, <3>1 DEF Jumps, Kinds
  <2>3. QED BY <2>1, <2>2
<1>3. CASE Advances(h, r, c) /\ Proceeds(r)
  <2>1. \/ LockStep(o, x, a, c)
        \/ EntryStep(o, x, a, c)
        \/ OtherStep(o, x, a, c)
    BY <1>1, <1>3 DEF Advances, Can
  <2>a. ASSUME NEW m, NEW n, To(a, c, m, n) PROVE From(h, r, c, m, n)
    BY <2>a DEF To, From, In
  <2>2. CASE RLock(r) \/ RUnlock(r) \/ Announce(r) \/ Enter(r) \/ Unlock(r)
    <3>1. x \in LockName /\ Kept
      BY <2>2 DEF RLock, RUnlock, Announce, Enter, Unlock, At, LockName, memory
    <3>2. c.stage = a.stage
      BY <2>1, <3>1 DEF LockStep, EntryStep, OtherStep, LockName, In
    <3>3. x \notin Works /\ ~DrawSlot(r)
      BY <3>1 DEF LockName, Works, DrawSlot, At
    <3>4. QED BY <3>1, <3>2, <3>3 DEF Kinds
  <2>3. CASE Check(r)
    <3>1. x = "check"
      BY <2>3 DEF Check, At
    <3>2. To(a, c, 1, 2) /\ Enters(o) /\ Reads(a)
      BY <2>1, <3>1 DEF LockStep, EntryStep, OtherStep
    <3>3. slots[SlotOf(r)] # Nil
      BY <1>3, <3>1 DEF Proceeds
    <3>4. QED BY <2>a, <2>3, <3>2, <3>3 DEF Kinds
  <2>4. CASE Insert(r)
    <3>1. x = "insert"
      BY <2>4 DEF Insert, At
    <3>2. To(a, c, 10, 2) /\ Enters(o) /\ Reads(a)
      BY <2>1, <3>1 DEF LockStep, EntryStep, OtherStep
    <3>3. QED BY <2>a, <2>4, <3>2 DEF Kinds
  <2>5. CASE Take(r)
    <3>1. x = "take"
      BY <2>5 DEF Take, At
    <3>2. To(a, c, 2, 3) /\ Enters(o) /\ Reads(a)
      BY <2>1, <3>1 DEF LockStep, EntryStep, OtherStep
    <3>3. QED BY <2>a, <2>5, <3>2 DEF Kinds
  <2>6. CASE Pass(r) \/ Refuse(r)
    <3>1. x \in {"promise?", "accept?"}
      BY <2>6 DEF Pass, Refuse, At
    <3>2. To(a, c, 3, 4) /\ o = IF x = "promise?" THEN "Prepare" ELSE "Accept"
      BY <2>1, <3>1 DEF LockStep, EntryStep, OtherStep
    <3>3. Pass(r)
      BY <1>3, <3>1 DEF Proceeds
    <3>4. QED BY <2>a, <3>1, <3>2, <3>3 DEF Kinds
  <2>7. CASE SetField(r)
    <3>1. x \in {"setPromise", "setAccepted", "setCommand"}
      BY <2>7 DEF SetField, At
    <3>2. \/ x = "setPromise" /\ o \in {"Prepare", "Accept"} /\ To(a, c, 4, 5)
          \/ x = "setPromise" /\ o \in Proposing /\ To(a, c, 3, 5)
          \/ x = "setAccepted" /\ Writes(o) /\ To(a, c, 5, 6)
          \/ x = "setCommand" /\ Writes(o) /\ To(a, c, 6, 7)
      BY <2>1, <3>1 DEF LockStep, EntryStep, OtherStep
    <3>3. QED BY <2>a, <2>7, <3>2 DEF Kinds
  <2>8. CASE WriteLearnedValue(r)
    <3>1. x = "learn"
      BY <2>8 DEF WriteLearnedValue, At
    <3>2. To(a, c, 1, 9) /\ o = "SynchronizeLog" /\ Owns(a)
      BY <2>1, <3>1 DEF LockStep, EntryStep, OtherStep
    <3>3. QED BY <2>a, <2>8, <3>2 DEF Kinds
  <2>9. CASE Reply(r)
    <3>1. x = "reply"
      BY <2>9 DEF Reply, At
    <3>2. \/ o = "Learn" /\ To(a, c, 3, 9)
          \/ o = "Prepare" /\ To(a, c, 5, 9)
          \/ o = "Accept" /\ To(a, c, 7, 9)
      BY <2>1, <3>1 DEF LockStep, EntryStep, OtherStep
    <3>3. QED BY <2>a, <2>9, <3>2 DEF Kinds
  <2>10. CASE Raise(r)
    <3>1. x \in {"raise", "raiseMax"}
      BY <2>10 DEF Raise, At
    <3>2. \/ x = "raise" /\ o = "Accept" /\ To(a, c, 7, 7)
          \/ x = "raiseMax" /\ o \in Proposing /\ To(a, c, 7, 8)
      BY <2>1, <3>1 DEF LockStep, EntryStep, OtherStep
    <3>3. QED BY <2>a, <2>10, <3>2 DEF Kinds
  <2>11. CASE DrawSlot(r) \/ RefuseToPropose(r) \/ ConfirmLeader(r)
    <3>1. x \in {"draw", "leader?"}
      BY <2>11 DEF DrawSlot, RefuseToPropose, ConfirmLeader, At
    <3>2. CASE x = "draw"
      <4>1. To(a, c, 0, 1) /\ o \in Proposing /\ Owns(a)
        BY <2>1, <3>2 DEF LockStep, EntryStep, OtherStep
      <4>2. DrawSlot(r)
        BY <1>3, <3>2 DEF Proceeds
      <4>3. QED BY <2>a, <4>1, <4>2 DEF Kinds
    <3>3. CASE x = "leader?"
      <4>1. Kept
        BY <2>11, <3>3 DEF DrawSlot, RefuseToPropose, ConfirmLeader, At, memory
      <4>2. To(a, c, 0, 0)
        BY <2>1, <3>3 DEF LockStep, EntryStep, OtherStep
      <4>3. c.stage = a.stage
        BY <4>2 DEF To, In
      <4>4. x \notin Works /\ ~DrawSlot(r)
        BY <3>3 DEF Works, DrawSlot, At
      <4>5. QED BY <4>1, <4>3, <4>4 DEF Kinds
    <3>4. QED BY <3>1, <3>2, <3>3
  <2>12. CASE Ask(r)
    <3>1. x \in {"ask", "count"}
      BY <2>12 DEF Ask, At
    <3>2. CASE x = "count"
      <4>1. To(a, c, 8, 9) /\ o \in Proposing
        BY <2>1, <3>2 DEF LockStep, EntryStep, OtherStep
      <4>2. QED BY <2>a, <2>12, <3>2, <4>1 DEF Kinds
    <3>3. CASE x = "ask"
      <4>1. Kept
        BY <2>12, <3>3 DEF Ask, At, memory
      <4>2. To(a, c, 1, 1)
        BY <2>1, <3>3 DEF LockStep, EntryStep, OtherStep
      <4>3. c.stage = a.stage
        BY <4>2 DEF To, In
      <4>4. x \notin Works /\ ~DrawSlot(r)
        BY <3>3 DEF Works, DrawSlot, At
      <4>5. QED BY <4>1, <4>3, <4>4 DEF Kinds
    <3>4. QED BY <3>1, <3>2, <3>3
  <2>13. CASE Copy(r)
    <3>1. x = "copy"
      BY <2>13 DEF Copy, At
    <3>2. To(a, c, 0, 0)
      BY <2>1, <3>1 DEF LockStep, EntryStep, OtherStep
    <3>3. QED BY <2>a, <2>13, <3>2 DEF Kinds
  <2>14. CASE TestTop(r) \/ TestFree(r) \/ Elect(r) \/ EndElection(r) \/ Heed(r) \/ Render(r)
    <3>1. /\ x \in {"top?", "free?", "follower?", "elect", "lose", "win", "heed", "render"}
          /\ Kept
      BY <2>14 DEF TestTop, TestFree, Elect, EndElection, Heed, Render, At, memory
    <3>2. To(a, c, 7, 7) \/ To(a, c, 0, 0)
      BY <2>1, <3>1 DEF LockStep, EntryStep, OtherStep
    <3>3. c.stage = a.stage
      BY <3>2 DEF To, In
    <3>4. x \notin Works /\ ~DrawSlot(r)
      BY <3>1 DEF Works, DrawSlot, At
    <3>5. QED BY <3>1, <3>3, <3>4 DEF Kinds
  <2>15. QED
    BY <2>2, <2>3, <2>4, <2>5, <2>6, <2>7, <2>8, <2>9, <2>10, <2>11, <2>12, <2>13, <2>14
    DEF Steps, PrivateStep, SharedStep
<1>4. QED BY <1>2, <1>3

-----------------------------------------------------------------------------
(* What each step leaves alone.                                            *)
LEMMA Frames ==
  ASSUME NEW r, Steps(r)
  PROVE  /\ DrawSlot(r) \/ (call' = call /\ rivals' = rivals)
         /\ Reply(r) \/ Ask(r) \/ Copy(r) \/ result' = result
         /\ Take(r) \/ ptr' = ptr
         /\ Insert(r) \/ WriteLearnedValue(r) \/ slots' = slots
         /\ Insert(r) \/ raced' = raced
         /\ SetField(r) \/ WriteLearnedValue(r) \/ state' = state
         /\ \/ Raise(r) \/ WriteLearnedValue(r)
            \/ (highestSlotID' = highestSlotID /\ lowered' = lowered)
         /\ Heed(r) \/ EndElection(r) \/ isLeader' = isLeader
         /\ Render(r) \/ alive' = alive
         /\ RLock(r) \/ RUnlock(r) \/ readers' = readers
         /\ Announce(r) \/ Unlock(r) \/ writer' = writer
         /\ overtaken' = overtaken
<1> USE DEF lock, memory, history
<1>1. CASE RLock(r) \/ RUnlock(r) \/ Announce(r) \/ Enter(r) \/ Unlock(r)
  BY <1>1 DEF RLock, RUnlock, Announce, Enter, Unlock
<1>2. CASE Check(r) \/ Insert(r) \/ Take(r) \/ Refuse(r) \/ Pass(r) \/ SetField(r)
  BY <1>2 DEF Check, Insert, Take, Refuse, Pass, SetField
<1>3. CASE Reply(r) \/ TestTop(r) \/ Raise(r) \/ WriteLearnedValue(r) \/ Copy(r) \/ Render(r)
  BY <1>3 DEF Reply, TestTop, Raise, WriteLearnedValue, Copy, Render
<1>4. CASE RefuseToPropose(r) \/ ConfirmLeader(r) \/ DrawSlot(r) \/ Ask(r)
  BY <1>4 DEF RefuseToPropose, ConfirmLeader, DrawSlot, Ask
<1>5. CASE TestFree(r) \/ Elect(r) \/ EndElection(r) \/ Heed(r)
  BY <1>5 DEF TestFree, Elect, EndElection, Heed
<1>6. QED BY <1>1, <1>2, <1>3, <1>4, <1>5 DEF Steps, PrivateStep, SharedStep

Begins(r) == PeerCalls(r) \/ UserCalls(r)

LEMMA NextCases ==
  ASSUME [Next]_vars
  PROVE  \/ \E r \in Call : Begins(r)
         \/ \E r \in Call : Running(r) /\ Steps(r)
         \/ MapFault
         \/ UNCHANGED vars
BY DEF Next, AtPrivate, Begin, Begins, Steps

-----------------------------------------------------------------------------
(* Slots and IDs of the calls, by their stages, and the number of slots.   *)

Drawn == {r \in Call : call[r].op \in Proposing /\ SlotOf(r) # 0}

Bounded ==
  LET top == Cardinality(PeerSlot) + Cardinality(Drawn)
  IN  highestSlotID <= top /\ \A r \in Call : SlotOf(r) <= top

Named(h) == \A r \in Call :
  /\ call[r].op = "none" => todo[r] = <<>> /\ call[r] = NoCall /\ result[r] = "none"
  /\ h[r].stage = 0 <=> SlotOf(r) = 0
  /\ h[r].stage = 0 => call[r].id = 0
  /\ h[r].stage # 0 /\ call[r].op # "Learn" => call[r].id # 0
  /\ call[r].op \in OfSlot => h[r].stage # 0
  /\ result[r] = "ok" => h[r].stage = 9

Base(h) == TypeOK /\ todo \in [Call -> Seq(Step)] /\ Typed(h) /\ Bounded /\ Named(h)

LEMMA Sizes ==
  /\ Cardinality(Call) \in Nat /\ Cardinality(PeerSlot) \in Nat
  /\ Slot \subseteq Nat \ {0} /\ PeerSlot \subseteq Slot /\ Nil \notin Call
<1>1. Cardinality(Call) \in Nat /\ Cardinality(PeerSlot) \in Nat
  BY FS_CardinalityType, HandlersAssumption DEF HandlersAssumption
<1>2. PeerSlot = 1..Cardinality(PeerSlot) /\ Nil \notin Call
  BY HandlersAssumption DEF HandlersAssumption
<1>3. QED BY <1>1, <1>2 DEF Slot

LEMMA DrawnSize ==
  /\ IsFiniteSet(Drawn) /\ Cardinality(Drawn) \in Nat
  /\ Cardinality(Drawn) <= Cardinality(Call)
<1>1. Drawn \subseteq Call
  BY DEF Drawn
<1>2. IsFiniteSet(Call)
  BY HandlersAssumption DEF HandlersAssumption
<1>3. QED BY <1>1, <1>2, FS_Subset, FS_CardinalityType

LEMMA BaseTypes ==
  ASSUME NEW h, Base(h)
  PROVE  /\ Types /\ Typed(h) /\ highestSlotID \in Nat
         /\ \A r \in Call : /\ SlotOf(r) \in {0} \cup Slot /\ SlotOf(r) \in Nat
                            /\ h[r].stage # 0 => SlotOf(r) \in Slot
                            /\ call[r].id \in Nat
<1>1. Slot \subseteq Nat \ {0} /\ Id \subseteq Nat
  BY Sizes, HandlersAssumption DEF HandlersAssumption
<1>2. \A r \in Call : /\ call[r] = [op |-> call[r].op, slot |-> call[r].slot, id |-> call[r].id]
                      /\ call[r].op \in Op \cup {"none"} /\ SlotOf(r) \in {0} \cup Slot
                      /\ call[r].id \in {0} \cup Id
  BY DEF Base, TypeOK, SlotOf
<1>3. \A r \in Call : SlotOf(r) \in Nat /\ call[r].id \in Nat
  <2>1. \A n \in {0} \cup Slot : n \in Nat
    BY <1>1
  <2>2. \A n \in {0} \cup Id : n \in Nat
    BY <1>1
  <2>3. QED BY <1>2, <2>1, <2>2
<1>4. call \in [Call -> [op : Op \cup {"none"}, slot : Nat, id : {0} \cup Id]]
  <2>1. ASSUME NEW r \in Call
        PROVE  call[r] \in [op : Op \cup {"none"}, slot : Nat, id : {0} \cup Id]
    <3> DEFINE a == call[r].op
               b == call[r].slot
               d == call[r].id
    <3>1. b \in Nat
      BY <1>3 DEF SlotOf
    <3>2. a \in Op \cup {"none"} /\ d \in {0} \cup Id
      BY <1>2
    <3>3. call[r] = [op |-> a, slot |-> b, id |-> d]
      BY <1>2
    <3> HIDE DEF a, b, d
    <3>4. QED BY <3>1, <3>2, <3>3
  <2>2. call = [r \in Call |-> call[r]]
    BY DEF Base, TypeOK
  <2>3. QED BY <2>1, <2>2
<1>5. readers \in [Call -> Nat]
  <2>1. \A r \in Call : readers[r] \in 0..2
    BY DEF Base, TypeOK
  <2>2. readers = [r \in Call |-> readers[r]]
    BY DEF Base, TypeOK
  <2>3. QED BY <2>1, <2>2
<1>6. highestSlotID \in Nat
  BY <1>1 DEF Base, TypeOK
<1>7. \A r \in Call : h[r].stage # 0 => SlotOf(r) \in Slot
  BY <1>2 DEF Base, Named
<1>8. Types
  BY <1>4, <1>5 DEF Base, TypeOK, Types
<1>9. QED BY <1>2, <1>3, <1>6, <1>7, <1>8 DEF Base

(* A call begins.                                                          *)
LEMMA BeginTyped ==
  ASSUME NEW h, Base(h), NEW r \in Call, Begins(r), NEW c, c = Start(call'[r].op)
  PROVE  /\ call[r] = NoCall /\ ~Running(r) /\ call'[r].op \in Op
         /\ \A q \in Call \ {r} : call'[q] = call[q] /\ todo'[q] = todo[q]
         /\ call' \in [Call -> [op : Op \cup {"none"}, slot : {0} \cup Slot, id : {0} \cup Id]]
         /\ todo' \in [Call -> Seq(Step)]
         /\ c \in Mode /\ Typed([h EXCEPT ![r] = c])'
         /\ call'[r].op \in OfSlot =>
              /\ PeerCalls(r) /\ call'[r].slot \in PeerSlot
              /\ call'[r].id = 0 <=> call'[r].op = "Learn"
         /\ call'[r].op \notin OfSlot => call'[r].slot = 0 /\ call'[r].id = 0
         /\ UNCHANGED <<result, ptr, lock, memory, alive, raced, lowered>>
<1> DEFINE o == call'[r].op
<1>1. Types /\ Typed(h) /\ call[r] = NoCall
  BY BaseTypes DEF Begins, PeerCalls, UserCalls
<1>2. ~Running(r)
  BY <1>1 DEF Base, Named, Running, NoCall
<1>3. /\ o \in Op /\ GoTo(r, Program[o])
      /\ \A q \in Call \ {r} : call'[q] = call[q]
      /\ call' \in [Call -> [op : Op \cup {"none"}, slot : {0} \cup Slot, id : {0} \cup Id]]
      /\ o \in OfSlot =>
           /\ PeerCalls(r) /\ call'[r].slot \in PeerSlot
           /\ call'[r].id = 0 <=> o = "Learn"
      /\ o \notin OfSlot => call'[r].slot = 0 /\ call'[r].id = 0
      /\ UNCHANGED <<result, ptr, lock, memory, alive, raced, lowered>>
  <2>1. CASE PeerCalls(r)
    <3>1. PICK p \in Op \cap OfSlot, s \in PeerSlot, b \in Id :
            /\ call' = [call EXCEPT ![r] =
                         [op |-> p, slot |-> s, id |-> IF p = "Learn" THEN 0 ELSE b]]
            /\ GoTo(r, Program[p])
            /\ UNCHANGED <<result, ptr, lock, memory, alive, overtaken, raced, lowered>>
      BY <2>1 DEF PeerCalls
    <3>2. s \in Slot /\ b # 0
      BY Sizes, HandlersAssumption DEF HandlersAssumption
    <3>3. call'[r] = [op |-> p, slot |-> s, id |-> IF p = "Learn" THEN 0 ELSE b]
      BY <3>1 DEF Base, TypeOK
    <3>4. [op |-> p, slot |-> s, id |-> IF p = "Learn" THEN 0 ELSE b]
            \in [op : Op \cup {"none"}, slot : {0} \cup Slot, id : {0} \cup Id]
      BY <3>2
    <3>5. call' \in [Call -> [op : Op \cup {"none"}, slot : {0} \cup Slot, id : {0} \cup Id]]
      BY <3>1, <3>4 DEF Base, TypeOK
    <3>6. QED BY <2>1, <3>1, <3>2, <3>3, <3>5 DEF Base, TypeOK
  <2>2. CASE UserCalls(r)
    <3>1. PICK p \in Op \ OfSlot :
            /\ call' = [call EXCEPT ![r].op = p]
            /\ GoTo(r, Program[p])
            /\ UNCHANGED <<result, ptr, lock, memory, alive, history>>
      BY <2>2 DEF UserCalls
    <3>2. call'[r].op = p /\ call'[r].slot = 0 /\ call'[r].id = 0
      BY <1>1, <3>1 DEF Base, TypeOK, NoCall
    <3>3. QED BY <3>1, <3>2 DEF Base, TypeOK, history
  <2>3. QED BY <2>1, <2>2 DEF Begins
<1>4. o \in DOMAIN Program
  BY <1>3, HandlersAssumption DEF HandlersAssumption
<1>5. Fits(o, Program[o], c) /\ c \in Mode /\ c.reads = 0 /\ c.writes = "no"
  BY <1>4, ProgramsFit DEF Start, In, Mode
<1>6. Program[o] \in Seq(Step)
  BY <1>5 DEF Fits, Leads
<1>7. /\ todo'[r] = Program[o] /\ todo' \in [Call -> Seq(Step)]
      /\ \A q \in Call \ {r} : todo'[q] = todo[q]
  BY <1>1, <1>3, <1>6, GoingTo
<1>8. readers[r] = 0 /\ writer # r
  BY <1>1, <1>2, EndedTyped DEF Leaked, NoCall
<1>9. readers' = readers /\ writer' = writer
  BY <1>3 DEF lock
<1>10. Agrees(r, c)'
  BY <1>5, <1>8, <1>9 DEF Agrees
<1>11. TypedCall(r, c)'
  BY <1>5, <1>7, <1>10 DEF TypedCall
<1>12. Typed([h EXCEPT ![r] = c])'
  <2>1. \A q \in Call \ {r} : /\ call'[q].op = call[q].op /\ todo'[q] = todo[q]
                              /\ readers'[q] = readers[q] /\ (writer' = q <=> writer = q)
    BY <1>3, <1>7, <1>9
  <2>2. NoReaders => NoReaders'
    BY <1>9 DEF NoReaders
  <2>3. QED BY <1>1, <1>5, <1>11, <2>1, <2>2, OthersTyped
<1>13. QED BY <1>1, <1>2, <1>3, <1>5, <1>7, <1>12

(* A call makes a step.                                                    *)
Moved(h, g, r, c) ==
  /\ Running(r) /\ Steps(r) /\ Kinds(h, r, c)
  /\ c \in Mode /\ g = [h EXCEPT ![r] = c]
  /\ \A q \in Call \ {r} : todo'[q] = todo[q]

LEMMA MovedModes ==
  ASSUME NEW h, Typed(h), NEW r \in Call, NEW c, NEW g, Moved(h, g, r, c)
  PROVE  g \in [Call -> Mode] /\ g[r] = c /\ \A q \in Call \ {r} : g[q] = h[q]
BY DEF Typed, Moved

(* Only a drawn slot changes a call.                                       *)
LEMMA MovedCall ==
  ASSUME NEW h, Base(h), NEW r \in Call, NEW c, NEW g, Moved(h, g, r, c)
  PROVE  /\ \A q \in Call \ {r} : call'[q] = call[q]
         /\ call'[r].op = call[r].op /\ call[r].op # "none"
         /\ ~DrawSlot(r) => call' = call
         /\ DrawSlot(r) =>
              /\ h[r].stage = 0 /\ c.stage = 1 /\ call[r].op \in Proposing
              /\ call'[r].slot = highestSlotID + 1 /\ SlotOf(r) = 0
              /\ call'[r].id \in Id /\ call'[r].id # 0
<1>1. ~DrawSlot(r) => call' = call
  BY Frames DEF Moved
<1>2. call[r].op # "none"
  BY DEF Moved, Base, Named, Running
<1>3. ASSUME DrawSlot(r)
      PROVE  /\ h[r].stage = 0 /\ c.stage = 1 /\ call[r].op \in Proposing
             /\ SlotOf(r) = 0
  <2>1. Head(todo[r]) = "draw"
    BY <1>3 DEF DrawSlot, At
  <2>2. h[r].stage = 0 /\ c.stage = 1 /\ call[r].op \in Proposing
    <3>1. h[r].stage = 0 /\ \E d \in Mode : Can(call[r].op, "draw", h[r], d) /\ h[r].writes # "stuck"
      BY <2>1, BaseTypes, RunningTyped, JumpModes DEF Moved, Agrees
    <3>2. call[r].op \in Proposing
      BY <3>1 DEF Can, LockStep, EntryStep, OtherStep
    <3>3. highestSlotID \in Nat /\ SlotOf(r) \in Nat /\ SlotOf(r) = 0
      BY <3>1, BaseTypes DEF Base, Named
    <3>4. call' # call
      <4>1. PICK b \in Id : call' = [call EXCEPT ![r].slot = NextSlot, ![r].id = b]
        BY <1>3 DEF DrawSlot
      <4>2. call'[r].slot = highestSlotID + 1
        BY <4>1 DEF Base, TypeOK, NextSlot
      <4>3. QED BY <3>3, <4>2 DEF SlotOf
    <3>5. c.stage = 1
      BY <2>1, <3>4 DEF Moved, Kinds, From, Check, Insert, Take, Pass, SetField, WriteLearnedValue,
                        Reply, Raise, Ask, Copy, At
    <3>6. QED BY <3>1, <3>2, <3>5
  <2>3. QED BY <2>2 DEF Base, Named
<1>4. ASSUME DrawSlot(r)
      PROVE  /\ \A q \in Call \ {r} : call'[q] = call[q]
             /\ call'[r].op = call[r].op
             /\ call'[r].slot = highestSlotID + 1
             /\ call'[r].id \in Id /\ call'[r].id # 0
  <2>1. PICK b \in Id : call' = [call EXCEPT ![r].slot = NextSlot, ![r].id = b]
    BY <1>4 DEF DrawSlot
  <2>2. b # 0
    BY HandlersAssumption DEF HandlersAssumption
  <2>3. QED BY <2>1, <2>2 DEF Base, TypeOK, NextSlot
<1>5. QED BY <1>1, <1>2, <1>3, <1>4

(* There is room for one slot more while a call has not drawn its own.     *)
LEMMA RoomToDraw ==
  ASSUME NEW r \in Call, call[r].op \in Proposing, SlotOf(r) = 0
  PROVE  Cardinality(Drawn) + 1 <= Cardinality(Call)
<1>1. r \notin Drawn /\ Drawn \cup {r} \subseteq Call /\ IsFiniteSet(Call)
  BY HandlersAssumption DEF Drawn, HandlersAssumption
<1>2. Cardinality(Drawn \cup {r}) = Cardinality(Drawn) + 1
  BY <1>1, DrawnSize, FS_AddElement
<1>3. Cardinality(Drawn \cup {r}) <= Cardinality(Call)
  BY <1>1, FS_Subset
<1>4. QED BY <1>2, <1>3

LEMMA MovedCallType ==
  ASSUME NEW h, Base(h), NEW r \in Call, NEW c, NEW g, Moved(h, g, r, c)
  PROVE  call' \in [Call -> [op : Op \cup {"none"}, slot : {0} \cup Slot, id : {0} \cup Id]]
<1>1. CASE ~DrawSlot(r)
  BY <1>1, MovedCall DEF Base, TypeOK
<1>2. CASE DrawSlot(r)
  <2>1. highestSlotID + 1 \in Slot
    <3>1. highestSlotID \in Nat /\ highestSlotID <= Cardinality(PeerSlot) + Cardinality(Drawn)
      BY BaseTypes DEF Base, Bounded
    <3>2. Cardinality(Drawn) + 1 <= Cardinality(Call)
      BY <1>2, MovedCall, RoomToDraw
    <3>3. QED BY <3>1, <3>2, Sizes, DrawnSize DEF Slot
  <2>2. PICK b \in Id : call' = [call EXCEPT ![r].slot = highestSlotID + 1, ![r].id = b]
    BY <1>2 DEF DrawSlot, NextSlot
  <2> DEFINE n == highestSlotID + 1
             e == [op |-> call[r].op, slot |-> n, id |-> b]
  <2> HIDE DEF n
  <2>3. call' = [call EXCEPT ![r] = e]
    <3>1. call[r] \in [op : Op \cup {"none"}, slot : {0} \cup Slot, id : {0} \cup Id]
      BY DEF Base, TypeOK
    <3> DEFINE p == call[r].op
               m == call[r].slot
               k == call[r].id
    <3>a. call[r] = [op |-> p, slot |-> m, id |-> k] /\ e = [op |-> p, slot |-> n, id |-> b]
      BY <3>1
    <3> HIDE DEF p, m, k, e
    <3>b. [call[r] EXCEPT !.slot = n] = [op |-> p, slot |-> n, id |-> k]
      BY <3>a
    <3> DEFINE e1 == [call[r] EXCEPT !.slot = n]
    <3>c. e1 = [op |-> p, slot |-> n, id |-> k]
      BY <3>b
    <3> HIDE DEF e1
    <3>d. [e1 EXCEPT !.id = b] = [op |-> p, slot |-> n, id |-> b]
      BY <3>c
    <3>2. [[call[r] EXCEPT !.slot = n] EXCEPT !.id = b] = e
      BY <3>a, <3>d DEF e1
    <3>3. QED BY <2>2, <3>2 DEF n, Base, TypeOK
  <2>4. e \in [op : Op \cup {"none"}, slot : {0} \cup Slot, id : {0} \cup Id]
    BY <2>1 DEF n, Base, TypeOK
  <2>5. QED BY <2>3, <2>4 DEF Base, TypeOK
<1>3. QED BY <1>1, <1>2

LEMMA MovedState ==
  ASSUME NEW h, Base(h), NEW r \in Call, NEW c, NEW g, Moved(h, g, r, c)
  PROVE  state' \in [Call -> Entry]
<1>1. state \in [Call -> Entry] /\ call[r].id \in {0} \cup Id
  BY DEF Base, TypeOK
<1>2. CASE SetField(r)
  <2> DEFINE e == ptr[r]
  <2>1. ASSUME NEW f, NEW v, WriteTo(r, f, v),
               (f = "promised" /\ v = call[r].id) \/ (f = "accepted" /\ v = call[r].id)
                 \/ (f = "command" /\ v = r)
        PROVE  state' \in [Call -> Entry]
    <3>1. state' = [state EXCEPT ![e] = [state[e] EXCEPT ![f] = v]]
      BY <2>1 DEF WriteTo
    <3>2. CASE e \in Call
      <4>1. state[e] \in Entry
        BY <1>1, <3>2
      <4>2. [state[e] EXCEPT ![f] = v] \in Entry
        <5> DEFINE b == state[e]
        <5> HIDE DEF b
        <5>1. b \in Entry
          BY <4>1 DEF b
        <5>2. [b EXCEPT ![f] = v] \in Entry
          BY <1>1, <2>1, <5>1 DEF Entry
        <5>3. QED BY <5>2 DEF b
      <4>3. QED BY <1>1, <3>1, <4>2
    <3>3. CASE e \notin Call
      BY <1>1, <3>1, <3>3
    <3>4. QED BY <3>2, <3>3
  <2>2. QED BY <1>2, <2>1 DEF SetField
<1>3. CASE WriteLearnedValue(r)
  <2> DEFINE e == [promised |-> call[r].id, accepted |-> call[r].id, command |-> r]
  <2>1. e \in Entry
    BY <1>1 DEF Entry
  <2>2. state' = [state EXCEPT ![r] = e]
    BY <1>3 DEF WriteLearnedValue
  <2> HIDE DEF e
  <2>3. QED BY <1>1, <2>1, <2>2
<1>4. CASE ~SetField(r) /\ ~WriteLearnedValue(r)
  BY <1>1, <1>4, Frames DEF Moved
<1>5. QED BY <1>2, <1>3, <1>4

LEMMA MovedTop ==
  ASSUME NEW h, Base(h), NEW r \in Call, NEW c, NEW g, Moved(h, g, r, c)
  PROVE  /\ highestSlotID' \in {highestSlotID, SlotOf(r)} /\ highestSlotID' \in {0} \cup Slot
         /\ highestSlotID' # highestSlotID => Raise(r) \/ WriteLearnedValue(r)
         /\ highestSlotID' < highestSlotID => Head(todo[r]) = "raise" /\ lowered' = TRUE
         /\ lowered => lowered'
<1>1. /\ highestSlotID \in {0} \cup Slot /\ SlotOf(r) \in {0} \cup Slot
      /\ highestSlotID \in Nat /\ SlotOf(r) \in Nat
  BY BaseTypes DEF Base, TypeOK
<1>2. CASE Raise(r) \/ WriteLearnedValue(r)
  <2>1. \/ Head(todo[r]) = "raise" /\ SetTop(r, SlotOf(r))
        \/ SetTop(r, Higher(SlotOf(r)))
    BY <1>2 DEF Raise, WriteLearnedValue, At
  <2>2. CASE Head(todo[r]) = "raise" /\ SetTop(r, SlotOf(r))
    BY <1>1, <1>2, <2>2 DEF SetTop
  <2>3. CASE SetTop(r, Higher(SlotOf(r)))
    <3>1. /\ Higher(SlotOf(r)) \in {highestSlotID, SlotOf(r)}
          /\ ~(Higher(SlotOf(r)) < highestSlotID)
      BY <1>1 DEF Higher
    <3>2. QED BY <1>1, <1>2, <2>3, <3>1 DEF SetTop
  <2>4. QED BY <2>1, <2>2, <2>3
<1>3. CASE ~Raise(r) /\ ~WriteLearnedValue(r)
  BY <1>1, <1>3, Frames DEF Moved
<1>4. QED BY <1>2, <1>3

LEMMA MovedTypes ==
  ASSUME NEW h, Base(h), NEW r \in Call, NEW c, NEW g, Moved(h, g, r, c), Typed(g)'
  PROVE  TypeOK'
<1>a. h[r].stage # 0 => SlotOf(r) \in Slot
  BY BaseTypes
<1> USE DEF Base, TypeOK
<1>1. Steps(r)
  BY DEF Moved
<1>2. call' \in [Call -> [op : Op \cup {"none"}, slot : {0} \cup Slot, id : {0} \cup Id]]
  BY MovedCallType
<1>3. result' \in [Call -> {"none", "ok", "hole"}]
  <2>1. CASE result' = result
    BY <2>1
  <2>2. CASE result' # result
    BY <1>1, <2>2, Frames DEF Reply, Ask, Copy, Return
  <2>3. QED BY <2>1, <2>2
<1>4. ptr' \in [Call -> Call \cup {Nil}]
  <2>1. CASE ptr' = ptr
    BY <2>1
  <2>2. CASE ptr' # ptr
    <3>1. Take(r)
      BY <1>1, <2>2, Frames
    <3>a. Types /\ Typed(h) /\ Running(r) /\ Head(todo[r]) = "take"
      BY <3>1, BaseTypes DEF Moved, Take, At
    <3>2. h[r].stage = 2
      BY <3>a, HeadModes DEF Told
    <3>3. SlotOf(r) \in Slot
      BY <3>2, <1>a
    <3>4. QED BY <3>1, <3>3 DEF Take
  <2>3. QED BY <2>1, <2>2
<1>5. readers' \in [Call -> 0..2]
  <2>1. readers' = [q \in Call |-> readers'[q]]
    <3>1. CASE RLock(r) \/ RUnlock(r)
      BY <3>1 DEF RLock, RUnlock
    <3>2. CASE readers' = readers
      BY <3>2
    <3>3. QED BY <1>1, <3>1, <3>2, Frames
  <2>2. \A q \in Call : readers'[q] \in 0..2
    BY DEF Typed, TypedCall, Agrees, Leaked, Mode
  <2>3. QED BY <2>1, <2>2
<1>6. writer' \in Call \cup {Nil}
  BY <1>1, Frames DEF Announce, Unlock
<1>7. slots' \in [Slot -> Call \cup {Nil}]
  <2>1. slots' = slots \/ slots' = [slots EXCEPT ![SlotOf(r)] = r]
    BY <1>1, Frames DEF Insert, WriteLearnedValue
  <2>2. QED BY <2>1
<1>8. state' \in [Call -> Entry]
  BY MovedState
<1>9. highestSlotID' \in {0} \cup Slot
  BY MovedTop
<1>10. isLeader' \in BOOLEAN /\ alive' \in BOOLEAN
  BY <1>1, Frames DEF Heed, EndElection, Render
<1>11. lowered' \in BOOLEAN
  BY <1>1, Frames DEF Raise, WriteLearnedValue, SetTop
<1>12. overtaken' \subseteq Call
  BY <1>1, Frames
<1>13. raced' \subseteq Slot
  <2>1. CASE Insert(r)
    <3>a. Types /\ Typed(h) /\ Running(r) /\ Head(todo[r]) = "insert"
      BY <2>1, BaseTypes DEF Moved, Insert, At
    <3>1. h[r].stage = 10
      BY <3>a, HeadModes DEF Told
    <3>2. SlotOf(r) \in Slot
      BY <3>1, <1>a
    <3>3. QED BY <2>1, <3>2 DEF Insert
  <2>2. QED BY <1>1, <2>1, Frames
<1>14. rivals' \subseteq Slot
  <2>1. CASE DrawSlot(r)
    <3>1. call'[r].slot = highestSlotID + 1 /\ highestSlotID \in Nat
      BY <2>1, MovedCall, BaseTypes
    <3>2. call'[r].slot \in {0} \cup Slot
      BY <1>2
    <3>3. highestSlotID + 1 \in Slot
      BY <3>1, <3>2
    <3>4. QED BY <2>1, <3>3 DEF DrawSlot, Meets, NextSlot
  <2>2. QED BY <1>1, <2>1, Frames
<1>15. QED
  BY <1>2, <1>3, <1>4, <1>5, <1>6, <1>7, <1>8, <1>9, <1>10, <1>11, <1>12, <1>13, <1>14

(* Drawing a slot makes room for the next one.                             *)
LEMMA MovedBounded ==
  ASSUME NEW h, Base(h), NEW r \in Call, NEW c, NEW g, Moved(h, g, r, c)
  PROVE  Bounded'
<1> DEFINE top == Cardinality(PeerSlot) + Cardinality(Drawn)
           next == Cardinality(PeerSlot) + Cardinality(Drawn')
<1>1. /\ top \in Nat /\ highestSlotID \in Nat /\ highestSlotID <= top
      /\ \A q \in Call : SlotOf(q) \in Nat /\ SlotOf(q) <= top
  BY BaseTypes, DrawnSize, Sizes DEF Base, Bounded
<1>2. highestSlotID' \in {highestSlotID, SlotOf(r)}
  BY MovedTop
<1>3. CASE DrawSlot(r)
  <2>1. Drawn' = Drawn \cup {r} /\ r \notin Drawn
    <3>1. r \notin Drawn
      BY <1>3, MovedCall DEF Drawn
    <3>2. highestSlotID + 1 # 0
      BY <1>1
    <3>3. r \in Drawn'
      BY <1>3, <3>2, MovedCall DEF Drawn, SlotOf
    <3>4. \A q \in Call \ {r} : q \in Drawn' <=> q \in Drawn
      BY MovedCall DEF Drawn, SlotOf
    <3>5. Drawn \subseteq Call /\ Drawn' \subseteq Call
      BY DEF Drawn
    <3>6. QED BY <3>1, <3>3, <3>4, <3>5
  <2>2. Cardinality(Drawn') = Cardinality(Drawn) + 1
    BY <2>1, DrawnSize, FS_AddElement
  <2>3. next = top + 1
    BY <2>2, DrawnSize, Sizes
  <2>4. SlotOf(r)' = highestSlotID + 1 /\ \A q \in Call \ {r} : SlotOf(q)' = SlotOf(q)
    BY <1>3, MovedCall DEF SlotOf
  <2>5. highestSlotID' <= next
    BY <1>1, <1>2, <2>3
  <2>6. \A q \in Call : SlotOf(q)' <= next
    BY <1>1, <2>3, <2>4
  <2>7. QED BY <2>5, <2>6 DEF Bounded
<1>4. CASE ~DrawSlot(r)
  <2>1. call' = call
    BY <1>4, MovedCall
  <2>2. Drawn' = Drawn /\ \A q \in Call : SlotOf(q)' = SlotOf(q)
    BY <2>1 DEF Drawn, SlotOf
  <2>3. QED BY <1>1, <1>2, <2>2 DEF Bounded
<1>5. QED BY <1>3, <1>4

LEMMA MovedNamed ==
  ASSUME NEW h, Base(h), NEW r \in Call, NEW c, NEW g, Moved(h, g, r, c)
  PROVE  Named(g)'
<1>1. \A q \in Call \ {r} : call'[q] = call[q] /\ todo'[q] = todo[q] /\ g[q] = h[q]
  BY MovedCall, MovedModes DEF Base, Moved
<1>2. g[r] = c
  BY MovedModes DEF Base
<1>3. /\ call'[r].op = call[r].op /\ call[r].op # "none"
      /\ \A q \in Call \ {r} : result'[q] = result[q]
      /\ result'[r] = "ok" => result[r] = "ok" \/ c.stage = 9
  <2>1. call'[r].op = call[r].op /\ call[r].op # "none"
    BY MovedCall
  <2>2. Kinds(h, r, c) /\ Steps(r)
    BY DEF Moved
  <2>3. \A q \in Call \ {r} : result'[q] = result[q]
    <3>1. result \in [Call -> {"none", "ok", "hole"}]
      BY DEF Base, TypeOK
    <3>2. CASE result' = result
      BY <3>2
    <3>3. CASE \E v : Return(r, v)
      BY <3>1, <3>3 DEF Return
    <3>4. QED BY <2>2, <3>2, <3>3, Frames DEF Reply, Ask, Copy
  <2>4. CASE Reply(r) \/ Ask(r)
    <3>1. Head(todo[r]) \in {"reply", "ask", "count"}
      BY <2>4 DEF Reply, Ask, At
    <3>2. CASE result' # result
      <4>1. Head(todo[r]) # "ask"
        BY <2>4, <3>2 DEF Reply, Ask, At
      <4>2. c.stage = 9
        BY <2>2, <3>1, <3>2, <4>1
        DEF Kinds, From, DrawSlot, Check, Insert, Take, Pass, SetField, WriteLearnedValue, Raise,
            Copy, At
      <4>3. QED BY <2>1, <2>3, <4>2
    <3>3. QED BY <2>1, <2>3, <3>2
  <2>5. CASE Copy(r)
    BY <2>1, <2>3, <2>5 DEF Copy, Return, Base, TypeOK
  <2>6. QED BY <2>1, <2>2, <2>3, <2>4, <2>5, Frames
<1>4. CASE DrawSlot(r)
  <2>1. /\ h[r].stage = 0 /\ c.stage = 1 /\ call[r].op \in Proposing
        /\ call'[r].slot = highestSlotID + 1 /\ call'[r].id # 0 /\ highestSlotID \in Nat
    BY <1>4, MovedCall, BaseTypes
  <2>2. call'[r].slot # 0
    BY <2>1
  <2>3. call[r].op \notin OfSlot /\ call[r].op # "none" /\ result[r] # "ok"
    BY <2>1, OpNames, MovedCall DEF Base, Named
  <2>4. QED BY <1>1, <1>2, <1>3, <2>1, <2>2, <2>3 DEF Base, Named, SlotOf
<1>5. CASE ~DrawSlot(r)
  <2>1. call' = call
    BY <1>5, MovedCall
  <2>2. c.stage = 0 <=> h[r].stage = 0
    BY <1>5 DEF Moved, Kinds, From
  <2>3. h[r].stage = 9 => c.stage = 9
    BY <1>5 DEF Moved, Kinds, From
  <2>4. QED BY <1>1, <1>2, <1>3, <2>1, <2>2, <2>3 DEF Base, Named, SlotOf
<1>6. QED BY <1>4, <1>5

LEMMA MovedBase ==
  ASSUME NEW h, Base(h), NEW r \in Call, NEW c, NEW g, Moved(h, g, r, c), Typed(g)',
         todo' \in [Call -> Seq(Step)]
  PROVE  Base(g)'
BY MovedTypes, MovedBounded, MovedNamed DEF Base

LEMMA BeginBase ==
  ASSUME NEW h, Base(h), NEW r \in Call, Begins(r),
         NEW c, c = Start(call'[r].op), NEW g, g = [h EXCEPT ![r] = c]
  PROVE  Base(g)'
<1>1. /\ call[r] = NoCall /\ ~Running(r) /\ call'[r].op \in Op
      /\ \A q \in Call \ {r} : call'[q] = call[q] /\ todo'[q] = todo[q] /\ g[q] = h[q]
      /\ call' \in [Call -> [op : Op \cup {"none"}, slot : {0} \cup Slot, id : {0} \cup Id]]
      /\ todo' \in [Call -> Seq(Step)] /\ Typed(g)' /\ g[r] = c
      /\ UNCHANGED <<result, ptr, lock, memory, alive, raced, lowered>>
      /\ call'[r].op \in OfSlot =>
           /\ PeerCalls(r) /\ call'[r].slot \in PeerSlot
           /\ call'[r].id = 0 <=> call'[r].op = "Learn"
      /\ call'[r].op \notin OfSlot => call'[r].slot = 0 /\ call'[r].id = 0
  BY BeginTyped DEF Base, Typed
<1>2. c.stage = IF call'[r].op \in OfSlot THEN 1 ELSE 0
  BY DEF Start, In
<1>3. TypeOK'
  <2>1. UNCHANGED <<result, ptr, readers, writer, slots, state, highestSlotID, isLeader, alive,
                    raced, lowered>>
    BY <1>1 DEF lock, memory
  <2>2. overtaken' \subseteq Call /\ rivals' \subseteq Slot
    <3>1. CASE PeerCalls(r)
      <4>1. \A b : \A s \in PeerSlot : Meets(s, b) \subseteq Slot
        BY Sizes DEF Meets
      <4>2. \E s \in PeerSlot, b \in {0} \cup Id : rivals' = rivals \cup Meets(s, b)
        <5>1. PICK o \in Op \cap OfSlot, s \in PeerSlot, b \in Id :
                /\ call' = [call EXCEPT ![r] =
                             [op |-> o, slot |-> s, id |-> IF o = "Learn" THEN 0 ELSE b]]
                /\ rivals' = rivals \cup Meets(s, call'[r].id)
          BY <3>1 DEF PeerCalls
        <5>2. call'[r].id \in {0} \cup Id
          BY <1>1
        <5>3. QED BY <5>1, <5>2
      <4>3. overtaken' = overtaken
        BY <3>1 DEF PeerCalls
      <4>4. QED BY <4>1, <4>2, <4>3 DEF Base, TypeOK
    <3>2. CASE UserCalls(r)
      BY <3>2 DEF UserCalls, Base, TypeOK, StillWaitedFor, history
    <3>3. QED BY <3>1, <3>2 DEF Begins
  <2>3. QED BY <1>1, <2>1, <2>2 DEF Base, TypeOK
<1>4. Bounded'
  <2>1. Drawn' = Drawn
    <3>1. r \notin Drawn
      BY <1>1 DEF Drawn, NoCall, SlotOf
    <3>2. r \notin Drawn'
      BY <1>1, OpNames DEF Drawn, SlotOf
    <3>3. \A q \in Call \ {r} : q \in Drawn' <=> q \in Drawn
      BY <1>1 DEF Drawn, SlotOf
    <3>4. Drawn \subseteq Call /\ Drawn' \subseteq Call
      BY DEF Drawn
    <3>5. QED BY <3>1, <3>2, <3>3, <3>4
  <2>2. highestSlotID' = highestSlotID /\ \A q \in Call \ {r} : SlotOf(q)' = SlotOf(q)
    BY <1>1 DEF memory, SlotOf
  <2>3. SlotOf(r)' <= Cardinality(PeerSlot) + Cardinality(Drawn)
    <3>1. SlotOf(r)' \in {0} \cup PeerSlot
      BY <1>1 DEF SlotOf
    <3>2. \A s \in PeerSlot : s \in Nat /\ s <= Cardinality(PeerSlot)
      BY Sizes, HandlersAssumption DEF HandlersAssumption
    <3>3. \A s \in {0} \cup PeerSlot : s <= Cardinality(PeerSlot) + Cardinality(Drawn)
      BY <3>2, Sizes, DrawnSize
    <3>4. QED BY <3>1, <3>3
  <2>4. QED BY <2>1, <2>2, <2>3 DEF Base, Bounded
<1>5. Named(g)'
  <2>1. result' = result /\ result[r] = "none"
    BY <1>1 DEF Base, Named, NoCall
  <2>2. call'[r].op # "none"
    BY <1>1, ProgramsFit, HandlersAssumption DEF HandlersAssumption
  <2>3. 0 \notin PeerSlot
    BY Sizes
  <2>4. QED BY <1>1, <1>2, <2>1, <2>2, <2>3 DEF Base, Named, SlotOf
<1>6. QED BY <1>1, <1>3, <1>4, <1>5 DEF Base

(* What does not concern the calls: the process dies, or nothing happens.  *)
Rest ==
  UNCHANGED <<call, todo, result, ptr, lock, memory, overtaken, history>> /\ alive' \in {alive, FALSE}

LEMMA RestBase ==
  ASSUME NEW h, Base(h), Rest
  PROVE  Base(h)'
<1>1. /\ UNCHANGED <<call, todo, result, ptr, readers, writer, slots, state, highestSlotID,
                     isLeader, overtaken, raced, rivals, lowered>>
      /\ alive' \in {alive, FALSE}
  BY DEF Rest, lock, memory, history
<1>2. TypeOK' /\ todo' \in [Call -> Seq(Step)]
  BY <1>1 DEF Base, TypeOK
<1>3. Typed(h)'
  BY <1>1 DEF Base, Typed, TypedCall, Leaked, Agrees, NoReaders, Running
<1>4. Bounded'
  BY <1>1 DEF Base, Bounded, SlotOf, Drawn
<1>5. Named(h)'
  BY <1>1 DEF Base, Named, SlotOf
<1>6. QED BY <1>2, <1>3, <1>4, <1>5 DEF Base

(* A step of the node, and what it does to the modes.                      *)
Evolves(h, g) ==
  \/ \E r \in Call : Begins(r) /\ g = [h EXCEPT ![r] = Start(call'[r].op)]
  \/ \E r \in Call, c \in Mode : Moved(h, g, r, c)
  \/ Rest /\ g = h

LEMMA NextBase ==
  ASSUME NEW h, Base(h), [Next]_vars
  PROVE  \E g : Evolves(h, g) /\ Base(g)'
<1>1. CASE \E r \in Call : Begins(r)
  <2>1. PICK r \in Call : Begins(r)
    BY <1>1
  <2>2. PICK c : c = Start(call'[r].op)
    OBVIOUS
  <2>3. PICK g : g = [h EXCEPT ![r] = c]
    OBVIOUS
  <2>4. Base(g)'
    BY <2>1, <2>2, <2>3, BeginBase
  <2>5. Evolves(h, g)
    BY <2>1, <2>2, <2>3 DEF Evolves
  <2>6. QED BY <2>4, <2>5
<1>2. CASE \E r \in Call : Running(r) /\ Steps(r)
  <2>1. PICK r \in Call : Running(r) /\ Steps(r)
    BY <1>2
  <2>2. Types /\ Typed(h)
    BY BaseTypes
  <2>3. PICK c \in Mode : /\ (Advances(h, r, c) /\ Proceeds(r)) \/ Jumps(h, r, c)
                          /\ Typed([h EXCEPT ![r] = c])' /\ todo' \in [Call -> Seq(Step)]
    BY <2>1, <2>2, StepTyped
  <2>4. PICK g : g = [h EXCEPT ![r] = c]
    OBVIOUS
  <2>5. Kinds(h, r, c)
    BY <2>1, <2>2, <2>3, StepKinds
  <2>6. \A q \in Call \ {r} : todo'[q] = todo[q]
    BY <2>1, <2>2 DEF Types, Steps, PrivateStep, SharedStep, GoOn, GoTo, RUnlock, Unlock, Enter,
       Reply, RefuseToPropose, ConfirmLeader, DrawSlot, Ask, TestFree, Elect, EndElection, Heed,
       RLock, Announce, Check, Insert, Take, Refuse, Pass, SetField, TestTop, Raise, SetTop,
       WriteLearnedValue, Copy, Render
  <2>7. Moved(h, g, r, c)
    BY <2>1, <2>4, <2>5, <2>6 DEF Moved
  <2>8. Typed(g)'
    BY <2>3, <2>4
  <2>9. Base(g)'
    BY <2>3, <2>7, <2>8, MovedBase
  <2>10. QED BY <2>7, <2>9 DEF Evolves
<1>3. CASE MapFault \/ UNCHANGED vars
  <2>1. Rest
    BY <1>3 DEF MapFault, vars, Rest
  <2>2. QED BY <2>1, RestBase DEF Evolves
<1>4. QED BY <1>1, <1>2, <1>3, NextCases

(* Before the first call.                                                  *)
Idle == [r \in Call |-> In(0, "no", 0)]

LEMMA InitBase ==
  ASSUME Init
  PROVE  Base(Idle)
<1>1. In(0, "no", 0) \in Mode /\ Free(In(0, "no", 0)) /\ In(0, "no", 0).stage = 0
  BY DEF In, Mode, Free
<1>2. Idle \in [Call -> Mode] /\ \A r \in Call : Idle[r] = In(0, "no", 0)
  BY <1>1 DEF Idle
<1>3. TypeOK /\ todo \in [Call -> Seq(Step)]
  <2>1. <<>> \in Seq(Step)
    OBVIOUS
  <2>2. NoCall \in [op : Op \cup {"none"}, slot : {0} \cup Slot, id : {0} \cup Id]
    BY DEF NoCall
  <2>3. ZeroState \in Entry
    BY DEF ZeroState, Entry
  <2>4. /\ todo \in [Call -> Seq(Step)]
        /\ call \in [Call -> [op : Op \cup {"none"}, slot : {0} \cup Slot, id : {0} \cup Id]]
        /\ state \in [Call -> Entry]
    BY <2>1, <2>2, <2>3 DEF Init
  <2>5. readers \in [Call -> 0..2] /\ writer \in Call \cup {Nil}
    BY DEF Init
  <2>6. /\ result \in [Call -> {"none", "ok", "hole"}] /\ ptr \in [Call -> Call \cup {Nil}]
        /\ slots \in [Slot -> Call \cup {Nil}]
    BY DEF Init
  <2>7. /\ highestSlotID \in {0} \cup Slot /\ isLeader \in BOOLEAN /\ alive \in BOOLEAN
        /\ lowered \in BOOLEAN /\ overtaken \subseteq Call /\ raced \subseteq Slot
        /\ rivals \subseteq Slot
    BY DEF Init
  <2>8. QED BY <2>4, <2>5, <2>6, <2>7 DEF TypeOK
<1>4. Typed(Idle)
  <2>1. ASSUME NEW r \in Call PROVE TypedCall(r, Idle[r])
    <3>1. Fits(call[r].op, todo[r], Idle[r])
      BY <1>1, <1>2, FitsNothing DEF Init, InEntry
    <3>2. Agrees(r, Idle[r])
      BY <1>1, <1>2, Sizes DEF Init, Agrees, Free, In
    <3>3. QED BY <3>1, <3>2 DEF TypedCall
  <2>2. QED BY <1>2, <2>1 DEF Typed
<1>5. \A r \in Call : SlotOf(r) = 0 /\ call[r] = NoCall /\ call[r].id = 0 /\ call[r].op = "none"
  BY DEF Init, SlotOf, NoCall
<1>6. Bounded
  BY <1>5, Sizes, DrawnSize DEF Init, Bounded
<1>7. Named(Idle)
  BY <1>1, <1>2, <1>5 DEF Init, Named, OfSlot
<1>8. QED BY <1>3, <1>4, <1>6, <1>7 DEF Base

BaseInv == \E h : Base(h)

(* Types: every call has a slot that there is room for, holds the read     *)
(* lock at most twice, and the entries hold what calls wrote there.        *)
THEOREM HandlersTypeCorrect == Spec => []TypeOK
<1>1. Init => BaseInv
  BY InitBase DEF BaseInv
<1>2. BaseInv /\ [Next]_vars => BaseInv'
  BY NextBase DEF BaseInv
<1>3. BaseInv => TypeOK
  BY DEF BaseInv, Base
<1>4. QED BY <1>1, <1>2, <1>3, PTL DEF Spec

-----------------------------------------------------------------------------
(* What follows from the modes alone.                                      *)

(* A step changes the list of the call that makes it.                      *)
LEMMA TailDiffers ==
  ASSUME NEW t \in Seq(Step), t # <<>>
  PROVE  Tail(t) # t
<1>1. Len(Tail(t)) = Len(t) - 1
  OBVIOUS
<1>2. Len(t) \in Nat
  OBVIOUS
<1>3. Len(t) # Len(t) - 1
  BY <1>2
<1>4. QED BY <1>1, <1>3

LEMMA TopStep ==
  ASSUME NEW h, Base(h), [Next]_vars, highestSlotID' < highestSlotID
  PROVE  \E r \in Call : call[r].op = "Accept" /\ todo'[r] # todo[r]
<1>1. Types /\ Typed(h) /\ highestSlotID \in Nat /\ ~(highestSlotID < highestSlotID)
  BY BaseTypes
<1>2. PICK g : Evolves(h, g)
  BY NextBase
<1>3. ASSUME NEW r \in Call, Begins(r) PROVE FALSE
  BY <1>1, <1>3, BeginTyped DEF memory
<1>4. ~Rest
  BY <1>1 DEF Rest, memory
<1>5. PICK r \in Call, c \in Mode : Moved(h, g, r, c)
  BY <1>2, <1>3, <1>4 DEF Evolves
<1>6. Head(todo[r]) = "raise" /\ Running(r)
  BY <1>5, MovedTop DEF Moved
<1>7. call[r].op = "Accept"
  BY <1>1, <1>6, HeadModes DEF Told
<1>8. Raise(r)
  BY <1>1, <1>5, <1>6, MovedTop DEF WriteLearnedValue, At
<1>9. todo'[r] = Tail(todo[r]) /\ todo[r] \in Seq(Step)
  <2>1. GoOn(r)
    BY <1>8 DEF Raise, SetTop
  <2>2. QED BY <1>1, <1>6, <2>1, GoingOn DEF Types
<1>10. QED BY <1>6, <1>7, <1>9, TailDiffers DEF Running

(* highestSlotID falls only in a step of Accept, which sets it without a   *)
(* comparison under the lock; no proposal and no learned value lowers it.  *)
THEOREM OnlyAcceptLowersTheTop == Spec => OnlyAcceptLowersTop
<1>1. Init => BaseInv
  BY InitBase DEF BaseInv
<1>2. BaseInv /\ [Next]_vars => BaseInv'
  BY NextBase DEF BaseInv
<1>3. BaseInv /\ [Next]_vars =>
        [highestSlotID' < highestSlotID =>
           \E r \in Call : call[r].op = "Accept" /\ todo'[r] # todo[r]]_vars
  BY TopStep DEF BaseInv
<1>4. QED BY <1>1, <1>2, <1>3, PTL DEF Spec, OnlyAcceptLowersTop

LEMMA LockModes ==
  ASSUME NEW h, Types, Typed(h), NEW r \in Call, Running(r)
  PROVE  LET o == call[r].op
             x == Head(todo[r])
             a == h[r]
         IN  /\ x = "RLock" => a.writes = "no" /\ (a.reads = 0 \/ o \in {"List", "ListLog"})
             /\ x = "Lock" => a.reads = 0 /\ (a.writes = "no" \/ o = "SendHeartbeat")
             /\ x = "Enter" => a.reads = 0 /\ a.writes = "announced"
<1>1. PICK c \in Mode : Can(call[r].op, Head(todo[r]), h[r], c)
  BY RunningTyped
<1>2. h[r].writes # "stuck"
  BY RunningTyped DEF Agrees
<1>3. Head(todo[r]) \in LockName => LockStep(call[r].op, Head(todo[r]), h[r], c)
  BY <1>1, <1>2 DEF Can, EntryStep, OtherStep, LockName
<1>4. QED BY <1>3 DEF LockStep, LockName, Free, Owns

LEMMA ModesHang ==
  ASSUME NEW h, Base(h)
  PROVE  HangsOnlyByReentry
<1> SUFFICES ASSUME NEW p \in Call, Running(p), \A r \in Call : Running(r) => Blocked(r)
             PROVE  \E r \in Call :
                      \/ call[r].op \in {"List", "ListLog"} /\ Running(r) /\ readers[r] > 0
                      \/ call[r].op = "SendHeartbeat" /\ Running(r) /\ writer = r
                      \/ call[r].op = "TryElectSelf" /\ ~Running(r) /\ writer = r
  BY DEF HangsOnlyByReentry
<1>1. Types /\ Typed(h) /\ readers \in [Call -> Nat]
  BY BaseTypes DEF Types
<1>2. \A r \in Call : Running(r) => Agrees(r, h[r])
  BY <1>1, RunningTyped
<1>3. \A r \in Call : ~Running(r) => readers[r] = 0 /\ (writer = r => Leaked(r))
  BY <1>1, EndedTyped
<1>4. writer \in Call
  <2>1. Blocked(p)
    OBVIOUS
  <2>2. CASE Head(todo[p]) = "Enter"
    <3>1. h[p].writes = "announced"
      BY <1>1, <2>2, LockModes
    <3>2. QED BY <1>2, <3>1 DEF Agrees
  <2>3. CASE writer # Nil
    BY <2>3 DEF Base, TypeOK
  <2>4. QED BY <2>1, <2>2, <2>3 DEF Blocked
<1>5. CASE ~Running(writer)
  BY <1>3, <1>4, <1>5 DEF Leaked
<1>6. CASE Running(writer)
  <2> DEFINE w == writer
  <2>1. h[w].writes # "no" /\ Blocked(w)
    BY <1>2, <1>4, <1>6 DEF Agrees
  <2>2. Head(todo[w]) # "RLock"
    BY <1>1, <1>4, <1>6, <2>1, LockModes
  <2>3. CASE Head(todo[w]) = "Lock"
    <3>1. call[w].op = "SendHeartbeat"
      BY <1>1, <1>4, <1>6, <2>1, <2>3, LockModes
    <3>2. QED BY <1>4, <1>6, <3>1
  <2>4. CASE Head(todo[w]) = "Enter" /\ ~NoReaders
    <3>1. PICK q \in Call : readers[q] # 0
      BY <2>4 DEF NoReaders
    <3>2. Running(q) /\ readers[q] > 0
      BY <1>1, <1>3, <3>1
    <3>3. h[q].reads # 0 /\ Blocked(q)
      BY <1>2, <3>1, <3>2 DEF Agrees
    <3>4. call[q].op \in {"List", "ListLog"}
      BY <1>1, <3>2, <3>3, LockModes DEF Blocked
    <3>5. QED BY <3>2, <3>4
  <2>5. QED BY <2>1, <2>2, <2>3, <2>4 DEF Blocked
<1>7. QED BY <1>5, <1>6

(* Deadlock freedom of the handlers: whatever they do at once, all of them *)
(* wait for one another only if List, ListLog or SendHeartbeat asks for    *)
(* the lock it already holds, or TryElectSelf has left it locked.          *)
THEOREM OnlyReentryHangs == Spec => []HangsOnlyByReentry
<1>1. Init => BaseInv
  BY InitBase DEF BaseInv
<1>2. BaseInv /\ [Next]_vars => BaseInv'
  BY NextBase DEF BaseInv
<1>3. BaseInv => HangsOnlyByReentry
  BY ModesHang DEF BaseInv
<1>4. QED BY <1>1, <1>2, <1>3, PTL DEF Spec

-----------------------------------------------------------------------------
(* The map and the entries that the calls have found in it.                *)

(* Call e made an entry for slot s, a learned one with its command.        *)
Holds(s, e) ==
  SlotOf(e) = s /\ (call[e].op = "SynchronizeLog" => state[e].command # Nil)

SlotMap == \A s \in Slot : slots[s] # Nil => Holds(s, slots[s])

(* A call that got its entry has the one in the map, unless a learned      *)
(* value has replaced it or two calls entered the slot at once.            *)
Found(r) ==
  LET s == SlotOf(r)
  IN  /\ ptr[r] \in Call /\ Holds(s, ptr[r])
      /\ s \notin raced => ptr[r] = slots[s] \/ call[slots[s]].op = "SynchronizeLog"

Finds(h, r) ==
  LET s == SlotOf(r)
      n == h[r].stage
  IN  /\ Enters(call[r].op) /\ n \in 2..9 => slots[s] # Nil
      /\ Enters(call[r].op) /\ n \in 3..9 => Found(r)
      /\ n = 10 /\ Running(r) /\ s \notin raced => slots[s] = Nil
      /\ call[r].op \in Proposing /\ n \in 7..9 => state[ptr[r]].command # Nil

Maps(h) == SlotMap /\ \A r \in Call : Finds(h, r)

(* A call keeps its slot and its ID.                                       *)
LEMMA SlotsStay ==
  ASSUME NEW h, Base(h), NEW r \in Call, NEW c, NEW g, Moved(h, g, r, c)
  PROVE  \A q \in Call : SlotOf(q) # 0 \/ h[q].stage # 0 => call'[q] = call[q] /\ SlotOf(q)' = SlotOf(q)
<1>1. \A q \in Call : h[q].stage # 0 => SlotOf(q) # 0
  BY DEF Base, Named
<1>2. QED BY <1>1, MovedCall DEF SlotOf

(* What becomes of the entries.                                            *)
LEMMA EntriesMoved ==
  ASSUME NEW h, Base(h), NEW r \in Call, NEW c, NEW g, Moved(h, g, r, c)
  PROVE  /\ SetField(r) => \A e \in Call \ {ptr[r]} : state'[e] = state[e]
         /\ SetField(r) /\ Head(todo[r]) = "setPromise" /\ ptr[r] \in Call =>
              state'[ptr[r]] = [promised |-> call[r].id, accepted |-> state[ptr[r]].accepted,
                                command |-> state[ptr[r]].command]
         /\ SetField(r) /\ Head(todo[r]) = "setAccepted" /\ ptr[r] \in Call =>
              state'[ptr[r]] = [promised |-> state[ptr[r]].promised, accepted |-> call[r].id,
                                command |-> state[ptr[r]].command]
         /\ SetField(r) /\ Head(todo[r]) = "setCommand" /\ ptr[r] \in Call =>
              state'[ptr[r]] = [promised |-> state[ptr[r]].promised,
                                accepted |-> state[ptr[r]].accepted, command |-> r]
         /\ WriteLearnedValue(r) =>
              /\ \A e \in Call \ {r} : state'[e] = state[e]
              /\ state'[r] = [promised |-> call[r].id, accepted |-> call[r].id, command |-> r]
         /\ ~SetField(r) /\ ~WriteLearnedValue(r) => state' = state
<1>1. state \in [Call -> Entry]
  BY DEF Base, TypeOK
<1>2. ASSUME SetField(r), ptr[r] \in Call
      PROVE  LET e == state[ptr[r]]
             IN  /\ Head(todo[r]) = "setPromise" =>
                      state'[ptr[r]] = [promised |-> call[r].id, accepted |-> e.accepted,
                                        command |-> e.command]
                 /\ Head(todo[r]) = "setAccepted" =>
                      state'[ptr[r]] = [promised |-> e.promised, accepted |-> call[r].id,
                                        command |-> e.command]
                 /\ Head(todo[r]) = "setCommand" =>
                      state'[ptr[r]] = [promised |-> e.promised, accepted |-> e.accepted,
                                        command |-> r]
  <2> DEFINE e == state[ptr[r]]
             p == e.promised
             a == e.accepted
             m == e.command
  <2>1. e = [promised |-> p, accepted |-> a, command |-> m]
    BY <1>1, <1>2 DEF Entry
  <2> HIDE DEF p, a, m
  <2>2. ASSUME NEW v
        PROVE  /\ [e EXCEPT !["promised"] = v] = [promised |-> v, accepted |-> a, command |-> m]
               /\ [e EXCEPT !["accepted"] = v] = [promised |-> p, accepted |-> v, command |-> m]
               /\ [e EXCEPT !["command"] = v] = [promised |-> p, accepted |-> a, command |-> v]
    <3> HIDE DEF e
    <3>1. [e EXCEPT !["promised"] = v] = [promised |-> v, accepted |-> a, command |-> m]
      BY <2>1
    <3>2. [e EXCEPT !["accepted"] = v] = [promised |-> p, accepted |-> v, command |-> m]
      BY <2>1
    <3>3. [e EXCEPT !["command"] = v] = [promised |-> p, accepted |-> a, command |-> v]
      BY <2>1
    <3>4. QED BY <3>1, <3>2, <3>3
  <2>3. \A f, v : WriteTo(r, f, v) => state'[ptr[r]] = [e EXCEPT ![f] = v]
    BY <1>1, <1>2 DEF WriteTo
  <2>4. /\ Head(todo[r]) = "setPromise" => state'[ptr[r]] = [e EXCEPT !["promised"] = call[r].id]
        /\ Head(todo[r]) = "setAccepted" => state'[ptr[r]] = [e EXCEPT !["accepted"] = call[r].id]
        /\ Head(todo[r]) = "setCommand" => state'[ptr[r]] = [e EXCEPT !["command"] = r]
    BY <1>2, <2>3 DEF SetField, At
  <2>5. QED BY <2>2, <2>4 DEF p, a, m
<1>3. SetField(r) => \A e \in Call \ {ptr[r]} : state'[e] = state[e]
  BY <1>1 DEF SetField, WriteTo
<1>4. WriteLearnedValue(r) =>
        /\ \A e \in Call \ {r} : state'[e] = state[e]
        /\ state'[r] = [promised |-> call[r].id, accepted |-> call[r].id, command |-> r]
  BY <1>1 DEF WriteLearnedValue
<1>5. ~SetField(r) /\ ~WriteLearnedValue(r) => state' = state
  BY Frames DEF Moved
<1>6. QED BY <1>2, <1>3, <1>4, <1>5

LEMMA CommandsStay ==
  ASSUME NEW h, Base(h), NEW r \in Call, NEW c, NEW g, Moved(h, g, r, c),
         NEW e \in Call, state[e].command # Nil
  PROVE  state'[e].command # Nil
<1>1. r # Nil
  BY Sizes
<1>2. CASE SetField(r) /\ e = ptr[r]
  <2>1. Head(todo[r]) \in {"setPromise", "setAccepted", "setCommand"} /\ ptr[r] \in Call
    BY <1>2 DEF SetField, At
  <2>2. CASE Head(todo[r]) = "setPromise"
    <3>1. state'[e] = [promised |-> call[r].id, accepted |-> state[e].accepted,
                       command |-> state[e].command]
      BY <1>2, <2>1, <2>2, EntriesMoved
    <3>2. QED BY <3>1
  <2>3. CASE Head(todo[r]) = "setAccepted"
    <3>1. state'[e] = [promised |-> state[e].promised, accepted |-> call[r].id,
                       command |-> state[e].command]
      BY <1>2, <2>1, <2>3, EntriesMoved
    <3>2. QED BY <3>1
  <2>4. CASE Head(todo[r]) = "setCommand"
    <3>1. state'[e] = [promised |-> state[e].promised, accepted |-> state[e].accepted,
                       command |-> r]
      BY <1>2, <2>1, <2>4, EntriesMoved
    <3>2. QED BY <1>1, <3>1
  <2>5. QED BY <2>1, <2>2, <2>3, <2>4
<1>3. CASE WriteLearnedValue(r) /\ e = r
  <2>1. \E b : state'[e] = [promised |-> b, accepted |-> b, command |-> r]
    BY <1>3, EntriesMoved
  <2>2. QED BY <1>1, <2>1
<1>4. CASE state'[e] = state[e]
  BY <1>4
<1>5. QED BY <1>2, <1>3, <1>4, EntriesMoved

LEMMA HoldsStays ==
  ASSUME NEW h, Base(h), NEW r \in Call, NEW c, NEW g, Moved(h, g, r, c),
         NEW e \in Call, NEW s, s # 0, Holds(s, e)
  PROVE  Holds(s, e)'
BY SlotsStay, CommandsStay DEF Holds, SlotOf

(* What a step does to the map.                                            *)
LEMMA MapMoved ==
  ASSUME NEW h, Base(h), NEW r \in Call, NEW c, NEW g, Moved(h, g, r, c)
  PROVE  /\ Insert(r) \/ WriteLearnedValue(r) =>
              /\ SlotOf(r) \in Slot /\ h[r].stage # 0
              /\ slots'[SlotOf(r)] = r
              /\ \A s \in Slot \ {SlotOf(r)} : slots'[s] = slots[s]
         /\ Insert(r) => Enters(call[r].op) /\ h[r].stage = 10 /\ Reads(h[r])
         /\ WriteLearnedValue(r) => /\ call[r].op = "SynchronizeLog" /\ Owns(h[r])
         /\ ~Insert(r) /\ ~WriteLearnedValue(r) => slots' = slots
         /\ raced \subseteq raced' /\ (~Insert(r) => raced' = raced)
<1>1. Types /\ Typed(h) /\ Running(r) /\ Steps(r)
  BY BaseTypes DEF Moved
<1>2. Insert(r) => Enters(call[r].op) /\ h[r].stage = 10 /\ Reads(h[r])
  BY <1>1, HeadModes DEF Insert, At, Told
<1>3. WriteLearnedValue(r) => call[r].op = "SynchronizeLog" /\ Owns(h[r]) /\ h[r].stage = 1
  BY <1>1, HeadModes DEF WriteLearnedValue, At, Told
<1>4. ASSUME Insert(r) \/ WriteLearnedValue(r)
      PROVE  /\ SlotOf(r) \in Slot /\ h[r].stage # 0
             /\ slots'[SlotOf(r)] = r
             /\ \A s \in Slot \ {SlotOf(r)} : slots'[s] = slots[s]
  <2>1. h[r].stage # 0
    BY <1>2, <1>3, <1>4
  <2>2. SlotOf(r) \in Slot
    BY <2>1, BaseTypes
  <2>3. slots' = [slots EXCEPT ![SlotOf(r)] = r] /\ slots \in [Slot -> Call \cup {Nil}]
    BY <1>4 DEF Insert, WriteLearnedValue, Base, TypeOK
  <2>4. QED BY <2>1, <2>2, <2>3
<1>5. raced \subseteq raced' /\ (~Insert(r) => raced' = raced)
  BY <1>1, Frames DEF Insert
<1>6. QED BY <1>1, <1>2, <1>3, <1>4, <1>5, Frames

(* An entry that was found stays the one of its slot.                      *)
LEMMA FoundStays ==
  ASSUME NEW h, Base(h), Maps(h), NEW r \in Call, NEW c, NEW g, Moved(h, g, r, c),
         NEW q \in Call, h[q].stage \in 3..9, Enters(call[q].op), ptr'[q] = ptr[q]
  PROVE  slots'[SlotOf(q)] # Nil /\ Found(q)'
<1> DEFINE s == SlotOf(q)
<1>1. s \in Slot /\ s # 0 /\ call'[q] = call[q] /\ SlotOf(q)' = s
  <2>1. h[q].stage # 0
    OBVIOUS
  <2>2. s \in Slot /\ s # 0
    BY <2>1, BaseTypes DEF Base, Named
  <2>3. QED BY <2>1, <2>2, SlotsStay
<1>2. Found(q) /\ slots[s] # Nil /\ slots[s] \in Call /\ ptr[q] \in Call /\ r # Nil
  <2>1. h[q].stage \in 2..9
    OBVIOUS
  <2>2. QED BY <1>1, <2>1, Sizes DEF Maps, Finds, Found, Base, TypeOK
<1>3. Holds(s, slots[s]) /\ SlotOf(slots[s]) = s /\ call'[slots[s]] = call[slots[s]]
  BY <1>1, <1>2, SlotsStay DEF Maps, SlotMap, Holds
<1>4. Holds(s, ptr[q])'
  BY <1>1, <1>2, HoldsStays DEF Found
<1>5. CASE slots'[s] = slots[s]
  <2>1. s \notin raced' => ptr'[q] = slots'[s] \/ call'[slots'[s]].op = "SynchronizeLog"
    BY <1>2, <1>3, <1>5, MapMoved DEF Found
  <2>2. QED BY <1>1, <1>2, <1>4, <1>5, <2>1 DEF Found
<1>6. CASE slots'[s] # slots[s]
  <2>1. (Insert(r) \/ WriteLearnedValue(r)) /\ SlotOf(r) = s /\ slots'[s] = r
    BY <1>1, <1>6, MapMoved
  <2>2. CASE Insert(r)
    <3>1. h[r].stage = 10 /\ Running(r)
      BY <2>2, MapMoved DEF Moved
    <3>2. s \in raced
      BY <1>2, <2>1, <3>1 DEF Maps, Finds
    <3>3. s \in raced'
      BY <3>2, MapMoved
    <3>4. QED BY <1>1, <1>2, <1>4, <2>1, <3>3 DEF Found
  <2>3. CASE WriteLearnedValue(r)
    <3>1. call[r].op = "SynchronizeLog" /\ call'[r] = call[r]
      <4>1. call' = call
        BY <2>3 DEF WriteLearnedValue
      <4>2. QED BY <2>3, <4>1, MapMoved
    <3>2. QED BY <1>1, <1>2, <1>4, <2>1, <3>1 DEF Found
  <2>4. QED BY <2>1, <2>2, <2>3
<1>7. QED BY <1>5, <1>6

LEMMA SlotMapMoved ==
  ASSUME NEW h, Base(h), Maps(h), NEW r \in Call, NEW c, NEW g, Moved(h, g, r, c)
  PROVE  SlotMap'
<1> SUFFICES ASSUME NEW s \in Slot, slots'[s] # Nil PROVE Holds(s, slots[s])'
  BY DEF SlotMap
<1>1. s # 0 /\ r # Nil
  BY Sizes
<1>2. CASE slots'[s] = slots[s]
  <2>1. slots[s] \in Call /\ Holds(s, slots[s])
    BY <1>2 DEF Base, TypeOK, Maps, SlotMap
  <2>2. PICK e \in Call : e = slots[s]
    BY <2>1
  <2>3. Holds(s, e)'
    BY <1>1, <2>1, <2>2, HoldsStays
  <2>4. QED BY <1>2, <2>2, <2>3 DEF Holds
<1>3. CASE slots'[s] # slots[s]
  <2>1. (Insert(r) \/ WriteLearnedValue(r)) /\ SlotOf(r) = s /\ slots'[s] = r /\ h[r].stage # 0
    BY <1>3, MapMoved
  <2>2. call'[r] = call[r] /\ SlotOf(r)' = s
    BY <2>1, SlotsStay
  <2>3. CASE Insert(r)
    BY <2>1, <2>2, <2>3, MapMoved DEF Holds, Enters, Proposing
  <2>4. CASE WriteLearnedValue(r)
    <3>1. state'[r] = [promised |-> call[r].id, accepted |-> call[r].id, command |-> r]
      BY <2>4, EntriesMoved
    <3>2. state'[r].command # Nil
      BY <1>1, <3>1
    <3>3. QED BY <2>1, <2>2, <3>2 DEF Holds
  <2>5. QED BY <2>1, <2>3, <2>4
<1>4. QED BY <1>2, <1>3

LEMMA MapFilled ==
  ASSUME NEW h, Base(h), NEW r \in Call, NEW c, NEW g, Moved(h, g, r, c),
         NEW s \in Slot, slots[s] # Nil
  PROVE  slots'[s] # Nil
BY MapMoved, Sizes

(* The other calls.                                                        *)
LEMMA OthersFind ==
  ASSUME NEW h, Base(h), Maps(h), NEW r \in Call, NEW c, NEW g, Moved(h, g, r, c),
         NEW q \in Call, q # r
  PROVE  Finds(g, q)'
<1> DEFINE s == SlotOf(q)
           n == h[q].stage
<1>1. g[q] = h[q] /\ todo'[q] = todo[q] /\ call'[q].op = call[q].op /\ Finds(h, q)
  BY MovedModes, MovedCall DEF Base, Moved, Maps
<1>2. n # 0 => s \in Slot /\ call'[q] = call[q] /\ SlotOf(q)' = s
  BY SlotsStay, BaseTypes
<1>3. ptr'[q] = ptr[q]
  <2>1. ptr \in [Call -> Call \cup {Nil}]
    BY DEF Base, TypeOK
  <2>2. Take(r) => ptr'[q] = ptr[q]
    BY <2>1 DEF Take
  <2>3. QED BY <2>2, Frames DEF Moved
<1>4. Enters(call[q].op) /\ n \in 2..9 => slots'[s] # Nil
  BY <1>1, <1>2, MapFilled DEF Finds
<1>5. Enters(call[q].op) /\ n \in 3..9 => Found(q)'
  BY <1>3, FoundStays
<1>6. ASSUME n = 10, Running(q), s \notin raced' PROVE slots'[s] = Nil
  <2>1. slots[s] = Nil /\ s \in Slot
    BY <1>1, <1>2, <1>6, MapMoved DEF Finds
  <2>2. Head(todo[q]) = "insert" /\ h[q].reads # 0 /\ readers[q] # 0
    <3>1. Types /\ Typed(h)
      BY BaseTypes
    <3>2. Head(todo[q]) = "insert" /\ Reads(h[q]) /\ Agrees(q, h[q])
      BY <1>6, <3>1, HeadModes, RunningTyped DEF Told
    <3>3. QED BY <3>2 DEF Reads, Agrees
  <2>3. CASE Insert(r) /\ SlotOf(r) = s
    BY <1>6, <2>2, <2>3 DEF Insert, At
  <2>4. CASE WriteLearnedValue(r)
    <3>1. Owns(h[r]) /\ Agrees(r, h[r])
      <4>1. Types /\ Typed(h) /\ Running(r)
        BY BaseTypes DEF Moved
      <4>2. QED BY <2>4, <4>1, MapMoved, RunningTyped
    <3>2. NoReaders
      BY <3>1 DEF Owns, Agrees
    <3>3. QED BY <2>2, <3>2 DEF NoReaders
  <2>5. QED BY <2>1, <2>3, <2>4, MapMoved
<1>7. ASSUME call[q].op \in Proposing, n \in 7..9 PROVE state'[ptr[q]].command # Nil
  <2>1. Enters(call[q].op) /\ n \in 3..9
    BY <1>7 DEF Enters
  <2>2. ptr[q] \in Call /\ state[ptr[q]].command # Nil
    BY <1>1, <1>7, <2>1 DEF Finds, Found
  <2>3. QED BY <2>2, CommandsStay
<1>8. n \in 2..9 => n # 0
  OBVIOUS
<1>9. QED BY <1>1, <1>2, <1>3, <1>4, <1>5, <1>6, <1>7, <1>8 DEF Finds, Running

(* The call that makes the step.                                           *)
LEMMA MoverFinds ==
  ASSUME NEW h, Base(h), Maps(h), NEW r \in Call, NEW c, NEW g, Moved(h, g, r, c)
  PROVE  Finds(g, r)'
<1> DEFINE s == SlotOf(r)
           n == h[r].stage
           m == c.stage
           o == call[r].op
<1>1. /\ g[r] = c /\ call'[r].op = o /\ Finds(h, r) /\ Kinds(h, r, c) /\ Running(r)
      /\ h[r] \in Mode /\ n \in 0..10
  BY MovedModes, MovedCall DEF Base, Moved, Maps, Typed, Mode
<1>2. n # 0 => s \in Slot /\ call'[r] = call[r] /\ SlotOf(r)' = s
  BY SlotsStay, BaseTypes
<1>3. ASSUME n \in 3..9, Enters(o), ~Take(r) PROVE slots'[s] # Nil /\ Found(r)'
  <2>1. ptr'[r] = ptr[r]
    BY <1>3, Frames DEF Moved
  <2>2. QED BY <1>3, <2>1, FoundStays
<1>4. n = m /\ n \in 0..1 => Finds(g, r)'
  BY <1>1 DEF Finds
<1>5. CASE DrawSlot(r) /\ From(h, r, c, 0, 1)
  BY <1>1, <1>5 DEF Finds, From
<1>6. CASE Check(r) /\ IF slots[s] = Nil THEN From(h, r, c, 1, 10) ELSE From(h, r, c, 1, 2)
  <2>1. slots' = slots /\ n = 1
    BY <1>6 DEF Check, memory, From
  <2>2. QED BY <1>1, <1>2, <1>6, <2>1 DEF Finds, From
<1>7. CASE Insert(r) /\ From(h, r, c, 10, 2)
  <2>1. slots'[s] # Nil /\ n # 0 /\ m = 2
    BY <1>7, MapMoved, Sizes DEF From
  <2>2. QED BY <1>1, <1>2, <2>1 DEF Finds
<1>8. CASE Take(r) /\ Enters(o) /\ From(h, r, c, 2, 3)
  <2>1. n = 2 /\ m = 3 /\ s \in Slot /\ slots[s] # Nil /\ slots[s] \in Call
    <3>1. n = 2 /\ m = 3
      BY <1>8 DEF From
    <3>2. QED BY <1>1, <1>2, <1>8, <3>1 DEF Finds, Base, TypeOK
  <2>2. ptr'[r] = slots[s] /\ slots' = slots /\ SlotOf(r)' = s
    BY <1>2, <1>8, <2>1 DEF Take, memory, Base, TypeOK
  <2>3. PICK e \in Call : e = slots[s]
    BY <2>1
  <2>4. Holds(s, e)'
    <3>1. Holds(s, e)
      BY <2>1, <2>3 DEF Maps, SlotMap
    <3>2. s # 0
      BY <2>1, Sizes
    <3>3. QED BY <2>2, <3>1, <3>2, HoldsStays
  <2>5. Found(r)'
    BY <2>2, <2>3, <2>4 DEF Found
  <2>6. QED BY <1>1, <2>1, <2>2, <2>5 DEF Finds
<1>9. CASE /\ ~Take(r) /\ Enters(o) /\ n \in 3..9 /\ m \in 3..9
           /\ o \in Proposing /\ m \in 7..9 => n \in 7..9 \/ (SetField(r) /\ Head(todo[r]) = "setCommand")
  <2>1. slots'[s] # Nil /\ Found(r)' /\ n # 0 /\ m # 10
    BY <1>3, <1>9
  <2>2. ptr[r] \in Call /\ ptr'[r] = ptr[r]
    BY <1>1, <1>9, Frames DEF Finds, Found, Moved
  <2>3. ASSUME o \in Proposing, m \in 7..9 PROVE state'[ptr[r]].command # Nil
    <3>1. CASE n \in 7..9
      BY <1>1, <2>2, <2>3, <3>1, CommandsStay DEF Finds
    <3>2. CASE SetField(r) /\ Head(todo[r]) = "setCommand"
      <4>1. state'[ptr[r]] = [promised |-> state[ptr[r]].promised,
                              accepted |-> state[ptr[r]].accepted, command |-> r]
        BY <2>2, <3>2, EntriesMoved
      <4>2. QED BY <4>1, Sizes
    <3>3. QED BY <1>9, <2>3, <3>1, <3>2
  <2>4. QED BY <1>1, <1>2, <2>1, <2>2, <2>3 DEF Finds
<1>10. CASE WriteLearnedValue(r) /\ o = "SynchronizeLog" /\ From(h, r, c, 1, 9)
  BY <1>1, <1>10 DEF Finds, From, Enters, Proposing
<1>11. CASE /\ m = n
            /\ UNCHANGED <<call, result, ptr, slots, state, highestSlotID, overtaken, history>>
  BY <1>1, <1>11 DEF Finds, Found, Holds, SlotOf, history
<1>12. CASE Copy(r) /\ From(h, r, c, 0, 0)
  BY <1>4, <1>12 DEF From
<1>13. CASE \/ Pass(r) /\ o \in {"Prepare", "Accept"} /\ From(h, r, c, 3, 4)
            \/ /\ SetField(r) /\ Head(todo[r]) = "setPromise"
               /\ \/ o \in {"Prepare", "Accept"} /\ From(h, r, c, 4, 5)
                  \/ o \in Proposing /\ From(h, r, c, 3, 5)
            \/ /\ SetField(r) /\ Writes(o)
               /\ \/ Head(todo[r]) = "setAccepted" /\ From(h, r, c, 5, 6)
                  \/ Head(todo[r]) = "setCommand" /\ From(h, r, c, 6, 7)
  <2>1. ~Take(r)
    BY <1>13 DEF Pass, SetField, Take, At
  <2>2. Enters(o)
    BY <1>13 DEF Enters, Writes, Proposing
  <2>3. n \in 3..9 /\ m \in 3..9
    BY <1>13 DEF From
  <2>4. m \in 7..9 => SetField(r) /\ Head(todo[r]) = "setCommand"
    BY <1>13 DEF From
  <2>5. QED BY <1>9, <2>1, <2>2, <2>3, <2>4
<1>14. CASE \/ Reply(r) /\ o = "Learn" /\ From(h, r, c, 3, 9)
            \/ Reply(r) /\ o = "Prepare" /\ From(h, r, c, 5, 9)
            \/ Reply(r) /\ o = "Accept" /\ From(h, r, c, 7, 9)
            \/ Raise(r) /\ o = "Accept" /\ From(h, r, c, 7, 7)
            \/ Raise(r) /\ o \in Proposing /\ From(h, r, c, 7, 8)
            \/ /\ Ask(r) /\ Head(todo[r]) = "count"
               /\ o \in Proposing /\ From(h, r, c, 8, 9)
  <2>1. ~Take(r)
    BY <1>14 DEF Reply, Raise, Ask, Take, At
  <2>2. Enters(o)
    BY <1>14 DEF Enters
  <2>3. n \in 3..9 /\ m \in 3..9
    BY <1>14 DEF From
  <2>4. o \in Proposing => n \in 7..9
    BY <1>14 DEF From, Proposing
  <2>5. QED BY <1>9, <2>1, <2>2, <2>3, <2>4
<1>15. QED
  BY <1>1, <1>5, <1>6, <1>7, <1>8, <1>10, <1>11, <1>12, <1>13, <1>14 DEF Kinds

LEMMA MapsMoved ==
  ASSUME NEW h, Base(h), Maps(h), NEW r \in Call, NEW c, NEW g, Moved(h, g, r, c)
  PROVE  Maps(g)'
BY SlotMapMoved, OthersFind, MoverFinds DEF Maps

(* A call that begins has not looked for its slot, and is not in the map.  *)
LEMMA MapsBegin ==
  ASSUME NEW h, Base(h), Maps(h), NEW r \in Call, Begins(r),
         NEW c, c = Start(call'[r].op), NEW g, g = [h EXCEPT ![r] = c]
  PROVE  Maps(g)'
<1>1. /\ call[r] = NoCall /\ \A q \in Call \ {r} : call'[q] = call[q] /\ todo'[q] = todo[q]
      /\ UNCHANGED <<ptr, slots, state, raced>>
  BY BeginTyped DEF memory
<1>2. g[r] = c /\ c.stage \in 0..1 /\ \A q \in Call \ {r} : g[q] = h[q]
  BY DEF Base, Typed, Start, In
<1>3. SlotOf(r) = 0
  BY <1>1 DEF NoCall, SlotOf
<1>4. ASSUME NEW s \in Slot, NEW e \in Call, Holds(s, e) PROVE Holds(s, e)' /\ call'[e] = call[e]
  <2>1. e # r
    BY <1>3, <1>4, Sizes DEF Holds
  <2>2. QED BY <1>1, <1>4, <2>1 DEF Holds, SlotOf
<1>5. SlotMap'
  <2>1. \A s \in Slot : slots[s] \in Call \cup {Nil}
    BY DEF Base, TypeOK
  <2>2. ASSUME NEW s \in Slot, slots'[s] # Nil PROVE Holds(s, slots[s])'
    <3>1. PICK e \in Call : e = slots[s]
      BY <1>1, <2>1, <2>2
    <3>2. Holds(s, e)'
      BY <1>1, <1>4, <2>2, <3>1 DEF Maps, SlotMap
    <3>3. QED BY <1>1, <3>1, <3>2 DEF Holds
  <2>3. QED BY <2>2 DEF SlotMap
<1>6. ASSUME NEW q \in Call, q # r PROVE Finds(g, q)'
  <2> DEFINE s == SlotOf(q)
             n == h[q].stage
  <2>1. Finds(h, q) /\ g[q] = h[q] /\ call'[q] = call[q] /\ todo'[q] = todo[q] /\ SlotOf(q)' = s
    BY <1>1, <1>2, <1>6 DEF Maps, SlotOf
  <2>2. n # 0 => s \in Slot
    BY BaseTypes
  <2>3. ASSUME Enters(call[q].op), n \in 3..9 PROVE Found(q)'
    <3>1. Found(q) /\ slots[s] # Nil /\ s \in Slot
      <4>1. n \in 2..9 /\ n # 0
        BY <2>3
      <4>2. QED BY <2>1, <2>2, <2>3, <4>1 DEF Finds
    <3>2. slots[s] \in Call /\ Holds(s, slots[s])
      BY <3>1 DEF Base, TypeOK, Maps, SlotMap
    <3>3. call'[slots[s]] = call[slots[s]]
      BY <1>4, <3>1, <3>2
    <3>4. Holds(s, ptr[q])'
      BY <1>1, <1>4, <2>1, <3>1 DEF Found
    <3>5. QED BY <1>1, <2>1, <3>1, <3>3, <3>4 DEF Found
  <2>4. QED BY <1>1, <2>1, <2>3 DEF Finds, Running
<1>7. Finds(g, r)'
  BY <1>2 DEF Finds
<1>8. QED BY <1>5, <1>6, <1>7 DEF Maps

LEMMA MapsRest ==
  ASSUME NEW h, Base(h), Maps(h), Rest
  PROVE  Maps(h)'
<1>1. UNCHANGED <<call, todo, ptr, slots, state, raced>>
  BY DEF Rest, memory, history
<1>2. QED BY <1>1 DEF Maps, SlotMap, Finds, Found, Holds, SlotOf, Running

LEMMA MapsInit ==
  ASSUME Init
  PROVE  Maps(Idle)
<1>1. \A r \in Call : Idle[r].stage = 0
  BY DEF Idle, In
<1>2. SlotMap
  BY DEF Init, SlotMap
<1>3. QED BY <1>1, <1>2 DEF Maps, Finds

MapsInv == \E h : Base(h) /\ Maps(h)

LEMMA MapsNext ==
  ASSUME NEW h, Base(h), Maps(h), NEW g, Evolves(h, g)
  PROVE  Maps(g)'
<1>1. ASSUME NEW r \in Call, Begins(r), g = [h EXCEPT ![r] = Start(call'[r].op)]
      PROVE  Maps(g)'
  <2>1. PICK c : c = Start(call'[r].op)
    OBVIOUS
  <2>2. g = [h EXCEPT ![r] = c]
    BY <1>1, <2>1
  <2>3. QED BY <1>1, <2>1, <2>2, MapsBegin
<1>2. QED BY <1>1, MapsMoved, MapsRest DEF Evolves

LEMMA MapsListed ==
  ASSUME NEW h, Base(h), Maps(h)
  PROVE  SuccessesStayListed
<1> SUFFICES ASSUME NEW r \in Call, call[r].op \in Proposing, result[r] = "ok",
                    SlotOf(r) \notin raced
             PROVE  slots[SlotOf(r)] # Nil /\ state[slots[SlotOf(r)]].command # Nil
  BY DEF SuccessesStayListed
<1>1. h[r].stage = 9 /\ Enters(call[r].op)
  BY DEF Base, Named, Enters
<1>2. /\ slots[SlotOf(r)] # Nil /\ Found(r) /\ state[ptr[r]].command # Nil
  BY <1>1 DEF Maps, Finds
<1>3. SlotOf(r) \in Slot
  BY <1>1, BaseTypes
<1>4. Holds(SlotOf(r), slots[SlotOf(r)])
  BY <1>2, <1>3 DEF Maps, SlotMap
<1>5. QED BY <1>2, <1>4 DEF Found, Holds

(* A proposal that was answered with success leaves a command in the entry *)
(* of its slot, for good: no Prepare, Accept, Learn or learned value that  *)
(* comes to the slot at any time can take it away, unless two calls        *)
(* entered the slot in the map at once.                                    *)
THEOREM SuccessesKeepACommand == Spec => []SuccessesStayListed
<1>1. Init => MapsInv
  BY InitBase, MapsInit DEF MapsInv
<1>2. MapsInv /\ [Next]_vars => MapsInv'
  <2> SUFFICES ASSUME MapsInv, [Next]_vars PROVE MapsInv'
    OBVIOUS
  <2>1. PICK h : Base(h) /\ Maps(h)
    BY DEF MapsInv
  <2>2. PICK g : Evolves(h, g) /\ Base(g)'
    BY <2>1, NextBase
  <2>3. QED BY <2>1, <2>2, MapsNext DEF MapsInv
<1>3. MapsInv => SuccessesStayListed
  BY MapsListed DEF MapsInv
<1>4. QED BY <1>1, <1>2, <1>3, PTL DEF Spec

-----------------------------------------------------------------------------
(* The slots of Sets and Deletes.                                          *)

(* One of two that run at once was overtaken.  One that has raised         *)
(* highestSlotID is below the next slot.  So one that succeeded shares its *)
(* slot with no other that succeeded or still may.                         *)
Passed(h) == \A r \in Call :
  call[r].op \in WaitedFor /\ h[r].stage \in 8..9 /\ ~lowered => SlotOf(r) <= highestSlotID

Overtakes == \A r, q \in Call :
  /\ r # q /\ call[r].op \in WaitedFor /\ call[q].op \in WaitedFor
  /\ Running(r) /\ Running(q)
  => r \in overtaken \/ q \in overtaken

Apart == \A r, q \in Call :
  /\ r # q /\ call[r].op \in WaitedFor /\ call[q].op \in WaitedFor
  /\ r \notin overtaken /\ q \notin overtaken /\ ~lowered
  /\ result[r] = "ok" /\ (result[q] = "ok" \/ Running(q))
  /\ SlotOf(q) # 0
  => SlotOf(r) # SlotOf(q)

OwnSlots(h) == Passed(h) /\ Overtakes /\ Apart

LEMMA PassedMoved ==
  ASSUME NEW h, Base(h), OwnSlots(h), NEW r \in Call, NEW c, NEW g, Moved(h, g, r, c)
  PROVE  Passed(g)'
<1> SUFFICES ASSUME NEW q \in Call, call'[q].op \in WaitedFor, g[q].stage \in 8..9, ~lowered'
             PROVE  SlotOf(q)' <= highestSlotID'
  BY DEF Passed
<1>1. /\ call'[q].op = call[q].op /\ highestSlotID \in Nat /\ highestSlotID' \in Nat
      /\ ~(highestSlotID' < highestSlotID) /\ ~lowered
  BY MovedCall, MovedTop, BaseTypes
<1>2. CASE h[q].stage \in 8..9
  <2>1. SlotOf(q)' = SlotOf(q) /\ SlotOf(q) <= highestSlotID /\ SlotOf(q) \in Nat
    BY <1>1, <1>2, SlotsStay, BaseTypes DEF OwnSlots, Passed
  <2>2. QED BY <1>1, <2>1
<1>3. CASE h[q].stage \notin 8..9
  <2>1. q = r /\ c.stage \in 8..9
    BY <1>3, MovedModes DEF Base
  <2>2. call[r].op \in {"Set", "Delete"}
    BY <1>1, <2>1, OpNames
  <2>3. Raise(r) /\ Head(todo[r]) = "raiseMax" /\ h[r].stage = 7
    BY <1>3, <2>1, <2>2 DEF Moved, Kinds, From
  <2>4. highestSlotID' = Higher(SlotOf(r)) /\ SlotOf(r)' = SlotOf(r) /\ SlotOf(r) \in Nat
    BY <2>3, SlotsStay, BaseTypes DEF Raise, At, SetTop
  <2>5. QED BY <1>1, <2>1, <2>4 DEF Higher
<1>4. QED BY <1>2, <1>3

(* A Set or Delete is answered while it runs.                              *)
LEMMA AnswerMoved ==
  ASSUME NEW h, Base(h), NEW r \in Call, NEW c, NEW g, Moved(h, g, r, c),
         NEW q \in Call
  PROVE  /\ Running(q)' => Running(q)
         /\ result'[q] = "ok" => result[q] = "ok" \/ Running(q)
         /\ call'[q].op = call[q].op
         /\ overtaken' = overtaken
         /\ q # r => result'[q] = result[q]
<1>1. Running(r) /\ Steps(r) /\ \A p \in Call \ {r} : todo'[p] = todo[p]
  BY DEF Moved
<1>2. result' = result \/ \E v : Return(r, v)
  BY <1>1, Frames DEF Reply, Ask, Copy
<1>3. q # r => result'[q] = result[q]
  BY <1>2 DEF Return, Base, TypeOK
<1>4. QED BY <1>1, <1>3, MovedCall, Frames DEF Running

LEMMA ApartMoved ==
  ASSUME NEW h, Base(h), OwnSlots(h), NEW r \in Call, NEW c, NEW g, Moved(h, g, r, c)
  PROVE  Apart'
<1> SUFFICES ASSUME NEW p \in Call, NEW q \in Call, p # q,
                    call'[p].op \in WaitedFor, call'[q].op \in WaitedFor,
                    p \notin overtaken', q \notin overtaken', ~lowered',
                    result'[p] = "ok", result'[q] = "ok" \/ Running(q)', SlotOf(q)' # 0
             PROVE  SlotOf(p)' # SlotOf(q)'
  BY DEF Apart
<1>1. /\ call[p].op \in WaitedFor /\ call[q].op \in WaitedFor
      /\ p \notin overtaken /\ q \notin overtaken /\ ~lowered
      /\ result[p] = "ok" \/ Running(p)
      /\ result[q] = "ok" \/ Running(q)
  BY AnswerMoved, MovedTop
<1>2. ~(Running(p) /\ Running(q))
  BY <1>1 DEF OwnSlots, Overtakes
<1>3. CASE DrawSlot(r) /\ q = r
  <2>1. result[p] = "ok"
    <3>1. Running(q)
      BY <1>3 DEF Moved
    <3>2. QED BY <1>1, <1>2, <3>1
  <2>2. h[p].stage = 9
    BY <2>1 DEF Base, Named
  <2>3. SlotOf(p) <= highestSlotID /\ SlotOf(p)' = SlotOf(p) /\ SlotOf(p) \in Nat
    <3>1. h[p].stage \in 8..9
      BY <2>2
    <3>2. QED BY <1>1, <2>2, <3>1, SlotsStay, BaseTypes DEF OwnSlots, Passed
  <2>4. SlotOf(q)' = highestSlotID + 1 /\ highestSlotID \in Nat
    BY <1>3, MovedCall, BaseTypes DEF SlotOf
  <2>5. QED BY <2>3, <2>4
<1>4. CASE DrawSlot(r) /\ p = r
  <2>1. result'[p] = result[p]
    BY <1>4 DEF DrawSlot
  <2>2. h[p].stage = 9
    BY <2>1 DEF Base, Named
  <2>3. h[p].stage = 0
    BY <1>4, MovedCall
  <2>4. QED BY <2>2, <2>3
<1>5. CASE ~DrawSlot(r) \/ r \notin {p, q}
  <2>1. SlotOf(p)' = SlotOf(p) /\ SlotOf(q)' = SlotOf(q)
    BY <1>5, MovedCall DEF SlotOf
  <2>2. CASE result[p] = "ok"
    BY <1>1, <2>1, <2>2 DEF OwnSlots, Apart
  <2>3. CASE result[p] # "ok"
    <3>1. Running(p) /\ result[q] = "ok"
      BY <1>1, <1>2, <2>3
    <3>2. p = r /\ result' # result
      BY <2>3, AnswerMoved
    <3>3. h[p].stage # 0
      <4>1. Head(todo[r]) # "copy"
        BY <2>3, <3>2 DEF Moved, Kinds, Copy, Return, Base, TypeOK, DrawSlot, Check, Insert, Take,
             Pass, SetField, WriteLearnedValue, Reply, Raise, Ask, At, Works
      <4>2. QED BY <3>2, <4>1, <1>5 DEF Moved, Kinds, From, Copy, At
    <3>4. SlotOf(p) # 0
      BY <3>3 DEF Base, Named
    <3>5. QED BY <1>1, <2>1, <3>1, <3>4 DEF OwnSlots, Apart
  <2>4. QED BY <2>2, <2>3
<1>6. QED BY <1>3, <1>4, <1>5

LEMMA OwnSlotsMoved ==
  ASSUME NEW h, Base(h), OwnSlots(h), NEW r \in Call, NEW c, NEW g, Moved(h, g, r, c)
  PROVE  OwnSlots(g)'
<1>1. Overtakes'
  BY AnswerMoved DEF OwnSlots, Overtakes
<1>2. QED BY <1>1, PassedMoved, ApartMoved DEF OwnSlots

(* A Set or Delete that begins overtakes the ones that run.                *)
LEMMA OwnSlotsBegin ==
  ASSUME NEW h, Base(h), OwnSlots(h), NEW r \in Call, Begins(r),
         NEW c, c = Start(call'[r].op), NEW g, g = [h EXCEPT ![r] = c]
  PROVE  OwnSlots(g)'
<1>1. /\ call[r] = NoCall /\ ~Running(r) /\ call'[r].op \in Op
      /\ \A q \in Call \ {r} : call'[q] = call[q] /\ todo'[q] = todo[q]
      /\ call'[r].op \notin OfSlot => call'[r].slot = 0
      /\ call'[r].op \in OfSlot => PeerCalls(r)
      /\ UNCHANGED <<result, highestSlotID, lowered>>
  BY BeginTyped DEF memory
<1>2. g[r] = c /\ c.stage \in 0..1 /\ \A q \in Call \ {r} : g[q] = h[q]
  BY DEF Base, Typed, Start, In
<1>3. \A q \in Call \ {r} : /\ call'[q] = call[q] /\ SlotOf(q)' = SlotOf(q)
                           /\ Running(q)' <=> Running(q)
  BY <1>1 DEF SlotOf, Running
<1>4. result[r] # "ok" /\ (call'[r].op \in WaitedFor => SlotOf(r)' = 0)
  BY <1>1, OpNames DEF Base, Named, NoCall, SlotOf
<1>5. overtaken \subseteq overtaken' /\ overtaken \subseteq Call
  BY DEF Begins, PeerCalls, UserCalls, Base, TypeOK
<1>6. call'[r].op \in WaitedFor =>
        \A q \in Call : Running(q) /\ call[q].op \in WaitedFor => q \in overtaken'
  <2> SUFFICES ASSUME call'[r].op \in WaitedFor
               PROVE  \A q \in Call : Running(q) /\ call[q].op \in WaitedFor => q \in overtaken'
    OBVIOUS
  <2>1. UserCalls(r)
    <3>1. ~PeerCalls(r)
      <4>1. PeerCalls(r) => call'[r].op \in OfSlot
        BY <1>1 DEF PeerCalls, Base, TypeOK
      <4>2. QED BY <4>1, OpNames
    <3>2. QED BY <3>1 DEF Begins
  <2>2. PICK o \in Op \ OfSlot :
          /\ overtaken' = overtaken \cup {q \in StillWaitedFor : o \in WaitedFor}
          /\ call' = [call EXCEPT ![r].op = o]
    BY <2>1 DEF UserCalls
  <2>3. o = call'[r].op
    BY <2>2 DEF Base, TypeOK
  <2>4. QED BY <2>2, <2>3 DEF StillWaitedFor
<1>7. Passed(g)'
  <2> SUFFICES ASSUME NEW q \in Call, call'[q].op \in WaitedFor, g[q].stage \in 8..9, ~lowered'
               PROVE  SlotOf(q)' <= highestSlotID'
    BY DEF Passed
  <2>1. q # r
    BY <1>2
  <2>2. SlotOf(q) <= highestSlotID
    BY <1>1, <1>2, <1>3, <2>1 DEF OwnSlots, Passed
  <2>3. QED BY <1>1, <2>1, <2>2 DEF SlotOf
<1>8. Overtakes'
  <2> SUFFICES ASSUME NEW p \in Call, NEW q \in Call, p # q, call'[p].op \in WaitedFor,
                      call'[q].op \in WaitedFor, Running(p)', Running(q)'
               PROVE  p \in overtaken' \/ q \in overtaken'
    BY DEF Overtakes
  <2>1. CASE p = r
    BY <1>1, <1>6, <2>1 DEF Running
  <2>2. CASE q = r
    BY <1>1, <1>6, <2>2 DEF Running
  <2>3. CASE p # r /\ q # r
    <3>1. /\ call[p].op \in WaitedFor /\ Running(p)
          /\ call[q].op \in WaitedFor /\ Running(q)
      BY <1>1, <2>3 DEF Running
    <3>2. p \in overtaken \/ q \in overtaken
      BY <3>1 DEF OwnSlots, Overtakes
    <3>3. QED BY <1>5, <3>2
  <2>4. QED BY <2>1, <2>2, <2>3
<1>9. Apart'
  <2> SUFFICES ASSUME NEW p \in Call, NEW q \in Call, p # q,
                      call'[p].op \in WaitedFor, call'[q].op \in WaitedFor,
                      p \notin overtaken', q \notin overtaken', ~lowered',
                      result'[p] = "ok", result'[q] = "ok" \/ Running(q)', SlotOf(q)' # 0
               PROVE  SlotOf(p)' # SlotOf(q)'
    BY DEF Apart
  <2>1. p # r /\ q # r
    BY <1>1, <1>4
  <2>2. p \notin overtaken /\ q \notin overtaken /\ ~lowered
    BY <1>1, <1>5
  <2>3. /\ call[p].op \in WaitedFor /\ call[q].op \in WaitedFor /\ result[p] = "ok"
        /\ result[q] = "ok" \/ Running(q)
        /\ SlotOf(p)' = SlotOf(p) /\ SlotOf(q)' = SlotOf(q)
    BY <1>1, <2>1 DEF SlotOf, Running
  <2>4. SlotOf(p) # SlotOf(q)
    BY <2>2, <2>3 DEF OwnSlots, Apart
  <2>5. QED BY <2>3, <2>4
<1>10. QED BY <1>7, <1>8, <1>9 DEF OwnSlots

OwnSlotsInv == \E h : Base(h) /\ OwnSlots(h)

LEMMA OwnSlotsNext ==
  ASSUME NEW h, Base(h), OwnSlots(h), NEW g, Evolves(h, g)
  PROVE  OwnSlots(g)'
<1>1. ASSUME NEW r \in Call, Begins(r), g = [h EXCEPT ![r] = Start(call'[r].op)]
      PROVE  OwnSlots(g)'
  <2>1. PICK c : c = Start(call'[r].op)
    OBVIOUS
  <2>2. g = [h EXCEPT ![r] = c]
    BY <1>1, <2>1
  <2>3. QED BY <1>1, <2>1, <2>2, OwnSlotsBegin
<1>2. ASSUME Rest PROVE OwnSlots(h)'
  <2>1. UNCHANGED <<call, todo, result, highestSlotID, lowered, overtaken>>
    BY <1>2 DEF Rest, memory, history
  <2>2. QED BY <2>1 DEF OwnSlots, Passed, Overtakes, Apart, SlotOf, Running
<1>3. QED BY <1>1, <1>2, OwnSlotsMoved DEF Evolves

(* No two Sets or Deletes that were answered with success went to the same *)
(* slot, where one would have replaced the other: a slot is drawn in one   *)
(* critical section and highestSlotID raised in another, and in between    *)
(* nobody else draws unless he came while the call ran.                    *)
THEOREM SuccessesDoNotShareSlots == Spec => []SuccessesHaveOwnSlots
<1>1. Init => OwnSlotsInv
  <2>1. Init => OwnSlots(Idle)
    BY DEF Init, OwnSlots, Passed, Overtakes, Apart, Running, Idle, In, SlotOf, NoCall
  <2>2. QED BY <2>1, InitBase DEF OwnSlotsInv
<1>2. OwnSlotsInv /\ [Next]_vars => OwnSlotsInv'
  <2> SUFFICES ASSUME OwnSlotsInv, [Next]_vars PROVE OwnSlotsInv'
    OBVIOUS
  <2>1. PICK h : Base(h) /\ OwnSlots(h)
    BY DEF OwnSlotsInv
  <2>2. PICK g : Evolves(h, g) /\ Base(g)'
    BY <2>1, NextBase
  <2>3. QED BY <2>1, <2>2, OwnSlotsNext DEF OwnSlotsInv
<1>3. OwnSlotsInv => SuccessesHaveOwnSlots
  <2> SUFFICES ASSUME NEW h, Base(h), OwnSlots(h) PROVE SuccessesHaveOwnSlots
    BY DEF OwnSlotsInv
  <2>1. ASSUME NEW q \in Call, result[q] = "ok" PROVE SlotOf(q) # 0
    BY <2>1 DEF Base, Named
  <2>2. QED BY <2>1 DEF OwnSlots, Apart, SuccessesHaveOwnSlots
<1>4. QED BY <1>1, <1>2, <1>3, PTL DEF Spec

-----------------------------------------------------------------------------
(* What is in the entries.                                                 *)

(* No step has yet set anything in the entry named for a call that has no  *)
(* slot, or that still has to write what it learned.                       *)
Unused(h, e) == h[e].stage = 0 \/ (call[e].op = "SynchronizeLog" /\ h[e].stage = 1)
Fresh(h) == \A e \in Call : Unused(h, e) => state[e] = ZeroState

(* Calls that run at once in a slot of no rivals have one ID.              *)
OneID == \A r, q \in Call :
  /\ Running(r) /\ Running(q) /\ SlotOf(r) = SlotOf(q) /\ SlotOf(r) \in Slot \ rivals
  /\ call[r].id # 0 /\ call[q].id # 0
  => call[r].id = call[q].id

(* The slot has seen nothing but Prepare, Accept and Learn.                *)
Quiet(s) == \A q \in Call :
  SlotOf(q) = s => call[q].op \notin Proposing /\ call[q].op # "SynchronizeLog"

(* What a call knows of its entry: what it has tested, what it has set, and *)
(* that its promise or acceptance is not lost.                             *)
Knows(h, r) ==
  LET b == call[r].id
      e == state[ptr[r]]
      n == h[r].stage
  IN  /\ Writes(call[r].op) /\ n = 5 => e.promised = b
      /\ Writes(call[r].op) /\ n = 6 => e.promised = b /\ e.accepted = b
      /\ call[r].op = "Prepare" /\ n = 4 => e.accepted <= b
      /\ call[r].op \in {"Prepare", "Accept"} =>
           /\ n = 4 => e.promised <= b
           /\ n \in 5..9 /\ Quiet(SlotOf(r)) => e.promised >= b

(* An entry is whole, or somebody is at it who will make it so.            *)
Ordered(h, e) ==
  \/ state[e].accepted <= state[e].promised
  \/ \E r \in Call : ptr[r] = e /\ Writes(call[r].op) /\ h[r].stage = 5
Matched(h, e) ==
  \/ state[e].accepted = 0
  \/ state[e].command \in Call /\ call[state[e].command].id = state[e].accepted
  \/ \E r \in Call : ptr[r] = e /\ Writes(call[r].op) /\ h[r].stage = 6

Entries(h) ==
  /\ Fresh(h) /\ OneID
  /\ \A r \in Call : SlotOf(r) \in Slot \ rivals => Knows(h, r)
  /\ \A e \in Call : SlotOf(e) \in Slot \ rivals => Ordered(h, e) /\ Matched(h, e)

(* The kinds of the operations, and what of an entry is a number.          *)
LEMMA Writers ==
  /\ \A o : Writes(o) => Enters(o) /\ o # "Learn" /\ o # "SynchronizeLog"
  /\ \A o \in {"Prepare", "Accept"} : Enters(o) /\ o # "Learn" /\ o # "SynchronizeLog"
                                      /\ o \notin Proposing
  /\ \A o \in Proposing : Writes(o) /\ Enters(o)
  /\ Writes("Accept") /\ ~Writes("Prepare")
  /\ ~Enters("SynchronizeLog")
BY DEF Writes, Enters, Proposing

LEMMA EntryTypes ==
  ASSUME NEW h, Base(h), NEW e \in Call
  PROVE  /\ state[e].promised \in Nat /\ state[e].accepted \in Nat
         /\ state[e].command \in Call \cup {Nil} /\ state[e] \in Entry
<1>1. state[e] \in Entry
  BY DEF Base, TypeOK
<1>2. \A n \in {0} \cup Id : n \in Nat
  BY HandlersAssumption DEF HandlersAssumption
<1>3. QED BY <1>1, <1>2 DEF Entry

(* The entry a call has found is one of its slot and not unused.           *)
LEMMA Target ==
  ASSUME NEW h, Base(h), Maps(h), Fresh(h), NEW r \in Call,
         Enters(call[r].op), h[r].stage \in 3..9
  PROVE  /\ ptr[r] \in Call /\ SlotOf(ptr[r]) = SlotOf(r) /\ SlotOf(r) \in Slot
         /\ ~Unused(h, ptr[r])
<1>1. Found(r) /\ h[r].stage # 0
  BY DEF Maps, Finds
<1>2. /\ ptr[r] \in Call /\ SlotOf(ptr[r]) = SlotOf(r) /\ SlotOf(r) \in Slot
      /\ call[ptr[r]].op = "SynchronizeLog" => state[ptr[r]].command # Nil
  BY <1>1, BaseTypes DEF Found, Holds
<1>3. SlotOf(ptr[r]) # 0
  BY <1>2, Sizes
<1>4. h[ptr[r]].stage # 0
  BY <1>2, <1>3 DEF Base, Named
<1>5. ZeroState.command = Nil
  BY DEF ZeroState
<1>6. QED BY <1>2, <1>4, <1>5 DEF Unused, Fresh

(* A step that sets a field.                                               *)
LEMMA Setter ==
  ASSUME NEW h, Base(h), Maps(h), Fresh(h), NEW r \in Call, NEW c, NEW g, Moved(h, g, r, c),
         SetField(r)
  PROVE  /\ ptr[r] \in Call /\ SlotOf(ptr[r]) = SlotOf(r) /\ SlotOf(r) \in Slot
         /\ ~Unused(h, ptr[r]) /\ call' = call /\ ptr' = ptr /\ call[r].id # 0 /\ Running(r)
         /\ \/ /\ Head(todo[r]) = "setPromise" /\ call[r].op \in {"Prepare", "Accept"}
               /\ h[r].stage = 4 /\ c.stage = 5
            \/ /\ Head(todo[r]) = "setPromise" /\ call[r].op \in Proposing
               /\ h[r].stage = 3 /\ c.stage = 5
            \/ /\ Head(todo[r]) = "setAccepted" /\ Writes(call[r].op)
               /\ h[r].stage = 5 /\ c.stage = 6
            \/ /\ Head(todo[r]) = "setCommand" /\ Writes(call[r].op)
               /\ h[r].stage = 6 /\ c.stage = 7
<1>1. Head(todo[r]) \in {"setPromise", "setAccepted", "setCommand"} /\ Running(r)
  BY DEF SetField, At, Moved
<1>2. Kinds(h, r, c)
  BY DEF Moved
<1>3. /\ \/ /\ Head(todo[r]) = "setPromise" /\ call[r].op \in {"Prepare", "Accept"}
            /\ h[r].stage = 4 /\ c.stage = 5
         \/ /\ Head(todo[r]) = "setPromise" /\ call[r].op \in Proposing
            /\ h[r].stage = 3 /\ c.stage = 5
         \/ /\ Head(todo[r]) = "setAccepted" /\ Writes(call[r].op)
            /\ h[r].stage = 5 /\ c.stage = 6
         \/ /\ Head(todo[r]) = "setCommand" /\ Writes(call[r].op)
            /\ h[r].stage = 6 /\ c.stage = 7
  BY <1>1, <1>2 DEF Kinds, From, DrawSlot, Check, Insert, Take, Pass, WriteLearnedValue, Reply,
     Raise, Ask, Copy, At, Works
<1>4. Enters(call[r].op) /\ h[r].stage \in 3..9 /\ call[r].op # "Learn"
  BY <1>3, Writers
<1>5. call' = call /\ ptr' = ptr
  BY DEF SetField
<1>6. call[r].id # 0
  BY <1>4 DEF Base, Named
<1>7. QED BY <1>1, <1>3, <1>4, <1>5, <1>6, Target

(* Calls that run with a slot of no rivals stay so, and keep what they are. *)
LEMMA StaysApart ==
  ASSUME NEW h, Base(h), NEW r \in Call, NEW c, NEW g, Moved(h, g, r, c)
  PROVE  /\ rivals \subseteq rivals'
         /\ \A q \in Call : h[q].stage # 0 =>
              call'[q] = call[q] /\ SlotOf(q)' = SlotOf(q) /\ (Running(q)' => Running(q))
         /\ \A s \in Slot : Quiet(s)' => Quiet(s)
<1>1. \A q \in Call : h[q].stage # 0 => call'[q] = call[q] /\ SlotOf(q)' = SlotOf(q)
  BY SlotsStay
<1>2. \A q \in Call : Running(q)' => Running(q)
  BY AnswerMoved
<1>3. rivals \subseteq rivals'
  BY Frames DEF Moved, DrawSlot
<1>4. ASSUME NEW s \in Slot, Quiet(s)' PROVE Quiet(s)
  <2> SUFFICES ASSUME NEW q \in Call, SlotOf(q) = s
               PROVE  call[q].op \notin Proposing /\ call[q].op # "SynchronizeLog"
    BY DEF Quiet
  <2>1. SlotOf(q) # 0
    BY Sizes
  <2>2. call'[q] = call[q] /\ SlotOf(q)' = s
    BY <2>1, SlotsStay
  <2>3. QED BY <1>4, <2>2 DEF Quiet
<1>5. QED BY <1>1, <1>2, <1>3, <1>4

LEMMA FreshMoved ==
  ASSUME NEW h, Base(h), Maps(h), Entries(h), NEW r \in Call, NEW c, NEW g, Moved(h, g, r, c)
  PROVE  Fresh(g)' /\ \A e \in Call : Unused(g, e)' => state'[e] = state[e] /\ Unused(h, e)
<1>1. Fresh(h)
  BY DEF Entries
<1>2. ASSUME NEW e \in Call, Unused(g, e)' PROVE state'[e] = state[e] /\ Unused(h, e)
  <2>1. Unused(h, e)
    <3>1. CASE e # r
      BY <1>2, <3>1, MovedModes, MovedCall DEF Unused, Base
    <3>2. CASE e = r
      <4>a. Typed(h)
        BY BaseTypes
      <4>b. g[r] = c
        BY <4>a, MovedModes
      <4>1. g[r] = c /\ call'[r].op = call[r].op
        BY <4>b, MovedCall
      <4>2. CASE c.stage = 0
        <5>1. h[r].stage = 0
          BY <4>2 DEF Moved, Kinds, From
        <5>2. QED BY <3>2, <5>1 DEF Unused
      <4>3. CASE c.stage = 1 /\ call[r].op = "SynchronizeLog"
        <5>1. h[r].stage = 1
          BY <4>3, Writers DEF Moved, Kinds, From
        <5>2. QED BY <3>2, <4>3, <5>1 DEF Unused
      <4>4. QED BY <1>2, <3>2, <4>1, <4>2, <4>3 DEF Unused
    <3>3. QED BY <3>1, <3>2
  <2>2. CASE SetField(r)
    <3>1. e # ptr[r]
      BY <1>1, <2>1, <2>2, Setter
    <3>2. \A d \in Call \ {ptr[r]} : state'[d] = state[d]
      BY <2>2, EntriesMoved
    <3>3. QED BY <2>1, <3>1, <3>2
  <2>3. CASE WriteLearnedValue(r)
    <3>1. e # r
      <4>1. c.stage = 9
        BY <2>3 DEF Moved, Kinds, From, WriteLearnedValue, DrawSlot, Check, Insert, Take, Pass,
           SetField, Reply, Raise, Ask, Copy, At, Works
      <4>2. g[r].stage = 9
        BY <4>1, MovedModes DEF Base
      <4>3. QED BY <1>2, <4>2 DEF Unused
    <3>2. \A d \in Call \ {r} : state'[d] = state[d]
      BY <2>3, EntriesMoved
    <3>3. QED BY <2>1, <3>1, <3>2
  <2>4. CASE ~SetField(r) /\ ~WriteLearnedValue(r)
    <3>1. state' = state
      BY <2>4, EntriesMoved
    <3>2. QED BY <2>1, <3>1
  <2>5. QED BY <2>1, <2>2, <2>3, <2>4
<1>3. QED BY <1>1, <1>2 DEF Fresh

LEMMA OneIDMoved ==
  ASSUME NEW h, Base(h), Entries(h), NEW r \in Call, NEW c, NEW g, Moved(h, g, r, c)
  PROVE  OneID'
<1> SUFFICES ASSUME NEW p \in Call, NEW q \in Call, Running(p)', Running(q)',
                    SlotOf(p)' = SlotOf(q)', SlotOf(p)' \in Slot \ rivals',
                    call'[p].id # 0, call'[q].id # 0
             PROVE  call'[p].id = call'[q].id
  BY DEF OneID
<1>1. Running(p) /\ Running(q) /\ rivals \subseteq rivals'
  BY AnswerMoved, StaysApart
<1>2. CASE call'[p] = call[p] /\ call'[q] = call[q]
  BY <1>1, <1>2 DEF Entries, OneID, SlotOf
<1>3. ASSUME DrawSlot(r), NEW x \in Call, x # r, Running(x), SlotOf(x)' = SlotOf(r)',
             SlotOf(r)' \notin rivals', call'[x].id # 0
      PROVE  call'[x].id = call'[r].id
  <2>1. /\ call'[r].slot = highestSlotID + 1 /\ call'[r].id # 0
        /\ call'[x] = call[x]
    BY <1>3, MovedCall
  <2>2. PICK b \in Id : /\ call' = [call EXCEPT ![r].slot = NextSlot, ![r].id = b]
                        /\ rivals' = rivals \cup Meets(NextSlot, b)
    BY <1>3 DEF DrawSlot
  <2>3. call'[r].id = b /\ call'[r].slot = NextSlot /\ b # 0
    BY <2>1, <2>2 DEF Base, TypeOK
  <2>4. NextSlot \notin Meets(NextSlot, b) /\ SlotOf(x) = NextSlot
    BY <1>3, <2>1, <2>2, <2>3 DEF SlotOf
  <2>5. QED BY <1>3, <2>1, <2>3, <2>4 DEF Meets
<1>4. CASE call'[p] # call[p] \/ call'[q] # call[q]
  <2>1. DrawSlot(r)
    BY <1>4, MovedCall
  <2>2. p = r \/ q = r
    BY <1>4, MovedCall
  <2>3. QED BY <1>1, <1>3, <2>1, <2>2
<1>5. QED BY <1>2, <1>4

(* Two calls that have found the same entry of a slot of no rivals.        *)
LEMMA SameID ==
  ASSUME NEW h, Base(h), Maps(h), Entries(h), NEW r \in Call, NEW q \in Call,
         Enters(call[r].op), Enters(call[q].op), h[r].stage \in 3..9, h[q].stage \in 3..9,
         call[r].op # "Learn", call[q].op # "Learn", ptr[r] = ptr[q],
         Running(r), Running(q), SlotOf(r) \notin rivals
  PROVE  call[r].id = call[q].id
<1>1. SlotOf(r) = SlotOf(q) /\ SlotOf(r) \in Slot
  BY Target DEF Entries
<1>2. call[r].id # 0 /\ call[q].id # 0
  BY DEF Base, Named
<1>3. QED BY <1>1, <1>2 DEF Entries, OneID

(* What a step makes of an entry: nothing, a field set by a call that has  *)
(* found it, or a learned value.                                           *)
Sets(h, r, c, e) ==
  /\ SetField(r) /\ ptr[r] = e /\ SlotOf(r) = SlotOf(e) /\ SlotOf(r) \in Slot
  /\ Running(r) /\ call' = call /\ ptr' = ptr /\ call[r].id # 0 /\ Enters(call[r].op)
  /\ h[r].stage \in 3..9 /\ call[r].op # "Learn"
  /\ \/ /\ call[r].op \in {"Prepare", "Accept"} /\ h[r].stage = 4 /\ c.stage = 5
        /\ state'[e] = [promised |-> call[r].id, accepted |-> state[e].accepted,
                        command |-> state[e].command]
     \/ /\ call[r].op \in Proposing /\ h[r].stage = 3 /\ c.stage = 5
        /\ state'[e] = [promised |-> call[r].id, accepted |-> state[e].accepted,
                        command |-> state[e].command]
     \/ /\ Writes(call[r].op) /\ h[r].stage = 5 /\ c.stage = 6
        /\ state'[e] = [promised |-> state[e].promised, accepted |-> call[r].id,
                        command |-> state[e].command]
     \/ /\ Writes(call[r].op) /\ h[r].stage = 6 /\ c.stage = 7
        /\ state'[e] = [promised |-> state[e].promised,
                        accepted |-> state[e].accepted, command |-> r]

LEMMA SetterSets ==
  ASSUME NEW h, Base(h), Maps(h), Fresh(h), NEW r \in Call, NEW c, NEW g, Moved(h, g, r, c),
         SetField(r)
  PROVE  ptr[r] \in Call /\ Sets(h, r, c, ptr[r])
<1> DEFINE e == ptr[r]
<1>1. /\ e \in Call /\ SlotOf(r) = SlotOf(e) /\ SlotOf(r) \in Slot
      /\ Running(r) /\ call' = call /\ ptr' = ptr /\ call[r].id # 0
  BY Setter
<1>2. \/ /\ Head(todo[r]) = "setPromise" /\ call[r].op \in {"Prepare", "Accept"}
         /\ h[r].stage = 4 /\ c.stage = 5
      \/ /\ Head(todo[r]) = "setPromise" /\ call[r].op \in Proposing
         /\ h[r].stage = 3 /\ c.stage = 5
      \/ /\ Head(todo[r]) = "setAccepted" /\ Writes(call[r].op)
         /\ h[r].stage = 5 /\ c.stage = 6
      \/ /\ Head(todo[r]) = "setCommand" /\ Writes(call[r].op)
         /\ h[r].stage = 6 /\ c.stage = 7
  BY Setter
<1>3. Enters(call[r].op) /\ h[r].stage \in 3..9 /\ call[r].op # "Learn"
  BY <1>2, Writers
<1>4. Head(todo[r]) = "setPromise" =>
        state'[e] = [promised |-> call[r].id, accepted |-> state[e].accepted,
                     command |-> state[e].command]
  BY <1>1, EntriesMoved
<1>5. Head(todo[r]) = "setAccepted" =>
        state'[e] = [promised |-> state[e].promised, accepted |-> call[r].id,
                     command |-> state[e].command]
  BY <1>1, EntriesMoved
<1>6. Head(todo[r]) = "setCommand" =>
        state'[e] = [promised |-> state[e].promised, accepted |-> state[e].accepted,
                     command |-> r]
  BY <1>1, EntriesMoved
<1>7. Sets(h, r, c, e)
  <2> HIDE DEF e
  <2>1. ptr[r] = e
    BY DEF e
  <2>2. QED BY <1>1, <1>2, <1>3, <1>4, <1>5, <1>6, <2>1 DEF Sets
<1>8. QED BY <1>1, <1>7

LEMMA EntryMoves ==
  ASSUME NEW h, Base(h), Maps(h), Fresh(h), NEW r \in Call, NEW c, NEW g, Moved(h, g, r, c),
         NEW e \in Call
  PROVE  \/ Sets(h, r, c, e)
         \/ /\ WriteLearnedValue(r) /\ e = r /\ Unused(h, e)
            /\ state'[e] = [promised |-> call[r].id, accepted |-> call[r].id, command |-> r]
         \/ state'[e] = state[e] /\ ~(SetField(r) /\ ptr[r] = e)
<1>1. CASE SetField(r)
  <2>1. CASE ptr[r] = e
    BY <1>1, <2>1, SetterSets
  <2>2. CASE ptr[r] # e
    <3>1. \A d \in Call \ {ptr[r]} : state'[d] = state[d]
      BY <1>1, EntriesMoved
    <3>2. QED BY <2>2, <3>1
  <2>3. QED BY <2>1, <2>2
<1>2. CASE WriteLearnedValue(r)
  <2>1. Head(todo[r]) = "learn"
    BY <1>2 DEF WriteLearnedValue, At
  <2>2. ~SetField(r)
    BY <2>1 DEF SetField, At
  <2>3. Unused(h, r)
    <3>1. call[r].op = "SynchronizeLog" /\ h[r].stage = 1
      BY <2>1, BaseTypes, HeadModes DEF Moved, Told
    <3>2. QED BY <3>1 DEF Unused
  <2>4. /\ \A d \in Call \ {r} : state'[d] = state[d]
        /\ state'[r] = [promised |-> call[r].id, accepted |-> call[r].id, command |-> r]
    BY <1>2, EntriesMoved
  <2>5. QED BY <1>2, <2>2, <2>3, <2>4
<1>3. CASE ~SetField(r) /\ ~WriteLearnedValue(r)
  <2>1. state' = state
    BY <1>3, EntriesMoved
  <2>2. QED BY <1>3, <2>1
<1>4. QED BY <1>1, <1>2, <1>3

LEMMA PtrStays ==
  ASSUME NEW h, Base(h), NEW r \in Call, NEW c, NEW g, Moved(h, g, r, c), NEW q \in Call,
         q # r \/ h[q].stage # 2
  PROVE  ptr'[q] = ptr[q]
<1>1. CASE Take(r)
  <2>1. Head(todo[r]) = "take"
    BY <1>1 DEF Take, At
  <2>2. h[r].stage = 2
    BY <2>1, BaseTypes, HeadModes DEF Moved, Told
  <2>3. ptr' = [ptr EXCEPT ![r] = slots[SlotOf(r)]] /\ ptr \in [Call -> Call \cup {Nil}]
    BY <1>1 DEF Take, Base, TypeOK
  <2>4. QED BY <2>2, <2>3
<1>2. CASE ~Take(r)
  BY <1>2, Frames DEF Moved
<1>3. QED BY <1>1, <1>2

LEMMA OthersKnow ==
  ASSUME NEW h, Base(h), Maps(h), Entries(h), NEW r \in Call, NEW c, NEW g, Moved(h, g, r, c),
         NEW q \in Call, q # r, SlotOf(q)' \in Slot \ rivals'
  PROVE  Knows(g, q)'
<1> DEFINE n == h[q].stage
           b == call[q].id
           e == ptr[q]
           o == call[q].op
<1>1. g[q] = h[q]
  <2>1. Typed(h)
    BY BaseTypes
  <2>2. QED BY <2>1, MovedModes
<1>2. CASE n \notin 4..9 \/ ~(Writes(o) \/ o \in {"Prepare", "Accept"})
  <2>1. call'[q].op = o
    BY MovedCall
  <2>2. CASE n \notin 4..9
    BY <1>1, <2>2 DEF Knows
  <2>3. CASE ~Writes(o) /\ o \notin {"Prepare", "Accept"}
    BY <2>1, <2>3 DEF Knows
  <2>4. QED BY <1>2, <2>2, <2>3
<1>3. CASE n \in 4..9 /\ (Writes(o) \/ o \in {"Prepare", "Accept"})
  <2>1. Fresh(h) /\ n # 0 /\ n \in 3..9 /\ Enters(o) /\ o # "Learn"
    BY <1>3, Writers DEF Entries
  <2>2. e \in Call /\ SlotOf(e) = SlotOf(q) /\ SlotOf(q) \in Slot /\ ~Unused(h, e)
    BY <2>1, Target
  <2>3. /\ call'[q] = call[q] /\ SlotOf(q)' = SlotOf(q) /\ SlotOf(q) \notin rivals
        /\ ptr'[q] = e /\ (Quiet(SlotOf(q))' => Quiet(SlotOf(q)))
    BY <2>1, <2>2, StaysApart, PtrStays
  <2>4. Knows(h, q)
    BY <2>2, <2>3 DEF Entries
  <2>5. /\ state[e].promised \in Nat /\ state[e].accepted \in Nat /\ b \in Nat
        /\ call[r].id \in Nat
    BY <2>2, EntryTypes, BaseTypes
  <2>7. CASE state'[e] = state[e]
    BY <1>1, <2>3, <2>4, <2>7 DEF Knows
  <2>8. CASE Sets(h, r, c, e)
    <3>1. n \in {4, 5, 6} => call[r].id = b
      <4>1. n \in {4, 5, 6} => Running(q)
        BY BaseTypes, InEntryRuns DEF InEntry
      <4>2. QED BY <2>1, <2>3, <2>8, <4>1, SameID DEF Sets
    <3>2. /\ state'[e].promised \in {state[e].promised, call[r].id}
          /\ state'[e].accepted \in {state[e].accepted, call[r].id}
      BY <2>8 DEF Sets
    <3>3. Writes(o) /\ n = 5 => state'[e].promised = b
      BY <2>4, <3>1, <3>2 DEF Knows
    <3>4. Writes(o) /\ n = 6 => state'[e].promised = b /\ state'[e].accepted = b
      BY <2>4, <3>1, <3>2 DEF Knows
    <3>5. o = "Prepare" /\ n = 4 => state'[e].accepted <= b
      BY <2>4, <2>5, <3>1, <3>2 DEF Knows
    <3>6. o \in {"Prepare", "Accept"} /\ n = 4 => state'[e].promised <= b
      BY <2>4, <2>5, <3>1, <3>2 DEF Knows
    <3>7. ASSUME o \in {"Prepare", "Accept"}, n \in 5..9, Quiet(SlotOf(q))
          PROVE  state'[e].promised >= b
      <4>1. state[e].promised >= b
        BY <2>4, <3>7 DEF Knows
      <4>2. call[r].op \notin Proposing /\ SlotOf(r) = SlotOf(q)
        BY <2>2, <2>8, <3>7 DEF Sets, Quiet
      <4>3. CASE call[r].op \in {"Prepare", "Accept"} /\ h[r].stage = 4
        <5>1. Knows(h, r) /\ ptr[r] = e
          BY <2>2, <2>3, <2>8, <4>2 DEF Entries, Sets
        <5>2. state[e].promised <= call[r].id
          BY <4>3, <5>1 DEF Knows
        <5>3. QED BY <2>5, <3>2, <4>1, <5>2
      <4>4. CASE ~(call[r].op \in {"Prepare", "Accept"} /\ h[r].stage = 4)
        <5>1. state'[e].promised = state[e].promised
          BY <2>8, <4>2, <4>4 DEF Sets
        <5>2. QED BY <4>1, <5>1
      <4>5. QED BY <4>3, <4>4
    <3>8. QED BY <1>1, <2>3, <3>3, <3>4, <3>5, <3>6, <3>7 DEF Knows
  <2>9. QED BY <2>1, <2>2, <2>7, <2>8, EntryMoves
<1>4. QED BY <1>2, <1>3

(* The call that makes the step.                                           *)
LEMMA MoverKnows ==
  ASSUME NEW h, Base(h), Maps(h), Entries(h), NEW r \in Call, NEW c, NEW g, Moved(h, g, r, c),
         SlotOf(r)' \in Slot \ rivals'
  PROVE  Knows(g, r)'
<1> DEFINE n == h[r].stage
           m == c.stage
           b == call[r].id
           e == ptr[r]
           o == call[r].op
<1>1. g[r] = c /\ call'[r].op = o /\ Fresh(h) /\ Kinds(h, r, c)
  <2>1. Typed(h)
    BY BaseTypes
  <2>2. g[r] = c
    BY <2>1, MovedModes
  <2>3. call'[r].op = o
    BY MovedCall
  <2>4. QED BY <2>2, <2>3 DEF Entries, Moved
<1>2. CASE m \notin 4..9 \/ ~(Writes(o) \/ o \in {"Prepare", "Accept"})
  <2>1. CASE m \notin 4..9
    BY <1>1, <2>1 DEF Knows
  <2>2. CASE ~Writes(o) /\ o \notin {"Prepare", "Accept"}
    BY <1>1, <2>2 DEF Knows
  <2>3. QED BY <1>2, <2>1, <2>2
<1>3. CASE m \in 4..9 /\ (Writes(o) \/ o \in {"Prepare", "Accept"})
  <2>1. Enters(o) /\ o # "Learn" /\ o # "SynchronizeLog"
    BY <1>3, Writers
  <2>2. n \in 3..9
    BY <1>1, <1>3, <2>1 DEF Kinds, From
  <2>3. /\ e \in Call /\ SlotOf(e) = SlotOf(r) /\ SlotOf(r) \in Slot /\ n # 0 /\ n # 2
    BY <1>1, <2>1, <2>2, Target
  <2>4. /\ call'[r] = call[r] /\ SlotOf(r)' = SlotOf(r) /\ SlotOf(r) \notin rivals
        /\ ptr'[r] = e /\ (Quiet(SlotOf(r))' => Quiet(SlotOf(r)))
    BY <2>3, StaysApart, PtrStays
  <2>5. Knows(h, r)
    BY <2>3, <2>4 DEF Entries
  <2>6. /\ state[e].promised \in Nat /\ state[e].accepted \in Nat /\ b \in Nat
    BY <2>3, EntryTypes, BaseTypes
  <2>7. o \in {"Prepare", "Accept"} => o \notin Proposing
    BY Writers
  <2>8. CASE SetField(r)
    <3>1. Sets(h, r, c, e)
      BY <1>1, <2>8, SetterSets
    <3>2. CASE o \in {"Prepare", "Accept"} /\ n = 4 /\ m = 5
      <4>1. state'[e].promised = b
        BY <2>7, <3>1, <3>2 DEF Sets
      <4>2. QED BY <1>1, <2>4, <2>6, <3>2, <4>1 DEF Knows
    <3>3. CASE o \in Proposing /\ n = 3 /\ m = 5
      <4>1. state'[e].promised = b
        BY <2>7, <3>1, <3>3 DEF Sets
      <4>2. QED BY <1>1, <2>4, <2>6, <2>7, <3>3, <4>1 DEF Knows
    <3>4. CASE Writes(o) /\ n = 5 /\ m = 6
      <4>1. state'[e].promised = state[e].promised /\ state'[e].accepted = b
        BY <3>1, <3>4 DEF Sets
      <4>2. state[e].promised = b
        BY <2>5, <3>4 DEF Knows
      <4>3. QED BY <1>1, <2>4, <2>6, <3>4, <4>1, <4>2 DEF Knows
    <3>5. CASE Writes(o) /\ n = 6 /\ m = 7
      <4>1. state'[e].promised = state[e].promised
        BY <3>1, <3>5 DEF Sets
      <4>2. state[e].promised = b
        BY <2>5, <3>5 DEF Knows
      <4>3. QED BY <1>1, <2>4, <2>6, <3>5, <4>1, <4>2 DEF Knows
    <3>6. QED BY <3>1, <3>2, <3>3, <3>4, <3>5 DEF Sets
  <2>9. CASE Pass(r)
    <3>1. /\ From(h, r, c, 3, 4) /\ o \in {"Prepare", "Accept"}
          /\ Head(todo[r]) = IF o = "Prepare" THEN "promise?" ELSE "accept?"
      <4>1. Head(todo[r]) \in {"promise?", "accept?"}
        BY <2>9 DEF Pass, At
      <4>2. CASE Pass(r) /\ o \in {"Prepare", "Accept"} /\ From(h, r, c, 3, 4)
                 /\ Head(todo[r]) = IF o = "Prepare" THEN "promise?" ELSE "accept?"
        BY <4>2
      <4>3. CASE m = n
        <5>1. Types /\ Typed(h) /\ Running(r)
          BY BaseTypes DEF Moved
        <5>2. n = 3
          BY <4>1, <5>1, JumpModes
        <5>3. QED BY <1>3, <4>3, <5>2
      <4>4. QED BY <1>1, <4>1, <4>2, <4>3
            DEF Kinds, DrawSlot, Check, Insert, Take, SetField, WriteLearnedValue, Reply,
                Raise, Ask, Copy, At
    <3>2. state' = state /\ Running(r)
      BY <2>9 DEF Pass, memory, Moved
    <3>3. IF o = "Prepare" THEN b > state[e].promised ELSE b >= state[e].promised
      BY <2>9, <3>1 DEF Pass, At, ThisEntry
    <3>4. o = "Prepare" => state[e].accepted <= b
      <4> SUFFICES ASSUME o = "Prepare" PROVE state[e].accepted <= b
        OBVIOUS
      <4>1. Ordered(h, e)
        BY <2>3, <2>4 DEF Entries
      <4>2. ASSUME NEW q \in Call, ptr[q] = e, Writes(call[q].op), h[q].stage = 5
            PROVE  FALSE
        <5>1. Running(q) /\ Enters(call[q].op) /\ call[q].op # "Learn"
          BY <4>2, BaseTypes, InEntryRuns, Writers DEF InEntry
        <5>2. call[q].id = b
          BY <2>1, <2>2, <2>4, <3>2, <4>2, <5>1, SameID
        <5>3. SlotOf(q) \in Slot \ rivals
          BY <2>3, <2>4, <4>2, <5>1, <1>1, Target
        <5>4. state[e].promised = b
          BY <4>2, <5>2, <5>3 DEF Entries, Knows
        <5>5. QED BY <2>6, <3>3, <5>4
      <4>3. state[e].accepted <= state[e].promised
        BY <4>1, <4>2 DEF Ordered
      <4>4. QED BY <2>6, <3>3, <4>3
    <3>5. state[e].promised <= b
      BY <2>6, <3>3
    <3>6. m = 4
      BY <3>1 DEF From
    <3>7. QED BY <1>1, <2>4, <3>2, <3>4, <3>5, <3>6 DEF Knows
  <2>10. CASE ~SetField(r) /\ ~Pass(r)
    <3>1. state'[e] = state[e]
      <4>1. ~WriteLearnedValue(r)
        <5>1. WriteLearnedValue(r) => Head(todo[r]) = "learn"
          BY DEF WriteLearnedValue, At
        <5>2. Head(todo[r]) = "learn" => o = "SynchronizeLog"
          BY BaseTypes, HeadModes DEF Moved, Told
        <5>3. QED BY <2>1, <5>1, <5>2
      <4>2. QED BY <2>10, <4>1, EntriesMoved
    <3>2. m = n \/ (m \notin {4, 5, 6} /\ (o \in {"Prepare", "Accept"} => n \in 5..9))
      BY <1>1, <2>2, <2>7, <2>10 DEF Kinds, From
    <3>3. QED BY <1>1, <2>2, <2>4, <2>5, <3>1, <3>2 DEF Knows
  <2>11. QED BY <2>8, <2>9, <2>10
<1>4. QED BY <1>2, <1>3

LEMMA EntriesStayWhole ==
  ASSUME NEW h, Base(h), Maps(h), Entries(h), NEW r \in Call, NEW c, NEW g, Moved(h, g, r, c),
         NEW e \in Call, SlotOf(e)' \in Slot \ rivals'
  PROVE  (Ordered(g, e) /\ Matched(g, e))'
<1>1. /\ Fresh(h) /\ Typed(h) /\ Fresh(g)'
      /\ \A d \in Call : Unused(g, d)' => state'[d] = state[d]
  BY BaseTypes, FreshMoved DEF Entries
<1>2. g[r] = c /\ \A q \in Call \ {r} : g[q] = h[q]
  BY <1>1, MovedModes
<1>3. CASE h[e].stage = 0
  <2>1. state[e] = ZeroState
    BY <1>1, <1>3 DEF Fresh, Unused
  <2>2. ~Sets(h, r, c, e)
    <3>1. SlotOf(e) = 0
      BY <1>3 DEF Base, Named
    <3>2. QED BY <3>1, Sizes DEF Sets
  <2>3. CASE state'[e] = state[e]
    <3>1. state'[e].accepted = 0 /\ state'[e].promised = 0
      BY <2>1, <2>3 DEF ZeroState
    <3>2. QED BY <3>1 DEF Ordered, Matched
  <2>4. CASE /\ WriteLearnedValue(r) /\ e = r
             /\ state'[e] = [promised |-> call[r].id, accepted |-> call[r].id, command |-> r]
    <3>1. h[r].stage # 0
      BY <2>4, MapMoved
    <3>2. QED BY <1>3, <2>4, <3>1
  <2>5. QED BY <1>1, <2>2, <2>3, <2>4, EntryMoves
<1>4. CASE h[e].stage # 0
  <2>1. SlotOf(e) \in Slot \ rivals
    BY <1>4, StaysApart
  <2>2. Ordered(h, e) /\ Matched(h, e)
    BY <2>1 DEF Entries
  <2>3. state[e].promised \in Nat /\ state[e].accepted \in Nat /\ call[r].id \in Nat
    BY EntryTypes, BaseTypes
  <2>4. \A d \in Call : call[d].id # 0 => call'[d] = call[d]
    <3>1. \A d \in Call : call[d].id # 0 => h[d].stage # 0
      BY DEF Base, Named
    <3>2. QED BY <3>1, StaysApart
  <2>5. \A q \in Call : Writes(call[q].op) /\ h[q].stage \in {5, 6} /\ ptr[q] = e /\ q # r
          => ptr'[q] = e /\ Writes(call'[q].op) /\ g[q].stage = h[q].stage
    <3>1. \A q \in Call : h[q].stage \in {5, 6} => ptr'[q] = ptr[q] /\ call'[q] = call[q]
      BY PtrStays, StaysApart
    <3>2. QED BY <1>2, <3>1
  <2>6. CASE Sets(h, r, c, e)
    <3> DEFINE b == call[r].id
               n == h[r].stage
               o == call[r].op
    <3>1. /\ ptr[r] = e /\ ptr'[r] = e /\ call' = call /\ SlotOf(r) \in Slot \ rivals
          /\ Knows(h, r) /\ b # 0 /\ g[r].stage = c.stage
      BY <1>2, <2>1, <2>6 DEF Sets, Entries
    <3>2. CASE o \in {"Prepare", "Accept"} /\ n = 4 /\ c.stage = 5
      <4>1. state'[e] = [promised |-> b, accepted |-> state[e].accepted,
                         command |-> state[e].command]
        BY <2>6, <3>2, Writers DEF Sets
      <4>2. Ordered(g, e)'
        <5>1. CASE o = "Prepare"
          BY <3>1, <3>2, <4>1, <5>1 DEF Knows, Ordered
        <5>2. CASE o = "Accept"
          BY <3>1, <3>2, <4>1, <5>2, Writers DEF Ordered
        <5>3. QED BY <3>2, <5>1, <5>2
      <4>3. Matched(g, e)'
        <5>1. \A q \in Call : h[q].stage = 6 => q # r
          BY <3>2
        <5>2. QED BY <2>2, <2>5, <3>1, <4>1, <5>1 DEF Matched
      <4>4. QED BY <4>2, <4>3
    <3>3. CASE o \in Proposing /\ n = 3 /\ c.stage = 5
      <4>1. state'[e] = [promised |-> b, accepted |-> state[e].accepted,
                         command |-> state[e].command]
        BY <2>6, <3>3, Writers DEF Sets
      <4>2. Ordered(g, e)'
        BY <3>1, <3>3, <4>1, Writers DEF Ordered
      <4>3. Matched(g, e)'
        <5>1. \A q \in Call : h[q].stage = 6 => q # r
          BY <3>3
        <5>2. QED BY <2>2, <2>5, <3>1, <4>1, <5>1 DEF Matched
      <4>4. QED BY <4>2, <4>3
    <3>4. CASE Writes(o) /\ n = 5 /\ c.stage = 6
      <4>1. /\ state'[e].promised = state[e].promised /\ state'[e].accepted = b
        BY <2>6, <3>4 DEF Sets
      <4>2. state[e].promised = b
        BY <3>1, <3>4 DEF Knows
      <4>3. Ordered(g, e)'
        BY <2>3, <4>1, <4>2 DEF Ordered
      <4>4. Matched(g, e)'
        BY <3>1, <3>4 DEF Matched
      <4>5. QED BY <4>3, <4>4
    <3>5. CASE Writes(o) /\ n = 6 /\ c.stage = 7
      <4>1. state'[e] = [promised |-> state[e].promised,
                         accepted |-> state[e].accepted, command |-> r]
        BY <2>6, <3>5 DEF Sets
      <4>2. state[e].promised = b /\ state[e].accepted = b
        BY <3>1, <3>5 DEF Knows
      <4>3. QED BY <2>3, <3>1, <4>1, <4>2 DEF Ordered, Matched
    <3>6. QED BY <2>6, <3>2, <3>3, <3>4, <3>5 DEF Sets
  <2>7. CASE /\ WriteLearnedValue(r) /\ e = r
             /\ state'[e] = [promised |-> call[r].id, accepted |-> call[r].id, command |-> r]
    <3>1. call' = call
      BY <2>7 DEF WriteLearnedValue
    <3>2. /\ state'[e].accepted <= state'[e].promised
          /\ state'[e].command = r /\ call'[r].id = state'[e].accepted
      BY <2>3, <2>7, <3>1
    <3>3. QED BY <3>2 DEF Ordered, Matched
  <2>8. CASE state'[e] = state[e] /\ ~(SetField(r) /\ ptr[r] = e)
    <3>1. ASSUME Writes(call[r].op), h[r].stage \in {5, 6}, ptr[r] = e
          PROVE  ptr'[r] = e /\ Writes(call'[r].op) /\ g[r].stage = h[r].stage
      <4>1. ptr'[r] = ptr[r] /\ call'[r] = call[r]
        BY <3>1, PtrStays, StaysApart
      <4>2. Kinds(h, r, c) /\ ~SetField(r) /\ call[r].op # "Prepare"
        BY <2>8, <3>1, Writers DEF Moved
      <4>3. c.stage = h[r].stage
        BY <3>1, <4>2 DEF Kinds, From
      <4>4. QED BY <1>2, <3>1, <4>1, <4>3
    <3>2. \A q \in Call : Writes(call[q].op) /\ h[q].stage \in {5, 6} /\ ptr[q] = e
            => ptr'[q] = e /\ Writes(call'[q].op) /\ g[q].stage = h[q].stage
      BY <2>5, <3>1
    <3>3. Ordered(g, e)'
      BY <2>2, <2>8, <3>2 DEF Ordered
    <3>4. Matched(g, e)'
      <4>1. CASE state[e].accepted = 0
        BY <2>8, <4>1 DEF Matched
      <4>2. CASE /\ state[e].accepted # 0 /\ state[e].command \in Call
                 /\ call[state[e].command].id = state[e].accepted
        <5>1. call'[state[e].command] = call[state[e].command]
          BY <2>4, <4>2
        <5>2. QED BY <2>8, <4>2, <5>1 DEF Matched
      <4>3. CASE \E q \in Call : ptr[q] = e /\ Writes(call[q].op) /\ h[q].stage = 6
        BY <3>2, <4>3 DEF Matched
      <4>4. QED BY <2>2, <4>1, <4>2, <4>3 DEF Matched
    <3>5. QED BY <3>3, <3>4
  <2>9. QED BY <1>1, <2>6, <2>7, <2>8, EntryMoves
<1>5. QED BY <1>3, <1>4

LEMMA EntriesMove ==
  ASSUME NEW h, Base(h), Maps(h), Entries(h), NEW r \in Call, NEW c, NEW g, Moved(h, g, r, c)
  PROVE  Entries(g)'
<1>1. Fresh(g)' /\ OneID'
  BY FreshMoved, OneIDMoved
<1>2. ASSUME NEW q \in Call, SlotOf(q)' \in Slot \ rivals' PROVE Knows(g, q)'
  BY <1>2, OthersKnow, MoverKnows
<1>3. ASSUME NEW e \in Call, SlotOf(e)' \in Slot \ rivals' PROVE (Ordered(g, e) /\ Matched(g, e))'
  BY <1>3, EntriesStayWhole
<1>4. QED BY <1>1, <1>2, <1>3 DEF Entries

(* A call that begins has made no entry and found none, and if it meets    *)
(* another ID in its slot, the slot has rivals.                            *)
LEMMA OneIDBegin ==
  ASSUME NEW h, Base(h), Entries(h), NEW r \in Call, Begins(r),
         NEW p \in Call, p # r, Running(p), SlotOf(p) = SlotOf(r)', SlotOf(p) \in Slot \ rivals',
         call[p].id # 0, call'[r].id # 0
  PROVE  call[p].id = call'[r].id
<1>1. PICK c : c = Start(call'[r].op)
  OBVIOUS
<1>2. /\ call'[r].op \in OfSlot => PeerCalls(r)
      /\ call'[r].op \notin OfSlot => call'[r].slot = 0
  BY <1>1, BeginTyped
<1>3. SlotOf(p) # 0
  BY Sizes
<1>4. PeerCalls(r)
  BY <1>2, <1>3 DEF SlotOf
<1>5. PICK o \in Op \cap OfSlot, s \in PeerSlot, b \in Id :
        /\ call' = [call EXCEPT ![r] =
                     [op |-> o, slot |-> s, id |-> IF o = "Learn" THEN 0 ELSE b]]
        /\ rivals' = rivals \cup Meets(s, call'[r].id)
  BY <1>4 DEF PeerCalls
<1>6. SlotOf(r)' = s
  BY <1>5 DEF Base, TypeOK, SlotOf
<1>7. s \notin Meets(s, call'[r].id) /\ SlotOf(p) = s
  BY <1>5, <1>6
<1>8. QED BY <1>7 DEF Meets

LEMMA EntriesBegin ==
  ASSUME NEW h, Base(h), Entries(h), NEW r \in Call, Begins(r),
         NEW c, c = Start(call'[r].op), NEW g, g = [h EXCEPT ![r] = c]
  PROVE  Entries(g)'
<1>1. /\ call[r] = NoCall
      /\ \A q \in Call \ {r} : call'[q] = call[q] /\ todo'[q] = todo[q]
      /\ state' = state /\ ptr' = ptr
  BY BeginTyped DEF memory
<1>2. g[r] = c /\ c.stage \in 0..1 /\ \A q \in Call \ {r} : g[q] = h[q]
  BY DEF Base, Typed, Start, In
<1>3. SlotOf(r) = 0 /\ call[r].id = 0 /\ call[r].op = "none"
  BY <1>1 DEF NoCall, SlotOf
<1>4. h[r].stage = 0
  BY <1>3 DEF Base, Named
<1>5. state[r] = ZeroState
  BY <1>4 DEF Entries, Fresh, Unused
<1>6. rivals \subseteq rivals'
  BY DEF Begins, PeerCalls, UserCalls, history
<1>7. \A q \in Call \ {r} : SlotOf(q)' = SlotOf(q) /\ (Running(q)' <=> Running(q))
  BY <1>1 DEF SlotOf, Running
<1>8. Fresh(g)'
  <2> SUFFICES ASSUME NEW e \in Call, Unused(g, e)' PROVE state'[e] = ZeroState
    BY DEF Fresh
  <2>1. CASE e = r
    BY <1>1, <1>5, <2>1
  <2>2. CASE e # r
    <3>1. Unused(h, e)
      BY <1>1, <1>2, <2>2 DEF Unused
    <3>2. QED BY <1>1, <3>1 DEF Entries, Fresh
  <2>3. QED BY <2>1, <2>2
<1>9. OneID'
  <2> SUFFICES ASSUME NEW p \in Call, NEW q \in Call, Running(p)', Running(q)',
                      SlotOf(p)' = SlotOf(q)', SlotOf(p)' \in Slot \ rivals',
                      call'[p].id # 0, call'[q].id # 0
               PROVE  call'[p].id = call'[q].id
    BY DEF OneID
  <2>1. CASE p = r /\ q = r
    BY <2>1
  <2>2. CASE p # r /\ q = r
    <3>1. Running(p) /\ SlotOf(p)' = SlotOf(p) /\ call'[p] = call[p]
      BY <1>1, <1>7, <2>2
    <3>2. QED BY <2>2, <3>1, OneIDBegin
  <2>3. CASE p = r /\ q # r
    <3>1. Running(q) /\ SlotOf(q)' = SlotOf(q) /\ call'[q] = call[q]
      BY <1>1, <1>7, <2>3
    <3>2. call[q].id = call'[r].id
      BY <2>3, <3>1, OneIDBegin
    <3>3. QED BY <2>3, <3>1, <3>2
  <2>4. CASE p # r /\ q # r
    <3>1. /\ Running(p) /\ SlotOf(p)' = SlotOf(p) /\ call'[p] = call[p]
          /\ Running(q) /\ SlotOf(q)' = SlotOf(q) /\ call'[q] = call[q]
      BY <1>1, <1>7, <2>4
    <3>2. QED BY <1>6, <3>1 DEF Entries, OneID
  <2>5. QED BY <2>1, <2>2, <2>3, <2>4
<1>10. ASSUME NEW q \in Call, SlotOf(q)' \in Slot \ rivals' PROVE Knows(g, q)'
  <2>1. CASE q = r
    BY <1>2, <2>1 DEF Knows
  <2>2. CASE q # r
    <3>1. /\ SlotOf(q)' = SlotOf(q) /\ call'[q] = call[q] /\ g[q] = h[q]
          /\ SlotOf(q) \in Slot \ rivals
      BY <1>1, <1>2, <1>6, <1>7, <1>10, <2>2
    <3>2. Knows(h, q)
      BY <3>1 DEF Entries
    <3>3. Quiet(SlotOf(q))' => Quiet(SlotOf(q))
      <4> SUFFICES ASSUME Quiet(SlotOf(q))', NEW d \in Call, SlotOf(d) = SlotOf(q)
                   PROVE  call[d].op \notin Proposing /\ call[d].op # "SynchronizeLog"
        BY DEF Quiet
      <4>1. d # r
        BY <1>3, <3>1, Sizes
      <4>2. SlotOf(d)' = SlotOf(q)' /\ call'[d] = call[d]
        BY <1>1, <1>7, <3>1, <4>1
      <4>3. QED BY <4>2 DEF Quiet
    <3>4. QED BY <1>1, <3>1, <3>2, <3>3 DEF Knows
  <2>3. QED BY <2>1, <2>2
<1>11. ASSUME NEW e \in Call, SlotOf(e)' \in Slot \ rivals'
       PROVE  (Ordered(g, e) /\ Matched(g, e))'
  <2>1. CASE e = r
    <3>1. state'[e].accepted = 0 /\ state'[e].promised = 0
      BY <1>1, <1>5, <2>1 DEF ZeroState
    <3>2. QED BY <3>1 DEF Ordered, Matched
  <2>2. CASE e # r
    <3>1. Ordered(h, e) /\ Matched(h, e)
      BY <1>6, <1>7, <1>11, <2>2 DEF Entries
    <3>2. \A q \in Call : Writes(call[q].op) /\ h[q].stage \in {5, 6} =>
            Writes(call'[q].op) /\ g[q].stage = h[q].stage
      <4>1. \A q \in Call : h[q].stage \in {5, 6} => q # r
        BY <1>4
      <4>2. QED BY <1>1, <1>2, <4>1
    <3>3. Ordered(g, e)'
      BY <1>1, <3>1, <3>2 DEF Ordered
    <3>4. Matched(g, e)'
      <4>1. CASE state[e].accepted = 0
        BY <1>1, <4>1 DEF Matched
      <4>2. CASE /\ state[e].accepted # 0 /\ state[e].command \in Call
                 /\ call[state[e].command].id = state[e].accepted
        <5>1. call'[state[e].command] = call[state[e].command]
          BY <1>1, <1>3, <4>2
        <5>2. QED BY <1>1, <4>2, <5>1 DEF Matched
      <4>3. CASE \E q \in Call : ptr[q] = e /\ Writes(call[q].op) /\ h[q].stage = 6
        BY <1>1, <3>2, <4>3 DEF Matched
      <4>4. QED BY <3>1, <4>1, <4>2, <4>3 DEF Matched
    <3>5. QED BY <3>3, <3>4
  <2>3. QED BY <2>1, <2>2
<1>12. QED BY <1>8, <1>9, <1>10, <1>11 DEF Entries

LEMMA EntriesInit ==
  ASSUME Init
  PROVE  Entries(Idle)
<1>1. \A r \in Call : /\ Idle[r].stage = 0 /\ call[r] = NoCall /\ state[r] = ZeroState
                      /\ ~Running(r)
  BY DEF Idle, In, Init, Running
<1>2. Fresh(Idle) /\ OneID
  BY <1>1 DEF Fresh, OneID
<1>3. \A r \in Call : Knows(Idle, r)
  BY <1>1 DEF Knows
<1>4. \A e \in Call : Ordered(Idle, e) /\ Matched(Idle, e)
  BY <1>1 DEF Ordered, Matched, ZeroState
<1>5. QED BY <1>2, <1>3, <1>4 DEF Entries

LEMMA EntriesRest ==
  ASSUME NEW h, Entries(h), Rest
  PROVE  Entries(h)'
<1>1. UNCHANGED <<call, todo, ptr, state, rivals>>
  BY DEF Rest, memory, history
<1>2. Fresh(h)' /\ OneID'
  BY <1>1 DEF Entries, Fresh, OneID, Unused, Running, SlotOf
<1>3. \A r \in Call : SlotOf(r)' \in Slot \ rivals' => Knows(h, r)'
  BY <1>1 DEF Entries, Knows, Quiet, SlotOf
<1>4. \A e \in Call : SlotOf(e)' \in Slot \ rivals' => (Ordered(h, e) /\ Matched(h, e))'
  BY <1>1 DEF Entries, Ordered, Matched, SlotOf
<1>5. QED BY <1>2, <1>3, <1>4 DEF Entries

EntriesInv == \E h : Base(h) /\ Maps(h) /\ Entries(h)

LEMMA EntriesNext ==
  ASSUME NEW h, Base(h), Maps(h), Entries(h), NEW g, Evolves(h, g)
  PROVE  Entries(g)'
<1>1. ASSUME NEW r \in Call, Begins(r), g = [h EXCEPT ![r] = Start(call'[r].op)]
      PROVE  Entries(g)'
  <2>1. PICK c : c = Start(call'[r].op)
    OBVIOUS
  <2>2. g = [h EXCEPT ![r] = c]
    BY <1>1, <2>1
  <2>3. QED BY <1>1, <2>1, <2>2, EntriesBegin
<1>2. QED BY <1>1, EntriesMove, EntriesRest DEF Evolves

LEMMA EntriesInvariant == Spec => []EntriesInv
<1>1. Init => EntriesInv
  BY InitBase, MapsInit, EntriesInit DEF EntriesInv
<1>2. EntriesInv /\ [Next]_vars => EntriesInv'
  <2> SUFFICES ASSUME EntriesInv, [Next]_vars PROVE EntriesInv'
    OBVIOUS
  <2>1. PICK h : Base(h) /\ Maps(h) /\ Entries(h)
    BY DEF EntriesInv
  <2>2. PICK g : Evolves(h, g) /\ Base(g)'
    BY <2>1, NextBase
  <2>3. Maps(g)' /\ Entries(g)'
    BY <2>1, <2>2, MapsNext, EntriesNext
  <2>4. QED BY <2>2, <2>3 DEF EntriesInv
<1>3. QED BY <1>1, <1>2, PTL DEF Spec

(* A call that is setting an entry is at the step that its stage says.     *)
LEMMA SettersRun ==
  ASSUME NEW h, Base(h), Maps(h), Entries(h), NEW q \in Call,
         Writes(call[q].op), h[q].stage \in {5, 6}
  PROVE  /\ Running(q) /\ SlotOf(q) = SlotOf(ptr[q])
         /\ Head(todo[q]) \in {"setAccepted", "setCommand"}
<1>1. Types /\ Typed(h) /\ InEntry(h[q]) /\ Enters(call[q].op)
  BY BaseTypes, Writers DEF InEntry
<1>2. Running(q)
  BY <1>1, InEntryRuns
<1>3. Told(call[q].op, Head(todo[q]), h[q])
  BY <1>1, <1>2, HeadModes
<1>4. SlotOf(q) = SlotOf(ptr[q])
  BY <1>1, Target DEF Entries
<1>5. QED BY <1>2, <1>3, <1>4 DEF Told

(* An entry that nobody is setting has one that belongs to another: what   *)
(* was accepted in it is promised, and has the ID of its command, however  *)
(* Prepare, Accept, a proposal and a learned value of one ID interleave    *)
(* their writes to the three fields.                                       *)
THEOREM EntriesBelongTogether == Spec => []EntriesAreWhole
<1>1. EntriesInv => EntriesAreWhole
  <2> SUFFICES ASSUME NEW h, Base(h), Maps(h), Entries(h), NEW s \in Slot \ rivals,
                      slots[s] # Nil,
                      \A r \in Call : Running(r) /\ SlotOf(r) = s =>
                        Head(todo[r]) \notin {"setPromise", "setAccepted", "setCommand"}
               PROVE  /\ state[slots[s]].promised >= state[slots[s]].accepted
                      /\ state[slots[s]].accepted # 0 =>
                           /\ state[slots[s]].command # Nil
                           /\ call[state[slots[s]].command].id = state[slots[s]].accepted
    BY DEF EntriesInv, EntriesAreWhole
  <2>1. PICK e \in Call : e = slots[s] /\ SlotOf(e) = s
    BY DEF Base, TypeOK, Maps, SlotMap, Holds
  <2>2. \A q \in Call : ~(ptr[q] = e /\ Writes(call[q].op) /\ h[q].stage \in {5, 6})
    BY <2>1, SettersRun
  <2>3. /\ state[e].accepted <= state[e].promised
        /\ \/ state[e].accepted = 0
           \/ state[e].command \in Call /\ call[state[e].command].id = state[e].accepted
    BY <2>1, <2>2 DEF Entries, Ordered, Matched
  <2>4. state[e].promised \in Nat /\ state[e].accepted \in Nat /\ Nil \notin Call
    BY EntryTypes, Sizes
  <2>5. QED BY <2>1, <2>3, <2>4
<1>2. QED BY <1>1, EntriesInvariant, PTL

(* A promise or an acceptance that was answered with success is not lost:  *)
(* no call that finds, tests and sets the entry at the same time leaves a  *)
(* lower promise in it, and the entry stays the one in the map.            *)
THEOREM GrantsAreNotLost == Spec => []GrantsAreRecorded
<1>1. EntriesInv => GrantsAreRecorded
  <2> SUFFICES ASSUME NEW h, Base(h), Maps(h), Entries(h), NEW r \in Call,
                      call[r].op \in {"Prepare", "Accept"}, result[r] = "ok",
                      SlotOf(r) \notin raced \cup rivals,
                      \A q \in Call : SlotOf(q) = SlotOf(r)
                        => call[q].op \notin Proposing \cup {"SynchronizeLog"}
               PROVE  /\ slots[SlotOf(r)] # Nil
                      /\ state[slots[SlotOf(r)]].promised >= call[r].id
    BY DEF EntriesInv, GrantsAreRecorded
  <2>1. h[r].stage = 9 /\ Enters(call[r].op)
    BY Writers DEF Base, Named
  <2>2. SlotOf(r) \in Slot /\ Quiet(SlotOf(r))
    BY <2>1, BaseTypes DEF Quiet
  <2>3. slots[SlotOf(r)] # Nil /\ Found(r)
    BY <2>1 DEF Maps, Finds
  <2>4. SlotOf(slots[SlotOf(r)]) = SlotOf(r) /\ slots[SlotOf(r)] \in Call
    BY <2>2, <2>3 DEF Maps, SlotMap, Holds, Base, TypeOK
  <2>5. ptr[r] = slots[SlotOf(r)]
    BY <2>3, <2>4 DEF Found
  <2>6. Knows(h, r)
    BY <2>2 DEF Entries
  <2>7. state[ptr[r]].promised >= call[r].id
    BY <2>1, <2>2, <2>6 DEF Knows
  <2>8. QED BY <2>3, <2>5, <2>7
<1>2. QED BY <1>1, EntriesInvariant, PTL
===============================================================================
