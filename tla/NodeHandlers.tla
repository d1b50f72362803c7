---------------------------- MODULE NodeHandlers ----------------------------
(***************************************************************************)
(* What runs concurrently inside one node: the gRPC handlers that its      *)
(* peers and the web backend call, and the commands of its CLI, over the   *)
(* RWMutex of PaxosServer (server.go:19) and the slot entries that the     *)
(* handlers read and write without it.                                     *)
(*                                                                         *)
(* A call is the list of steps it still has to make.  A step is one access *)
(* to shared memory or one operation of the lock, so that Prepare and      *)
(* Accept, atomic in module Replication, can be interleaved here.          *)
(***************************************************************************)
EXTENDS Integers, Sequences, FiniteSets

CONSTANTS
  Call,     \* the calls, each made once; it also names its command
  Op,       \* which operations are called
  PeerSlot, \* the slots that peers ask for
  Id,       \* proposal IDs, positive
  AtOnce,   \* bound: how many calls run at once
  Nil       \* nobody, nothing

(* A Set proposes at most one slot above the ones there are.               *)
Slot == 1..(Cardinality(Call) + Cardinality(PeerSlot))

VARIABLES
  call,     \* the operation of a call, its slot and proposal ID
  todo,     \* the steps left of it
  result,   \* "ok" when it was answered with success
  ptr,      \* the entry it has got from GetSlotState
  readers,  \* PaxosServer.mu: how often a call holds it for reading
  writer,   \* and who holds it for writing, or has announced to
  slots,    \* PaxosServer.slots; an entry is named for the call that made it
  state,    \* the entries
  highestSlotID,
  isLeader,
  alive,    \* the process runs
  overtaken, \* history: Sets and Deletes that a later one did not wait for
  raced,    \* history: slots that two calls were about to enter in the map
  rivals,   \* history: slots in which calls of two IDs overlapped
  lowered   \* history: highestSlotID has fallen

lock == <<readers, writer>>
memory == <<slots, state, highestSlotID, isLeader>>
history == <<raced, rivals, lowered>>
vars == <<call, todo, result, ptr, lock, memory, alive, overtaken, history>>

(* PaxosState of types.go.                                                 *)
Entry == [promised : {0} \cup Id, accepted : {0} \cup Id,
          command : Call \cup {Nil}]
ZeroState == [promised |-> 0, accepted |-> 0, command |-> Nil]
NoCall == [op |-> "none", slot |-> 0, id |-> 0]

-----------------------------------------------------------------------------
(* The code, as steps.  Lock is two of them: a writer announces itself,    *)
(* which keeps new readers out, and enters when the readers have left.     *)
Locked(body) == <<"Lock", "Enter">> \o body \o <<"Unlock">>
RLocked(body) == <<"RLock">> \o body \o <<"RUnlock">>

GetSlotState_Broken == RLocked(RLocked(<<"check", "take">>))
GetSlotState == RLocked(<<"check", "take">>)
GetKVStore == RLocked(<<>>)
GetAllSlots == RLocked(<<"copy">>)
GetStatus == RLocked(<<>>)

WriteEntry_Broken == <<"setPromise", "setCommand">>
WriteEntry == <<"setPromise", "setAccepted", "setCommand">>

Prepare == GetSlotState \o <<"promise?", "setPromise", "reply">>
Accept == GetSlotState \o <<"accept?">> \o WriteEntry \o Locked(<<>>)
            \o <<"top?">> \o Locked(<<"raise">>) \o <<"reply">>
Learn == GetSlotState \o <<"reply">>
WriteLearned == Locked(<<"learn">>)

(* ListAll and the RPCs to the peers are the steps ask, count and elect.   *)
ProposeCommand ==
  Locked(<<"draw">>) \o <<"ask">> \o GetSlotState \o WriteEntry
    \o Locked(<<"raiseMax">>) \o <<"count">>
Set == Locked(<<"leader?">>) \o ProposeCommand
Delete == Locked(<<"leader?">>) \o ProposeCommand

LeaderElection == Locked(<<"follower?">>) \o Locked(<<>>) \o <<"elect">>
StopHeartbeats == Locked(<<>>)
TryElectSelf == <<"Lock", "Enter", "free?", "Unlock">> \o LeaderElection
SendHeartbeat == Locked(<<"heed">>)

Get == GetKVStore
List == RLocked(GetKVStore)
ListLog == RLocked(GetAllSlots \o <<"render">>)

Program ==
  [Prepare |-> Prepare, Accept |-> Accept, Learn |-> Learn,
   SynchronizeLog |-> WriteLearned, SendHeartbeat |-> SendHeartbeat,
   GetStatus |-> GetStatus, Get |-> Get, List |-> List, ListLog |-> ListLog,
   Set |-> Set, Delete |-> Delete, TryElectSelf |-> TryElectSelf,
   cliPropose |-> ProposeCommand, cliPrint |-> GetKVStore,
   cliElect |-> LeaderElection, cliPrintlog |-> GetAllSlots]

(* What the web backend calls for each of its pages, and the CLI for each  *)
(* of its commands.                                                        *)
Routes == [set |-> "Set", delete |-> "Delete", get_store |-> "List",
           get_log |-> "ListLog", try_elect |-> "TryElectSelf"]
Commands == [set |-> "cliPropose", delete |-> "cliPropose", print |-> "cliPrint",
             elect |-> "cliElect", printlog |-> "cliPrintlog"]

OfSlot == {"Prepare", "Accept", "Learn", "SynchronizeLog"}
OfCli == {Commands[c] : c \in DOMAIN Commands}
OfWeb == {Routes[p] : p \in DOMAIN Routes}
Proposing == {"Set", "Delete", "cliPropose"}

ASSUME HandlersAssumption ==
  /\ IsFiniteSet(Call) /\ Nil \notin Call
  /\ Op \subseteq DOMAIN Program
  /\ IsFiniteSet(PeerSlot) /\ PeerSlot = 1..Cardinality(PeerSlot)
  /\ Id \subseteq Nat \ {0}
  /\ AtOnce \in Nat

Init ==
  /\ call = [r \in Call |-> NoCall]
  /\ todo = [r \in Call |-> <<>>]
  /\ result = [r \in Call |-> "none"]
  /\ ptr = [r \in Call |-> Nil]
  /\ readers = [r \in Call |-> 0]
  /\ writer = Nil
  /\ slots = [s \in Slot |-> Nil]
  /\ state = [r \in Call |-> ZeroState]
  /\ highestSlotID = 0
  /\ isLeader \in BOOLEAN   \* the monitor may have won an election
  /\ alive = TRUE
  /\ overtaken = {}
  /\ raced = {}
  /\ rivals = {}
  /\ lowered = FALSE

-----------------------------------------------------------------------------
Running(r) == todo[r] # <<>>
At(r, step) == Head(todo[r]) = step

GoOn(r) == todo' = [todo EXCEPT ![r] = Tail(@)]
GoTo(r, steps) == todo' = [todo EXCEPT ![r] = steps]
Return(r, answer) == result' = [result EXCEPT ![r] = answer]

SlotOf(r) == call[r].slot
ThisEntry(r) == state[ptr[r]]
WriteTo(r, field, value) ==
  state' = [state EXCEPT ![ptr[r]] = [@ EXCEPT ![field] = value]]

(* The slots in which a call that comes in now, with ID b, meets another.  *)
Meets(s, b) ==
  {t \in {s} : \E q \in Call :
     Running(q) /\ SlotOf(q) = t /\ 0 \notin {b, call[q].id} /\ call[q].id # b}

(* A peer calls a handler.  Learn and a learned value have no ID of their  *)
(* own, the value has that of its command.                                 *)
PeerCalls(r) ==
  \E o \in Op \cap OfSlot, s \in PeerSlot, b \in Id :
    /\ call[r] = NoCall
    /\ call' = [call EXCEPT ![r] =
                  [op |-> o, slot |-> s, id |-> IF o = "Learn" THEN 0 ELSE b]]
    /\ GoTo(r, Program[o])
    /\ rivals' = rivals \cup Meets(s, call'[r].id)
    /\ UNCHANGED <<result, ptr, lock, memory, alive, overtaken, raced, lowered>>

(* The CLI reads its next command when it has carried out the last one.    *)
CliIsBusy == \E q \in Call : Running(q) /\ call[q].op \in OfCli

(* A Set or a Delete through the web backend that comes while another one  *)
(* runs is that of another user, or of one who was told of a failure when  *)
(* the deadline of the backend, 5 s, had passed; the handler goes on.      *)
WaitedFor == OfWeb \cap Proposing
StillWaitedFor == {q \in Call : Running(q) /\ call[q].op \in WaitedFor}

UserCalls(r) ==
  \E o \in Op \ OfSlot :
    /\ call[r] = NoCall
    /\ o \in OfCli => ~CliIsBusy
    /\ overtaken' = overtaken \cup {q \in StillWaitedFor : o \in WaitedFor}
    /\ call' = [call EXCEPT ![r].op = o]
    /\ GoTo(r, Program[o])
    /\ UNCHANGED <<result, ptr, lock, memory, alive, history>>

-----------------------------------------------------------------------------
(* The lock.                                                               *)
RLock(r) ==
  /\ At(r, "RLock")
  /\ writer = Nil
  /\ readers' = [readers EXCEPT ![r] = @ + 1]
  /\ GoOn(r)
  /\ UNCHANGED <<call, result, ptr, writer, memory, alive, overtaken, history>>

RUnlock(r) ==
  /\ At(r, "RUnlock")
  /\ readers' = [readers EXCEPT ![r] = @ - 1]
  /\ GoOn(r)
  /\ UNCHANGED <<call, result, ptr, writer, memory, alive, overtaken, history>>

Announce(r) ==
  /\ At(r, "Lock")
  /\ writer = Nil
  /\ writer' = r
  /\ GoOn(r)
  /\ UNCHANGED <<call, result, ptr, readers, memory, alive, overtaken, history>>

NoReaders == \A q \in Call : readers[q] = 0

Enter(r) ==
  /\ At(r, "Enter")
  /\ NoReaders
  /\ GoOn(r)
  /\ UNCHANGED <<call, result, ptr, lock, memory, alive, overtaken, history>>

Unlock(r) ==
  /\ At(r, "Unlock")
  /\ writer' = Nil
  /\ GoOn(r)
  /\ UNCHANGED <<call, result, ptr, readers, memory, alive, overtaken, history>>

-----------------------------------------------------------------------------
(* GetSlotState writes the map with the read lock only.                    *)
Check_Broken(r) ==
  /\ At(r, "check")
  /\ GoTo(r, <<"insert">> \o Tail(todo[r]))
  /\ UNCHANGED <<call, result, ptr, lock, memory, alive, overtaken, history>>

Check(r) ==
  /\ At(r, "check")
  /\ IF slots[SlotOf(r)] = Nil
       THEN GoTo(r, <<"insert">> \o Tail(todo[r]))
       ELSE GoOn(r)
  /\ UNCHANGED <<call, result, ptr, lock, memory, alive, overtaken, history>>

Insert(r) ==
  /\ At(r, "insert")
  /\ slots' = [slots EXCEPT ![SlotOf(r)] = r]
  /\ raced' = raced \cup
       {s \in {SlotOf(r)} : \E q \in Call \ {r} :
          Running(q) /\ At(q, "insert") /\ SlotOf(q) = s}
  /\ GoOn(r)
  /\ UNCHANGED <<call, result, ptr, lock, state, highestSlotID, isLeader, alive,
                 overtaken, rivals, lowered>>

Take(r) ==
  /\ At(r, "take")
  /\ ptr' = [ptr EXCEPT ![r] = slots[SlotOf(r)]]
  /\ GoOn(r)
  /\ UNCHANGED <<call, result, lock, memory, alive, overtaken, history>>

(* The runtime may notice a map write that meets another access, and abort. *)
MapFault ==
  /\ \E r, q \in Call :
       /\ r # q
       /\ Running(r) /\ At(r, "insert")
       /\ Running(q) /\ Head(todo[q]) \in {"check", "insert", "take", "copy"}
  /\ alive' = FALSE
  /\ UNCHANGED <<call, todo, result, ptr, lock, memory, overtaken, history>>

(* Prepare and Accept test the promise and, if it allows, go on to set it. *)
Refuse(r) ==
  /\ \/ At(r, "promise?") /\ call[r].id <= ThisEntry(r).promised
     \/ At(r, "accept?") /\ call[r].id < ThisEntry(r).promised
  /\ GoTo(r, <<>>)
  /\ UNCHANGED <<call, result, ptr, lock, memory, alive, overtaken, history>>

Pass(r) ==
  /\ \/ At(r, "promise?") /\ call[r].id > ThisEntry(r).promised
     \/ At(r, "accept?") /\ call[r].id >= ThisEntry(r).promised
  /\ GoOn(r)
  /\ UNCHANGED <<call, result, ptr, lock, memory, alive, overtaken, history>>

SetField(r) ==
  /\ \/ At(r, "setPromise") /\ WriteTo(r, "promised", call[r].id)
     \/ At(r, "setAccepted") /\ WriteTo(r, "accepted", call[r].id)
     \/ At(r, "setCommand") /\ WriteTo(r, "command", r)
  /\ GoOn(r)
  /\ UNCHANGED <<call, result, ptr, lock, slots, highestSlotID, isLeader, alive,
                 overtaken, history>>

Reply(r) ==
  /\ At(r, "reply")
  /\ GoOn(r)
  /\ Return(r, "ok")
  /\ UNCHANGED <<call, ptr, lock, memory, alive, overtaken, history>>

(* Accept compares before it takes the lock ...                            *)
TestTop(r) ==
  /\ At(r, "top?")
  /\ IF SlotOf(r) > highestSlotID THEN GoOn(r) ELSE GoTo(r, <<"reply">>)
  /\ UNCHANGED <<call, result, ptr, lock, memory, alive, overtaken, history>>

SetTop(r, top) ==
  /\ highestSlotID' = top
  /\ lowered' = (lowered \/ top < highestSlotID)
  /\ GoOn(r)

Higher_Broken(s) == s
Higher(s) == IF s > highestSlotID THEN s ELSE highestSlotID

(* ... and ProposeCommand and SynchronizeLog while they hold it.           *)
Raise(r) ==
  /\ \/ At(r, "raise") /\ SetTop(r, SlotOf(r))
     \/ At(r, "raiseMax") /\ SetTop(r, Higher(SlotOf(r)))
  /\ UNCHANGED <<call, result, ptr, lock, slots, state, isLeader, alive, overtaken,
                 raced, rivals>>

WriteLearnedValue(r) ==
  /\ At(r, "learn")
  /\ slots' = [slots EXCEPT ![SlotOf(r)] = r]
  /\ state' = [state EXCEPT ![r] =
                 [promised |-> call[r].id, accepted |-> call[r].id, command |-> r]]
  /\ SetTop(r, Higher(SlotOf(r)))
  /\ UNCHANGED <<call, result, ptr, lock, isLeader, alive, overtaken, raced, rivals>>

(* ListLog looks into every entry of its copy; the command of one that was *)
(* only prepared, or only asked for, is nil.                               *)
Copy(r) ==
  /\ At(r, "copy")
  /\ IF \E s \in Slot : slots[s] # Nil /\ state[slots[s]].command = Nil
       THEN Return(r, "hole")
       ELSE UNCHANGED result
  /\ GoOn(r)
  /\ UNCHANGED <<call, ptr, lock, memory, alive, overtaken, history>>

Render(r) ==
  /\ At(r, "render")
  /\ alive' = (result[r] # "hole")
  /\ GoOn(r)
  /\ UNCHANGED <<call, result, ptr, lock, memory, overtaken, history>>

-----------------------------------------------------------------------------
(* Set and ProposeCommand look at isLeader in critical sections of their   *)
(* own, and return what they answer when they are refused.                 *)
RefuseToPropose(r) ==
  /\ At(r, "leader?") \/ At(r, "draw")
  /\ ~isLeader
  /\ GoTo(r, <<"Unlock">>)
  /\ UNCHANGED <<call, result, ptr, lock, memory, alive, overtaken, history>>

ConfirmLeader(r) ==
  /\ At(r, "leader?")
  /\ isLeader
  /\ GoOn(r)
  /\ UNCHANGED <<call, result, ptr, lock, memory, alive, overtaken, history>>

NextSlot_BrokenReuses == IF highestSlotID = 0 THEN 1 ELSE highestSlotID
NextSlot_BrokenSkips == highestSlotID + 2
NextSlot == highestSlotID + 1

DrawSlot(r) ==
  /\ At(r, "draw")
  /\ isLeader
  /\ \E b \in Id :
       /\ call' = [call EXCEPT ![r].slot = NextSlot, ![r].id = b]
       /\ rivals' = rivals \cup Meets(NextSlot, b)
  /\ GoOn(r)
  /\ UNCHANGED <<result, ptr, lock, memory, alive, overtaken, raced, lowered>>

(* The registry does not answer, too few peers promise or accept.          *)
Ask(r) ==
  /\ \/ At(r, "ask") /\ GoOn(r) /\ UNCHANGED result
     \/ At(r, "ask") /\ GoTo(r, <<>>) /\ UNCHANGED result
     \/ At(r, "count") /\ GoOn(r) /\ Return(r, "ok")
     \/ At(r, "count") /\ GoTo(r, Locked(<<>>)) /\ UNCHANGED result
  /\ UNCHANGED <<call, ptr, lock, memory, alive, overtaken, history>>

(* TryElectSelf returns without unlocking if the node leads.               *)
TestFree(r) ==
  /\ \/ At(r, "free?") /\ isLeader /\ GoTo(r, <<>>)
     \/ At(r, "follower?") /\ isLeader /\ GoTo(r, <<"Unlock">>)
     \/ At(r, "free?") /\ ~isLeader /\ GoOn(r)
     \/ At(r, "follower?") /\ ~isLeader /\ GoOn(r)
  /\ UNCHANGED <<call, result, ptr, lock, memory, alive, overtaken, history>>

(* The registry fails, or the election is lost or won.                     *)
Elect(r) ==
  /\ At(r, "elect")
  /\ \E rest \in {<<>>, Locked(<<"lose">>), Locked(<<"win">>) \o StopHeartbeats} :
       GoTo(r, rest)
  /\ UNCHANGED <<call, result, ptr, lock, memory, alive, overtaken, history>>

EndElection(r) ==
  /\ \/ At(r, "lose") /\ isLeader' = FALSE
     \/ At(r, "win") /\ isLeader' = TRUE
  /\ GoOn(r)
  /\ UNCHANGED <<call, result, ptr, lock, slots, state, highestSlotID, alive,
                 overtaken, history>>

(* A heartbeat with a lower ID is refused.  Any other one of somebody else *)
(* ends a leadership; if the ID is above the promise, stopHeartbeats takes *)
(* the lock that SendHeartbeat holds.  The lock is let go of once more to  *)
(* start SynchronizeLog, if the sender has a longer log.                   *)
Heed(r) ==
  /\ At(r, "heed")
  /\ \/ GoOn(r) /\ UNCHANGED isLeader
     \/ /\ isLeader' = FALSE
        /\ \E stop \in {<<>>, IF isLeader THEN StopHeartbeats ELSE <<>>},
              sync \in {<<>>, <<"Unlock", "Lock", "Enter">>} :
             GoTo(r, stop \o sync \o Tail(todo[r]))
  /\ UNCHANGED <<call, result, ptr, lock, slots, state, highestSlotID, alive,
                 overtaken, history>>

(* Steps that touch nothing that others touch, or only what the lock they  *)
(* hold protects, isLeader above all, and those that let go of it.  When   *)
(* they are made makes no difference to anybody, so they are made at once. *)
Private == {"RUnlock", "Unlock", "reply", "leader?", "draw", "ask", "count", "free?",
            "follower?", "elect", "lose", "win", "heed"}
AtPrivate(r) == Running(r) /\ (Head(todo[r]) \in Private \/ (At(r, "Enter") /\ NoReaders))

PrivateStep(r) ==
  \/ RUnlock(r) \/ Unlock(r) \/ Enter(r) \/ Reply(r)
  \/ RefuseToPropose(r) \/ ConfirmLeader(r) \/ DrawSlot(r) \/ Ask(r)
  \/ TestFree(r) \/ Elect(r) \/ EndElection(r) \/ Heed(r)

SharedStep(r) ==
  \/ RLock(r) \/ Announce(r)
  \/ Check(r) \/ Insert(r) \/ Take(r)
  \/ Refuse(r) \/ Pass(r) \/ SetField(r)
  \/ TestTop(r) \/ Raise(r) \/ WriteLearnedValue(r) \/ Copy(r) \/ Render(r)

Begin(r) ==
  /\ Cardinality({q \in Call : Running(q)}) < AtOnce
  /\ PeerCalls(r) \/ UserCalls(r)

Next ==
  /\ alive
  /\ \/ \E r \in Call : AtPrivate(r) /\ PrivateStep(r)
     \/ /\ \A r \in Call : ~AtPrivate(r)
        /\ \/ MapFault
           \/ \E r \in Call : Begin(r) \/ (Running(r) /\ SharedStep(r))

Spec == Init /\ [][Next]_vars

-----------------------------------------------------------------------------
TypeOK ==
  /\ call \in [Call -> [op : Op \cup {"none"}, slot : {0} \cup Slot, id : {0} \cup Id]]
  /\ result \in [Call -> {"none", "ok", "hole"}]
  /\ ptr \in [Call -> Call \cup {Nil}]
  /\ readers \in [Call -> 0..2]
  /\ writer \in Call \cup {Nil}
  /\ slots \in [Slot -> Call \cup {Nil}]
  /\ state \in [Call -> Entry]
  /\ highestSlotID \in {0} \cup Slot
  /\ isLeader \in BOOLEAN /\ alive \in BOOLEAN /\ lowered \in BOOLEAN
  /\ overtaken \subseteq Call /\ raced \subseteq Slot /\ rivals \subseteq Slot

(* What a call waits for.                                                  *)
Blocked(r) ==
  \/ Head(todo[r]) \in {"RLock", "Lock"} /\ writer # Nil
  \/ Head(todo[r]) = "Enter" /\ ~NoReaders

(* The node hangs only if List or ListLog waits for the read lock that it  *)
(* already holds, SendHeartbeat has deposed a leader and waits for its own *)
(* lock, or TryElectSelf has returned at a leader with the lock held.  No  *)
(* interleaving of the other handlers blocks them all.                     *)
HangsOnlyByReentry ==
  (alive /\ (\E r \in Call : Running(r)) /\ \A r \in Call : Running(r) => Blocked(r))
  => \E r \in Call :
       \/ call[r].op \in {"List", "ListLog"} /\ Running(r) /\ readers[r] > 0
       \/ call[r].op = "SendHeartbeat" /\ Running(r) /\ writer = r
       \/ call[r].op = "TryElectSelf" /\ ~Running(r) /\ writer = r

(* A promise or an acceptance that was answered is in the entry of its     *)
(* slot, although handlers find, test and set entries without excluding    *)
(* one another.  It can be lost if calls of different IDs overlap in the   *)
(* slot, if two calls enter the slot in the map at once, and when the node *)
(* writes a command of its own or a learned one there without a test.      *)
GrantsAreRecorded ==
  \A r \in Call :
    /\ call[r].op \in {"Prepare", "Accept"} /\ result[r] = "ok"
    /\ SlotOf(r) \notin raced \cup rivals
    /\ \A q \in Call : SlotOf(q) = SlotOf(r)
                         => call[q].op \notin Proposing \cup {"SynchronizeLog"}
    => /\ slots[SlotOf(r)] # Nil
       /\ state[slots[SlotOf(r)]].promised >= call[r].id

(* The three fields of an entry, set one after the other, belong together  *)
(* when nobody is setting them, unless IDs overlapped in the slot.         *)
EntriesAreWhole ==
  \A s \in Slot \ rivals :
    /\ slots[s] # Nil
    /\ \A r \in Call : Running(r) /\ SlotOf(r) = s =>
         Head(todo[r]) \notin {"setPromise", "setAccepted", "setCommand"}
    => LET e == state[slots[s]]
       IN  /\ e.promised >= e.accepted
           /\ e.accepted # 0 => e.command # Nil /\ call[e.command].id = e.accepted

(* A slot whose proposal was answered with success keeps a command, so     *)
(* that ListLog, which dies at an entry without one, is not brought down   *)
(* by it, whoever prepares, accepts, learns or asks for the slot later;    *)
(* unless two calls entered the slot in the map at once.                   *)
SuccessesStayListed ==
  \A r \in Call :
    /\ call[r].op \in Proposing /\ result[r] = "ok"
    /\ SlotOf(r) \notin raced
    => /\ slots[SlotOf(r)] # Nil
       /\ state[slots[SlotOf(r)]].command # Nil

(* highestSlotID falls only when Accept sets what it compared too early;   *)
(* ProposeCommand and SynchronizeLog never lower it.                       *)
OnlyAcceptLowersTop ==
  [][highestSlotID' < highestSlotID =>
       \E r \in Call : call[r].op = "Accept" /\ todo'[r] # todo[r]]_vars

(* Two Sets or Deletes, both answered with success, went to different      *)
(* slots, so that neither replaced the other, unless one came while the    *)
(* other ran, as it does when the backend gives up too soon, or            *)
(* highestSlotID had fallen.                                               *)
SuccessesHaveOwnSlots ==
  \A r, q \in Call :
    /\ r # q
    /\ {call[r].op, call[q].op} \subseteq WaitedFor
    /\ result[r] = "ok" /\ result[q] = "ok"
    /\ {r, q} \cap overtaken = {} /\ ~lowered
    => SlotOf(r) # SlotOf(q)
=============================================================================
