---------------------------- MODULE RegistryProofs ----------------------------
(***************************************************************************)
(* The registry expires no node that beats, and keeps no entry for more    *)
(* than ten seconds, for any processes, names and addresses.  The second   *)
(* needs no assumption on the network; the first needs that a heartbeat    *)
(* takes no more than three seconds.                                       *)
(***************************************************************************)
EXTENDS Registry, TLAPS

(* The TTL of 5 s less the heartbeat period of 2 s, in half seconds.       *)
Punctual == MaxDelay <= 6

NamesAreTotal ==
  /\ NameOf \in [Process -> Name]
  /\ AddressOf \in [Process -> Address]

LEMMA UnixType == \A t \in Nat : Unix(t) \in Nat /\ 2 * Unix(t) <= t /\ t <= 2 * Unix(t) + 1
  BY DEF Unix

LEMMA PeriodType == \A p \in Process : BeatPeriod(p) \in {4, 20}
  BY DEF BeatPeriod

LEMMA PeriodOfNode == \A n \in Node : BeatPeriod(n) = 4
  BY DEF BeatPeriod

-----------------------------------------------------------------------------
(* The type invariant is inductive with the bounds of the two tickers.     *)
Tickers ==
  /\ \A p \in Process : beatAt[p] <= now + BeatPeriod(p)
  /\ cleanupAt <= now + CleanupPeriod
  /\ servingSince <= now

LEMMA RegisterType ==
  ASSUME TypeOK, NamesAreTotal, NEW p \in Process, Register(p)
  PROVE  /\ services' \in [Name -> Service \cup {Nil}]
         /\ services'[NameOf[p]] = [address |-> AddressOf[p], lastHeartBeat |-> Unix(now)]
         /\ \A m \in Name \ {NameOf[p]} : services'[m] = services[m]
<1>1. NameOf[p] \in Name /\ AddressOf[p] \in Address
  BY DEF Name, Address
<1>2. Unix(now) \in 0..(MaxTime \div 2)
  BY RegistryAssumption DEF TypeOK, Time, Unix
<1>. QED
  BY <1>1, <1>2 DEF Register, TypeOK, Service

LEMMA TypeInit == NamesAreTotal => (Init => TypeOK /\ Tickers)
<1>1. \A p \in Process : BeatPeriod(p) \in {4, 20}
  BY PeriodType
<1>. QED
  BY <1>1, RegistryAssumption
     DEF Init, TypeOK, Tickers, Time, Later, NoServices, CleanupPeriod

LEMMA TypeNext ==
  ASSUME NamesAreTotal, TypeOK, Tickers, [Next]_vars
  PROVE  TypeOK' /\ Tickers'
<1>. USE RegistryAssumption DEF TypeOK, Tickers, Time, Later, CleanupPeriod
<1>0. \A p \in Process : BeatPeriod(p) \in {4, 20}
  BY PeriodType
<1>1. ASSUME NEW p \in Process, Start(p)
      PROVE  TypeOK' /\ Tickers'
  <2>1. services' \in [Name -> Service \cup {Nil}]
    BY <1>1, RegisterType DEF Start
  <2>2. phase' \in [Process -> {"down", "starting", "up"}]
    BY <1>1 DEF Start, Becomes
  <2>3. beatAt' \in [Process -> Later] /\ \A q \in Process : beatAt'[q] <= now + BeatPeriod(q)
    BY <1>0, <1>1 DEF Start
  <2>. QED
    BY <1>1, <2>1, <2>2, <2>3 DEF Start
<1>2. ASSUME NEW p \in Process, phase' \in [Process -> {"down", "starting", "up"}],
             NoTicker(p) \/ UNCHANGED beatAt,
             UNCHANGED <<now, serving, services, cleanupAt, servingSince>>
      PROVE  TypeOK' /\ Tickers'
  <2>1. beatAt' \in [Process -> Later] /\ \A q \in Process : beatAt'[q] <= now + BeatPeriod(q)
    BY <1>0, <1>2 DEF NoTicker
  <2>. QED
    BY <1>2, <2>1
<1>3. ASSUME NEW p \in Process, Stop(p)
      PROVE  TypeOK' /\ Tickers'
  BY <1>2, <1>3 DEF Stop, Becomes
<1>4. ASSUME NEW n \in Node, Listen(n)
      PROVE  TypeOK' /\ Tickers'
  BY <1>2, <1>4 DEF Listen, Becomes, Process
<1>5. ASSUME NEW p \in Process, Heartbeat(p)
      PROVE  TypeOK' /\ Tickers'
  <2>1. services' \in [Name -> Service \cup {Nil}]
    BY <1>5, RegisterType DEF Heartbeat
  <2>2. NextBeat(p) \in Later /\ NextBeat(p) <= now + BeatPeriod(p)
    BY <1>0, <1>5 DEF Heartbeat, NextBeat
  <2>3. beatAt' \in [Process -> Later] /\ \A q \in Process : beatAt'[q] <= now + BeatPeriod(q)
    BY <1>5, <2>2 DEF Heartbeat
  <2>. QED
    BY <1>5, <2>1, <2>3 DEF Heartbeat
<1>6. CASE Cleanup
  BY <1>6 DEF Cleanup
<1>7. CASE StopRegistry
  <2>1. services' \in [Name -> Service \cup {Nil}]
    BY <1>7 DEF StopRegistry, NoServices
  <2>2. cleanupAt' \in Later /\ cleanupAt' <= now + CleanupPeriod
    BY <1>7 DEF StopRegistry
  <2>. QED
    BY <1>7, <2>1, <2>2 DEF StopRegistry
<1>8. CASE StartRegistry
  BY <1>8 DEF StartRegistry
<1>9. CASE Tick
  BY <1>0, <1>9 DEF Tick
<1>10. CASE UNCHANGED vars
  BY <1>10 DEF vars
<1>. QED
  BY <1>1, <1>3, <1>4, <1>5, <1>6, <1>7, <1>8, <1>9, <1>10 DEF Next

(* Every field keeps its type: in particular no ticker is set further      *)
(* ahead than its period.                                                  *)
THEOREM RegistryTypeCorrect ==
  ASSUME NamesAreTotal
  PROVE  Spec => []TypeOK
<1>. QED
  BY TypeInit, TypeNext, PTL DEF Spec
-----------------------------------------------------------------------------
(* An entry outlives a cleanup only if it was not older than Ttl then.     *)
CleanupsDone ==
  /\ serving => cleanupAt <= now + CleanupPeriod /\ now <= cleanupAt
  /\ ~serving => services = NoServices
  /\ \A m \in Name :
       services[m] # Nil
         => Unix(cleanupAt) <= services[m].lastHeartBeat + Ttl + Ttl

LEMMA UnixMonotonic ==
  ASSUME NEW s \in Nat, NEW t \in Nat, s <= t
  PROVE  Unix(s) <= Unix(t)
  BY DEF Unix

LEMMA UnixShift == \A t \in Nat : Unix(t + CleanupPeriod) = Unix(t) + Ttl
  BY DEF Unix, CleanupPeriod, Ttl

LEMMA EntryType ==
  ASSUME TypeOK, NEW m \in Name, services[m] # Nil
  PROVE  services[m].lastHeartBeat \in Nat
  BY RegistryAssumption DEF TypeOK, Service

LEMMA CleanupInit == Init => CleanupsDone
  BY DEF Init, CleanupsDone, NoServices, CleanupPeriod

(* A registration at this moment is younger than any cleanup to come.      *)
LEMMA RegisterIsRecent ==
  ASSUME NamesAreTotal, TypeOK, CleanupsDone, serving, NEW p \in Process, Register(p)
  PROVE  \A m \in Name :
           services'[m] # Nil
             => Unix(cleanupAt) <= services'[m].lastHeartBeat + Ttl + Ttl
<1>. SUFFICES ASSUME NEW m \in Name, services'[m] # Nil
              PROVE  Unix(cleanupAt) <= services'[m].lastHeartBeat + Ttl + Ttl
  OBVIOUS
<1>1. now \in Nat /\ cleanupAt \in Nat
  BY RegistryAssumption DEF TypeOK, Time, Later
<1>2. CASE m = NameOf[p]
  <2>1. Unix(cleanupAt) <= Unix(now + CleanupPeriod)
    BY <1>1, UnixMonotonic DEF CleanupsDone, CleanupPeriod
  <2>2. Unix(cleanupAt) <= Unix(now) + Ttl
    BY <1>1, <2>1, UnixShift
  <2>3. services'[m] = [address |-> AddressOf[p], lastHeartBeat |-> Unix(now)]
    BY <1>2, RegisterType
  <2>4. Unix(now) \in Nat /\ Unix(cleanupAt) \in Nat
    BY <1>1, UnixType
  <2>. QED
    BY <2>2, <2>3, <2>4 DEF Ttl
<1>3. CASE m # NameOf[p]
  BY <1>3, RegisterType DEF CleanupsDone
<1>. QED
  BY <1>2, <1>3

LEMMA CleanupNext ==
  ASSUME NamesAreTotal, TypeOK, Tickers, CleanupsDone, [Next]_vars
  PROVE  CleanupsDone'
<1>0. now \in Nat /\ cleanupAt \in Nat
  BY RegistryAssumption DEF TypeOK, Time, Later
<1>1. ASSUME NEW p \in Process, Start(p)
      PROVE  CleanupsDone'
  BY <1>1, RegisterIsRecent DEF Start, CleanupsDone
<1>2. ASSUME UNCHANGED <<now, serving, services, cleanupAt>>
      PROVE  CleanupsDone'
  BY <1>2 DEF CleanupsDone, NoServices
<1>3. ASSUME NEW p \in Process, Heartbeat(p)
      PROVE  CleanupsDone'
  <2>1. CASE serving /\ Register(p)
    BY <1>3, <2>1, RegisterIsRecent DEF Heartbeat, CleanupsDone
  <2>2. CASE UNCHANGED services
    BY <1>2, <1>3, <2>2 DEF Heartbeat
  <2>. QED
    BY <1>3, <2>1, <2>2 DEF Heartbeat
<1>4. CASE Cleanup
  <2>1. ASSUME NEW m \in Name, services'[m] # Nil
        PROVE  Unix(cleanupAt') <= services'[m].lastHeartBeat + Ttl + Ttl
    <3>1. services'[m] = services[m] /\ services[m] # Nil /\ ~Expired(services[m])
      BY <1>4, <2>1 DEF Cleanup
    <3>2. services[m].lastHeartBeat \in Nat
      BY <3>1, EntryType
    <3>3. Unix(now) \in Nat /\ now = cleanupAt /\ cleanupAt' = cleanupAt + CleanupPeriod
      BY <1>0, <1>4, UnixType DEF Cleanup
    <3>4. Unix(cleanupAt) \in Nat /\ Unix(cleanupAt) <= services[m].lastHeartBeat + Ttl
      BY <3>1, <3>2, <3>3 DEF Expired, Ttl
    <3>5. Unix(cleanupAt') = Unix(cleanupAt) + Ttl
      BY <1>0, <3>3, UnixShift
    <3>. QED
      BY <3>1, <3>2, <3>4, <3>5 DEF Ttl
  <2>. QED
    BY <1>0, <1>4, <2>1 DEF Cleanup, CleanupsDone, CleanupPeriod
<1>5. CASE StopRegistry
  BY <1>5 DEF StopRegistry, CleanupsDone, NoServices
<1>6. CASE StartRegistry
  BY <1>0, <1>6 DEF StartRegistry, CleanupsDone, NoServices, CleanupPeriod
<1>7. CASE Tick
  BY <1>0, <1>7 DEF Tick, CleanupsDone, CleanupPeriod, NoServices
<1>8. ASSUME NEW p \in Process, Stop(p) \/ Listen(p)
      PROVE  CleanupsDone'
  BY <1>2, <1>8 DEF Stop, Listen
<1>9. CASE UNCHANGED vars
  BY <1>2, <1>9 DEF vars
<1>. QED
  BY <1>1, <1>3, <1>4, <1>5, <1>6, <1>7, <1>8, <1>9 DEF Next, Process

LEMMA CleanupImplies ==
  ASSUME TypeOK, CleanupsDone
  PROVE  EntriesAreRecent
<1>. SUFFICES ASSUME NEW m \in Name, services[m] # Nil
              PROVE  Unix(now) - services[m].lastHeartBeat <= 2 * Ttl
  BY DEF EntriesAreRecent
<1>1. now \in Nat /\ cleanupAt \in Nat
  BY RegistryAssumption DEF TypeOK, Time, Later
<1>2. serving
  BY DEF CleanupsDone, NoServices
<1>3. Unix(now) <= Unix(cleanupAt)
  BY <1>1, <1>2, UnixMonotonic DEF CleanupsDone
<1>4. Unix(now) \in Nat /\ Unix(cleanupAt) \in Nat /\ services[m].lastHeartBeat \in Nat
  BY <1>1, EntryType, UnixType
<1>5. Unix(cleanupAt) <= services[m].lastHeartBeat + Ttl + Ttl
  BY DEF CleanupsDone
<1>. QED
  BY <1>3, <1>4, <1>5 DEF Ttl

(* The registry keeps no entry for more than ten seconds after its last    *)
(* heartbeat, whatever processes share its name, and whenever it was       *)
(* started.                                                                *)
THEOREM EntriesRecent ==
  ASSUME NamesAreTotal
  PROVE  Spec => []EntriesAreRecent
<1>1. Init => TypeOK /\ Tickers /\ CleanupsDone
  BY TypeInit, CleanupInit
<1>2. TypeOK /\ Tickers /\ CleanupsDone /\ [Next]_vars => (TypeOK /\ Tickers /\ CleanupsDone)'
  BY TypeNext, CleanupNext
<1>3. TypeOK /\ CleanupsDone => EntriesAreRecent
  BY CleanupImplies
<1>. QED
  BY <1>1, <1>2, <1>3, PTL DEF Spec
-----------------------------------------------------------------------------
(* The entry of a node that runs is no older than its last tick but one,   *)
(* and there is one unless the registry was started after that tick.       *)
Live(n) ==
  phase[n] # "down" =>
    /\ now <= beatAt[n] + MaxDelay
    /\ serving /\ services[NameOf[n]] = Nil => beatAt[n] <= servingSince + 4
    /\ services[NameOf[n]] # Nil =>
         /\ services[NameOf[n]].address = AddressOf[n]
         /\ Unix(beatAt[n]) <= services[NameOf[n]].lastHeartBeat + 2

NodesAreLive == \A n \in Node : HasOwnName(n) => Live(n)

LEMMA LiveInit == Init => NodesAreLive
  BY DEF Init, NodesAreLive, Live, Process

LEMMA UnixOfPeriod == \A t \in Nat : Unix(t + 4) = Unix(t) + 2
  BY DEF Unix

LEMMA UnixOfDelay == \A t \in Nat : Unix(t + 6) = Unix(t) + 3
  BY DEF Unix

(* A step that leaves the node, its entry and the time alone.              *)
LEMMA LiveStutter ==
  ASSUME NEW n \in Node, Live(n),
         phase'[n] \in {phase[n], "down", IF phase[n] = "down" THEN "down" ELSE "up"},
         phase'[n] # "down" => beatAt'[n] = beatAt[n],
         services'[NameOf[n]] = services[NameOf[n]],
         UNCHANGED <<now, serving, servingSince>>
  PROVE  Live(n)'
<1>. SUFFICES ASSUME phase'[n] # "down"
              PROVE  Live(n)'
  BY DEF Live
<1>1. phase[n] # "down" /\ beatAt'[n] = beatAt[n]
  OBVIOUS
<1>. QED
  BY <1>1 DEF Live

(* The node has just registered, at a tick or before its first one.        *)
LEMMA LiveRegister ==
  ASSUME NamesAreTotal, TypeOK, NEW n \in Node, Register(n),
         beatAt'[n] \in Nat, now <= beatAt'[n], beatAt'[n] <= now + 4,
         UNCHANGED <<now, serving, servingSince>>
  PROVE  Live(n)'
<1>1. now \in Nat /\ n \in Process /\ MaxDelay \in Nat
  BY RegistryAssumption DEF TypeOK, Time, Process
<1>2. services'[NameOf[n]] = [address |-> AddressOf[n], lastHeartBeat |-> Unix(now)]
  BY <1>1, RegisterType
<1>3. NameOf[n] \in Name /\ services'[NameOf[n]] \in Service
  <2>1. services' \in [Name -> Service \cup {Nil}] /\ NameOf[n] \in Name
    BY <1>1, RegisterType DEF Name
  <2>2. AddressOf[n] \in Address /\ Unix(now) \in 0..(MaxTime \div 2)
    BY <1>1, RegistryAssumption DEF Address, TypeOK, Time, Unix
  <2>. QED
    BY <1>2, <2>1, <2>2 DEF Service
<1>4. services'[NameOf[n]] # Nil
  BY <1>3, RegistryAssumption
<1>5. Unix(beatAt'[n]) <= Unix(now) + 2
  <2>1. Unix(beatAt'[n]) <= Unix(now + 4)
    BY <1>1, UnixMonotonic
  <2>. QED
    BY <1>1, <2>1, UnixOfPeriod
<1>6. now' <= beatAt'[n] + MaxDelay
  BY <1>1
<1>. QED
  BY <1>2, <1>4, <1>5, <1>6 DEF Live, Unix

(* A cleanup does not expire the node.                                     *)
LEMMA LiveCleanup ==
  ASSUME NamesAreTotal, Punctual, TypeOK, NEW n \in Node, Live(n), phase[n] # "down", Cleanup
  PROVE  services'[NameOf[n]] = services[NameOf[n]]
<1>1. n \in Process /\ NameOf[n] \in Name
  BY DEF Process, Name
<1>2. services'[NameOf[n]] = IF services[NameOf[n]] # Nil /\ Expired(services[NameOf[n]])
                               THEN Nil ELSE services[NameOf[n]]
  BY <1>1 DEF Cleanup
<1>3. ASSUME services[NameOf[n]] # Nil
      PROVE  ~Expired(services[NameOf[n]])
  <2>1. services[NameOf[n]].lastHeartBeat \in Nat
    BY <1>1, <1>3, EntryType
  <2>2. now \in Nat /\ beatAt[n] \in Nat /\ MaxDelay \in Nat
    BY <1>1, RegistryAssumption DEF TypeOK, Time, Later
  <2>3. now <= beatAt[n] + 6
    BY <2>2 DEF Live, Punctual
  <2>4. Unix(now) <= Unix(beatAt[n] + 6)
    BY <2>2, <2>3, UnixMonotonic
  <2>5. Unix(now) <= Unix(beatAt[n]) + 3
    BY <2>2, <2>4, UnixOfDelay
  <2>6. Unix(now) \in Nat /\ Unix(beatAt[n]) \in Nat
    BY <2>2, UnixType
  <2>7. Unix(beatAt[n]) <= services[NameOf[n]].lastHeartBeat + 2
    BY <1>3 DEF Live
  <2>. QED
    BY <2>1, <2>5, <2>6, <2>7 DEF Expired, Ttl
<1>. QED
  BY <1>2, <1>3

LEMMA OthersRegister ==
  ASSUME NamesAreTotal, TypeOK, NEW n \in Node, HasOwnName(n),
         NEW p \in Process, p # n, Register(p)
  PROVE  services'[NameOf[n]] = services[NameOf[n]]
<1>1. n \in Process /\ NameOf[n] \in Name \ {NameOf[p]}
  BY DEF Process, Name, HasOwnName
<1>. QED
  BY <1>1, RegisterType

LEMMA LiveNext ==
  ASSUME NamesAreTotal, Punctual, TypeOK, Tickers, CleanupsDone, NodesAreLive, [Next]_vars
  PROVE  NodesAreLive'
<1>. SUFFICES ASSUME NEW n \in Node, HasOwnName(n)
              PROVE  Live(n)'
  BY DEF NodesAreLive, HasOwnName
<1>0. /\ Live(n) /\ n \in Process /\ BeatPeriod(n) = 4 /\ n \notin Client
      /\ now \in Nat /\ beatAt[n] \in Nat /\ MaxDelay \in Nat /\ servingSince \in Nat
      /\ phase[n] \in {"down", "starting", "up"} /\ NameOf[n] \in Name
  BY RegistryAssumption, PeriodOfNode DEF NodesAreLive, Process, TypeOK, Time, Later, Name
<1>1. ASSUME NEW p \in Process, Start(p)
      PROVE  Live(n)'
  <2>1. CASE p = n
    <3>1. beatAt'[n] = now + 4
      BY <1>0, <1>1, <2>1 DEF Start, TypeOK
    <3>. QED
      BY <1>0, <1>1, <2>1, <3>1, LiveRegister DEF Start
  <2>2. CASE p # n
    <3>1. services'[NameOf[n]] = services[NameOf[n]]
      BY <1>1, <2>2, OthersRegister DEF Start
    <3>2. phase'[n] = phase[n] /\ beatAt'[n] = beatAt[n]
      BY <1>0, <1>1, <2>2 DEF Start, Becomes, TypeOK
    <3>. QED
      BY <1>0, <1>1, <3>1, <3>2, LiveStutter DEF Start
  <2>. QED
    BY <2>1, <2>2
<1>2. ASSUME NEW p \in Process, Stop(p) \/ (p \in Node /\ Listen(p))
      PROVE  Live(n)'
  <2>1. phase'[n] \in {phase[n], "down", IF phase[n] = "down" THEN "down" ELSE "up"}
    BY <1>0, <1>2 DEF Stop, Listen, Becomes, TypeOK
  <2>2. phase'[n] # "down" => beatAt'[n] = beatAt[n]
    BY <1>0, <1>2 DEF Stop, Listen, Becomes, NoTicker, TypeOK
  <2>. QED
    BY <1>0, <1>2, <2>1, <2>2, LiveStutter DEF Stop, Listen
<1>3. ASSUME NEW p \in Process, Heartbeat(p)
      PROVE  Live(n)'
  <2>1. CASE p = n
    <3>1. beatAt'[n] = NextBeat(n) /\ beatAt[n] <= now /\ phase[n] = "up"
      BY <1>0, <1>3, <2>1 DEF Heartbeat, TypeOK
    <3>2. beatAt'[n] \in Nat /\ now <= beatAt'[n] /\ beatAt'[n] <= now + 4
      BY <1>0, <3>1 DEF NextBeat
    <3>3. CASE serving
      BY <1>0, <1>3, <2>1, <3>2, <3>3, LiveRegister DEF Heartbeat
    <3>4. CASE ~serving
      <4>1. services'[NameOf[n]] = Nil /\ ~serving' /\ now' = now
        BY <1>0, <1>3, <2>1, <3>4 DEF Heartbeat, CleanupsDone, NoServices
      <4>2. now' <= beatAt'[n] + MaxDelay
        BY <1>0, <3>2, <4>1
      <4>. QED
        BY <4>1, <4>2 DEF Live
    <3>. QED
      BY <3>3, <3>4
  <2>2. CASE p # n
    <3>1. services'[NameOf[n]] = services[NameOf[n]]
      BY <1>3, <2>2, OthersRegister DEF Heartbeat
    <3>2. phase'[n] = phase[n] /\ beatAt'[n] = beatAt[n]
      BY <1>0, <1>3, <2>2 DEF Heartbeat, TypeOK
    <3>. QED
      BY <1>0, <1>3, <3>1, <3>2, LiveStutter DEF Heartbeat
  <2>. QED
    BY <2>1, <2>2
<1>4. CASE Cleanup
  <2>1. CASE phase[n] = "down"
    BY <1>4, <2>1 DEF Cleanup, Live
  <2>2. CASE phase[n] # "down"
    <3>1. services'[NameOf[n]] = services[NameOf[n]]
      BY <1>0, <1>4, <2>2, LiveCleanup
    <3>. QED
      BY <1>0, <1>4, <3>1, LiveStutter DEF Cleanup
  <2>. QED
    BY <2>1, <2>2
<1>5. CASE StopRegistry
  BY <1>0, <1>5 DEF StopRegistry, NoServices, Live
<1>6. CASE StartRegistry
  <2>1. services'[NameOf[n]] = Nil
    BY <1>0, <1>6 DEF StartRegistry, CleanupsDone, NoServices
  <2>2. beatAt[n] <= now + 4
    BY <1>0 DEF Tickers
  <2>. QED
    BY <1>0, <1>6, <2>1, <2>2 DEF StartRegistry, Live
<1>7. CASE Tick
  <2>1. phase[n] # "down" => now' <= beatAt'[n] + MaxDelay
    BY <1>0, <1>7 DEF Tick
  <2>. QED
    BY <1>0, <1>7, <2>1 DEF Tick, Live
<1>8. CASE UNCHANGED vars
  BY <1>0, <1>8, LiveStutter DEF vars
<1>. QED
  BY <1>1, <1>2, <1>3, <1>4, <1>5, <1>6, <1>7, <1>8 DEF Next, Process

LEMMA LiveImplies ==
  ASSUME NamesAreTotal, TypeOK, NodesAreLive
  PROVE  LiveNodesListed
<1>. SUFFICES ASSUME NEW n \in Node, HasOwnName(n), phase[n] = "up", serving,
                     now > servingSince + BeatPeriod(n) + MaxDelay
              PROVE  <<NameOf[n], AddressOf[n]>> \in ListAll
  BY DEF LiveNodesListed
<1>1. /\ Live(n) /\ BeatPeriod(n) = 4 /\ NameOf[n] \in Name
      /\ now \in Nat /\ beatAt[n] \in Nat /\ MaxDelay \in Nat /\ servingSince \in Nat
  BY RegistryAssumption, PeriodOfNode DEF NodesAreLive, Process, TypeOK, Time, Later, Name
<1>2. services[NameOf[n]] # Nil
  BY <1>1 DEF Live
<1>3. services[NameOf[n]].address = AddressOf[n]
  BY <1>1, <1>2 DEF Live
<1>. QED
  BY <1>1, <1>2, <1>3 DEF ListAll

(* A node that runs and has a name of its own is listed with its own       *)
(* address, from the time the registry has run for one heartbeat, if no    *)
(* heartbeat takes more than three seconds: what LiveNodesListed says, for *)
(* any number of nodes, of other processes, and of restarts.               *)
THEOREM LiveNodesAreListed ==
  ASSUME NamesAreTotal, Punctual
  PROVE  Spec => []LiveNodesListed
<1>1. Init => TypeOK /\ Tickers /\ CleanupsDone /\ NodesAreLive
  BY TypeInit, CleanupInit, LiveInit
<1>2. TypeOK /\ Tickers /\ CleanupsDone /\ NodesAreLive /\ [Next]_vars
        => (TypeOK /\ Tickers /\ CleanupsDone /\ NodesAreLive)'
  BY TypeNext, CleanupNext, LiveNext
<1>3. TypeOK /\ NodesAreLive => LiveNodesListed
  BY LiveImplies
<1>. QED
  BY <1>1, <1>2, <1>3, PTL DEF Spec
=============================================================================
