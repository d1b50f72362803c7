------------------------------- MODULE Registry -------------------------------
(***************************************************************************)
(* The service registry (registry_server) and the processes that register  *)
(* with it, the nodes (paxos/cmd/main.go) and the test client              *)
(* (registry_client): an entry lives as long as heartbeats renew it, and   *)
(* CleanupExpired removes it some time after they stop.                    *)
(*                                                                         *)
(* Time advances in steps of half a second, so that the whole seconds the  *)
(* registry stores (time.Now().Unix()) are coarser than the clock.         *)
(***************************************************************************)
EXTENDS Integers

CONSTANTS
  Node,      \* the node processes
  Client,    \* the test clients
  NameOf,    \* the name each process registers
  AddressOf, \* and its address
  MaxDelay,  \* how long a heartbeat takes at most, in half seconds
  MaxTime,   \* bound: the last instant
  Nil        \* no entry

Process == Node \cup Client
Name == {NameOf[p] : p \in Process}
Address == {AddressOf[p] : p \in Process}

CleanupPeriod == 10  \* the ticker of StartCleanup: 5 s
Ttl == 5             \* what StartCleanup passes to CleanupExpired, in seconds

(* Heartbeats: every 2 s of a node, every 10 s of a test client.           *)
BeatPeriod(p) == IF p \in Node THEN 4 ELSE 20

Time == 0..MaxTime
Later == 0..(MaxTime + 20)

(* model.Service; the map has the names as keys.                           *)
Service == [address : Address, lastHeartBeat : 0..(MaxTime \div 2)]

ASSUME RegistryAssumption ==
  /\ MaxDelay \in Nat
  /\ MaxTime \in Nat
  /\ Node \cap Client = {}
  /\ Nil \notin Service

VARIABLES
  now,        \* the time, in half seconds
  serving,    \* the registry process runs
  services,   \* InMemoryRepository.services
  cleanupAt,  \* when the ticker of StartCleanup fires next
  phase,      \* of a process: "down", "starting" or "up"
  beatAt,     \* when its heartbeat ticker fires next
  servingSince  \* history: when the registry was started last

vars == <<now, serving, services, cleanupAt, phase, beatAt, servingSince>>

(* Broken variants of the operators that follow them carry the suffix      *)
(* _Broken; no specification uses them.                                    *)
Unix_Broken(t) == t

(* time.Now().Unix(): whole seconds.                                       *)
Unix(t) == t \div 2

TypeOK ==
  /\ now \in Time
  /\ serving \in BOOLEAN
  /\ services \in [Name -> Service \cup {Nil}]
  /\ cleanupAt \in Later
  /\ phase \in [Process -> {"down", "starting", "up"}]
  /\ beatAt \in [Process -> Later]
  /\ servingSince \in Time

NoServices == [m \in Name |-> Nil]

Init ==
  /\ now = 0
  /\ serving = TRUE
  /\ services = NoServices
  /\ cleanupAt = CleanupPeriod
  /\ phase = [p \in Process |-> "down"]
  /\ beatAt = [p \in Process |-> 0]
  /\ servingSince = 0

-----------------------------------------------------------------------------
(* Register, which Heartbeat calls as well: an entry per name, the last    *)
(* writer gives its address.                                               *)
Register(p) ==
  services' = [services EXCEPT ![NameOf[p]] =
                 [address |-> AddressOf[p], lastHeartBeat |-> Unix(now)]]

(* What ListAll answers.                                                   *)
ListAll == {<<m, services[m].address>> : m \in {k \in Name : services[k] # Nil}}

NoTicker(p) == beatAt' = [beatAt EXCEPT ![p] = 0]
Becomes(p, ph) == phase' = [phase EXCEPT ![p] = ph]

(* A process registers before it does anything else, and exits if it       *)
(* cannot; a node is listed before it listens.                             *)
Start(p) ==
  /\ phase[p] = "down"
  /\ serving
  /\ Register(p)
  /\ Becomes(p, IF p \in Node THEN "starting" ELSE "up")
  /\ beatAt' = [beatAt EXCEPT ![p] = now + BeatPeriod(p)]
  /\ UNCHANGED <<now, serving, cleanupAt, servingSince>>

(* Its port may be taken.  Bound: this takes less than half a second.      *)
Listen(n) ==
  /\ phase[n] = "starting"
  /\ \/ Becomes(n, "up") /\ UNCHANGED beatAt
     \/ Becomes(n, "down") /\ NoTicker(n)
  /\ UNCHANGED <<now, serving, services, cleanupAt, servingSince>>

Stop(p) ==
  /\ phase[p] = "up"
  /\ Becomes(p, "down") /\ NoTicker(p)
  /\ UNCHANGED <<now, serving, services, cleanupAt, servingSince>>

(* A tick that comes while a heartbeat is under way is made up at once,    *)
(* further ones are dropped.  The ticker then keeps its old grid; starting *)
(* it over here makes the next heartbeat no earlier than the code's.       *)
NextBeat(p) ==
  IF beatAt[p] + BeatPeriod(p) > now THEN beatAt[p] + BeatPeriod(p) ELSE now

(* Heartbeat reaches the registry, at most MaxDelay after the tick.  A     *)
(* node whose heartbeat fails registers anew at once, which fails only     *)
(* with the registry; a test client waits for its next tick.               *)
Heartbeat(p) ==
  /\ phase[p] = "up"
  /\ now >= beatAt[p]
  /\ \/ serving /\ Register(p)
     \/ (serving => p \in Client) /\ UNCHANGED services
  /\ beatAt' = [beatAt EXCEPT ![p] = NextBeat(p)]
  /\ UNCHANGED <<now, serving, cleanupAt, phase, servingSince>>

Expired_BrokenEarly(s) == Unix(now) - s.lastHeartBeat >= Ttl
Expired_BrokenLate(s) == Unix(now) - s.lastHeartBeat > 2 * Ttl

(* Older than Ttl in whole seconds: at least Ttl + 1/2 s in fact.          *)
Expired(s) == Unix(now) - s.lastHeartBeat > Ttl

(* CleanupExpired.                                                         *)
Cleanup ==
  /\ serving
  /\ now = cleanupAt
  /\ services' = [m \in Name |->
       IF services[m] # Nil /\ Expired(services[m]) THEN Nil ELSE services[m]]
  /\ cleanupAt' = cleanupAt + CleanupPeriod
  /\ UNCHANGED <<now, serving, phase, beatAt, servingSince>>

StopRegistry ==
  /\ serving
  /\ serving' = FALSE
  /\ services' = NoServices
  /\ cleanupAt' = 0
  /\ UNCHANGED <<now, phase, beatAt, servingSince>>

StartRegistry ==
  /\ ~serving
  /\ serving' = TRUE
  /\ cleanupAt' = now + CleanupPeriod
  /\ servingSince' = now
  /\ UNCHANGED <<now, services, phase, beatAt>>

(* Time passes when nothing is due.                                        *)
Tick ==
  /\ now < MaxTime
  /\ \A p \in Process : phase[p] = "up" => now < beatAt[p] + MaxDelay
  /\ \A p \in Process : phase[p] # "starting"
  /\ serving => now < cleanupAt
  /\ now' = now + 1
  /\ UNCHANGED <<serving, services, cleanupAt, phase, beatAt, servingSince>>

Next ==
  \/ \E p \in Process : Start(p) \/ Stop(p) \/ Heartbeat(p)
  \/ \E n \in Node : Listen(n)
  \/ Cleanup
  \/ StopRegistry
  \/ StartRegistry
  \/ Tick

Spec == Init /\ [][Next]_vars

-----------------------------------------------------------------------------
HasOwnName(p) == \A q \in Process : NameOf[q] = NameOf[p] => q = p

(* A node with a name of its own that runs under a registry that has run   *)
(* for a heartbeat period, and the time a heartbeat takes, is listed with  *)
(* its own address: it is never expired between two of its heartbeats.     *)
(* While this fails, the quorums of ProposeCommand and LeaderElection are  *)
(* too small.  Of test clients it does not hold.                           *)
LiveNodesListed ==
  \A n \in Node :
    /\ HasOwnName(n)
    /\ phase[n] = "up"
    /\ serving
    /\ now > servingSince + BeatPeriod(n) + MaxDelay
    => <<NameOf[n], AddressOf[n]>> \in ListAll

(* A process that no longer beats leaves the list: its entry is at most    *)
(* ten seconds old, twice the period of CleanupExpired.  Until then it     *)
(* counts for the quorums.                                                 *)
EntriesAreRecent ==
  \A m \in Name :
    services[m] # Nil => Unix(now) - services[m].lastHeartBeat <= 2 * Ttl
=============================================================================
