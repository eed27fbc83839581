------------------------- MODULE MemcachePlugin_proof -------------------------
(***************************************************************************)
(* Theorems about MemcachePlugin, for any coroutines, objects and servers. *)
(***************************************************************************)
EXTENDS MemcachePlugin, TLAPS

(* A coroutine in getExtendedStats holds the lock of the shard             *)
(* (DashMap::entry in get_peer).                                           *)
Locked == \A c \in Coroutines : pc[c] \in {"asking", "stats"} => lock = c

(* The servers that were asked are still those of the object, unless the   *)
(* names will be old (Added).                                              *)
AskedNow ==
    \A c \in Coroutines :
        pc[c] = "stats" /\ object[c] \notin old => asked[c] = servers[object[c]]

(* Who waits on an object waits on one that is there. *)
UsesAlive == \A c \in Coroutines : pc[c] # "idle" => object[c] \in alive

(* A server is added to an object whose names are not kept, or are old     *)
(* (hook_memcache_server, ahead of the connect).                           *)
AddsUnnamed == \A h \in Handles : Adding(h) /\ Kept(h) => h \in old

(* What is kept for a handle without an object is old. *)
FreedOld == \A h \in Handles \ alive : Kept(h) => h \in old

Named == \A h \in Handles \ old :
            h \in alive /\ servers[h] # {} /\ PEER_MAP[h] \notin {None, {}}
            => PEER_MAP[h] = servers[h]

IInv == TypeOK /\ Locked /\ AskedNow /\ UsesAlive /\ AddsUnnamed /\ FreedOld /\ Named

(* Functions to sets of servers are beyond the provers inside TypeOK. *)
LEMMA UpdateType ==
  ASSUME NEW S, NEW T, NEW f \in [S -> T], NEW s \in S, NEW t \in T
  PROVE  [f EXCEPT ![s] = t] \in [S -> T]
  OBVIOUS

LEMMA ConstantType ==
  ASSUME NEW S, NEW T, NEW t \in T
  PROVE  [s \in S |-> t] \in [S -> T]
  OBVIOUS

LEMMA NoServers == {} \in SUBSET Servers /\ None \in (SUBSET Servers) \cup {None}
  OBVIOUS

LEMMA InitIInv == Init => IInv
  <1> USE DEF Init
  <1>1. Init => TypeOK
    <2> SUFFICES ASSUME Init PROVE TypeOK
      OBVIOUS
    <2>1. /\ servers \in [Handles -> SUBSET Servers]
          /\ PEER_MAP \in [Handles -> (SUBSET Servers) \cup {None}]
          /\ asked \in [Coroutines -> SUBSET Servers]
      BY NoServers, ConstantType, Zenon
    <2> QED  BY <2>1 DEF TypeOK
  <1>2. Init => Locked /\ AskedNow /\ UsesAlive /\ AddsUnnamed /\ FreedOld /\ Named
    BY DEF Locked, AskedNow, UsesAlive, AddsUnnamed, FreedOld, Named, Adding, Kept
  <1> QED  BY <1>1, <1>2 DEF IInv

-----------------------------------------------------------------------------
LEMMA ObjectSteps ==
  ASSUME IInv, NEW h \in Handles, New(h) \/ Free(h)
  PROVE  IInv'
  <1> USE MemcacheAssumption DEF IInv, TypeOK
  <1>1. CASE New(h)
    <2>1. TypeOK' /\ Locked' /\ UsesAlive'
      BY <1>1 DEF New, Locked, UsesAlive
    <2>2. AddsUnnamed' /\ FreedOld'
      BY <1>1 DEF New, AddsUnnamed, FreedOld, Adding, Kept
    <2>3. Named'
      BY <1>1 DEF New, Named
    <2>4. AskedNow'
      BY <1>1 DEF New, AskedNow, UsesAlive
    <2> QED  BY <2>1, <2>2, <2>3, <2>4
  <1>2. CASE Free(h)
    <2>1. TypeOK' /\ Locked' /\ UsesAlive'
      BY <1>2 DEF Free, Locked, UsesAlive, InUse
    <2>2. AddsUnnamed' /\ FreedOld'
      BY <1>2 DEF Free, AddsUnnamed, FreedOld, Adding, Kept
    <2>3. Named'
      BY <1>2 DEF Free, Named
    <2>4. AskedNow'
      BY <1>2 DEF Free, AskedNow
    <2> QED  BY <2>1, <2>2, <2>3, <2>4
  <1> QED  BY <1>1, <1>2

(* A call by a coroutine that goes on to wait. *)
LEMMA BeginStep ==
  ASSUME IInv, NEW c \in Coroutines, NEW h \in Handles,
         NEW at \in {"adding", "asking", "blocked"}, Begin(c, h, at)
  PROVE  /\ pc' \in [Coroutines -> {"idle", "adding", "asking", "stats", "blocked"}]
         /\ object' \in [Coroutines -> Handles]
         /\ alive' = alive => UsesAlive'
         /\ h \in alive /\ pc'[c] = at /\ object'[c] = h
         /\ \A d \in Coroutines : d # c => pc'[d] = pc[d] /\ object'[d] = object[d]
         /\ \A g \in Handles : Adding(g)' => Adding(g) \/ (g = h /\ at = "adding")
  BY DEF Begin, IInv, TypeOK, UsesAlive, Adding

LEMMA CallSteps ==
  ASSUME IInv, NEW c \in Coroutines, NEW h \in Handles,
         \/ \E s \in Servers : AddServer(c, h, s) \/ AddUnhooked(c, h, s)
         \/ Close(c, h)
         \/ Command(c, h)
         \/ Block(c, h)
  PROVE  IInv'
  <1> USE MemcacheAssumption DEF IInv, TypeOK
  <1>1. ASSUME NEW s \in Servers, AddServer(c, h, s)
        PROVE  IInv'
    <2> USE <1>1, BeginStep DEF AddServer
    <2>0. PEER_MAP' \in [Handles -> (SUBSET Servers) \cup {None}]
      BY NoServers, UpdateType, Zenon
    <2>1. TypeOK' /\ UsesAlive'
      BY <2>0
    <2>2. Locked' /\ AskedNow'
      BY DEF Locked, AskedNow
    <2>3. AddsUnnamed' /\ FreedOld'
      BY DEF AddsUnnamed, FreedOld, Kept
    <2>4. Named'
      BY DEF Named
    <2> QED  BY <2>1, <2>2, <2>3, <2>4
  <1>2. ASSUME NEW s \in Servers, AddUnhooked(c, h, s)
        PROVE  IInv'
    <2> USE <1>2, BeginStep DEF AddUnhooked
    <2>1. TypeOK' /\ UsesAlive'
      OBVIOUS
    <2>2. Locked' /\ AskedNow'
      BY DEF Locked, AskedNow
    <2>3. AddsUnnamed' /\ FreedOld'
      BY DEF AddsUnnamed, FreedOld, Kept
    <2>4. Named'
      BY DEF Named
    <2> QED  BY <2>1, <2>2, <2>3, <2>4
  <1>3. CASE Close(c, h)
    <2> USE <1>3 DEF Close
    <2>0. /\ PEER_MAP' \in [Handles -> (SUBSET Servers) \cup {None}]
          /\ servers' \in [Handles -> SUBSET Servers]
      BY NoServers, UpdateType, Zenon
    <2>1. TypeOK' /\ UsesAlive' /\ Locked' /\ AskedNow'
      BY <2>0 DEF UsesAlive, Locked, AskedNow
    <2>2. AddsUnnamed' /\ FreedOld'
      BY DEF AddsUnnamed, FreedOld, Adding, Kept
    <2>3. Named'
      BY DEF Named
    <2> QED  BY <2>1, <2>2, <2>3
  <1>4. CASE Command(c, h)
    <2> USE <1>4, BeginStep DEF Command
    <2>1. TypeOK' /\ UsesAlive'
      OBVIOUS
    <2>2. Locked' /\ AskedNow'
      BY DEF Locked, AskedNow
    <2>3. AddsUnnamed' /\ FreedOld' /\ Named'
      BY DEF AddsUnnamed, FreedOld, Kept, Named
    <2> QED  BY <2>1, <2>2, <2>3
  <1>5. CASE Block(c, h)
    <2> USE <1>5, BeginStep DEF Block
    <2>1. TypeOK' /\ UsesAlive'
      OBVIOUS
    <2>2. Locked' /\ AskedNow'
      BY DEF Locked, AskedNow
    <2>3. AddsUnnamed' /\ FreedOld' /\ Named'
      BY DEF AddsUnnamed, FreedOld, Kept, Named
    <2> QED  BY <2>1, <2>2, <2>3
  <1> QED  BY <1>1, <1>2, <1>3, <1>4, <1>5

LEMMA AnswerSteps ==
  ASSUME IInv, NEW c \in Coroutines, Added(c) \/ Ask(c) \/ Stats(c) \/ Callback(c)
  PROVE  IInv'
  <1> USE MemcacheAssumption DEF IInv, TypeOK
  <1>0. ASSUME NEW at \in {"idle", "stats", "blocked"}, pc[c] # "idle",
               pc' = [pc EXCEPT ![c] = at], UNCHANGED <<alive, object>>
        PROVE  /\ pc' \in [Coroutines -> {"idle", "adding", "asking", "stats", "blocked"}]
               /\ UsesAlive'
               /\ \A g \in Handles : Adding(g)' => Adding(g)
    BY <1>0 DEF UsesAlive, Adding
  <1>1. CASE Added(c)
    <2>1. TypeOK' /\ UsesAlive' /\ Locked'
      BY <1>0, <1>1 DEF Added, Locked
    <2>2. AddsUnnamed' /\ FreedOld'
      BY <1>0, <1>1 DEF Added, AddsUnnamed, FreedOld, Kept
    <2>3. Kept(object[c]) => object[c] \in old
      BY <1>1 DEF Added, AddsUnnamed, Adding
    <2>4. Named'
      BY <1>1, <2>3 DEF Added, Named, Kept
    <2>5. AskedNow'
      BY <1>1 DEF Added, AskedNow, Asked
    <2> QED  BY <2>1, <2>2, <2>4, <2>5
  <1>2. CASE Stats(c)
    <2>1. object[c] \in alive /\ pc[c] = "stats" /\ lock = c
      BY <1>2 DEF Stats, UsesAlive, Locked
    <2>2. PICK names \in {{}, asked[c]} :
             PEER_MAP' = [PEER_MAP EXCEPT ![object[c]] = names]
      BY <1>2 DEF Stats
    <2>3. names \in SUBSET Servers
      BY <2>2
    <2>4. asked' \in [Coroutines -> SUBSET Servers]
      BY <1>2, NoServers, UpdateType, Zenon DEF Stats
    <2>5. TypeOK' /\ UsesAlive'
      BY <1>0, <1>2, <2>2, <2>3, <2>4 DEF Stats
    <2>6. Locked' /\ AskedNow'
      BY <1>2, <2>1 DEF Stats, Locked, AskedNow
    <2>7. AddsUnnamed' /\ FreedOld'
      BY <1>0, <1>2, <2>1, <2>2 DEF Stats, AddsUnnamed, FreedOld, Kept
    <2>8. Named'
      BY <1>2, <2>1, <2>2 DEF Stats, Named, AskedNow
    <2> QED  BY <2>5, <2>6, <2>7, <2>8
  <1>3. CASE Ask(c)
    <2>1. asked' \in [Coroutines -> SUBSET Servers]
      <3>1. servers[object[c]] \in SUBSET Servers
        OBVIOUS
      <3> QED  BY <1>3, <3>1, UpdateType, Zenon DEF Ask
    <2>2. TypeOK' /\ UsesAlive' /\ Locked'
      BY <1>0, <1>3, <2>1 DEF Ask, Locked
    <2>3. AddsUnnamed' /\ FreedOld' /\ Named'
      BY <1>0, <1>3 DEF Ask, AddsUnnamed, FreedOld, Kept, Named
    <2>4. AskedNow'
      BY <1>3, <2>1 DEF Ask, AskedNow
    <2> QED  BY <2>2, <2>3, <2>4
  <1>4. CASE Callback(c)
    <2>1. TypeOK' /\ UsesAlive' /\ Locked'
      BY <1>0, <1>4 DEF Callback, Locked
    <2>2. AddsUnnamed' /\ FreedOld' /\ Named' /\ AskedNow'
      BY <1>0, <1>4 DEF Callback, AddsUnnamed, FreedOld, Kept, Named, AskedNow
    <2> QED  BY <2>1, <2>2
  <1> QED  BY <1>1, <1>2, <1>3, <1>4

LEMMA IInvHolds == Spec => []IInv
  <1>1. ASSUME IInv, UNCHANGED vars
        PROVE  IInv'
    BY <1>1 DEF IInv, TypeOK, Locked, AskedNow, UsesAlive, AddsUnnamed, FreedOld, Named, Adding, Kept, vars
  <1>2. ASSUME IInv, Next
        PROVE  IInv'
    BY <1>2, ObjectSteps, CallSteps, AnswerSteps DEF Next
  <1> QED  BY InitIInv, <1>1, <1>2, PTL DEF Spec

-----------------------------------------------------------------------------
(* The variables keep their types. *)
THEOREM MemcacheTypeCorrect == Spec => []TypeOK
  <1>1. IInv => TypeOK
    BY DEF IInv
  <1> QED  BY IInvHolds, <1>1, PTL

(* Two coroutines never ask for the servers of one object at a time: what  *)
(* the lock of the shard is for (get_peer).                                *)
THEOREM AsksOnce == Spec => []AskedOnce
  <1>1. IInv => AskedOnce
    BY DEF IInv, Locked, AskedOnce
  <1> QED  BY IInvHolds, <1>1, PTL

(* Names that are kept are those of all servers, however the calls of the  *)
(* coroutines interleave, but for handles whose names are old.             *)
THEOREM ServersAreNamed == Spec => []ServersNamed
  <1>1. IInv => ServersNamed
    BY DEF IInv, TypeOK, Named, ServersNamed
  <1> QED  BY IInvHolds, <1>1, PTL

=============================================================================
