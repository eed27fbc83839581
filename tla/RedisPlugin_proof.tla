-------------------------- MODULE RedisPlugin_proof --------------------------
(***************************************************************************)
(* Theorems about RedisPlugin, for any handles, servers and number of      *)
(* objects.                                                                *)
(***************************************************************************)
EXTENDS RedisPlugin, TLAPS

(* What every state satisfies of the object that is freed: it is gone, the *)
(* plugin's free_obj has found itself in FREE_MAP at most once, and the    *)
(* original one is called by PHP, before any construction, or when the     *)
(* entry has been taken.                                                   *)
Dying ==
    /\ calling # "none" => dying \in Handles \ alive
    /\ calling = "plugin" => depth = 0 \/ (depth = 1 /\ FREE_MAP[dying] = "none")
    /\ calling = "original" => table = "original" \/ PEER_MAP[dying] = None

IInv == TypeOK /\ Dying /\ CommandsKnowServer /\ FreeEnds

LEMMA InitIInv == Init => IInv
  BY RedisAssumption DEF Init, IInv, TypeOK, Dying, CommandsKnowServer, FreeEnds, Frees

-----------------------------------------------------------------------------
LEMMA TypeStep == IInv /\ [Next]_vars => TypeOK'
  <1> SUFFICES ASSUME IInv, [Next]_vars
      PROVE  TypeOK'
    OBVIOUS
  <1> USE DEF IInv, TypeOK, Frees, objectVars, freeVars
  <1>1. ASSUME NEW h \in Handles, HackFree(h)
        PROVE  /\ table' \in {"original", "plugin"}
               /\ FREE_MAP' \in [Handles -> Frees]
    BY <1>1 DEF HackFree
  <1>2. ASSUME NEW h \in Handles, NEW hooked \in BOOLEAN, New(h, hooked)
        PROVE  TypeOK'
    <2>1. /\ alive' \subseteq Handles /\ made' \in 0 .. MaxObjects
          /\ server' \in [Handles -> Servers \cup {None}]
          /\ named' \in [Handles -> Servers \cup {None}]
          /\ unread' \in [Handles -> BOOLEAN]
      BY <1>2, RedisAssumption DEF New
    <2>2. /\ table' \in {"original", "plugin"}
          /\ FREE_MAP' \in [Handles -> Frees]
      BY <1>1, <1>2 DEF New
    <2> QED  BY <1>2, <2>1, <2>2 DEF New
  <1>3. ASSUME NEW h \in Handles, ConstructAgain(h)
        PROVE  TypeOK'
    BY <1>1, <1>3 DEF ConstructAgain
  <1>4. ASSUME NEW h \in Handles, NEW a \in Servers, NEW read \in BOOLEAN, NEW context \in BOOLEAN,
               Connect(h, a, read, context)
        PROVE  TypeOK'
    BY <1>4 DEF Connect
  <1>5. ASSUME NEW h \in Handles, Command(h)
        PROVE  TypeOK'
    BY <1>5 DEF Command
  <1>6. ASSUME NEW h \in Handles, Free(h)
        PROVE  TypeOK'
    BY <1>6 DEF Free
  <1>7. CASE PluginFree
    BY <1>7 DEF PluginFree, Dying
  <1>8. CASE OriginalFree
    BY <1>8 DEF OriginalFree
  <1>9. CASE UNCHANGED vars
    BY <1>9 DEF vars
  <1> QED  BY <1>2, <1>3, <1>4, <1>5, <1>6, <1>7, <1>8, <1>9 DEF Next

LEMMA DyingStep == IInv /\ [Next]_vars => Dying' /\ FreeEnds'
  <1> SUFFICES ASSUME IInv, [Next]_vars
      PROVE  Dying' /\ FreeEnds'
    OBVIOUS
  <1> USE DEF IInv, TypeOK, Dying, FreeEnds, Frees, objectVars, freeVars
  <1>1. ASSUME calling = "none", UNCHANGED freeVars
        PROVE  Dying' /\ FreeEnds'
    BY <1>1
  <1>2. ASSUME NEW h \in Handles, NEW hooked \in BOOLEAN, New(h, hooked)
        PROVE  Dying' /\ FreeEnds'
    BY <1>1, <1>2 DEF New
  <1>3. ASSUME NEW h \in Handles, ConstructAgain(h) \/ Command(h)
        PROVE  Dying' /\ FreeEnds'
    BY <1>1, <1>3 DEF ConstructAgain, Command
  <1>4. ASSUME NEW h \in Handles, NEW a \in Servers, NEW read \in BOOLEAN, NEW context \in BOOLEAN,
               Connect(h, a, read, context)
        PROVE  Dying' /\ FreeEnds'
    BY <1>1, <1>4 DEF Connect
  <1>5. ASSUME NEW h \in Handles, Free(h)
        PROVE  Dying' /\ FreeEnds'
    BY <1>5 DEF Free
  <1>6. CASE PluginFree
    <2>1. /\ dying \in Handles \ alive
          /\ PEER_MAP'[dying] = None
          /\ FREE_MAP'[dying] = "none"
          /\ calling' = FREE_MAP[dying]
          /\ depth' = depth + 1
          /\ UNCHANGED <<alive, dying>>
      BY <1>6 DEF PluginFree
    <2>2. depth = 0 \/ (depth = 1 /\ FREE_MAP[dying] = "none")
      BY <1>6 DEF PluginFree
    <2> QED  BY <2>1, <2>2
  <1>7. CASE OriginalFree
    BY <1>7 DEF OriginalFree
  <1>8. CASE UNCHANGED vars
    BY <1>8 DEF vars
  <1> QED  BY <1>2, <1>3, <1>4, <1>5, <1>6, <1>7, <1>8 DEF Next

LEMMA KnownStep == IInv /\ [Next]_vars => CommandsKnowServer'
  <1> SUFFICES ASSUME IInv, [Next]_vars, NEW g \in alive', server'[g] # None, ~unread'[g]
      PROVE  PEER_MAP'[g] = server'[g]
    BY DEF CommandsKnowServer
  <1> USE DEF IInv, TypeOK, CommandsKnowServer, objectVars, freeVars
  <1>1. ASSUME NEW h \in Handles, NEW hooked \in BOOLEAN, New(h, hooked)
        PROVE  PEER_MAP'[g] = server'[g]
    BY <1>1 DEF New
  <1>2. ASSUME NEW h \in Handles, ConstructAgain(h) \/ Command(h) \/ Free(h)
        PROVE  PEER_MAP'[g] = server'[g]
    BY <1>2 DEF ConstructAgain, Command, Free
  <1>3. ASSUME NEW h \in Handles, NEW a \in Servers, NEW read \in BOOLEAN, NEW context \in BOOLEAN,
               Connect(h, a, read, context)
        PROVE  PEER_MAP'[g] = server'[g]
    BY <1>3 DEF Connect
  <1>4. CASE PluginFree
    <2>1. g # dying
      BY <1>4 DEF PluginFree, Dying
    <2> QED  BY <1>4, <2>1 DEF PluginFree
  <1>5. CASE OriginalFree \/ UNCHANGED vars
    BY <1>5 DEF OriginalFree, vars
  <1> QED  BY <1>1, <1>2, <1>3, <1>4, <1>5 DEF Next

LEMMA IInvHolds == Spec => []IInv
  <1>1. IInv /\ [Next]_vars => IInv'
    BY TypeStep, DyingStep, KnownStep DEF IInv
  <1> QED  BY InitIInv, <1>1, PTL DEF Spec

-----------------------------------------------------------------------------
(* The variables keep their types. *)
THEOREM RedisTypeCorrect == Spec => []TypeOK
  <1>1. IInv => TypeOK
    BY DEF IInv
  <1> QED  BY IInvHolds, <1>1, PTL

(* Whatever is constructed, freed and given its handle again, a connection *)
(* whose address the hook could read is known by it (PEER_MAP).            *)
THEOREM ServersKnown == Spec => []CommandsKnowServer
  <1>1. IInv => CommandsKnowServer
    BY DEF IInv
  <1> QED  BY IInvHolds, <1>1, PTL

(* redis_dtor calls itself at most once for an object.                     *)
THEOREM FreeingEnds == Spec => []FreeEnds
  <1>1. IInv => FreeEnds
    BY DEF IInv
  <1> QED  BY IInvHolds, <1>1, PTL

(* Once an object has been constructed under the plugin, every object that *)
(* goes takes its entry with it (hack_free, redis_dtor).                   *)
THEOREM EntryFreed == Spec => FreedTakesEntry
  <1> DEFINE Step == calling # "none" /\ calling' = "none" =>
                        table = "original" \/ PEER_MAP'[dying] = None
  <1>1. IInv /\ [Next]_vars => [Step]_vars
    <2> SUFFICES ASSUME IInv, Next, calling # "none"
        PROVE  table = "original" \/ PEER_MAP'[dying] = None
      OBVIOUS
    <2>1. PluginFree \/ OriginalFree
      BY DEF Next, New, ConstructAgain, Connect, Command, Free
    <2>2. CASE PluginFree
      BY <2>2 DEF PluginFree, IInv, TypeOK, Dying
    <2>3. CASE OriginalFree
      BY <2>3 DEF OriginalFree, IInv, Dying
    <2> QED  BY <2>1, <2>2, <2>3
  <1> QED  BY IInvHolds, <1>1, PTL DEF Spec, FreedTakesEntry
=============================================================================
