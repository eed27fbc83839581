--------------------------- MODULE MemcachePlugin ----------------------------
(***************************************************************************)
(* The Memcache plugin (src/plugin/plugin_memcache.rs) under PHP code that *)
(* runs in coroutines of one thread.                                       *)
(*                                                                         *)
(* A span of a Memcache call names the servers of the object.  They are    *)
(* asked for once, by a call of getExtendedStats from the before hook, and *)
(* kept in PEER_MAP under the object's handle; the shard of the map is     *)
(* locked from the lookup until the answer is stored (DashMap::entry with  *)
(* or_insert_with).  Under SWOOLE_HOOK_ALL a call that waits for a server  *)
(* gives the thread to other coroutines; a lock that is taken blocks the   *)
(* whole thread.  PHP-FPM and Swoole without that flag have the behaviours *)
(* in which one call is under way at a time.  The handles of the model are *)
(* in one shard.                                                           *)
(***************************************************************************)
EXTENDS Naturals

CONSTANTS
    Coroutines, \* coroutines of the thread
    Handles,    \* object handles
    Servers,    \* addresses of servers
    None        \* no entry, no coroutine

ASSUME MemcacheAssumption ==
    /\ None \notin Coroutines
    /\ \A names \in SUBSET Servers : names # None

VARIABLES
    alive,     \* handles of Memcache objects
    servers,   \* servers[h]: the servers of the object
    PEER_MAP,  \* PEER_MAP[h]: the names kept for h, or None
    lock,      \* the coroutine that has locked the shard, or None
    pc,        \* pc[c]: "idle", or what the coroutine's call waits for
    object,    \* object[c]: the object of that call
    adding,    \* adding[c]: the server it adds
    asked,     \* asked[c]: the servers it has asked for their statistics
    old        \* handles whose entry was kept when the object was freed, when a
               \* server was added without a hook, or while one was being added

vars == <<alive, servers, PEER_MAP, lock, pc, object, adding, asked, old>>

Init ==
    /\ alive = {}
    /\ servers = [h \in Handles |-> {}]
    /\ PEER_MAP = [h \in Handles |-> None]
    /\ lock = None
    /\ pc = [c \in Coroutines |-> "idle"]
    /\ object \in [Coroutines -> Handles]
    /\ adding \in [Coroutines -> Servers]
    /\ asked = [c \in Coroutines |-> {}]
    /\ old = {}

-----------------------------------------------------------------------------
(* The thread runs: no coroutine blocks it. *)
Runs == \A o \in Coroutines : pc[o] # "blocked"

Kept(h) == PEER_MAP[h] # None

Adding(h) == \E c \in Coroutines : pc[c] = "adding" /\ object[c] = h
Asked(h) == \E c \in Coroutines : pc[c] = "stats" /\ object[c] = h
InUse(h) == \E c \in Coroutines : pc[c] # "idle" /\ object[c] = h

New(h) ==
    /\ \E c \in Coroutines : pc[c] = "idle" /\ Runs
    /\ h \notin alive
    /\ alive' = alive \cup {h}
    /\ servers' = [servers EXCEPT ![h] = {}]
    /\ UNCHANGED <<PEER_MAP, lock, pc, object, adding, asked, old>>

(* The object is freed: no hook, and the entry stays. *)
Free(h) ==
    /\ \E c \in Coroutines : pc[c] = "idle" /\ Runs
    /\ h \in alive /\ ~InUse(h)
    /\ alive' = alive \ {h}
    /\ old' = IF Kept(h) THEN old \cup {h} ELSE old
    /\ UNCHANGED <<servers, PEER_MAP, lock, pc, object, adding, asked>>

(* A call on the object by an idle coroutine that goes on to wait. *)
Begin(c, h, at) ==
    /\ pc[c] = "idle" /\ Runs
    /\ h \in alive
    /\ pc' = [pc EXCEPT ![c] = at]
    /\ object' = [object EXCEPT ![c] = h]

(* hook_memcache_server without the remove. *)
AddServerKeep(c, h, s) ==
    /\ Begin(c, h, "adding")
    /\ adding' = [adding EXCEPT ![c] = s]
    /\ UNCHANGED <<alive, servers, PEER_MAP, lock, asked, old>>

(* connect, addServer and memcache_add_server: hook_memcache_server takes  *)
(* the entry out, and then the function connects.                          *)
AddServer(c, h, s) ==
    /\ lock = None
    /\ Begin(c, h, "adding")
    /\ adding' = [adding EXCEPT ![c] = s]
    /\ PEER_MAP' = [PEER_MAP EXCEPT ![h] = None]
    /\ old' = old \ {h}
    /\ UNCHANGED <<alive, servers, lock, asked>>

(* pconnect, memcache_connect and memcache_pconnect have no hook. *)
AddUnhooked(c, h, s) ==
    /\ Begin(c, h, "adding")
    /\ adding' = [adding EXCEPT ![c] = s]
    /\ old' = IF Kept(h) THEN old \cup {h} ELSE old
    /\ UNCHANGED <<alive, servers, PEER_MAP, lock, asked>>

(* The server answers, or it does not. *)
Added(c) ==
    /\ pc[c] = "adding" /\ Runs
    /\ pc' = [pc EXCEPT ![c] = "idle"]
    /\ servers' \in {servers, [servers EXCEPT ![object[c]] = @ \cup {adding[c]}]}
    /\ old' = IF Asked(object[c]) THEN old \cup {object[c]} ELSE old
    /\ UNCHANGED <<alive, PEER_MAP, lock, object, adding, asked>>

(* close and memcache_close. *)
Close(c, h) ==
    /\ lock = None
    /\ pc[c] = "idle" /\ Runs
    /\ h \in alive
    /\ PEER_MAP' = [PEER_MAP EXCEPT ![h] = None]
    /\ servers' = [servers EXCEPT ![h] = {}]
    /\ old' = old \ {h}
    /\ UNCHANGED <<alive, lock, pc, object, adding, asked>>

(* get_peer that asks first and locks the shard to store the answer. *)
CommandUnlocked(c, h) ==
    /\ PEER_MAP[h] = None
    /\ Begin(c, h, "asking")
    /\ lock' = c
    /\ UNCHANGED <<alive, servers, PEER_MAP, adding, asked, old>>

(* A command whose peer is not known: get_peer locks the shard and calls   *)
(* getExtendedStats.  One whose peer is known changes nothing.             *)
Command(c, h) ==
    /\ lock = None
    /\ PEER_MAP[h] = None
    /\ Begin(c, h, "asking")
    /\ lock' = c
    /\ UNCHANGED <<alive, servers, PEER_MAP, adding, asked, old>>

(* A hook that needs the shard while it is locked: the coroutine that has  *)
(* locked it cannot run again.                                             *)
Block(c, h) ==
    /\ lock # None
    /\ Begin(c, h, "blocked")
    /\ UNCHANGED <<alive, servers, PEER_MAP, lock, adding, asked, old>>

(* getExtendedStats asks the servers that the object has by now. *)
Ask(c) ==
    /\ pc[c] = "asking" /\ Runs
    /\ pc' = [pc EXCEPT ![c] = "stats"]
    /\ asked' = [asked EXCEPT ![c] = servers[object[c]]]
    /\ UNCHANGED <<alive, servers, PEER_MAP, lock, object, adding, old>>

(* PHP code that getExtendedStats runs, the failure callback of a server   *)
(* or an error handler, uses Memcache: the hook of that call needs the     *)
(* shard that its own coroutine has locked.                                *)
Callback(c) ==
    /\ pc[c] \in {"asking", "stats"} /\ Runs
    /\ pc' = [pc EXCEPT ![c] = "blocked"]
    /\ UNCHANGED <<alive, servers, PEER_MAP, lock, object, adding, asked, old>>

(* The answer is stored and the shard unlocked; no answer is stored as     *)
(* well, as no names.                                                      *)
Stats(c) ==
    /\ pc[c] = "stats" /\ Runs
    /\ pc' = [pc EXCEPT ![c] = "idle"]
    /\ \E names \in {{}, asked[c]} :
          PEER_MAP' = [PEER_MAP EXCEPT ![object[c]] = names]
    /\ asked' = [asked EXCEPT ![c] = {}]
    /\ old' = IF Adding(object[c]) THEN old \cup {object[c]} ELSE old
    /\ lock' = None
    /\ UNCHANGED <<alive, servers, object, adding>>

-----------------------------------------------------------------------------
Next ==
    \/ \E h \in Handles : New(h) \/ Free(h)
    \/ \E c \in Coroutines, h \in Handles :
          \/ \E s \in Servers : AddServer(c, h, s) \/ AddUnhooked(c, h, s)
          \/ Close(c, h)
          \/ Command(c, h)
          \/ Block(c, h)
    \/ \E c \in Coroutines : Added(c) \/ Ask(c) \/ Stats(c) \/ Callback(c)

(* Calls that wait for a server go on, by its answer or by a timeout.      *)
Spec ==
    /\ Init /\ [][Next]_vars
    /\ \A c \in Coroutines : WF_vars(Added(c) \/ Ask(c) \/ Stats(c))

-----------------------------------------------------------------------------
TypeOK ==
    /\ alive \subseteq Handles
    /\ servers \in [Handles -> SUBSET Servers]
    /\ PEER_MAP \in [Handles -> (SUBSET Servers) \cup {None}]
    /\ lock \in Coroutines \cup {None}
    /\ pc \in [Coroutines -> {"idle", "adding", "asking", "stats", "blocked"}]
    /\ object \in [Coroutines -> Handles]
    /\ adding \in [Coroutines -> Servers]
    /\ asked \in [Coroutines -> SUBSET Servers]
    /\ old \subseteq Handles

(* "remove peers cache when server added": what is kept for an object that *)
(* has servers names all its servers, unless it was kept when an earlier   *)
(* object was freed, when a server came by a function without a hook, or   *)
(* was asked for or stored while a server was being added.                 *)
ServersNamed ==
    \A h \in alive \ old :
        servers[h] # {} /\ PEER_MAP[h] \notin {None, {}} => PEER_MAP[h] = servers[h]

(* An object's servers are asked for by one coroutine at a time, however   *)
(* many use it: no command in the middle of which a second getExtendedStats*)
(* goes out and its older answer is stored last (get_peer).                *)
AskedOnce ==
    \A c, d \in Coroutines :
        {pc[c], pc[d]} \subseteq {"asking", "stats"} /\ object[c] = object[d] => c = d

(* "The components of the PHP-FPM ecosystem can also be used in Swoole     *)
(* regardless of the flag SWOOLE_HOOK_ALL": a call of one coroutine that   *)
(* needs what another one has locked gets it in the end and returns        *)
(* (get_peer).  It does not: the thread that waits for the lock is the one *)
(* that would have to read the answer and unlock.                          *)
CallsReturn ==
    \A c, o \in Coroutines :
        c # o /\ pc[c] = "blocked" /\ lock = o ~> pc[c] = "idle"
=============================================================================
