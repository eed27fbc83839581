----------------------------- MODULE RedisPlugin -----------------------------
(***************************************************************************)
(* The phpredis plugin (src/plugin/plugin_redis.rs) and the Redis objects  *)
(* it keeps data of.                                                       *)
(*                                                                         *)
(* The address an object was connected to is kept in PEER_MAP under the    *)
(* object's handle, and goes in free_obj: at the first construction the    *)
(* plugin puts a function of its own into the handler table that all Redis *)
(* objects share, and keeps the one it found, for each object it saw       *)
(* constructed, in FREE_MAP.  PHP calls free_obj of every object, also     *)
(* after exceptions and fatal errors.                                      *)
(***************************************************************************)
EXTENDS Naturals

CONSTANTS
    Handles,    \* object handles
    Servers,    \* addresses
    None,       \* no address
    MaxObjects  \* bound: objects made

Frees == {"none", "original", "plugin"}

ASSUME RedisAssumption ==
    /\ None \notin Servers
    /\ MaxObjects \in Nat

VARIABLES
    alive,     \* handles of Redis objects
    server,    \* server[h]: the address the object was last connected to
    made,      \* objects made so far
    table,     \* free_obj in the handler table of Redis
    PEER_MAP,  \* PEER_MAP[h]: an address, or None if there is no entry
    FREE_MAP,  \* FREE_MAP[h]: the free_obj kept for h, or "none"
    dying,     \* the handle of the object that is freed
    calling,   \* the free_obj that is called for it, or "none"
    depth,     \* calls of the plugin's that have not returned
    unread,    \* unread[h]: the address was given in a form the hook skips
    named      \* named[h]: the address in the last span of h; None: it has none

objectVars == <<alive, server, made>>
freeVars == <<dying, calling, depth>>
vars == <<objectVars, table, PEER_MAP, FREE_MAP, freeVars, unread, named>>

Init ==
    /\ alive = {}
    /\ server = [h \in Handles |-> None]
    /\ made = 0
    /\ table = "original"
    /\ PEER_MAP = [h \in Handles |-> None]
    /\ FREE_MAP = [h \in Handles |-> "none"]
    /\ dying = None
    /\ calling = "none"
    /\ depth = 0
    /\ unread = [h \in Handles |-> FALSE]
    /\ named = [h \in Handles |-> None]

-----------------------------------------------------------------------------
(* hack_free. *)
HackFree(h) ==
    /\ FREE_MAP' = [FREE_MAP EXCEPT ![h] = table]
    /\ table' = "plugin"

(* new Redis; the hook is not run if a subclass does not call the parent's *)
(* constructor.                                                            *)
New(h, hooked) ==
    /\ calling = "none"
    /\ h \notin alive /\ made < MaxObjects
    /\ alive' = alive \cup {h}
    /\ server' = [server EXCEPT ![h] = None]
    /\ made' = made + 1
    /\ IF hooked THEN HackFree(h) ELSE UNCHANGED <<table, FREE_MAP>>
    /\ unread' = [unread EXCEPT ![h] = FALSE]
    /\ named' = [named EXCEPT ![h] = None]
    /\ UNCHANGED <<PEER_MAP, freeVars>>

(* __construct called on an object that exists. *)
ConstructAgain(h) ==
    /\ calling = "none"
    /\ h \in alive
    /\ HackFree(h)
    /\ UNCHANGED <<objectVars, PEER_MAP, freeVars, unread, named>>

(* A hook that takes the address only if it can make a span. *)
ConnectTraced(h, a, read, context) ==
    /\ calling = "none"
    /\ h \in alive
    /\ server' = [server EXCEPT ![h] = a]
    /\ PEER_MAP' = IF read /\ context THEN [PEER_MAP EXCEPT ![h] = a] ELSE PEER_MAP
    /\ unread' = [unread EXCEPT ![h] = ~read]
    /\ named' = [named EXCEPT ![h] = IF read /\ context THEN a ELSE None]
    /\ UNCHANGED <<alive, made, table, FREE_MAP, freeVars>>

(* connect, open, pconnect, popen.  With less than two arguments, or of    *)
(* other types, the hook is skipped; without a context the address is      *)
(* kept all the same.                                                      *)
Connect(h, a, read, context) ==
    /\ calling = "none"
    /\ h \in alive
    /\ server' = [server EXCEPT ![h] = a]
    /\ PEER_MAP' = IF read THEN [PEER_MAP EXCEPT ![h] = a] ELSE PEER_MAP
    /\ unread' = [unread EXCEPT ![h] = ~read]
    /\ named' = [named EXCEPT ![h] = IF read /\ context THEN a ELSE None]
    /\ UNCHANGED <<alive, made, table, FREE_MAP, freeVars>>

(* A command in a request with a context: a span to the kept address, or   *)
(* to none.                                                                *)
Command(h) ==
    /\ calling = "none"
    /\ h \in alive
    /\ named' = [named EXCEPT ![h] = PEER_MAP[h]]
    /\ UNCHANGED <<objectVars, table, PEER_MAP, FREE_MAP, freeVars, unread>>

-----------------------------------------------------------------------------
(* PHP calls the free_obj that is in the table. *)
Free(h) ==
    /\ calling = "none"
    /\ h \in alive
    /\ alive' = alive \ {h}
    /\ dying' = h
    /\ calling' = table
    /\ depth' = 0
    /\ UNCHANGED <<server, made, table, PEER_MAP, FREE_MAP, unread, named>>

(* redis_dtor that looks FREE_MAP up without a remove. *)
PluginFreeGet ==
    /\ calling = "plugin"
    /\ PEER_MAP' = [PEER_MAP EXCEPT ![dying] = None]
    /\ calling' = FREE_MAP[dying]
    /\ depth' = depth + 1
    /\ UNCHANGED <<objectVars, table, FREE_MAP, dying, unread, named>>

(* redis_dtor that takes its entry only of objects it saw constructed. *)
PluginFreeKnown ==
    /\ calling = "plugin"
    /\ PEER_MAP' = IF FREE_MAP[dying] # "none"
                   THEN [PEER_MAP EXCEPT ![dying] = None]
                   ELSE PEER_MAP
    /\ FREE_MAP' = [FREE_MAP EXCEPT ![dying] = "none"]
    /\ calling' = FREE_MAP[dying]
    /\ depth' = depth + 1
    /\ UNCHANGED <<objectVars, table, dying, unread, named>>

(* redis_dtor: the entries go, and the free_obj that was kept is called:   *)
(* redis_dtor again, but for the first object.                             *)
PluginFree ==
    /\ calling = "plugin"
    /\ PEER_MAP' = [PEER_MAP EXCEPT ![dying] = None]
    /\ FREE_MAP' = [FREE_MAP EXCEPT ![dying] = "none"]
    /\ calling' = FREE_MAP[dying]
    /\ depth' = depth + 1
    /\ UNCHANGED <<objectVars, table, dying, unread, named>>

(* The original free_obj closes the connection. *)
OriginalFree ==
    /\ calling = "original"
    /\ calling' = "none"
    /\ UNCHANGED <<objectVars, table, PEER_MAP, FREE_MAP, dying, depth, unread, named>>

-----------------------------------------------------------------------------
Next ==
    \/ \E h \in Handles, b \in BOOLEAN : New(h, b)
    \/ \E h \in Handles, a \in Servers, read \in BOOLEAN, context \in BOOLEAN :
          Connect(h, a, read, context)
    \/ \E h \in Handles : ConstructAgain(h) \/ Command(h) \/ Free(h)
    \/ PluginFree
    \/ OriginalFree

Spec == Init /\ [][Next]_vars

-----------------------------------------------------------------------------
TypeOK ==
    /\ alive \subseteq Handles
    /\ server \in [Handles -> Servers \cup {None}]
    /\ made \in 0 .. MaxObjects
    /\ table \in {"original", "plugin"}
    /\ PEER_MAP \in [Handles -> Servers \cup {None}]
    /\ FREE_MAP \in [Handles -> Frees]
    /\ dying \in Handles \cup {None}
    /\ calling \in Frees
    /\ depth \in Nat
    /\ unread \in [Handles -> BOOLEAN]
    /\ named \in [Handles -> Servers \cup {None}]

(* From the first construction on, an object takes its entry with it, even *)
(* if the plugin did not see it constructed (hack_free changes the table   *)
(* for all of them, redis_dtor asks no further).                           *)
FreedTakesEntry ==
    [][calling # "none" /\ calling' = "none" =>
          table = "original" \/ PEER_MAP'[dying] = None]_vars

(* A connection whose address the hook could read is known by it to every  *)
(* later command, whether or not the request was traced when it was made.  *)
CommandsKnowServer ==
    \A h \in alive : server[h] # None /\ ~unread[h] => PEER_MAP[h] = server[h]

(* redis_dtor finds itself in FREE_MAP, but calls itself only once: the    *)
(* free of an object does not recurse without end.                         *)
FreeEnds == depth <= 2
=============================================================================
