------------------------------ MODULE PdoPlugin ------------------------------
(***************************************************************************)
(* The PDO plugin (src/plugin/plugin_pdo.rs) and the PHP objects it keeps  *)
(* data of.                                                                *)
(*                                                                         *)
(* The data source of a PDO or PDOStatement object is kept in DSN_MAP      *)
(* under the object's handle.  PHP gives the handle of a freed object to a *)
(* new one, so the entry must go with the object: the plugin puts a        *)
(* destructor of its own into the handler table of the class, which all    *)
(* objects of the class share, and keeps the one it finds there, for each  *)
(* object, in DTOR_MAP.  PHP runs no destructor of an object whose         *)
(* constructor threw, and none after a fatal error.                        *)
(***************************************************************************)
EXTENDS Naturals

CONSTANTS
    Handles,    \* object handles
    Dsns,       \* data sources
    None,       \* no data source
    MaxObjects  \* bound: objects made

Classes == {"PDO", "PDOStatement"}
Dtors == {"none", "original", "plugin"}

ASSUME PdoAssumption ==
    /\ None \notin Dsns
    /\ MaxObjects \in Nat

VARIABLES
    class,     \* class[h]: the class of the object with handle h, or "free"
    dsn,       \* dsn[h]: the data source that object is connected to
    destructed,\* destructed[h]: PHP has called its dtor_obj
    made,      \* objects made so far
    table,     \* table[c]: dtor_obj in the handler table of class c
    DSN_MAP,   \* DSN_MAP[h]: a data source, or None if there is no entry
    DTOR_MAP,  \* DTOR_MAP[h]: the dtor_obj kept for h, or "none"
    dying,     \* the handle of the object that is destructed
    calling,   \* the dtor_obj that is called for it, or "none"
    depth,     \* calls of the plugin's dtor that have not returned
    stale,     \* stale[h]: the entry of h was left there by an object that
               \* went without its destructor, or by another connection
    named      \* named[h]: the data source in the last span of a call on h

objectVars == <<class, dsn, destructed, made>>
dtorVars == <<dying, calling, depth>>
vars == <<objectVars, table, DSN_MAP, DTOR_MAP, dtorVars, stale, named>>

Init ==
    /\ class = [h \in Handles |-> "free"]
    /\ dsn = [h \in Handles |-> None]
    /\ destructed = [h \in Handles |-> FALSE]
    /\ made = 0
    /\ table = [c \in Classes |-> "original"]
    /\ DSN_MAP = [h \in Handles |-> None]
    /\ DTOR_MAP = [h \in Handles |-> "none"]
    /\ dying = None
    /\ calling = "none"
    /\ depth = 0
    /\ stale = [h \in Handles |-> FALSE]
    /\ named = [h \in Handles |-> None]

-----------------------------------------------------------------------------
(* PHP code runs between destructions and in the original dtor_obj, which  *)
(* calls a destructor of the script.                                       *)
Running == calling \in {"none", "original"}

MakeObject(h, c, d) ==
    /\ class[h] = "free"
    /\ made < MaxObjects
    /\ class' = [class EXCEPT ![h] = c]
    /\ dsn' = [dsn EXCEPT ![h] = d]
    /\ destructed' = [destructed EXCEPT ![h] = FALSE]
    /\ made' = made + 1

(* hack_dtor. *)
HackDtor(h, c) ==
    /\ DTOR_MAP' = [DTOR_MAP EXCEPT ![h] = table[c]]
    /\ table' = [table EXCEPT ![c] = "plugin"]

(* A hook that keeps the entry it finds. *)
ConstructHookKeep(h, d, traced) ==
    /\ HackDtor(h, "PDO")
    /\ DSN_MAP' = IF traced /\ DSN_MAP[h] = None THEN [DSN_MAP EXCEPT ![h] = d] ELSE DSN_MAP
    /\ stale' = [stale EXCEPT ![h] = ~traced /\ DSN_MAP[h] # None]
    /\ named' = [named EXCEPT ![h] = IF traced THEN d ELSE None]
    /\ UNCHANGED dtorVars

(* The before hook of PDO::__construct.  If the data source does not parse *)
(* or no span can be made, it fails with the entry as it was.              *)
ConstructHook(h, d, traced) ==
    /\ HackDtor(h, "PDO")
    /\ DSN_MAP' = IF traced THEN [DSN_MAP EXCEPT ![h] = d] ELSE DSN_MAP
    /\ stale' = [stale EXCEPT ![h] = ~traced /\ DSN_MAP[h] # None]
    /\ named' = [named EXCEPT ![h] = IF traced THEN d ELSE None]
    /\ UNCHANGED dtorVars

Construct(h, d, traced) ==
    /\ Running
    /\ MakeObject(h, "PDO", d)
    /\ ConstructHook(h, d, traced)

(* A call of __construct on an object that is connected already. *)
ConstructAgain(h, d, traced) ==
    /\ Running
    /\ class[h] = "PDO" /\ ~destructed[h]
    /\ dsn' = [dsn EXCEPT ![h] = d]
    /\ ConstructHook(h, d, traced)
    /\ UNCHANGED <<class, destructed, made>>

(* A call on an object makes a span if there is an entry for its handle    *)
(* and the request has a context (with_dsn, create_exit_span_with_dsn).    *)
Call(h) ==
    /\ Running
    /\ class[h] # "free" /\ DSN_MAP[h] # None
    /\ named' = [named EXCEPT ![h] = DSN_MAP[h]]
    /\ UNCHANGED <<objectVars, table, DSN_MAP, DTOR_MAP, dtorVars, stale>>

(* PDO::query or PDO::prepare makes a statement; the after hook hands the  *)
(* data source on, if the before hook could make a span.                   *)
Prepare(h, s, context) ==
    LET traced == context /\ DSN_MAP[h] # None
    IN  /\ Running
        /\ class[h] = "PDO"
        /\ MakeObject(s, "PDOStatement", dsn[h])
        /\ IF traced
           THEN HackDtor(s, "PDOStatement")
           ELSE UNCHANGED <<table, DTOR_MAP>>
        /\ DSN_MAP' = IF traced THEN [DSN_MAP EXCEPT ![s] = DSN_MAP[h]] ELSE DSN_MAP
        /\ stale' = [stale EXCEPT ![s] = IF traced THEN stale[h] ELSE DSN_MAP[s] # None]
        /\ named' = [named EXCEPT ![s] = None,
                                  ![h] = IF traced THEN DSN_MAP[h] ELSE @]
        /\ UNCHANGED dtorVars

-----------------------------------------------------------------------------
(* Destruction. *)

(* PHP calls the dtor_obj that is in the table of the class. *)
Destruct(h) ==
    /\ calling = "none"
    /\ class[h] # "free" /\ ~destructed[h]
    /\ destructed' = [destructed EXCEPT ![h] = TRUE]
    /\ dying' = h
    /\ calling' = table[class[h]]
    /\ depth' = 0
    /\ UNCHANGED <<class, dsn, made, table, DSN_MAP, DTOR_MAP, stale, named>>

(* dtor that looks the kept dtor_obj up without a remove. *)
PluginDtorGet ==
    /\ calling = "plugin"
    /\ DSN_MAP' = [DSN_MAP EXCEPT ![dying] = None]
    /\ calling' = DTOR_MAP[dying]
    /\ depth' = depth + 1
    /\ stale' = [stale EXCEPT ![dying] = FALSE]
    /\ UNCHANGED <<objectVars, table, DTOR_MAP, dying, named>>

(* dtor without the remove from DSN_MAP. *)
PluginDtorKeep ==
    /\ calling = "plugin"
    /\ DTOR_MAP' = [DTOR_MAP EXCEPT ![dying] = "none"]
    /\ calling' = DTOR_MAP[dying]
    /\ depth' = depth + 1
    /\ stale' = [stale EXCEPT ![dying] = FALSE]
    /\ UNCHANGED <<objectVars, table, DSN_MAP, dying, named>>

(* pdo_dtor and pdo_statement_dtor: the entries go, and the dtor_obj that  *)
(* was kept is called: the plugin's own again, but for the first object of *)
(* the class.                                                              *)
PluginDtor ==
    /\ calling = "plugin"
    /\ DSN_MAP' = [DSN_MAP EXCEPT ![dying] = None]
    /\ DTOR_MAP' = [DTOR_MAP EXCEPT ![dying] = "none"]
    /\ calling' = DTOR_MAP[dying]
    /\ depth' = depth + 1
    /\ stale' = [stale EXCEPT ![dying] = FALSE]
    /\ UNCHANGED <<objectVars, table, dying, named>>

(* The original dtor_obj returns, and the plugin's with it. *)
OriginalDtor ==
    /\ calling = "original"
    /\ calling' = "none"
    /\ UNCHANGED <<objectVars, table, DSN_MAP, DTOR_MAP, dying, depth, stale, named>>

(* A destructed object is freed, now or at the end of the request. *)
Free(h) ==
    /\ Running
    /\ class[h] # "free" /\ destructed[h]
    /\ calling = "none" \/ dying # h
    /\ class' = [class EXCEPT ![h] = "free"]
    /\ UNCHANGED <<dsn, destructed, made, table, DSN_MAP, DTOR_MAP, dtorVars, stale, named>>

(* An object is freed without its destructor: its constructor threw, or    *)
(* the request ends with a fatal error.                                    *)
Skip(h) ==
    /\ Running
    /\ class[h] # "free" /\ ~destructed[h]
    /\ class' = [class EXCEPT ![h] = "free"]
    /\ stale' = [stale EXCEPT ![h] = DSN_MAP[h] # None]
    /\ UNCHANGED <<dsn, destructed, made, table, DSN_MAP, DTOR_MAP, dtorVars, named>>

-----------------------------------------------------------------------------
Next ==
    \/ \E h \in Handles, d \in Dsns, traced \in BOOLEAN :
          Construct(h, d, traced) \/ ConstructAgain(h, d, traced)
    \/ \E h \in Handles : Call(h) \/ Destruct(h) \/ Free(h) \/ Skip(h)
    \/ \E h, s \in Handles, context \in BOOLEAN : Prepare(h, s, context)
    \/ PluginDtor
    \/ OriginalDtor

Spec == Init /\ [][Next]_vars

-----------------------------------------------------------------------------
TypeOK ==
    /\ class \in [Handles -> Classes \cup {"free"}]
    /\ dsn \in [Handles -> Dsns \cup {None}]
    /\ destructed \in [Handles -> BOOLEAN]
    /\ made \in 0 .. MaxObjects
    /\ table \in [Classes -> {"original", "plugin"}]
    /\ DSN_MAP \in [Handles -> Dsns \cup {None}]
    /\ DTOR_MAP \in [Handles -> Dtors]
    /\ dying \in Handles \cup {None}
    /\ calling \in Dtors
    /\ depth \in Nat
    /\ stale \in [Handles -> BOOLEAN]
    /\ named \in [Handles -> Dsns \cup {None}]

(* The last span of an object names the data source it is connected to,    *)
(* although handles are used again and entries are handed on, unless the   *)
(* entry was left behind by an object without its destructor or by a       *)
(* connection that was replaced untraced (with_dsn).                       *)
SpanNamesOwn ==
    \A h \in Handles :
        class[h] # "free" /\ named[h] \notin {None, dsn[h]} => stale[h] \/ destructed[h]

(* An entry of a handle that is free was left by an object that went       *)
(* without its destructor: the others have taken theirs with them.         *)
EntriesGoWithObjects ==
    \A h \in Handles : class[h] = "free" /\ DSN_MAP[h] # None => stale[h]

(* The plugin's dtor finds itself in DTOR_MAP, but calls itself only once: *)
(* the destruction of an object does not recurse without end (dtor).       *)
DestructionEnds == depth <= 2
=============================================================================
