---------------------------- MODULE DriverPlugins ----------------------------
(***************************************************************************)
(* The plugins that keep nothing of their own between calls: mysqli,       *)
(* Memcached, Predis, MongoDB and AMQP (src/plugin/plugin_*.rs).           *)
(*                                                                         *)
(* Each makes an exit span before a method of a client library and ends it *)
(* after.  Which server the span names, the plugin finds out anew in every *)
(* call: from the arguments, from the client object before or after the    *)
(* method, or by asking it.  A call is one step here, with both hooks in   *)
(* it; between calls connections, pools, messages and the context change.  *)
(* A peer is the set of the addresses in it.                               *)
(***************************************************************************)
EXTENDS Naturals, Sequences

CONSTANTS
    Hosts,        \* host names
    Ports,        \* port numbers, and what a slot of the VM stack may hold
    DefaultPort,  \* 3306
    Localhost,    \* the name that stands for the unix socket of a MySQL server
    Socket,       \* in place of a port: that socket
    User,         \* the user name a script connects with
    UnknownPeer,  \* the address the plugins write for one they cannot find
    Links,        \* mysqli objects
    Pools,        \* Memcached objects
    Keys,         \* keys of Memcached items
    Home,         \* Home[k]: the server of the item k, when the pool has it
    Managers,     \* MongoDB\Driver\Manager objects
    Messages,     \* AMQPMessage objects
    Tables,       \* AMQPTable objects of the script
    MaxSpans,     \* bound: publishes that get a span
    Nothing       \* no server, table or header

Servers == Hosts \X Ports

(* The MySQL server of this machine. *)
Local == <<Localhost, Socket>>
MysqlServers == Servers \cup {Local}

ASSUME DriverAssumption ==
    /\ DefaultPort \in Ports /\ Socket \notin Ports
    /\ {User, Localhost} \cap Hosts = {}
    /\ UnknownPeer \notin (Hosts \cup {User, Localhost}) \X Ports
    /\ Home \in [Keys -> Servers]
    /\ Nothing \notin MysqlServers \cup Tables \cup Messages
    /\ MaxSpans \in Nat

VARIABLES
    context,    \* hooks find a context
    server,     \* server[l]: what the link l is connected to, or Nothing
    pool,       \* pool[p]: the servers added to the Memcached object p
    known,      \* known[g]: the servers the driver of the manager g knows
    headers,    \* headers[m]: the application_headers of m: a table of the script,
                \* the one the plugin made for m (named m), or Nothing
    header,     \* header[t]: the sw8 in the table t: the span it is of, or Nothing
    cached,     \* cached[m]: the sw8 in the serialized properties that m keeps: {} if none
    gone,       \* the messages that have gone out with the headers they have
    published,  \* spans of publishes so far
    last        \* the call of a method that the last step was

stores == <<server, pool, known>>
headerVars == <<headers, header, cached, gone, published>>
driverVars == <<context, stores, headerVars, last>>

AllTables == Tables \cup Messages
SW8 == (1 .. MaxSpans) \cup {Nothing}

(* How a call ended.  span: a span was made; through: the before hook did  *)
(* not fail; peer, error: what the span says in the end; to: the servers   *)
(* of the call; result: "ok", "false", "null" or "thrown"; args: arguments *)
(* of a connect; carried: the sw8 that went out with a message, if any;    *)
(* again: the message had gone out with its headers before.                *)
Untraced(call, to, result) ==
    [call |-> call, span |-> FALSE, through |-> FALSE, peer |-> {}, error |-> FALSE,
     to |-> to, result |-> result, args |-> 0, carried |-> {}, again |-> FALSE]

(* A step that is no call. *)
NoCall == last' = Untraced("none", {}, "ok")

(* The hooks are run and say so; without a context they fail at once       *)
(* (create_exit_span) and the call goes unseen.                            *)
Finish(call, peers, error, to, result) ==
    IF context
    THEN \E p \in peers :
            last' = [Untraced(call, to, result) EXCEPT
                        !.span = TRUE, !.through = TRUE, !.peer = p, !.error = error]
    ELSE last' = Untraced(call, to, result)

(* The hooks never come to make a span. *)
Unseen(call, to, result) == last' = Untraced(call, to, result)

(* The before hook fails after it has made the span, which ends at once.   *)
BreaksOff(call, p, to, result) ==
    /\ context
    /\ last' = [Untraced(call, to, result) EXCEPT !.span = TRUE, !.peer = p]

Results == {"ok", "false", "thrown"}
Bad == {"false", "thrown"}

DriverInit ==
    /\ context = FALSE
    /\ server = [l \in Links |-> Nothing]
    /\ pool = [p \in Pools |-> {}]
    /\ known = [g \in Managers |-> {}]
    /\ headers \in [Messages -> Tables \cup {Nothing}]
    /\ header = [t \in AllTables |-> Nothing]
    /\ cached = [m \in Messages |-> {}]
    /\ gone = {}
    /\ published = 0
    /\ last = Untraced("none", {}, "ok")

(* A request begins or ends; in a Swoole worker, objects outlive it. *)
ContextChanges ==
    /\ context' = ~context
    /\ NoCall
    /\ UNCHANGED <<stores, headerVars>>

-----------------------------------------------------------------------------
(* mysqli. *)

ConnectCalls == {"__construct", "real_connect", "mysqli_connect", "mysqli_real_connect"}
Style(call) == IF call \in {"__construct", "real_connect"} THEN "OO" ELSE "Procedural"

(* No argument, a host, or all of them up to the port, which is not used   *)
(* for a socket.                                                           *)
ConnectArgs(s) ==
    {<<>>, <<s[1]>>,
     <<s[1], User, "password", "database", IF s = Local THEN DefaultPort ELSE s[2]>>}

(* mysqli_real_connect takes the link first. *)
Params(call, args) == IF call = "mysqli_real_connect" THEN <<"link">> \o args ELSE args

(* ApiStyle::get_mut_parameter: in procedural style the first parameter is *)
(* taken for the link, which it is not in mysqli_connect.                  *)
Place(style, index) == IF style = "OO" THEN index + 1 ELSE index + 2

(* get_peer_by_parameters.  A port that was not passed is read from the VM *)
(* stack all the same, where that of another call may be left.             *)
PeersByParameters(style, params) ==
    IF Len(params) < Place(style, 0)
    THEN {{}}
    ELSE {{<<params[Place(style, 0)], port>>} :
             port \in IF Len(params) < Place(style, 4) THEN Ports ELSE {params[Place(style, 4)]}}

(* mysqli_get_host_info: "<host> via TCP/IP", "Localhost via UNIX socket"; *)
(* it throws without a connection.                                         *)
HostInfo(s) == s[1]

(* get_peer_by_this: the host of the host info, which has no port, and     *)
(* 3306 behind it.                                                         *)
PeerByThis(s) == IF s = Nothing THEN {} ELSE {<<HostInfo(s), DefaultPort>>}

(* A peer of the parameters that stays. *)
ResetPeerNever(peers, s) == peers

(* The after hook of a connect resets the peer if the link tells one. *)
ResetPeer(peers, s) == IF PeerByThis(s) = {} THEN peers ELSE {PeerByThis(s)}

(* hook_mysqli_connect around a connect to s that succeeds, returns false, *)
(* throws, or (the constructor, with reports off) leaves the object        *)
(* unconnected and says nothing.                                           *)
MysqliConnect(l, call, s, args, result) ==
    /\ result = "null" => call = "__construct"
    /\ result = "false" => call # "__construct"
    /\ Len(args) < 5 => s[2] \in {DefaultPort, Socket}
    /\ server' = [server EXCEPT ![l] = IF result = "ok" THEN s ELSE Nothing]
    /\ IF context
       THEN \E p \in ResetPeer(PeersByParameters(Style(call), Params(call, args)), server'[l]) :
               last' = [Untraced(call, {s}, result) EXCEPT
                           !.span = TRUE, !.through = TRUE, !.peer = p,
                           !.error = result \in Bad, !.args = Len(args)]
       ELSE last' = [Untraced(call, {s}, result) EXCEPT !.args = Len(args)]
    /\ UNCHANGED <<context, pool, known, headerVars>>

(* hook_mysqli_methods; a statement that is not UTF-8 breaks the hook off. *)
MysqliQuery(l, result) ==
    /\ server[l] = Nothing => result \in Bad
    /\ LET p == PeerByThis(server[l])
           to == {server[l]} \ {Nothing}
       IN  \/ Finish("query", {p}, result \in Bad, to, result)
          \/ BreaksOff("query", p, to, result)
    /\ UNCHANGED <<context, stores, headerVars>>

(* mysqli::close, or the connection is lost. *)
MysqliClose(l) ==
    /\ server[l] # Nothing
    /\ server' = [server EXCEPT ![l] = Nothing]
    /\ NoCall
    /\ UNCHANGED <<context, pool, known, headerVars>>

-----------------------------------------------------------------------------
(* Memcached. *)

EMPTY_METHODS == {"flush"}
KEY_METHODS == {"get", "getmulti"}
SERVER_KEY_METHODS == {"getByKey"}

(* The methods as PHP declares them, and to_ascii_lowercase of the names. *)
MemcachedMethods == {"flush", "get", "getMulti", "getByKey"}
Lower(name) ==
    CASE name = "getMulti" -> "getmulti"
      [] name = "getByKey" -> "getbykey"
      [] OTHER -> name

(* MemcachedPlugin::hook: the table of the ByKey methods has other names   *)
(* than it is asked for.                                                   *)
Hooked(name) == Lower(name) \in EMPTY_METHODS \cup KEY_METHODS \cup SERVER_KEY_METHODS

(* Memcached::getServerByKey. *)
ServerByKey(p, k) ==
    IF Home[k] \in pool[p] THEN {Home[k]} ELSE {CHOOSE s \in pool[p] : TRUE}

(* get_peer: empty if the object has no servers. *)
PeerOfKey(p, k) == IF pool[p] = {} THEN {} ELSE ServerByKey(p, k)

AddServer(p, s) ==
    /\ pool' = [pool EXCEPT ![p] = @ \cup {s}]
    /\ NoCall
    /\ UNCHANGED <<context, server, known, headerVars>>

(* A method on the item k, on several items, or on all servers. The after  *)
(* hook asks for the result code of a false, marks the span before, and    *)
(* fails if the method of a subclass it asks does.                         *)
MemcachedCall(p, name, k, result) ==
    /\ pool[p] = {} => result \in Bad
    /\ LET one == name \in {"get", "getByKey"}
           to == IF one THEN PeerOfKey(p, k) ELSE pool[p]
       IN  IF Hooked(name)
           THEN Finish(name, {IF one THEN PeerOfKey(p, k) ELSE {}}, result \in Bad, to, result)
           ELSE Unseen(name, to, result)
    /\ UNCHANGED <<context, stores, headerVars>>

-----------------------------------------------------------------------------
(* Predis. *)

ALL_COMMANDS == {"GET", "AUTH"}
PredisCommands == {"get", "GET", "ping"}
Upper(command) == CASE command = "get" -> "GET" [] command = "ping" -> "PING" [] OTHER -> command

(* __call of a client with a single connection, whose parameters name the  *)
(* server; with one whose parameters do not, where the hook fails; or with *)
(* an aggregate one (a cluster), whose server is not known.                *)
PredisCall(s, connection, command, result) ==
    /\ IF connection = "hostless" \/ Upper(command) \notin ALL_COMMANDS
       THEN Unseen(command, {s}, result)
       ELSE Finish(command, {IF connection = "single" THEN {s} ELSE {UnknownPeer}},
                   result \in Bad, {s}, result)
    /\ UNCHANGED <<context, stores, headerVars>>

-----------------------------------------------------------------------------
(* MongoDB. *)

(* A get_peer before the call. *)
PeerOfManagerBefore(g) == known[g]

(* get_peer, in the after hook: the driver connects at the first call. *)
PeerOfManager(g) == known'[g]

(* before_manager_crud_hook, a call that is answered by one of the servers *)
(* the driver knows then, or throws, and after_manager_crud_hook.  Servers *)
(* are found and dropped in calls.                                         *)
ManagerCall(g, found, to, result) ==
    /\ result # "false"
    /\ to \subseteq found /\ (result = "ok" => to # {})
    /\ known' = [known EXCEPT ![g] = found]
    /\ Finish("executeQuery", {PeerOfManager(g)}, result = "thrown", to, result)
    /\ UNCHANGED <<context, server, pool, headerVars>>

-----------------------------------------------------------------------------
(* AMQP. *)

(* The script gives the message headers of its own, or takes them away: a  *)
(* property with a new value discards the serialized ones.                 *)
SetHeaders(m, t) ==
    /\ headers[m] # t
    /\ headers' = [headers EXCEPT ![m] = t]
    /\ cached' = [cached EXCEPT ![m] = {}]
    /\ gone' = gone \ {m}
    /\ NoCall
    /\ UNCHANGED <<context, stores, header, published>>

(* An inject_sw_header that leaves headers with an sw8 alone. *)
InjectOnce(m, sw) ==
    LET t == IF headers[m] = Nothing THEN m ELSE headers[m]
    IN  /\ headers' = [headers EXCEPT ![m] = t]
        /\ header' = IF headers[m] # Nothing /\ header[t] # Nothing
                     THEN header
                     ELSE [header EXCEPT ![t] = sw]

(* inject_sw_header: AMQPTable::set on the headers the message has, or     *)
(* AMQPMessage::set of new ones.                                           *)
Inject(m, sw) ==
    LET t == IF headers[m] = Nothing THEN m ELSE headers[m]
    IN  /\ headers' = [headers EXCEPT ![m] = t]
        /\ header' = [header EXCEPT ![t] = sw]

(* AMQPMessage::serialize_properties: those it keeps, which only a new     *)
(* value of a property of the message discards, or those it has now.       *)
Serialized(m) ==
    IF cached[m] # {} /\ headers'[m] = headers[m] THEN cached[m]
    ELSE IF headers'[m] = Nothing THEN {Nothing}
    ELSE {header'[headers'[m]]}

(* The call of basic_publish serializes the message, unless it throws      *)
(* before.                                                                 *)
GoesOut(m, carried, result) ==
    \/ /\ carried = Serialized(m)
       /\ cached' = [cached EXCEPT ![m] = carried]
       /\ gone' = IF headers'[m] = Nothing THEN gone ELSE gone \cup {m}
    \/ /\ carried = {} /\ result = "thrown"
       /\ cached' = [cached EXCEPT ![m] = IF headers'[m] = headers[m] THEN @ ELSE {}]
       /\ UNCHANGED gone

(* hook_channel_basic_publish: the span, then its sw8, which fails if a    *)
(* method of the message throws, then the message goes out.                *)
Publish(m, s, reachable, carried, result) ==
    /\ result # "false"
    /\ IF context
       THEN /\ published < MaxSpans
            /\ published' = published + 1
            /\ \E through \in BOOLEAN :
                  /\ IF through THEN Inject(m, published') ELSE UNCHANGED <<headers, header>>
                  /\ last' = [Untraced("basic_publish", {s}, result) EXCEPT
                                 !.span = TRUE, !.through = through,
                                 !.peer = IF reachable THEN {s} ELSE {UnknownPeer},
                                 !.error = through /\ result = "thrown",
                                 !.carried = carried, !.again = m \in gone]
       ELSE /\ UNCHANGED <<headers, header, published>>
            /\ last' = [Untraced("basic_publish", {s}, result) EXCEPT
                           !.carried = carried, !.again = m \in gone]
    /\ GoesOut(m, carried, result)
    /\ UNCHANGED <<context, stores>>

-----------------------------------------------------------------------------
DriverNext ==
    \/ ContextChanges
    \/ \E l \in Links :
          \/ \E call \in ConnectCalls, s \in MysqlServers, result \in Results \cup {"null"} :
                \E args \in ConnectArgs(s) : MysqliConnect(l, call, s, args, result)
          \/ \E result \in Results : MysqliQuery(l, result)
          \/ MysqliClose(l)
    \/ \E p \in Pools :
          \/ \E s \in Servers : AddServer(p, s)
          \/ \E name \in MemcachedMethods, k \in Keys, result \in Results :
                MemcachedCall(p, name, k, result)
    \/ \E s \in Servers, connection \in {"single", "hostless", "cluster"},
          command \in PredisCommands, result \in Results :
             PredisCall(s, connection, command, result)
    \/ \E g \in Managers, found \in SUBSET Servers, result \in Results :
          \E to \in {{}} \cup {{s} : s \in found} : ManagerCall(g, found, to, result)
    \/ \E m \in Messages :
          \/ \E t \in Tables \cup {Nothing} : SetHeaders(m, t)
          \/ \E s \in Servers, reachable \in BOOLEAN, result \in Results :
                \E sw \in {{}} \cup {{w} : w \in SW8} :
                   Publish(m, s, reachable, sw, result)

DriverSpec == DriverInit /\ [][DriverNext]_driverVars

-----------------------------------------------------------------------------
DriverTypeOK ==
    /\ context \in BOOLEAN
    /\ server \in [Links -> MysqlServers \cup {Nothing}]
    /\ pool \in [Pools -> SUBSET Servers]
    /\ known \in [Managers -> SUBSET Servers]
    /\ headers \in [Messages -> AllTables \cup {Nothing}]
    /\ header \in [AllTables -> SW8]
    /\ cached \in [Messages -> SUBSET SW8]
    /\ gone \subseteq Messages
    /\ published \in 0 .. MaxSpans

(* Calls whose servers a plugin cannot or does not know: those of several  *)
(* items or all servers, of an aggregate connection, of a closed channel.  *)
Vague ==
    \/ last.peer = {} /\ last.call \in {"flush", "getMulti"}
    \/ last.peer = {UnknownPeer} /\ last.call \in PredisCommands \cup {"basic_publish"}

(* "Sometimes the connection is failed. Therefore, first assemble the peer *)
(* from the parameters": a connect that fails is named after the user in   *)
(* mysqli_connect, and after a port of chance if none is passed.           *)
Guessed ==
    /\ last.call \in ConnectCalls
    /\ last.result # "ok"
    /\ last.args < 5 \/ last.call = "mysqli_connect"

(* Of a MySQL server that does not listen on 3306, the span has the host   *)
(* and 3306: the peer that "should be more precise" after a connect puts   *)
(* this for the port that the parameters had.                              *)
Portless ==
    /\ last.call \in ConnectCalls \cup {"query"}
    /\ \E s \in last.to : s[2] # DefaultPort /\ last.peer = {<<s[1], DefaultPort>>}

(* Apart from these, a span names the servers its call went to, whatever   *)
(* was connected, added, found or dropped before or by the call (get_peer, *)
(* get_peer_by_this); that of a MongoDB call names all the driver knows.   *)
PeerIsServer ==
    last.span /\ ~Vague /\ ~Guessed /\ ~Portless =>
        IF last.call = "executeQuery" THEN last.to \subseteq last.peer ELSE last.peer = last.to

(* A message whose hook ran goes out with the sw8 of its own span,         *)
(* whichever messages share its headers, whatever headers it was given and *)
(* whether it was published before (inject_sw_header).  One that has gone  *)
(* out with the headers it still has does not: AMQPTable::set changes the  *)
(* headers, and the message keeps its serialized properties.               *)
HeaderOfOwnSpan ==
    /\ last.call = "basic_publish" /\ last.through
    /\ last.carried # {} /\ ~last.again
    => last.carried = {published}
=============================================================================
