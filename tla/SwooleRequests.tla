--------------------------- MODULE SwooleRequests ----------------------------
(***************************************************************************)
(* The requests of one Swoole worker process and their tracing contexts.   *)
(*                                                                         *)
(* Registering an on-request callback replaces it with a function of the   *)
(* extension, which surrounds the callback with the start and the end of   *)
(* the request's context (src/request.rs, src/plugin/plugin_swoole.rs).    *)
(* Contexts and response status codes live in process-wide maps keyed by   *)
(* the connection's fd (src/context.rs); the handlers are coroutines, so   *)
(* requests interleave wherever a handler yields.                          *)
(***************************************************************************)
EXTENDS Naturals, SequencesExt

CONSTANTS
    Requests,     \* requests
    Fds,          \* fds of client connections
    Callbacks,    \* on-request callbacks of the application
    Codes,        \* HTTP status codes
    Ok,           \* the code of a response that is given none (200)
    Dropped,      \* the outcome of a context that was replaced
    None          \* no request, code or callback

ASSUME SwooleAssumption ==
    /\ Ok \in Codes
    /\ None \notin Requests \cup Fds \cup Callbacks \cup Codes \cup {Dropped}
    /\ Dropped \notin Codes

VARIABLES
    phase,      \* phase[r]: "new", "handling" until the callback returns, "done"
    fd,         \* fd[r]: the connection r came on
    began,      \* began[r]: request_init_for_swoole succeeded
    ended,      \* ended[r]: the response of r has been ended
    own,        \* own[r]: the code the application gave the response of r
    route,      \* the callback that was registered for the last request
    served,     \* the callback that was called for it
    context,    \* REQUEST_CONTEXT: context[f] is the request whose context is at f
    status,     \* SWOOLE_RESPONSE_STATUS_MAP
    origin,     \* ORI_SWOOLE_ON_REQUEST
    hacked,     \* the callbacks replaced so far, in the order they were
    reported,   \* reported[r]: the code in the segment of r, Dropped, or None
    strays,     \* <<r, s>>: a plugin call of r has put a span into the segment of s
    overlaps,   \* connections on which a request met the handler of another one
    leaks,      \* connections whose codes may not be of one request: an init has
                \* failed on it, or a status() came after the handler returned
    misheard    \* requests whose last code the hook of status() has not heard of,
                \* or has heard of although the response had been ended

reqVars == <<phase, fd, began, ended, own>>
called == <<route, served>>
mapVars == <<context, status, reported, strays>>
past == <<overlaps, leaks, misheard>>
vars == <<reqVars, called, mapVars, origin, hacked, past>>

Outcomes == Codes \cup {Dropped, None}

Init ==
    /\ phase = [r \in Requests |-> "new"]
    /\ fd = [r \in Requests |-> None]
    /\ began = [r \in Requests |-> FALSE]
    /\ ended = [r \in Requests |-> FALSE]
    /\ own = [r \in Requests |-> Ok]
    /\ route = None
    /\ served = None
    /\ context = [f \in Fds |-> None]
    /\ status = [f \in Fds |-> None]
    /\ reported = [r \in Requests |-> None]
    /\ strays = {}
    /\ origin = None
    /\ hacked = <<>>
    /\ overlaps = {}
    /\ leaks = {}
    /\ misheard = {}

(* A hack_callback that keeps the first original callback. *)
RegisterOnce(c) ==
    /\ ~Contains(hacked, c)
    /\ hacked' = Append(hacked, c)
    /\ origin' = IF origin = None THEN c ELSE origin
    /\ UNCHANGED <<reqVars, called, mapVars, past>>

(* SwooleServerPlugin::hack_callback, ahead of Server::on("request") or    *)
(* Coroutine\Http\Server::handle.                                          *)
Register(c) ==
    /\ ~Contains(hacked, c)
    /\ hacked' = Append(hacked, c)
    /\ origin' = c
    /\ UNCHANGED <<reqVars, called, mapVars, past>>

(* A context goes: its segment is reported, under an outcome. *)
Report(s, outcome) == reported' = [reported EXCEPT ![s] = outcome]

Handling(f) == \E r \in Requests : fd[r] = f /\ phase[r] = "handling"

(* A client sends the next request when the response to the last one on    *)
(* the connection has been ended.                                          *)
Free(f) == \A r \in Requests : fd[r] = f => ended[r]

(* request_init_for_swoole succeeds: create_request_context puts the       *)
(* context at the fd and drops one that is there.                          *)
Begin(r, f) ==
    /\ began' = [began EXCEPT ![r] = TRUE]
    /\ context' = [context EXCEPT ![f] = r]
    /\ IF context[f] = None
       THEN UNCHANGED reported
       ELSE Report(context[f], Dropped)

(* skywalking_hack_swoole_on_request, up to the call of the callback: of   *)
(* the registered callbacks the last one is called, and it is called       *)
(* although the init fails.                                                *)
Arrive(r, f, c) ==
    /\ phase[r] = "new"
    /\ Contains(hacked, c)
    /\ Free(f)
    /\ phase' = [phase EXCEPT ![r] = "handling"]
    /\ fd' = [fd EXCEPT ![r] = f]
    /\ route' = c
    /\ served' = origin
    /\ overlaps' = IF Handling(f) THEN overlaps \cup {f} ELSE overlaps
    /\ \/ /\ Begin(r, f)
          /\ UNCHANGED leaks
       \/ /\ leaks' = leaks \cup {f}
          /\ UNCHANGED <<began, context, reported>>
    /\ UNCHANGED <<ended, own, status, strays, origin, hacked, misheard>>

(* The response of r is still open, in its handler or in the coroutine it  *)
(* was left to.                                                            *)
Responding(r) == phase[r] # "new" /\ ~ended[r]

(* Response::status.  The hook of SwooleHttpResponsePlugin before it keeps *)
(* the code for the connection, and the method then refuses it if the      *)
(* response has been ended.                                                *)
SetStatus(r, code) ==
    /\ phase[r] # "new"
    /\ own' = [own EXCEPT ![r] = IF ended[r] THEN @ ELSE code]
    /\ status' = [status EXCEPT ![fd[r]] = code]
    /\ misheard' = IF ended[r] THEN misheard \cup {r} ELSE misheard \ {r}
    /\ leaks' = IF phase[r] = "done" THEN leaks \cup {fd[r]} ELSE leaks
    /\ UNCHANGED <<phase, fd, began, ended, called>>
    /\ UNCHANGED <<context, reported, strays, origin, hacked, overlaps>>

(* setStatusCode and redirect, for which there is no hook. *)
SetStatusUnhooked(r, code) ==
    /\ Responding(r)
    /\ own' = [own EXCEPT ![r] = code]
    /\ misheard' = misheard \cup {r}
    /\ UNCHANGED <<phase, fd, began, ended, called, mapVars, origin, hacked>>
    /\ UNCHANGED <<overlaps, leaks>>

(* Response::end; the handler may go on after it. *)
EndResponse(r) ==
    /\ Responding(r)
    /\ ended' = [ended EXCEPT ![r] = TRUE]
    /\ UNCHANGED <<phase, fd, began, own, called, mapVars, origin, hacked, past>>

(* A plugin hook below the handler of r: infer_request_id finds the fd of  *)
(* r, try_with_global the context there, or nothing.                       *)
PluginCall(r) ==
    /\ phase[r] = "handling"
    /\ context[fd[r]] # None
    /\ strays' = strays \cup {<<r, context[fd[r]]>>}
    /\ UNCHANGED <<reqVars, called, context, status, reported, origin, hacked, past>>

(* A shutdown that leaves the code in the status map. *)
ShutdownGet(f) ==
    /\ context' = [context EXCEPT ![f] = None]
    /\ IF context[f] = None
       THEN UNCHANGED reported
       ELSE Report(context[f], IF status[f] = None THEN Ok ELSE status[f])
    /\ UNCHANGED status

(* A shutdown only of requests that were given a code. *)
ShutdownWithCode(f) ==
    /\ status' = [status EXCEPT ![f] = None]
    /\ IF context[f] = None \/ status[f] = None
       THEN UNCHANGED <<reported, context>>
       ELSE /\ Report(context[f], status[f])
            /\ context' = [context EXCEPT ![f] = None]

(* A shutdown that reads the context and leaves it in the map. *)
ShutdownPeek(f) ==
    /\ status' = [status EXCEPT ![f] = None]
    /\ IF context[f] = None
       THEN UNCHANGED reported
       ELSE Report(context[f], IF status[f] = None THEN Ok ELSE status[f])
    /\ UNCHANGED context

(* request_shutdown_for_swoole. *)
Shutdown(f) ==
    /\ status' = [status EXCEPT ![f] = None]
    /\ context' = [context EXCEPT ![f] = None]
    /\ IF context[f] = None
       THEN UNCHANGED reported
       ELSE Report(context[f], IF status[f] = None THEN Ok ELSE status[f])

(* The callback of r returns or throws, and what has begun is shut down.   *)
(* A response ends with its handler, unless another coroutine holds it.    *)
Return(r) ==
    /\ phase[r] = "handling"
    /\ phase' = [phase EXCEPT ![r] = "done"]
    /\ ended' \in {ended, [ended EXCEPT ![r] = TRUE]}
    /\ IF began[r]
       THEN Shutdown(fd[r])
       ELSE UNCHANGED <<status, context, reported>>
    /\ UNCHANGED <<fd, began, own, called, strays, origin, hacked, past>>

-----------------------------------------------------------------------------
Next ==
    \/ \E c \in Callbacks : Register(c)
    \/ \E r \in Requests :
          \/ \E f \in Fds, c \in Callbacks : Arrive(r, f, c)
          \/ \E code \in Codes : SetStatus(r, code) \/ SetStatusUnhooked(r, code)
          \/ EndResponse(r)
          \/ PluginCall(r)
          \/ Return(r)

Spec == Init /\ [][Next]_vars

-----------------------------------------------------------------------------
TypeOK ==
    /\ phase \in [Requests -> {"new", "handling", "done"}]
    /\ fd \in [Requests -> Fds \cup {None}]
    /\ \A r \in Requests : phase[r] # "new" => fd[r] \in Fds
    /\ began \in [Requests -> BOOLEAN]
    /\ ended \in [Requests -> BOOLEAN]
    /\ own \in [Requests -> Codes]
    /\ {route, served} \subseteq Callbacks \cup {None}
    /\ context \in [Fds -> Requests \cup {None}]
    /\ status \in [Fds -> Codes \cup {None}]
    /\ reported \in [Requests -> Outcomes]
    /\ strays \subseteq Requests \X Requests
    /\ origin \in Callbacks \cup {None}
    /\ hacked \in Seq(Callbacks)
    /\ overlaps \subseteq Fds
    /\ leaks \subseteq Fds
    /\ misheard \subseteq Requests

(* A context in REQUEST_CONTEXT is that of a request whose handler has not *)
(* returned, on that connection: however requests on one connection        *)
(* overlap and whatever fails to decode, no context outlives the handler   *)
(* that could still finish it (set_global, remove_global).                 *)
NoOrphanContext ==
    \A f \in Fds : context[f] # None =>
        /\ phase[context[f]] = "handling"
        /\ fd[context[f]] = f
        /\ began[context[f]]

(* A segment is reported at most once, and not while its context is still  *)
(* in the map (finish_request_context takes the context out).              *)
ReportedOnce ==
    [][\A r \in Requests :
          /\ reported[r] # None => reported'[r] = reported[r]
          /\ reported'[r] # None => \A f \in Fds : context'[f] # r]_vars

(* On a connection that carries one request at a time the segment of every *)
(* request that has begun and is done says the code of its own response,   *)
(* whatever overlaps or fails on other connections.  Named by overlaps,    *)
(* leaks and misheard is where it does say another one: two handlers on    *)
(* one connection, a code kept from a request whose init failed or from a  *)
(* status() after the handler, a code given by a function without a hook,  *)
(* and a status() that the ended response refuses (hook_status,            *)
(* request_shutdown_for_swoole).                                           *)
ReportsOwnStatus ==
    \A r \in Requests \ misheard :
        phase[r] = "done" /\ began[r] /\ fd[r] \notin overlaps \cup leaks =>
            reported[r] = own[r]

(* Spans made below a handler go to the segment of its request, and a      *)
(* request whose init failed adds to no other, as long as the connection   *)
(* gets no next request while a handler runs (infer_request_id).           *)
SpansOwn == \A s \in strays : s[1] = s[2] \/ fd[s[1]] \in overlaps

(* "The function is used by swoole plugin, to surround the callback of on  *)
(* request": the callback that handles a request is the one registered for *)
(* it, or one that was registered later and has replaced the original in   *)
(* ORI_SWOOLE_ON_REQUEST (hack_callback): never an older one.              *)
ServedByLatest ==
    served # route =>
        \E i, j \in 1 .. Len(hacked) :
            i < j /\ hacked[i] = route /\ hacked[j] = served

(* Contexts open and close as RequestTracing promises: a request that has  *)
(* been reported, or whose init has failed, gets no context and no span    *)
(* any more, whichever requests overlap with it (set_global,               *)
(* remove_global).  A span stands for the handler it was made below.       *)
Open == {r \in Requests : \E f \in Fds : context[f] = r}
Over == {r \in Requests : reported[r] # None \/ (phase[r] # "new" /\ ~began[r])}
SpansOf == [r \in Requests |-> {q \in Requests : <<q, r>> \in strays}]

Tracing == INSTANCE RequestTracing
              WITH Spans <- Requests, open <- Open, over <- Over, spans <- SpansOf
ImplementsTracing == Tracing!Spec
=============================================================================
