------------------------------ MODULE CurlPlugin -----------------------------
(***************************************************************************)
(* The curl plugin (src/plugin/plugin_curl.rs) under a PHP script that     *)
(* makes curl handles, sets their headers and runs them alone or in a      *)
(* multi handle.                                                           *)
(*                                                                         *)
(* libcurl replaces a handle's header list as a whole, so to add the sw8   *)
(* header the plugin remembers what the script has set, in CURL_HEADERS    *)
(* under the handle's id, and sets the list again with sw8 at its end.     *)
(* For a multi handle it remembers the handles that were added and, while  *)
(* transfers run, their spans (CURL_MULTI_INFO_MAP; one multi handle is    *)
(* modelled, entries of different ones do not meet).  Both maps outlive    *)
(* the request.                                                            *)
(***************************************************************************)
EXTENDS Naturals, Sequences

CONSTANTS
    Handles,      \* ids of curl handles
    Headers,      \* header arrays of the script
    None,         \* no header array
    MaxRequests   \* bound: requests of the process

ASSUME CurlAssumption ==
    /\ None \notin Headers
    /\ MaxRequests \in Nat

VARIABLES
    request,    \* requests so far
    context,    \* the request that has a tracing context, or 0
    live,       \* handles that exist
    used,       \* ids that were given to a handle
    scheme,     \* scheme[h]: "http" (or https), "other", or "bad" (no URL)
    given,      \* given[h]: the headers the script means the handle to have, or None
    first,      \* first[h]: they were set on h since the last sw8 header; or there are
                \* none, and none are left of an earlier handle or of before a reset
    headers,    \* CURL_HEADERS
    wire,       \* wire[h]: the header list libcurl has
    attached,   \* handles in the multi handle
    running,    \* those of them that are being transferred
    over,       \* those of them whose transfer is over
    info,       \* the entry of CURL_MULTI_INFO_MAP
    sent        \* sent[h]: the last transfer of the handle

handleVars == <<live, used, scheme, given, first>>
multiVars == <<attached, running, over, info>>
vars == <<request, context, handleVars, headers, wire, multiVars, sent>>

(* A header list: what the script has set and the sw8 headers after it.    *)
(* An absent entry of CURL_HEADERS is as good as an empty list.            *)
Lists == [user : Headers \cup {None}, sw : Seq(1 .. MaxRequests)]
Empty == [user |-> None, sw |-> <<>>]

(* An entry of CURL_MULTI_INFO_MAP; an absent one is as good as NoInfo. *)
NoInfo == [handles |-> {}, exec |-> FALSE, spans |-> {}]

(* A transfer: the headers it went with and those it should have; whether  *)
(* they were set since the last injection; the request it has a span in,   *)
(* or 0; whether the span has been given the status and closed.            *)
NoTransfer == [list |-> Empty, set |-> None, first |-> FALSE, span |-> 0, closed |-> FALSE]

Init ==
    /\ request = 0
    /\ context = 0
    /\ live = {}
    /\ used = {}
    /\ scheme \in [Handles -> {"http", "other", "bad"}]
    /\ given = [h \in Handles |-> None]
    /\ first = [h \in Handles |-> FALSE]
    /\ headers = [h \in Handles |-> Empty]
    /\ wire = [h \in Handles |-> Empty]
    /\ attached = {}
    /\ running = {}
    /\ over = {}
    /\ info = NoInfo
    /\ sent = [h \in Handles |-> NoTransfer]

-----------------------------------------------------------------------------
(* The script and PHP. *)

(* Handles that are gone, with all that libcurl knew of them. *)
Drop(hs) ==
    /\ live' = live \ hs
    /\ given' = [h \in Handles |-> IF h \in hs THEN None ELSE given[h]]
    /\ first' = [h \in Handles |-> first[h] /\ h \notin hs]
    /\ wire' = [h \in Handles |-> IF h \in hs THEN Empty ELSE wire[h]]
    /\ sent' = [h \in Handles |-> IF h \in hs THEN NoTransfer ELSE sent[h]]

(* The next request; the handles of the last one are gone, and nothing     *)
(* clears the maps.  Its context may fail to be made.  Scripts that end    *)
(* with the multi handle in use are left out.                              *)
NextRequest ==
    /\ request < MaxRequests
    /\ attached = {} /\ info = NoInfo
    /\ request' = request + 1
    /\ context' \in {0, request + 1}
    /\ Drop(live)
    /\ UNCHANGED <<used, scheme, headers, multiVars>>

(* curl_init; the id may be that of a handle that is gone, whose entry in  *)
(* CURL_HEADERS is there still if it was never closed.                     *)
CurlInit(h) ==
    /\ request > 0
    /\ h \notin live
    /\ live' = live \cup {h}
    /\ used' = used \cup {h}
    /\ first' = [first EXCEPT ![h] = h \notin used]
    /\ UNCHANGED <<request, context, scheme, given, headers, wire, multiVars, sent>>

(* curl_setopt or curl_setopt_array with CURLOPT_HTTPHEADER. *)
SetHeaders(h, v) ==
    /\ h \in live \ running
    /\ given' = [given EXCEPT ![h] = v]
    /\ first' = [first EXCEPT ![h] = TRUE]
    /\ headers' = [headers EXCEPT ![h] = [user |-> v, sw |-> <<>>]]
    /\ wire' = [wire EXCEPT ![h] = [user |-> v, sw |-> <<>>]]
    /\ UNCHANGED <<request, context, live, used, scheme, multiVars, sent>>

(* curl_close, of a handle that is in no multi handle. *)
CurlClose(h) ==
    /\ h \in live \ (attached \cup info.handles)
    /\ Drop({h})
    /\ headers' = [headers EXCEPT ![h] = Empty]
    /\ UNCHANGED <<request, context, used, scheme, multiVars>>

(* The script drops its last reference to the handle: no function is       *)
(* called that a hook could see.                                           *)
Unset(h) ==
    /\ h \in live \ (attached \cup info.handles)
    /\ Drop({h})
    /\ UNCHANGED <<request, context, used, scheme, headers, multiVars>>

(* curl_copy_handle, which has no hook: libcurl copies the list, and       *)
(* CURL_HEADERS has no entry for the copy, or one of an earlier handle.    *)
CurlCopy(h, copy) ==
    /\ h \in live
    /\ copy \notin live
    /\ scheme[copy] = scheme[h]
    /\ live' = live \cup {copy}
    /\ used' = used \cup {copy}
    /\ given' = [given EXCEPT ![copy] = given[h]]
    /\ first' = [first EXCEPT ![copy] = copy \notin used /\ first[h] /\ given[h] = None]
    /\ wire' = [wire EXCEPT ![copy] = wire[h]]
    /\ UNCHANGED <<request, context, scheme, headers, multiVars, sent>>

(* curl_reset, which has no hook: libcurl drops the list, and CURL_HEADERS *)
(* keeps its entry.  The script sets the URL again.                        *)
CurlReset(h) ==
    /\ h \in live \ running
    /\ given' = [given EXCEPT ![h] = None]
    /\ first' = [first EXCEPT ![h] = @ /\ given[h] = None]
    /\ wire' = [wire EXCEPT ![h] = Empty]
    /\ UNCHANGED <<request, context, live, used, scheme, headers, multiVars, sent>>

-----------------------------------------------------------------------------
(* inject_sw_header. *)

WithHeader(list) == [list EXCEPT !.sw = Append(@, context)]

(* An injection whose curl_setopt the hook of curl_setopt takes for one of *)
(* the script.                                                             *)
InjectHooked(hs) ==
    /\ headers' = [h \in Handles |-> IF h \in hs THEN WithHeader(headers[h]) ELSE headers[h]]
    /\ wire' = [h \in Handles |-> IF h \in hs THEN WithHeader(headers[h]) ELSE wire[h]]
    /\ first' = [h \in Handles |-> first[h] /\ h \notin hs]

(* An injection that does not know the script's headers. *)
InjectFresh(hs) ==
    /\ headers' = headers
    /\ wire' = [h \in Handles |-> IF h \in hs THEN WithHeader(Empty) ELSE wire[h]]
    /\ first' = [h \in Handles |-> first[h] /\ h \notin hs]

(* The headers of the script are taken out of CURL_HEADERS, and set again  *)
(* with sw8 under an option number that the hook of curl_setopt knows.     *)
Inject(hs) ==
    /\ headers' = [h \in Handles |-> IF h \in hs THEN Empty ELSE headers[h]]
    /\ wire' = [h \in Handles |-> IF h \in hs THEN WithHeader(headers[h]) ELSE wire[h]]
    /\ first' = [h \in Handles |-> first[h] /\ h \notin hs]

(* What is known of a transfer that starts, in the request's context if   *)
(* it is traced.                                                           *)
Transfer(h, traced, closed) ==
    [list   |-> wire'[h],
     set    |-> given[h],
     first  |-> first[h],
     span   |-> IF traced THEN context ELSE 0,
     closed |-> traced /\ closed]

Http(hs) == {h \in hs : scheme[h] = "http"}

(* curl_exec: get_curl_info and create_exit_span fail without a URL or a   *)
(* context, and then nothing is injected; the after hook closes the span.  *)
CurlExec(h) ==
    LET traced == context # 0 /\ scheme[h] # "bad"
    IN  /\ h \in live \ attached
        /\ Inject(IF traced THEN Http({h}) ELSE {})
        /\ sent' = [sent EXCEPT ![h] = Transfer(h, traced, TRUE)]
        /\ UNCHANGED <<request, context, live, used, scheme, given, multiVars>>

-----------------------------------------------------------------------------
(* Multi handles. *)

MultiAdd(h) ==
    /\ h \in live \ attached
    /\ attached' = attached \cup {h}
    /\ info' = [info EXCEPT !.handles = @ \cup {h}]
    /\ UNCHANGED <<request, context, handleVars, headers, wire, running, over, sent>>

MultiRemove(h) ==
    /\ h \in attached
    /\ attached' = attached \ {h}
    /\ running' = running \ {h}
    /\ over' = over \ {h}
    /\ info' = [info EXCEPT !.handles = @ \ {h}]
    /\ UNCHANGED <<request, context, handleVars, headers, wire, sent>>

(* The first curl_multi_exec makes a span for every handle that was added  *)
(* and injects its header; it makes none at all if one of them has no URL. *)
Traceable ==
    /\ info.handles # {}
    /\ ~info.exec
    /\ context # 0
    /\ \A h \in info.handles : scheme[h] # "bad"

(* The spans of a finished multi handle, whatever the after hook saw. *)
FinishAtOnce(exec, ok, still) == exec

(* The after hook closes the spans when the call returns CURLM_OK and      *)
(* nothing is running any more.                                            *)
Finish(exec, ok, still) == exec /\ ok /\ still = {}

(* curl_multi_exec: transfers that have not started do, and some end,      *)
(* whatever it returns.                                                    *)
MultiExec(ended, ok) ==
    LET starting == attached \ (running \cup over)
        spans == IF Traceable THEN info.handles ELSE info.spans
        exec == info.handles # {} /\ (info.exec \/ Traceable)
        still == (running \cup starting) \ ended
        finish == Finish(exec, ok, still)
        closing == IF finish THEN spans \cap info.handles ELSE {}
    IN  /\ ended \subseteq running \cup starting
        /\ Inject(IF Traceable THEN Http(info.handles) ELSE {})
        /\ running' = still
        /\ over' = over \cup ended
        /\ info' = IF finish
                   THEN NoInfo
                   ELSE [info EXCEPT !.exec = @ \/ Traceable, !.spans = spans]
        /\ sent' = [h \in Handles |->
                      IF h \in starting
                      THEN Transfer(h, Traceable /\ h \in info.handles, h \in closing)
                      ELSE [sent[h] EXCEPT !.closed = @ \/ h \in closing]]
        /\ UNCHANGED <<request, context, live, used, scheme, given, attached>>

MultiClose ==
    /\ attached # {} \/ info # NoInfo
    /\ attached' = {}
    /\ running' = {}
    /\ over' = {}
    /\ info' = NoInfo
    /\ UNCHANGED <<request, context, handleVars, headers, wire, sent>>

-----------------------------------------------------------------------------
Next ==
    \/ NextRequest
    \/ \E h \in Handles :
          \/ CurlInit(h)
          \/ \E v \in Headers : SetHeaders(h, v)
          \/ CurlClose(h)
          \/ Unset(h)
          \/ \E copy \in Handles : CurlCopy(h, copy)
          \/ CurlReset(h)
          \/ CurlExec(h)
          \/ MultiAdd(h)
          \/ MultiRemove(h)
    \/ \E ended \in SUBSET attached, ok \in BOOLEAN : MultiExec(ended, ok)
    \/ MultiClose

Spec == Init /\ [][Next]_vars

-----------------------------------------------------------------------------
TypeOK ==
    /\ request \in 0 .. MaxRequests
    /\ context \in 0 .. MaxRequests
    /\ live \subseteq Handles
    /\ used \subseteq Handles
    /\ scheme \in [Handles -> {"http", "other", "bad"}]
    /\ given \in [Handles -> Headers \cup {None}]
    /\ first \in [Handles -> BOOLEAN]
    /\ headers \in [Handles -> Lists]
    /\ wire \in [Handles -> Lists]
    /\ running \subseteq attached /\ over \subseteq attached /\ attached \subseteq live
    /\ info \in [handles : SUBSET Handles, exec : BOOLEAN, spans : SUBSET Handles]
    /\ sent \in [Handles -> [list : Lists, set : Headers \cup {None}, first : BOOLEAN,
                             span : 0 .. MaxRequests, closed : BOOLEAN]]

(* A traced HTTP transfer carries one sw8 header, of its own request, and  *)
(* no transfer carries two: "Prevent calling curl_setopt inside this       *)
(* plugin sets headers" (inject_sw_header, hook_curl_setopt).              *)
OneTraceHeader ==
    \A h \in Handles :
        /\ Len(sent[h].list.sw) <= 1
        /\ sent[h].span # 0 /\ scheme[h] = "http" => sent[h].list.sw = <<sent[h].span>>

(* The first transfer after the script has set headers, or none, goes with *)
(* just those, alone or in a multi handle, whatever was executed on other  *)
(* handles, failed, or was retried (inject_sw_header).  Left out, by       *)
(* first, is what the hooks do not see: a handle without headers of its    *)
(* own whose id an earlier handle has had, the headers that a copy         *)
(* inherits, which its first traced transfer loses, and those of before a  *)
(* curl_reset, which the next traced transfer brings back; and transfers   *)
(* that use a handle again, whose headers the injection has taken out.     *)
FirstTransferHasHeaders ==
    \A h \in Handles : sent[h].first => sent[h].list.user = sent[h].set

(* A transfer in a multi handle that was given a span and has not been     *)
(* removed gets its status when a call says that the last transfer has     *)
(* ended and not before: the plugin keeps the span and the handle until    *)
(* then, however handles and calls come, go and fail meanwhile             *)
(* (hook_curl_multi_exec).                                                 *)
MultiSpansKept ==
    \A h \in running \cup over :
        sent[h].span # 0 =>
            IF sent[h].closed
            THEN h \notin running
            ELSE info.exec /\ h \in info.spans /\ h \in info.handles
=============================================================================
