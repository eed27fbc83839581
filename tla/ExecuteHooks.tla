----------------------------- MODULE ExecuteHooks ----------------------------
(***************************************************************************)
(* The hooks around PHP function calls in one PHP-FPM process, and the     *)
(* tracing context of the request they run in.                             *)
(*                                                                         *)
(* A call of a hooked function runs its before hook, the function, and     *)
(* its after hook with the data of the before hook: a span.  Where the     *)
(* extension stands in for zend_execute_ex or zend_execute_internal, the   *)
(* data waits in a native frame around the call; where it is a zend        *)
(* observer, it waits in RESULT_MAP under the address of the call's frame  *)
(* (src/execute.rs).  A call at the same depth of the VM stack has the     *)
(* same address.  The request's context is at the key None                 *)
(* (src/request.rs, src/context.rs).                                       *)
(***************************************************************************)
EXTENDS Naturals, Sequences

CONSTANTS
    EnableObserver,     \* ENABLE_ZEND_OBSERVER
    ObserverIsGeneral,  \* IS_ZEND_OBSERVER_CALLED_FOR_INTERNAL (PHP 8.2)
    MaxRequests,        \* bound: requests of the process
    MaxCalls,           \* bound: function calls
    MaxDepth            \* bound: nesting of calls

Kinds == {"user", "internal"}

ASSUME HooksAssumption ==
    /\ {EnableObserver, ObserverIsGeneral} \subseteq BOOLEAN
    /\ MaxRequests \in Nat
    /\ MaxCalls \in Nat
    /\ MaxDepth \in Nat

(* register_observer_handlers: the functions the engine shows an observer. *)
Observed(kind) == EnableObserver /\ (kind = "user" \/ ObserverIsGeneral)

(* Functions wrapped whatever the observer sees. *)
WrappedAlways(kind) == kind \in Kinds

(* register_execute_functions: the others get the zend_execute_ex or       *)
(* zend_execute_internal of the extension.                                 *)
Wrapped(kind) ==
    IF kind = "internal"
    THEN ~EnableObserver \/ ~ObserverIsGeneral
    ELSE ~EnableObserver

VARIABLES
    request,    \* requests so far
    active,     \* between RINIT and RSHUTDOWN
    context,    \* REQUEST_CONTEXT at None: the request it is of, or 0
    stack,      \* the calls that have not returned, outermost first
    results,    \* RESULT_MAP: results[d] is the call whose data is at depth d, or 0
    calls,      \* function calls so far
    span,       \* span[n]: the span of the n-th call, "bare" or "done" if its hooks make none
    traced,     \* traced[n]: the request whose context the span was made in
    afters,     \* afters[n]: how often an after hook got the data of call n
    lost        \* the calls whose data was in a native frame a fatal error jumped over

vars == <<request, active, context, stack, results, calls, span, traced, afters, lost>>

SpanStates == {"none", "bare", "done", "open", "closed"}
CallIds == 1 .. MaxCalls
Depths == 1 .. MaxDepth
Frames == [call : CallIds, kind : Kinds, hooked : BOOLEAN, data : BOOLEAN]

Init ==
    /\ request = 0
    /\ active = FALSE
    /\ context = 0
    /\ stack = <<>>
    /\ results = [d \in Depths |-> 0]
    /\ calls = 0
    /\ span = [n \in CallIds |-> "none"]
    /\ traced = [n \in CallIds |-> 0]
    /\ afters = [n \in CallIds |-> 0]
    /\ lost = {}

(* request_init_for_fpm makes the context, or fails on a header or url. *)
RequestInit ==
    /\ ~active
    /\ request < MaxRequests
    /\ request' = request + 1
    /\ active' = TRUE
    /\ context' \in {request + 1, context}
    /\ UNCHANGED <<stack, results, calls, span, traced, afters, lost>>

Frame(kind, hooked, data) == [call |-> calls + 1, kind |-> kind, hooked |-> hooked, data |-> data]

(* What a before hook leaves: data with a span in the request's context,   *)
(* data without a span, which needs no context (curl_setopt and others),   *)
(* or an error, of the hook itself or because there is no context; a span  *)
(* that was made before the error has been closed with it.                 *)
Before(n, data) ==
    \/ /\ data /\ context # 0
       /\ span' = [span EXCEPT ![n] = "open"]
       /\ traced' = [traced EXCEPT ![n] = context]
    \/ /\ data
       /\ span' = [span EXCEPT ![n] = "bare"]
       /\ UNCHANGED traced
    \/ ~data /\ UNCHANGED <<span, traced>>

(* observer_begin, or execute_ex and execute_internal up to the call of    *)
(* the original function.                                                  *)
Call(kind, hooked, data) ==
    /\ active
    /\ calls < MaxCalls
    /\ Len(stack) < MaxDepth
    /\ data => hooked /\ (Observed(kind) \/ Wrapped(kind))
    /\ calls' = calls + 1
    /\ Before(calls + 1, data)
    /\ stack' = Append(stack, Frame(kind, hooked, data))
    /\ results' = IF Observed(kind) /\ data
                  THEN [results EXCEPT ![Len(stack) + 1] = calls + 1]
                  ELSE results
    /\ UNCHANGED <<request, active, context, afters, lost>>

(* The call whose data observer_end finds at depth d, and the call whose   *)
(* data execute_ex or execute_internal holds there: 0 if there is none.    *)
Found(d) == IF stack[d].hooked /\ Observed(stack[d].kind) THEN results[d] ELSE 0
Held(d) == IF stack[d].data /\ Wrapped(stack[d].kind) THEN stack[d].call ELSE 0

Ended(n) == IF span[n] = "bare" THEN "done" ELSE "closed"

(* The after hooks take the data of the calls in ns from RESULT_MAP and of *)
(* those in ms from native frames, and close the spans in it.              *)
After(ns, ms) ==
    /\ span' = [n \in CallIds |-> IF n \in ns \cup ms THEN Ended(n) ELSE span[n]]
    /\ afters' = [n \in CallIds |->
                     afters[n] + (IF n \in ns THEN 1 ELSE 0) + (IF n \in ms THEN 1 ELSE 0)]

(* observer_end that reads RESULT_MAP without a remove. *)
ReturnGet ==
    /\ stack # <<>>
    /\ After({Found(Len(stack))}, {Held(Len(stack))})
    /\ stack' = SubSeq(stack, 1, Len(stack) - 1)
    /\ UNCHANGED <<request, active, context, results, calls, traced, lost>>

(* After hooks that are not run when the function has thrown. *)
ReturnUnlessThrown ==
    /\ stack # <<>>
    /\ \/ After({Found(Len(stack))}, {Held(Len(stack))})
       \/ UNCHANGED <<span, afters>>
    /\ results' = IF Found(Len(stack)) # 0
                  THEN [results EXCEPT ![Len(stack)] = 0]
                  ELSE results
    /\ stack' = SubSeq(stack, 1, Len(stack) - 1)
    /\ UNCHANGED <<request, active, context, calls, traced, lost>>

(* The function returns or throws, then the after hook: observer_end, or   *)
(* execute_ex and execute_internal after the call of the original.         *)
Return ==
    /\ stack # <<>>
    /\ After({Found(Len(stack))}, {Held(Len(stack))})
    /\ results' = IF Found(Len(stack)) # 0
                  THEN [results EXCEPT ![Len(stack)] = 0]
                  ELSE results
    /\ stack' = SubSeq(stack, 1, Len(stack) - 1)
    /\ UNCHANGED <<request, active, context, calls, traced, lost>>

(* A fatal error: PHP jumps out of all native frames, so the after hooks   *)
(* of wrapped calls never run and their spans are never closed; observed   *)
(* calls are ended by the engine.                                          *)
Bailout ==
    /\ stack # <<>>
    /\ After({Found(d) : d \in 1 .. Len(stack)}, {})
    /\ results' = [d \in Depths |->
                      IF d <= Len(stack) /\ Found(d) # 0 THEN 0 ELSE results[d]]
    /\ lost' = (lost \cup {Held(d) : d \in 1 .. Len(stack)}) \ {0}
    /\ stack' = <<>>
    /\ UNCHANGED <<request, active, context, calls, traced>>

(* A shutdown that fails on a response header leaves the context. *)
RequestShutdownFallible ==
    /\ active
    /\ stack = <<>>
    /\ active' = FALSE
    /\ context' \in {0, context}
    /\ UNCHANGED <<request, stack, results, calls, span, traced, afters, lost>>

(* request_shutdown_for_fpm, when the script and all destructors are over. *)
RequestShutdown ==
    /\ active
    /\ stack = <<>>
    /\ active' = FALSE
    /\ context' = 0
    /\ UNCHANGED <<request, stack, results, calls, span, traced, afters, lost>>

-----------------------------------------------------------------------------
Next ==
    \/ RequestInit
    \/ \E kind \in Kinds, hooked \in BOOLEAN, data \in BOOLEAN : Call(kind, hooked, data)
    \/ Return
    \/ Bailout
    \/ RequestShutdown

Spec == Init /\ [][Next]_vars

-----------------------------------------------------------------------------
TypeOK ==
    /\ request \in 0 .. MaxRequests
    /\ active \in BOOLEAN
    /\ context \in 0 .. MaxRequests
    /\ stack \in Seq(Frames)
    /\ Len(stack) \in 0 .. MaxDepth
    /\ results \in [Depths -> 0 .. MaxCalls]
    /\ calls \in 0 .. MaxCalls
    /\ span \in [CallIds -> SpanStates]
    /\ traced \in [CallIds -> 0 .. MaxRequests]
    /\ afters \in [CallIds -> Nat]
    /\ lost \subseteq CallIds

(* The data in RESULT_MAP is that of the call that is running at that      *)
(* address: although addresses are used again at once, no call finds the   *)
(* data of an earlier one, left there by a failed hook or a fatal error.   *)
ResultsMatchFrames ==
    \A d \in Depths : results[d] # 0 =>
        /\ d \in 1 .. Len(stack)
        /\ stack[d].call = results[d]
        /\ stack[d].data

(* An after hook gets the data of a call at most once, and only if the     *)
(* before hook succeeded: "If before hook return error, don't execute the  *)
(* after hook."                                                            *)
AfterOnceIfBefore ==
    \A n \in CallIds :
        /\ afters[n] <= 1
        /\ afters[n] = 1 <=> span[n] \in {"done", "closed"}

(* A span is made and closed within one request: none is added to, or      *)
(* closed in, the context of another request of the process.               *)
SpanWithinRequest ==
    [][\A n \in CallIds :
          span'[n] # span[n] /\ span'[n] \in {"open", "closed"} =>
              active /\ traced'[n] = request /\ context = request]_vars

(* The span of a call that has ended is closed, whether the function       *)
(* returned, threw or was cut off; only a fatal error in a wrapped call    *)
(* leaves it open.                                                         *)
SpansClosed ==
    \A n \in CallIds :
        span[n] = "open" => n \in lost \/ \E d \in 1 .. Len(stack) : stack[d].call = n

(* The requests of the process are traced as RequestTracing promises: each *)
(* has a context once or never, and the spans of calls go to the context   *)
(* of a request that is not over (request_init_for_fpm,                    *)
(* request_shutdown_for_fpm).                                              *)
Open == {context} \ {0}
Over == (1 .. request) \ (IF active THEN {context} ELSE {})
SpansOf == [r \in 1 .. MaxRequests |-> {n \in CallIds : traced[n] = r}]

Tracing == INSTANCE RequestTracing
              WITH Requests <- 1 .. MaxRequests, Spans <- CallIds,
                   open <- Open, over <- Over, spans <- SpansOf
ImplementsTracing == Tracing!Spec
=============================================================================
