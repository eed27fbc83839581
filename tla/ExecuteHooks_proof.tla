-------------------------- MODULE ExecuteHooks_proof -------------------------
(***************************************************************************)
(* Theorems about ExecuteHooks, for any number of requests and calls, any  *)
(* depth and any setting of the observer, among them that it implements    *)
(* RequestTracing; and about PsrLogging, the selection of the hooks that   *)
(* such a call runs, for any number of levels and any classes.             *)
(***************************************************************************)
EXTENDS ExecuteHooks, PsrLogging, FiniteSetTheorems, TLAPS

(* What every state satisfies besides its type: the data of a call waits   *)
(* where its after hook will look for it, and calls with an open span are  *)
(* of the request that runs and that has a context.                        *)
Waits(d) ==
    /\ stack[d].call = results[d]
    /\ stack[d].data
    /\ stack[d].hooked
    /\ Observed(stack[d].kind)

OfRequest(d) ==
    /\ stack[d].call <= calls
    /\ stack[d].data /\ span[stack[d].call] = "open" =>
           context = request /\ traced[stack[d].call] = request

IInv ==
    /\ TypeOK
    /\ \A d \in Depths : results[d] # 0 => d \in 1 .. Len(stack) /\ Waits(d)
    /\ stack # <<>> => active
    /\ context \in {0, request}
    /\ ~active => context = 0
    /\ \A d \in 1 .. Len(stack) : OfRequest(d)

LEMMA InitIInv == Init => IInv
  <1> SUFFICES ASSUME Init
      PROVE  IInv
    OBVIOUS
  <1>1. /\ 0 \in 0 .. MaxRequests
        /\ 0 \in 0 .. MaxCalls
        /\ 0 \in 0 .. MaxDepth
    BY HooksAssumption
  <1>2. stack \in Seq(Frames) /\ Len(stack) = 0
    BY DEF Init
  <1>3. TypeOK
    BY <1>1, <1>2 DEF Init, TypeOK, SpanStates
  <1>4. \A d \in Depths : results[d] = 0
    BY DEF Init
  <1> QED  BY <1>2, <1>3, <1>4 DEF Init, IInv

(* Of a stack the types say that its entries are frames. *)
LEMMA FrameAt ==
  ASSUME TypeOK, NEW d \in 1 .. Len(stack)
  PROVE  /\ stack[d] \in Frames
         /\ stack[d].call \in CallIds
         /\ d \in Depths
  <1>1. stack[d] \in Frames
    BY DEF TypeOK
  <1>2. stack[d].call \in CallIds
    BY <1>1 DEF Frames
  <1>3. d \in Depths
    BY HooksAssumption DEF TypeOK, Depths
  <1> QED  BY <1>1, <1>2, <1>3

-----------------------------------------------------------------------------
(* After hooks keep the types of what they change. *)
LEMMA AfterType ==
  ASSUME TypeOK, NEW ns, NEW ms, After(ns, ms)
  PROVE  /\ span' \in [CallIds -> SpanStates]
         /\ afters' \in [CallIds -> Nat]
  <1>1. span' \in [CallIds -> SpanStates]
    <2>1. \A n \in CallIds : span[n] \in SpanStates
      BY DEF TypeOK
    <2> QED  BY <2>1 DEF After, Ended, SpanStates
  <1>2. \A n \in CallIds :
          afters[n] + (IF n \in ns THEN 1 ELSE 0) + (IF n \in ms THEN 1 ELSE 0) \in Nat
    <2> SUFFICES ASSUME NEW n \in CallIds
        PROVE  afters[n] + (IF n \in ns THEN 1 ELSE 0) + (IF n \in ms THEN 1 ELSE 0) \in Nat
      OBVIOUS
    <2>1. afters[n] \in Nat
      BY DEF TypeOK
    <2> QED  BY <2>1
  <1>3. afters' \in [CallIds -> Nat]
    BY <1>2 DEF After
  <1> QED  BY <1>1, <1>3

LEMMA CallPreserves ==
  ASSUME IInv, NEW kind \in Kinds, NEW hooked \in BOOLEAN, NEW data \in BOOLEAN,
         Call(kind, hooked, data)
  PROVE  IInv'
  <1> DEFINE f == Frame(kind, hooked, data)
  <1>1. /\ calls + 1 \in CallIds
        /\ calls \in Nat
        /\ calls' = calls + 1
    BY HooksAssumption DEF IInv, TypeOK, Call, CallIds
  <1>2. f \in Frames /\ f.call = calls + 1 /\ f.data = data /\ f.hooked = hooked /\ f.kind = kind
    BY <1>1 DEF Frame, Frames
  <1> HIDE DEF f
  <1>3. /\ stack' = Append(stack, f)
        /\ stack \in Seq(Frames)
        /\ Len(stack) \in Nat
    BY HooksAssumption DEF IInv, TypeOK, Call, f
  <1>4. /\ stack' \in Seq(Frames)
        /\ Len(stack') = Len(stack) + 1
        /\ stack'[Len(stack) + 1] = f
        /\ \A d \in 1 .. Len(stack) : stack'[d] = stack[d]
    BY <1>2, <1>3
  <1>5. Len(stack) + 1 \in Depths
    BY <1>3, HooksAssumption DEF Call, Depths
  <1>6. TypeOK'
    <2>1. Len(stack') \in 0 .. MaxDepth
      BY <1>3, <1>4, <1>5, HooksAssumption DEF Depths
    <2>2. results' \in [Depths -> 0 .. MaxCalls]
      BY <1>1, <1>5, HooksAssumption DEF IInv, TypeOK, Call, CallIds
    <2>3. calls' \in 0 .. MaxCalls
      BY <1>1, HooksAssumption DEF CallIds
    <2>4. /\ span' \in [CallIds -> SpanStates]
          /\ traced' \in [CallIds -> 0 .. MaxRequests]
      <3>1. span \in [CallIds -> SpanStates] /\ traced \in [CallIds -> 0 .. MaxRequests]
            /\ context \in 0 .. MaxRequests
        BY DEF IInv, TypeOK
      <3>2. Before(calls + 1, data)
        BY DEF Call
      <3> QED  BY <1>1, <3>1, <3>2 DEF Before, SpanStates
    <2> QED  BY <1>4, <2>1, <2>2, <2>3, <2>4 DEF IInv, TypeOK, Call
  <1>7. ASSUME NEW d \in Depths, results'[d] # 0
        PROVE  d \in 1 .. Len(stack') /\ Waits(d)'
    <2>1. CASE d = Len(stack) + 1
      <3>1. results[d] = 0
        BY <2>1, <1>3 DEF IInv
      <3>2. Observed(kind) /\ data /\ results'[d] = calls + 1
        BY <3>1, <1>7, <2>1, <1>5 DEF Call, IInv, TypeOK
      <3>3. hooked
        BY <3>2 DEF Call
      <3>4. stack'[d] = f /\ d \in 1 .. Len(stack')
        BY <2>1, <1>3, <1>4
      <3> QED
        BY <2>1, <3>2, <3>3, <3>4, <1>2 DEF Waits, Observed
    <2>2. CASE d # Len(stack) + 1
      <3>1. results'[d] = results[d]
        BY <2>2, <1>5 DEF Call, IInv, TypeOK
      <3>2. d \in 1 .. Len(stack) /\ Waits(d)
        BY <3>1, <1>7 DEF IInv
      <3> QED  BY <3>1, <3>2, <1>3, <1>4 DEF Waits, Observed
    <2> QED  BY <2>1, <2>2
  <1>8. ASSUME NEW d \in 1 .. Len(stack')
        PROVE  OfRequest(d)'
    <2>1. CASE d = Len(stack) + 1
      <3>1. ASSUME data, span'[calls + 1] = "open"
            PROVE  context = request /\ traced'[calls + 1] = request
        BY <3>1, <1>1 DEF Call, Before, IInv, TypeOK
      <3> QED  BY <3>1, <2>1, <1>1, <1>2, <1>4 DEF OfRequest, Call
    <2>2. CASE d # Len(stack) + 1
      <3>1. d \in 1 .. Len(stack)
        BY <2>2, <1>3, <1>4
      <3>2. OfRequest(d)
        BY <3>1 DEF IInv
      <3>3. stack[d].call \in CallIds /\ stack[d].call # calls + 1
        BY <3>1, <3>2, <1>1, FrameAt DEF IInv, OfRequest, CallIds
      <3>4. /\ traced'[stack[d].call] = traced[stack[d].call]
            /\ span'[stack[d].call] = span[stack[d].call]
        BY <3>3 DEF Call, Before, IInv, TypeOK
      <3> QED  BY <3>1, <3>2, <3>3, <3>4, <1>1, <1>4 DEF OfRequest, Call, CallIds
    <2> QED  BY <2>1, <2>2
  <1> QED  BY <1>6, <1>7, <1>8 DEF IInv, Call

LEMMA ReturnPreserves ==
  ASSUME IInv, Return
  PROVE  IInv'
  <1> DEFINE top == Len(stack)
  <1>1. /\ stack \in Seq(Frames)
        /\ top \in Nat \ {0}
        /\ stack' = SubSeq(stack, 1, top - 1)
    BY DEF IInv, TypeOK, Return
  <1>2. /\ stack' \in Seq(Frames)
        /\ Len(stack') = top - 1
        /\ \A d \in 1 .. top - 1 : stack'[d] = stack[d]
    <2> DEFINE below == [i \in 1 .. top - 1 |-> stack[i]]
    <2>1. top - 1 \in Nat
      BY <1>1
    <2>2. \A i \in 1 .. top - 1 : stack[i] \in Frames
      BY <1>1
    <2>3. stack' = below
      BY <1>1
    <2>4. below \in Seq(Frames) /\ Len(below) = top - 1
      BY <2>1, <2>2
    <2> QED  BY <2>3, <2>4
  <1>3. top \in Depths /\ top - 1 \in 0 .. MaxDepth
    BY <1>1, HooksAssumption DEF IInv, TypeOK, Depths
  <1>4. results' \in [Depths -> 0 .. MaxCalls]
    BY <1>3, HooksAssumption DEF IInv, TypeOK, Return
  <1>5. TypeOK'
    <2>1. After({Found(top)}, {Held(top)})
      BY DEF Return
    <2>2. /\ span' \in [CallIds -> SpanStates]
          /\ afters' \in [CallIds -> Nat]
      BY <2>1, AfterType DEF IInv
    <2> QED  BY <1>2, <1>3, <1>4, <2>2 DEF IInv, TypeOK, Return
  <1>6. results'[top] = 0
    <2>1. CASE results[top] = 0
      BY <2>1, <1>3 DEF IInv, TypeOK, Return
    <2>2. CASE results[top] # 0
      <3>1. Found(top) = results[top]
        BY <2>2, <1>3 DEF IInv, Waits, Found
      <3> QED  BY <3>1, <2>2, <1>3 DEF IInv, TypeOK, Return
    <2> QED  BY <2>1, <2>2
  <1>7. ASSUME NEW d \in Depths, results'[d] # 0
        PROVE  d \in 1 .. Len(stack') /\ Waits(d)'
    <2>1. d # top
      BY <1>6, <1>7
    <2>2. results'[d] = results[d]
      BY <2>1, <1>3 DEF IInv, TypeOK, Return
    <2>3. d \in 1 .. top /\ Waits(d)
      BY <2>2, <1>7 DEF IInv
    <2>4. d \in 1 .. top - 1
      BY <2>1, <2>3, <1>1
    <2> QED  BY <2>2, <2>3, <2>4, <1>1, <1>2 DEF Waits, Observed
  <1>8. ASSUME NEW d \in 1 .. Len(stack')
        PROVE  OfRequest(d)'
    <2>1. d \in 1 .. top - 1 /\ d \in 1 .. top
      BY <1>1, <1>2
    <2>2. stack[d].call \in CallIds
      BY <2>1, FrameAt DEF IInv
    <2>3. span'[stack[d].call] = "open" => span[stack[d].call] = "open"
      BY <2>2 DEF Return, After, Ended
    <2> QED  BY <2>1, <2>3, <1>2 DEF IInv, OfRequest, Return
  <1>9. stack' # <<>> => active'
    BY DEF IInv, Return
  <1> QED  BY <1>5, <1>7, <1>8, <1>9 DEF IInv, Return

LEMMA BailoutPreserves ==
  ASSUME IInv, Bailout
  PROVE  IInv'
  <1>1. stack' = <<>> /\ Len(stack') = 0
    BY DEF Bailout
  <1>2. \A d \in Depths : results'[d] = 0
    <2> SUFFICES ASSUME NEW d \in Depths
        PROVE  results'[d] = 0
      OBVIOUS
    <2>1. CASE results[d] = 0
      BY <2>1 DEF Bailout
    <2>2. CASE results[d] # 0
      <3>1. d \in 1 .. Len(stack) /\ Waits(d)
        BY <2>2 DEF IInv
      <3>2. Found(d) # 0
        BY <2>2, <3>1 DEF Waits, Found
      <3>3. d <= Len(stack)
        BY <3>1, HooksAssumption DEF IInv, TypeOK
      <3> QED  BY <3>2, <3>3 DEF Bailout
    <2> QED  BY <2>1, <2>2
  <1>3. TypeOK'
    <2>1. After({Found(d) : d \in 1 .. Len(stack)}, {})
      BY DEF Bailout
    <2>2. /\ span' \in [CallIds -> SpanStates]
          /\ afters' \in [CallIds -> Nat]
      BY <2>1, AfterType DEF IInv
    <2>3. results' \in [Depths -> 0 .. MaxCalls]
      <3>1. results' = [d \in Depths |-> results'[d]]
        BY DEF Bailout
      <3> QED  BY <3>1, <1>2, HooksAssumption
    <2>4. stack' \in Seq(Frames) /\ Len(stack') \in 0 .. MaxDepth
      BY <1>1, HooksAssumption
    <2>5. lost' \subseteq CallIds
      <3>1. ASSUME NEW d \in 1 .. Len(stack)
            PROVE  Held(d) \in CallIds \cup {0}
        BY <3>1, FrameAt DEF Held, IInv
      <3>2. lost \subseteq CallIds
        BY DEF IInv, TypeOK
      <3> QED  BY <3>1, <3>2 DEF Bailout
    <2> QED  BY <2>2, <2>3, <2>4, <2>5 DEF IInv, TypeOK, Bailout
  <1> QED  BY <1>1, <1>2, <1>3 DEF IInv, Bailout

LEMMA NextPreserves == IInv /\ [Next]_vars => IInv'
  <1> SUFFICES ASSUME IInv, [Next]_vars
      PROVE  IInv'
    OBVIOUS
  <1>1. CASE RequestInit
    <2>1. request \in Nat /\ context = 0 /\ stack = <<>>
      BY <1>1, HooksAssumption DEF IInv, TypeOK, RequestInit
    <2>2. context' \in {0, request'} /\ request' = request + 1 /\ request + 1 <= MaxRequests
      BY <1>1, <2>1, HooksAssumption DEF RequestInit, IInv, TypeOK
    <2>3. request' \in 0 .. MaxRequests /\ context' \in 0 .. MaxRequests
      BY <2>1, <2>2, HooksAssumption
    <2>4. Len(stack') = 0 /\ stack' = stack
      BY <1>1, <2>1 DEF RequestInit
    <2> QED  BY <1>1, <2>1, <2>2, <2>3, <2>4 DEF IInv, TypeOK, RequestInit, Waits
  <1>2. ASSUME NEW kind \in Kinds, NEW hooked \in BOOLEAN, NEW data \in BOOLEAN,
               Call(kind, hooked, data)
        PROVE  IInv'
    BY <1>2, CallPreserves
  <1>3. CASE Return
    BY <1>3, ReturnPreserves
  <1>4. CASE Bailout
    BY <1>4, BailoutPreserves
  <1>5. CASE RequestShutdown
    <2>1. Len(stack) = 0
      BY <1>5 DEF RequestShutdown
    <2>2. \A d \in Depths : results'[d] = 0
      BY <1>5, <2>1 DEF IInv, RequestShutdown
    <2>3. 0 \in 0 .. MaxRequests
      BY HooksAssumption
    <2>4. TypeOK'
      BY <1>5, <2>3 DEF IInv, TypeOK, RequestShutdown
    <2> QED  BY <1>5, <2>1, <2>2, <2>4 DEF IInv, RequestShutdown
  <1>6. CASE UNCHANGED vars
    BY <1>6 DEF vars, IInv, TypeOK, Waits, OfRequest, Observed
  <1> QED  BY <1>1, <1>2, <1>3, <1>4, <1>5, <1>6 DEF Next

(* The variables keep their types. *)
THEOREM HooksTypeCorrect == Spec => []TypeOK
  <1>1. IInv => TypeOK
    BY DEF IInv
  <1> QED  BY InitIInv, NextPreserves, <1>1, PTL DEF Spec

(* RESULT_MAP holds, at the address of a frame, only the data of the call  *)
(* that runs there (observer_begin, observer_end).                         *)
THEOREM DataOfOwnCall == Spec => []ResultsMatchFrames
  <1>1. IInv => ResultsMatchFrames
    BY DEF IInv, Waits, ResultsMatchFrames
  <1> QED  BY InitIInv, NextPreserves, <1>1, PTL DEF Spec

-----------------------------------------------------------------------------
(* A call that finds or holds data with a span is of the request that      *)
(* runs.                                                                   *)
LEMMA DataWithinRequest ==
  ASSUME IInv, NEW d \in 1 .. Len(stack), NEW n \in CallIds,
         n = Found(d) \/ n = Held(d), span[n] = "open"
  PROVE  active /\ traced[n] = request /\ context = request
  <1>1. n # 0 /\ d \in Depths
    BY FrameAt DEF IInv, CallIds
  <1>2. stack[d].data /\ n = stack[d].call
    BY <1>1 DEF IInv, Waits, Found, Held
  <1>3. active
    BY DEF IInv, TypeOK
  <1>4. OfRequest(d)
    BY DEF IInv
  <1> QED  BY <1>2, <1>3, <1>4 DEF OfRequest

-----------------------------------------------------------------------------
(* Where the data of a running call is: in RESULT_MAP if the call is       *)
(* observed, else in a native frame, and a span of it is open.             *)
Keeps(d) ==
    stack[d].data =>
        /\ span[stack[d].call] \in {"bare", "open"}
        /\ Observed(stack[d].kind) => stack[d].hooked /\ results[d] = stack[d].call
        /\ Observed(stack[d].kind) \/ Wrapped(stack[d].kind)

OpenSomewhere(n) ==
    span[n] = "open" => n \in lost \/ \E d \in 1 .. Len(stack) : stack[d].call = n /\ stack[d].data

Once(n) == afters[n] <= 1 /\ (afters[n] = 1 <=> span[n] \in {"done", "closed"})

Apart ==
    \A d, e \in 1 .. Len(stack) : stack[d].call = stack[e].call => d = e

HooksInv ==
    /\ IInv
    /\ Apart
    /\ \A d \in 1 .. Len(stack) : Keeps(d)
    /\ \A n \in CallIds :
          /\ n > calls => span[n] = "none"
          /\ Once(n)
          /\ OpenSomewhere(n)

(* A function is observed or wrapped, never both. *)
LEMMA ObservedOrWrapped == \A kind \in Kinds : ~(Observed(kind) /\ Wrapped(kind))
BY HooksAssumption DEF Kinds, Observed, Wrapped

(* An after hook at depth d gets the data of the call there, if any, from  *)
(* the one place or the other (observer_end, execute_ex).                  *)
LEMMA FoundHeld ==
  ASSUME HooksInv, NEW d \in 1 .. Len(stack), NEW n \in CallIds
  PROVE  /\ n = Found(d) <=> n = stack[d].call /\ stack[d].data /\ Observed(stack[d].kind)
         /\ n = Held(d) <=> n = stack[d].call /\ stack[d].data /\ Wrapped(stack[d].kind)
  <1>1. n # 0
    BY DEF CallIds
  <1>2. d \in Depths
    BY FrameAt DEF HooksInv, IInv
  <1>3. n = Held(d) <=> n = stack[d].call /\ stack[d].data /\ Wrapped(stack[d].kind)
    BY <1>1 DEF Held
  <1>4. ASSUME n = Found(d)
        PROVE  n = stack[d].call /\ stack[d].data /\ Observed(stack[d].kind)
    <2>1. results[d] = n /\ Observed(stack[d].kind)
      BY <1>1, <1>4 DEF Found
    <2>2. Waits(d)
      BY <1>1, <1>2, <2>1 DEF HooksInv, IInv
    <2> QED  BY <2>1, <2>2 DEF Waits
  <1>5. ASSUME n = stack[d].call /\ stack[d].data /\ Observed(stack[d].kind)
        PROVE  n = Found(d)
    <2>1. Keeps(d)
      BY DEF HooksInv
    <2> QED  BY <1>5, <2>1 DEF Keeps, Found
  <1> QED  BY <1>3, <1>4, <1>5

(* An after hook of a call with data runs once and closes its span. *)
LEMMA AfterOnce ==
  ASSUME HooksInv, NEW ns, NEW ms, After(ns, ms), NEW n \in CallIds,
         ~(n \in ns /\ n \in ms), n \in ns \cup ms => span[n] \in {"bare", "open"}
  PROVE  /\ Once(n)'
         /\ n \in ns \cup ms => span'[n] \in {"done", "closed"}
         /\ n \notin ns \cup ms => span'[n] = span[n]
  <1>1. afters[n] \in Nat /\ Once(n)
    BY DEF HooksInv, IInv, TypeOK
  <1>2. /\ n \in ns \cup ms => span'[n] \in {"done", "closed"}
        /\ n \notin ns \cup ms => span'[n] = span[n]
        /\ afters'[n] = afters[n] + (IF n \in ns THEN 1 ELSE 0) + (IF n \in ms THEN 1 ELSE 0)
    <2>1. span'[n] = IF n \in ns \cup ms THEN Ended(n) ELSE span[n]
      BY DEF After
    <2>2. n \in ns \cup ms => span'[n] \in {"done", "closed"}
      BY <2>1 DEF Ended
    <2>3. n \notin ns \cup ms => span'[n] = span[n]
      BY <2>1
    <2>4. afters'[n] = afters[n] + (IF n \in ns THEN 1 ELSE 0) + (IF n \in ms THEN 1 ELSE 0)
      BY DEF After
    <2> QED  BY <2>2, <2>3, <2>4
  <1>3. CASE n \in ns \cup ms
    <2>1. afters[n] = 0
      BY <1>1, <1>3 DEF Once
    <2>2. afters'[n] = 1
      BY <1>2, <1>3, <2>1
    <2> QED  BY <1>2, <1>3, <2>2 DEF Once
  <1>4. CASE n \notin ns \cup ms
    <2>1. afters'[n] = afters[n]
      BY <1>1, <1>2, <1>4
    <2> QED  BY <1>1, <1>2, <1>4, <2>1 DEF Once
  <1> QED  BY <1>3, <1>4

LEMMA CallKeepsHooks ==
  ASSUME HooksInv, IInv', NEW kind \in Kinds, NEW hooked \in BOOLEAN, NEW data \in BOOLEAN,
         Call(kind, hooked, data)
  PROVE  HooksInv'
  <1> DEFINE f == Frame(kind, hooked, data)
             c == calls + 1
  <1>1. /\ c \in CallIds /\ calls \in Nat /\ calls' = c
        /\ calls < c
    BY HooksAssumption DEF HooksInv, IInv, TypeOK, Call, CallIds
  <1>2. f \in Frames /\ f.call = c /\ f.data = data /\ f.hooked = hooked /\ f.kind = kind
    BY <1>1 DEF Frame, Frames
  <1>3. /\ stack' = Append(stack, f)
        /\ stack \in Seq(Frames)
        /\ Len(stack) \in Nat
    BY HooksAssumption DEF HooksInv, IInv, TypeOK, Call
  <1> HIDE DEF f
  <1>4. /\ Len(stack') = Len(stack) + 1
        /\ stack'[Len(stack) + 1] = f
        /\ \A d \in 1 .. Len(stack) : stack'[d] = stack[d]
    BY <1>2, <1>3
  <1>5. \A d \in 1 .. Len(stack) :
          stack[d].call \in CallIds /\ stack[d].call # c /\ stack[d].call <= calls
    BY <1>1, FrameAt DEF HooksInv, IInv, OfRequest, CallIds
  <1>6. Apart'
    BY <1>2, <1>3, <1>4, <1>5 DEF HooksInv, Apart
  <1>7. \A n \in CallIds : n # c => span'[n] = span[n]
    BY DEF Call, Before, HooksInv, IInv, TypeOK
  <1>8. /\ data => span'[c] \in {"bare", "open"}
        /\ ~data => span'[c] = span[c]
    BY <1>1 DEF Call, Before, HooksInv, IInv, TypeOK
  <1>9. Len(stack) + 1 \in Depths
    BY <1>3, HooksAssumption DEF Call, Depths
  <1>10. ASSUME NEW d \in 1 .. Len(stack')
         PROVE  Keeps(d)'
    <2>1. CASE d = Len(stack) + 1
      <3>1. Observed(kind) /\ data => results'[d] = c
        BY <2>1, <1>9 DEF Call, HooksInv, IInv, TypeOK
      <3> QED  BY <2>1, <3>1, <1>2, <1>4, <1>8 DEF Keeps, Call, Observed, Wrapped
    <2>2. CASE d # Len(stack) + 1
      <3>1. d \in 1 .. Len(stack)
        BY <2>2, <1>3, <1>4
      <3>2. results'[d] = results[d]
        BY <2>2, <1>9, <3>1, FrameAt DEF Call, HooksInv, IInv, TypeOK
      <3>3. Keeps(d)
        BY <3>1 DEF HooksInv
      <3> QED  BY <3>1, <3>2, <3>3, <1>4, <1>5, <1>7 DEF Keeps, Observed, Wrapped
    <2> QED  BY <2>1, <2>2
  <1>11. ASSUME NEW n \in CallIds
         PROVE  /\ n > calls' => span'[n] = "none"
                /\ Once(n)'
                /\ OpenSomewhere(n)'
    <2>1. afters' = afters /\ lost' = lost
      BY DEF Call
    <2>2. CASE n = c
      <3>1. span[n] = "none" /\ Once(n)
        BY <2>2, <1>1 DEF HooksInv
      <3>2. ~(n > calls')
        BY <2>2, <1>1
      <3>3. Once(n)'
        BY <2>1, <2>2, <3>1, <1>8 DEF Once
      <3>4. OpenSomewhere(n)'
        <4>1. Len(stack) + 1 \in 1 .. Len(stack')
          BY <1>3, <1>4
        <4>2. span'[n] = "open" => data
          BY <2>2, <3>1, <1>8
        <4> QED  BY <2>2, <4>1, <4>2, <1>2, <1>4 DEF OpenSomewhere
      <3> QED  BY <3>2, <3>3, <3>4
    <2>3. CASE n # c
      <3>1. span'[n] = span[n]
        BY <2>3, <1>7
      <3>2. Once(n) /\ OpenSomewhere(n) /\ (n > calls => span[n] = "none")
        BY DEF HooksInv
      <3>3. n > calls' => n > calls
        BY <1>1 DEF CallIds
      <3>4. OpenSomewhere(n)'
        BY <2>1, <3>1, <3>2, <1>3, <1>4 DEF OpenSomewhere
      <3> QED  BY <2>1, <3>1, <3>2, <3>3, <3>4 DEF Once
    <2> QED  BY <2>2, <2>3
  <1> QED  BY <1>6, <1>10, <1>11 DEF HooksInv

LEMMA ReturnKeepsHooks ==
  ASSUME HooksInv, IInv', Return
  PROVE  HooksInv'
  <1> DEFINE top == Len(stack)
             c == stack[top].call
  <1>1. /\ stack \in Seq(Frames)
        /\ top \in Nat \ {0}
        /\ top \in 1 .. top
        /\ stack' = SubSeq(stack, 1, top - 1)
    BY DEF HooksInv, IInv, TypeOK, Return
  <1>2. /\ Len(stack') = top - 1
        /\ \A d \in 1 .. top - 1 : stack'[d] = stack[d] /\ d \in 1 .. top /\ d # top
    <2> DEFINE below == [i \in 1 .. top - 1 |-> stack[i]]
    <2>1. top - 1 \in Nat
      BY <1>1
    <2>2. \A i \in 1 .. top - 1 : stack[i] \in Frames
      BY <1>1
    <2>3. stack' = below
      BY <1>1
    <2>4. below \in Seq(Frames) /\ Len(below) = top - 1
      BY <2>1, <2>2
    <2>5. \A d \in 1 .. top - 1 : below[d] = stack[d] /\ d \in 1 .. top /\ d # top
      BY <1>1
    <2> QED  BY <2>3, <2>4, <2>5
  <1>3. /\ After({Found(top)}, {Held(top)})
        /\ calls' = calls /\ lost' = lost
    BY DEF Return
  <1>4. c \in CallIds
    BY <1>1, FrameAt DEF HooksInv, IInv
  <1>5. \A n \in CallIds : n # c => n \notin {Found(top)} \cup {Held(top)}
    BY <1>1, FoundHeld
  <1>6. stack[top].data => span[c] \in {"bare", "open"} /\ c \in {Found(top)} \cup {Held(top)}
    <2>1. Keeps(top)
      BY <1>1 DEF HooksInv
    <2> QED  BY <2>1, <1>1, <1>4, FoundHeld DEF Keeps
  <1>7. ~stack[top].data => c \notin {Found(top)} \cup {Held(top)}
    BY <1>1, <1>4, FoundHeld
  <1>8. ~(c = Found(top) /\ c = Held(top))
    <2>0. stack[top] \in Frames
      BY <1>1, FrameAt DEF HooksInv, IInv
    <2>1. stack[top].kind \in Kinds
      BY <2>0 DEF Frames
    <2> QED  BY <2>1, <1>1, <1>4, FoundHeld, ObservedOrWrapped
  <1>9. ASSUME NEW n \in CallIds
        PROVE  /\ Once(n)'
               /\ n = c /\ stack[top].data => span'[n] \in {"done", "closed"}
               /\ n # c \/ ~stack[top].data => span'[n] = span[n]
    <2>1. ~(n \in {Found(top)} /\ n \in {Held(top)})
      BY <1>5, <1>8
    <2>2. n \in {Found(top)} \cup {Held(top)} => span[n] \in {"bare", "open"}
      BY <1>5, <1>6, <1>7
    <2>3. /\ Once(n)'
          /\ n \in {Found(top)} \cup {Held(top)} => span'[n] \in {"done", "closed"}
          /\ n \notin {Found(top)} \cup {Held(top)} => span'[n] = span[n]
      BY <2>1, <2>2, <1>3, AfterOnce
    <2> QED  BY <2>3, <1>5, <1>6, <1>7
  <1>10. Apart'
    BY <1>2 DEF HooksInv, Apart
  <1>11. ASSUME NEW d \in 1 .. Len(stack')
         PROVE  Keeps(d)'
    <2>1. /\ d \in 1 .. top - 1 /\ d \in 1 .. top /\ d # top
          /\ stack'[d] = stack[d]
      BY <1>1, <1>2
    <2>2. stack[d].call # c
      BY <2>1, <1>1 DEF HooksInv, Apart
    <2>3. stack[d].call \in CallIds /\ d \in Depths
      BY <2>1, FrameAt DEF HooksInv, IInv
    <2>4. span'[stack[d].call] = span[stack[d].call]
      BY <2>2, <2>3, <1>9
    <2>5. results'[d] = results[d]
      BY <2>1, <2>3 DEF HooksInv, IInv, TypeOK, Return
    <2>6. Keeps(d)
      BY <2>1 DEF HooksInv
    <2> QED  BY <2>1, <2>4, <2>5, <2>6 DEF Keeps, Observed, Wrapped
  <1>12. ASSUME NEW n \in CallIds
         PROVE  /\ n > calls' => span'[n] = "none"
                /\ OpenSomewhere(n)'
    <2>1. c <= calls /\ calls \in Nat
      BY <1>1, HooksAssumption DEF HooksInv, IInv, OfRequest, TypeOK
    <2>2. n > calls => n # c /\ span[n] = "none"
      BY <2>1, <1>4 DEF HooksInv, CallIds
    <2>3. ASSUME span'[n] = "open", n \notin lost
          PROVE  \E d \in 1 .. Len(stack') : stack'[d].call = n /\ stack'[d].data
      <3>1. (n # c \/ ~stack[top].data) /\ span[n] = "open"
        BY <2>3, <1>9
      <3>2. PICK d \in 1 .. top : stack[d].call = n /\ stack[d].data
        BY <3>1, <2>3 DEF HooksInv, OpenSomewhere
      <3>3. d # top
        BY <3>1, <3>2
      <3>4. d \in 1 .. top - 1
        BY <3>3, <1>1
      <3> QED  BY <3>2, <3>4, <1>2
    <2> QED  BY <2>2, <2>3, <1>3, <1>9 DEF OpenSomewhere
  <1> QED  BY <1>9, <1>10, <1>11, <1>12 DEF HooksInv

LEMMA BailoutKeepsHooks ==
  ASSUME HooksInv, IInv', Bailout
  PROVE  HooksInv'
  <1> DEFINE ns == {Found(d) : d \in 1 .. Len(stack)}
  <1>1. /\ stack' = <<>> /\ Len(stack') = 0
        /\ After(ns, {})
        /\ calls' = calls
        /\ lost' = (lost \cup {Held(d) : d \in 1 .. Len(stack)}) \ {0}
    BY DEF Bailout
  <1>2. ASSUME NEW n \in CallIds, n \in ns
        PROVE  span[n] \in {"bare", "open"} /\ n <= calls
    <2>1. PICK d \in 1 .. Len(stack) : n = Found(d)
      BY <1>2
    <2>2. n = stack[d].call /\ stack[d].data
      BY <2>1, FoundHeld
    <2>3. Keeps(d) /\ OfRequest(d)
      BY DEF HooksInv, IInv
    <2> QED  BY <2>2, <2>3 DEF Keeps, OfRequest
  <1>3. ASSUME NEW n \in CallIds
        PROVE  /\ Once(n)'
               /\ n \in ns => span'[n] \in {"done", "closed"}
               /\ n \notin ns => span'[n] = span[n]
    <2>1. ~(n \in ns /\ n \in {}) /\ (n \in ns \cup {} => span[n] \in {"bare", "open"})
      BY <1>2
    <2>2. /\ Once(n)'
          /\ n \in ns \cup {} => span'[n] \in {"done", "closed"}
          /\ n \notin ns \cup {} => span'[n] = span[n]
      BY <2>1, <1>1, AfterOnce
    <2> QED  BY <2>2
  <1>4. ASSUME NEW n \in CallIds
        PROVE  /\ n > calls' => span'[n] = "none"
               /\ OpenSomewhere(n)'
    <2>1. calls \in Nat /\ (n > calls => span[n] = "none")
      BY HooksAssumption DEF HooksInv, IInv, TypeOK
    <2>2. n > calls => n \notin ns
      BY <2>1, <1>2 DEF CallIds
    <2>3. ASSUME span'[n] = "open", n \notin lost
          PROVE  n \in {Held(d) : d \in 1 .. Len(stack)}
      <3>1. n \notin ns /\ span[n] = "open"
        BY <2>3, <1>3
      <3>2. PICK d \in 1 .. Len(stack) : stack[d].call = n /\ stack[d].data
        BY <3>1, <2>3 DEF HooksInv, OpenSomewhere
      <3>3. ~Observed(stack[d].kind)
        BY <3>1, <3>2, FoundHeld
      <3>4. Keeps(d)
        BY DEF HooksInv
      <3>5. n = Held(d)
        BY <3>2, <3>3, <3>4, FoundHeld DEF Keeps
      <3> QED  BY <3>5
    <2>4. n # 0
      BY DEF CallIds
    <2> QED  BY <2>1, <2>2, <2>3, <2>4, <1>1, <1>3 DEF OpenSomewhere
  <1> QED  BY <1>1, <1>3, <1>4 DEF HooksInv, Apart

LEMMA HooksInvHolds == Spec => []HooksInv
  <1>1. Init => HooksInv
    <2> SUFFICES ASSUME Init
        PROVE  HooksInv
      OBVIOUS
    <2>1. Len(stack) = 0
      BY DEF Init
    <2> QED  BY <2>1, InitIInv DEF Init, HooksInv, Apart, Once, OpenSomewhere
  <1>2. HooksInv /\ [Next]_vars => HooksInv'
    <2> SUFFICES ASSUME HooksInv, [Next]_vars
        PROVE  HooksInv'
      OBVIOUS
    <2>1. IInv'
      BY NextPreserves DEF HooksInv
    <2>2. ASSUME UNCHANGED <<stack, results, calls, span, afters, lost>>
          PROVE  HooksInv'
      BY <2>1, <2>2 DEF HooksInv, Apart, Keeps, Once, OpenSomewhere, Observed, Wrapped
    <2>3. CASE RequestInit BY <2>3, <2>2 DEF RequestInit
    <2>4. ASSUME NEW kind \in Kinds, NEW hooked \in BOOLEAN, NEW data \in BOOLEAN,
                 Call(kind, hooked, data)
          PROVE  HooksInv'
      BY <2>1, <2>4, CallKeepsHooks
    <2>5. CASE Return BY <2>1, <2>5, ReturnKeepsHooks
    <2>6. CASE Bailout BY <2>1, <2>6, BailoutKeepsHooks
    <2>7. CASE RequestShutdown BY <2>7, <2>2 DEF RequestShutdown
    <2>8. CASE UNCHANGED vars BY <2>8, <2>2 DEF vars
    <2> QED  BY <2>3, <2>4, <2>5, <2>6, <2>7, <2>8 DEF Next
  <1> QED  BY <1>1, <1>2, PTL DEF Spec

(* Spans are made and closed within one request (create_exit_span in the   *)
(* before hooks, the span's drop in the after hooks).                      *)
THEOREM SpansStayInRequest == Spec => SpanWithinRequest
  <1> DEFINE Within(n) == active /\ traced'[n] = request /\ context = request
             Step == \A n \in CallIds :
                        span'[n] # span[n] /\ span'[n] \in {"open", "closed"} => Within(n)
  <1>1. HooksInv /\ [Next]_vars => [Step]_vars
    <2> SUFFICES ASSUME HooksInv, Next, NEW n \in CallIds,
                        span'[n] # span[n], span'[n] \in {"open", "closed"}
        PROVE  Within(n)
      OBVIOUS
    <2>0. IInv
      BY DEF HooksInv
    <2>a. ASSUME NEW ns, NEW ms, After(ns, ms)
          PROVE  n \in ns \cup ms /\ span[n] # "bare"
      BY <2>a DEF After, Ended
    <2>1. CASE RequestInit
      BY <2>1 DEF RequestInit
    <2>2. ASSUME NEW kind \in Kinds, NEW hooked \in BOOLEAN, NEW data \in BOOLEAN,
                 Call(kind, hooked, data)
          PROVE  Within(n)
      <3>1. data /\ n = calls + 1 /\ context # 0 /\ traced'[n] = context /\ active
        BY <2>0, <2>2 DEF Call, Before, IInv, TypeOK
      <3> QED  BY <2>0, <3>1 DEF IInv
    <2>3. CASE Return
      <3>1. n = Found(Len(stack)) \/ n = Held(Len(stack))
        BY <2>3, <2>a DEF Return
      <3>2. Len(stack) \in 1 .. Len(stack)
        BY <2>0, <2>3 DEF Return, IInv, TypeOK
      <3>3. n = stack[Len(stack)].call /\ stack[Len(stack)].data
        BY <3>1, <3>2, FoundHeld
      <3>4. span[n] = "open"
        BY <2>3, <2>a, <3>2, <3>3 DEF Return, HooksInv, Keeps
      <3> QED  BY <2>0, <3>1, <3>2, <3>4, <2>3, DataWithinRequest DEF Return
    <2>4. CASE Bailout
      <3>1. PICK d \in 1 .. Len(stack) : n = Found(d)
        BY <2>4, <2>a DEF Bailout
      <3>2. n = stack[d].call /\ stack[d].data
        BY <3>1, FoundHeld
      <3>3. span[n] = "open"
        BY <2>4, <2>a, <3>2 DEF Bailout, HooksInv, Keeps
      <3> QED  BY <2>0, <3>1, <3>3, <2>4, DataWithinRequest DEF Bailout
    <2>5. CASE RequestShutdown
      BY <2>5 DEF RequestShutdown
    <2> QED  BY <2>1, <2>2, <2>3, <2>4, <2>5 DEF Next
  <1> QED  BY HooksInvHolds, <1>1, PTL DEF Spec, SpanWithinRequest

(* After hooks run at most once per call, and only of calls whose before   *)
(* hook succeeded: for any nesting, error and fatal error (execute_ex,     *)
(* execute_internal, observer_end).                                        *)
THEOREM HooksPairUp == Spec => []AfterOnceIfBefore
  <1>1. HooksInv => AfterOnceIfBefore
    BY DEF HooksInv, Once, AfterOnceIfBefore
  <1> QED  BY HooksInvHolds, <1>1, PTL

(* The span of a call that has ended is closed unless a fatal error jumped *)
(* over the native frame that held it.                                     *)
THEOREM EndedSpansClosed == Spec => []SpansClosed
  <1>1. HooksInv => SpansClosed
    BY DEF HooksInv, OpenSomewhere, SpansClosed
  <1> QED  BY HooksInvHolds, <1>1, PTL

-----------------------------------------------------------------------------
(* What HOOK_MAP remembers was selected for a kind of class the name has   *)
(* stood for, and for a method that is reported.                           *)
HooksSound ==
    \A s \in Scopes, m \in Methods : HOOK_MAP[<<s, m>>] = "hook" =>
        /\ threshold # Off
        /\ m = Log \/ m >= threshold
        /\ s \in Classes => known[s] \notin {"none", "plain"}

(* No hook was selected for the methods of loggers that are not reported,  *)
(* and for other classes.                                                  *)
NoHooksSound ==
    \A s \in Scopes, m \in Methods : HOOK_MAP[<<s, m>>] = "no hook" =>
        \/ threshold = Off
        \/ m # Log /\ m < threshold
        \/ s \in Classes /\ known[s] \in {"plain", "many"}

(* The process has known what a name stands for.                           *)
StandsKnown ==
    \A c \in Classes : stands[c] # "none" => known[c] \in {stands[c], "many"}

(* The methods of a class are declared by a class of the request.          *)
BaseDeclares ==
    \A c \in Classes : stands[c] # "none" => stands[base[c]] \in Declaring

PsrInv ==
    /\ PsrTypeOK
    /\ HooksSound
    /\ NoHooksSound
    /\ StandsKnown
    /\ BaseDeclares
    /\ NoneBelow
    /\ LoggersReported

(* Thresholds, levels and methods are numbers.                             *)
LEMMA Numbers ==
  /\ 0 .. Top \subseteq Nat /\ Methods \subseteq Nat
  /\ PsrTypeOK => threshold \in Nat
  <1>1. 0 .. Top \subseteq Nat
    BY PsrAssumption
  <1>2. Methods \subseteq Nat
    BY PsrAssumption DEF Methods, Levels, Log
  <1>3. PsrTypeOK => threshold \in 0 .. Top
    BY DEF PsrTypeOK
  <1> QED  BY <1>1, <1>2, <1>3

(* A call runs one method or two.                                          *)
LEMMA RunIs ==
  ASSUME PsrTypeOK, NEW c \in Classes, NEW m \in Methods
  PROVE  /\ Run(c, m) \subseteq Scopes \X Methods
         /\ \A R \in SUBSET Run(c, m) :
               IsFiniteSet(R) /\ Cardinality(R) \in 0 .. 2 /\ (Cardinality(R) = 0 <=> R = {})
  <1>1. ASSUME NEW a, NEW b
        PROVE  IsFiniteSet({a, b}) /\ Cardinality({a, b}) \in 0 .. 2
    <2>1. IsFiniteSet({a}) /\ Cardinality({a}) = 1
      BY FS_Singleton
    <2>2. {a, b} = {a} \cup {b}
      OBVIOUS
    <2> QED  BY <2>1, <2>2, FS_AddElement
  <1>2. PICK a, b : Run(c, m) = {a, b}
    <2>1. {<<base[c], m>>} = {<<base[c], m>>, <<base[c], m>>}
      OBVIOUS
    <2> QED  BY <2>1 DEF Run
  <1>3. ASSUME NEW R \in SUBSET {a, b}
        PROVE  IsFiniteSet(R) /\ Cardinality(R) \in 0 .. 2 /\ (Cardinality(R) = 0 <=> R = {})
    <2>1. /\ IsFiniteSet({a, b}) /\ Cardinality({a, b}) \in 0 .. 2
      BY <1>1
    <2>2. IsFiniteSet(R) /\ Cardinality(R) <= Cardinality({a, b})
      BY <2>1, FS_Subset
    <2>3. Cardinality(R) \in Nat
      BY <2>2, FS_CardinalityType
    <2> QED  BY <2>1, <2>2, <2>3, FS_EmptySet
  <1>4. Run(c, m) \subseteq Scopes \X Methods
    <2>1. base[c] \in Classes
      BY DEF PsrTypeOK
    <2> QED  BY <2>1 DEF Run, Scopes, Methods
  <1> QED  BY <1>2, <1>3, <1>4

(* A call selects the hooks of the methods it runs, if it is their first.  *)
LEMMA CallSelects ==
  ASSUME PsrTypeOK, NEW c \in Classes, NEW m \in Methods, NEW level \in 0 .. Top,
         NEW fit \in Fits, CallMethod(c, m, level, fit),
         NEW s \in Scopes, NEW n \in Methods
  PROVE  HOOK_MAP'[<<s, n>>] =
            IF <<s, n>> \in Run(c, m) THEN HookOf(s, n) ELSE HOOK_MAP[<<s, n>>]
  <1> DEFINE asks == {r \in Run(c, m) : Key(r[1], r[2]) = <<s, n>>}
  <1>1. DOMAIN HOOK_MAP = Scopes \X Methods /\ <<s, n>> \in Scopes \X Methods
    BY DEF PsrTypeOK
  <1>2. HOOK_MAP'[<<s, n>>] =
           IF asks = {}
           THEN HOOK_MAP[<<s, n>>]
           ELSE LET r == CHOOSE r \in asks : TRUE IN HookOf(r[1], r[2])
    BY <1>1 DEF CallMethod
  <1>3. asks = IF <<s, n>> \in Run(c, m) THEN {<<s, n>>} ELSE {}
    <2>1. \A r \in Run(c, m) : Key(r[1], r[2]) = r
      BY RunIs DEF Key
    <2> QED  BY <2>1
  <1>4. CASE <<s, n>> \in Run(c, m)
    <2>1. asks = {<<s, n>>}
      BY <1>3, <1>4
    <2> HIDE DEF asks
    <2>2. (CHOOSE r \in asks : TRUE) = <<s, n>>
      BY <2>1
    <2> QED  BY <1>2, <1>4, <2>1, <2>2
  <1>5. CASE <<s, n>> \notin Run(c, m)
    BY <1>2, <1>3, <1>5
  <1> QED  BY <1>4, <1>5

(* The hook of a method is one the map may hold from now on.               *)
LEMMA HookOfSound ==
  ASSUME PsrInv, NEW s \in Scopes, NEW m \in Methods,
         s \in Classes => stands[s] # "none"
  PROVE  /\ HookOf(s, m) = "hook" =>
              /\ threshold # Off
              /\ m = Log \/ m >= threshold
              /\ s \in Classes => known[s] \notin {"none", "plain"}
         /\ HookOf(s, m) = "no hook" =>
              \/ threshold = Off
              \/ m # Log /\ m < threshold
              \/ s \in Classes /\ known[s] \in {"plain", "many"}
         /\ HookOf(s, m) \in {"hook", "no hook"}
  <1> USE PsrAssumption DEF PsrInv
  <1>1. threshold \in Nat /\ m \in Nat
    BY Numbers
  <1>2. HOOK_MAP[<<s, m>>] \in {"hook", "no hook", "unknown"}
    BY DEF PsrTypeOK
  <1>3. CASE HOOK_MAP[<<s, m>>] # "unknown"
    BY <1>2, <1>3 DEF HookOf, Key, HooksSound, NoHooksSound
  <1>4. CASE HOOK_MAP[<<s, m>>] = "unknown"
    <2>1. HookOf(s, m) = Select(s, m)
      BY <1>4 DEF HookOf, Key
    <2>2. s \in Classes =>
             known[s] \in {stands[s], "many"} /\ stands[s] \in ClassKinds /\ s # AbstractLogger
      BY DEF StandsKnown, PsrTypeOK
    <2>3. s \notin Classes => s = AbstractLogger
      BY DEF Scopes
    <2>4. CASE threshold > Off /\ IsLogger(s) /\ (m = Log \/ m >= threshold)
      <3>1. HookOf(s, m) = "hook"
        BY <2>1, <2>4 DEF Select
      <3>2. s \in Classes => known[s] \notin {"none", "plain"}
        BY <2>2, <2>4 DEF IsLogger, ClassKinds, Declaring
      <3> QED  BY <1>1, <2>4, <3>1, <3>2 DEF Off
    <2>5. CASE ~(threshold > Off /\ IsLogger(s) /\ (m = Log \/ m >= threshold))
      <3>1. HookOf(s, m) = "no hook"
        BY <2>1, <2>5 DEF Select
      <3>2. ~IsLogger(s) => s \in Classes /\ known[s] \in {"plain", "many"}
        BY <2>2, <2>3 DEF IsLogger, ClassKinds, Declaring
      <3>3. threshold = Off \/ ~IsLogger(s) \/ (m # Log /\ m < threshold)
        BY <1>1, <2>5 DEF Off
      <3> QED  BY <3>1, <3>2, <3>3
    <2> QED  BY <2>4, <2>5
  <1> QED  BY <1>3, <1>4

(* What a call reports: nothing below the threshold, and from it on what   *)
(* is said to a class whose methods are those of a logger.                 *)
LEMMA CallReports ==
  ASSUME PsrInv, NEW c \in Classes, NEW m \in Methods, NEW level \in 0 .. Top,
         NEW fit \in Fits, stands[c] # "none", m # Log => level = m
  PROVE  /\ threshold = Off \/ level < threshold =>
              \A r \in Run(c, m) : ~Reports(r[1], r[2], level, fit)
         /\ Steady(base[c]) /\ threshold # Off /\ level >= threshold /\ fit = "fine" =>
              ((\E r \in Run(c, m) : Reports(r[1], r[2], level, fit))
                   <=> stands[base[c]] # "plain")
  <1> USE PsrAssumption
  <1>1. threshold \in Nat /\ level \in Nat /\ m \in Nat
    BY Numbers DEF PsrInv
  <1>2. PsrTypeOK /\ base[c] \in Classes /\ stands[base[c]] \in Declaring
    BY DEF PsrInv, PsrTypeOK, BaseDeclares
  <1>3. base[c] \in Scopes /\ stands[base[c]] # "none"
    BY <1>2 DEF Scopes, Declaring
  <1>4. ASSUME NEW r \in Run(c, m)
        PROVE  /\ r[1] \in Scopes /\ r[2] \in Methods
               /\ r[1] \in Classes => stands[r[1]] # "none"
               /\ r[2] \in {m, Log}
    <2>1. r[1] \in {AbstractLogger, base[c]} /\ r[2] \in {m, Log}
      BY DEF Run
    <2>2. r[1] \in Classes => r[1] = base[c]
      BY <2>1
    <2>3. r[1] \in Scopes /\ r[2] \in Methods
      BY <1>3, <2>1 DEF Scopes, Methods
    <2> QED  BY <1>3, <2>1, <2>2, <2>3
  <1>5. ASSUME threshold = Off \/ level < threshold, NEW r \in Run(c, m)
        PROVE  ~Reports(r[1], r[2], level, fit)
    <2>1. r[1] \in Scopes /\ r[2] \in Methods /\ r[2] \in {m, Log}
      BY <1>4
    <2>2. HookOf(r[1], r[2]) = "hook" =>
             threshold # Off /\ (r[2] = Log \/ r[2] >= threshold)
      BY <1>4, <2>1, HookOfSound
    <2>3. r[2] # Log => r[2] = level
      BY <2>1
    <2> QED  BY <1>1, <1>5, <2>2, <2>3 DEF Reports
  <1>6. ASSUME Steady(base[c]), threshold # Off, level >= threshold, fit = "fine"
        PROVE  (\E r \in Run(c, m) : Reports(r[1], r[2], level, fit))
                   <=> stands[base[c]] # "plain"
    <2>0. known[base[c]] = stands[base[c]]
      BY <1>6 DEF Steady
    <2>1. CASE stands[base[c]] = "plain"
      <3>1. Run(c, m) = {<<base[c], m>>}
        BY <2>1 DEF Run
      <3>2. HookOf(base[c], m) # "hook"
        BY <1>2, <1>3, <2>0, <2>1, HookOfSound
      <3> QED  BY <2>1, <3>1, <3>2 DEF Reports
    <2>2. CASE stands[base[c]] # "plain"
      <3>1. PICK n \in {m, Log} : <<base[c], n>> \in Run(c, m)
        BY DEF Run
      <3>2. n \in Methods
        BY DEF Methods
      <3>3. n = Log \/ n >= threshold
        BY <1>6
      <3>4. HookOf(base[c], n) = "hook"
        <4>1. known[base[c]] \notin {"plain", "many"}
          BY <1>2, <2>0, <2>2 DEF Declaring
        <4>2. ~(n # Log /\ n < threshold)
          BY <1>1, <3>2, <3>3, Numbers
        <4>3. HookOf(base[c], n) # "no hook"
          BY <1>2, <1>3, <1>6, <3>2, <4>1, <4>2, HookOfSound
        <4> QED  BY <1>3, <3>2, <4>3, HookOfSound
      <3> QED  BY <1>6, <2>2, <3>1, <3>4 DEF Reports
    <2> QED  BY <2>1, <2>2
  <1> QED  BY <1>5, <1>6

-----------------------------------------------------------------------------
LEMMA CallKeepsPsr ==
  ASSUME PsrInv, NEW c \in Classes, NEW m \in Methods, NEW level \in 0 .. Top,
         NEW fit \in Fits, CallMethod(c, m, level, fit)
  PROVE  PsrInv'
  <1> DEFINE reports == {r \in Run(c, m) : Reports(r[1], r[2], level, fit)}
  <1> USE DEF PsrInv
  <1>1. /\ stands[c] # "none" /\ (m # Log => level = m)
        /\ UNCHANGED <<threshold, stands, base, known>>
        /\ last' = [class |-> c, level |-> level, fit |-> fit,
                    reports |-> Cardinality(reports)]
    BY DEF CallMethod
  <1>2. Cardinality(reports) \in 0 .. 2 /\ (Cardinality(reports) = 0 <=> reports = {})
    BY RunIs
  <1>3. /\ threshold = Off \/ level < threshold => reports = {}
        /\ Steady(base[c]) /\ threshold # Off /\ level >= threshold /\ fit = "fine" =>
              (reports # {} <=> stands[base[c]] # "plain")
    BY <1>1, CallReports
  <1>4. ASSUME NEW s \in Scopes, NEW n \in Methods, <<s, n>> \in Run(c, m)
        PROVE  s \in Classes => stands[s] # "none"
    <2>1. s \in {AbstractLogger, base[c]}
      BY <1>4 DEF Run
    <2>2. stands[base[c]] # "none"
      BY <1>1 DEF BaseDeclares, Declaring
    <2> QED  BY <2>1, <2>2, PsrAssumption
  <1>5. HooksSound' /\ NoHooksSound'
    <2>1. ASSUME NEW s \in Scopes, NEW n \in Methods
          PROVE  \/ <<s, n>> \in Run(c, m) /\ HOOK_MAP'[<<s, n>>] = HookOf(s, n)
                 \/ HOOK_MAP'[<<s, n>>] = HOOK_MAP[<<s, n>>]
      BY CallSelects
    <2>2. HooksSound'
      BY <1>1, <1>4, <2>1, HookOfSound DEF HooksSound
    <2>3. NoHooksSound'
      BY <1>1, <1>4, <2>1, HookOfSound DEF NoHooksSound
    <2> QED  BY <2>2, <2>3
  <1>6. PsrTypeOK'
    <2>1. HOOK_MAP' \in [Scopes \X Methods -> {"hook", "no hook", "unknown"}]
      <3> DEFINE asks(k) == {r \in Run(c, m) : Key(r[1], r[2]) = k}
                 selected(k) == IF asks(k) = {}
                                THEN HOOK_MAP[k]
                                ELSE LET r == CHOOSE r \in asks(k) : TRUE
                                     IN  HookOf(r[1], r[2])
      <3>1. HOOK_MAP' = [k \in Scopes \X Methods |-> HOOK_MAP'[k]]
        <4>1. DOMAIN HOOK_MAP = Scopes \X Methods
          BY DEF PsrTypeOK
        <4>2. HOOK_MAP' = [k \in Scopes \X Methods |-> selected(k)]
          BY <4>1 DEF CallMethod
        <4> HIDE DEF selected
        <4> QED  BY <4>2
      <3>2. ASSUME NEW k \in Scopes \X Methods
            PROVE  HOOK_MAP'[k] \in {"hook", "no hook", "unknown"}
        <4>1. PICK s \in Scopes, n \in Methods : k = <<s, n>>
          OBVIOUS
        <4>2. HOOK_MAP[<<s, n>>] \in {"hook", "no hook", "unknown"}
          BY DEF PsrTypeOK
        <4>3. \/ <<s, n>> \in Run(c, m) /\ HOOK_MAP'[<<s, n>>] = HookOf(s, n)
              \/ HOOK_MAP'[<<s, n>>] = HOOK_MAP[<<s, n>>]
          BY CallSelects
        <4>4. <<s, n>> \in Run(c, m) => HookOf(s, n) \in {"hook", "no hook"}
          BY <1>4, HookOfSound
        <4> QED  BY <4>1, <4>2, <4>3, <4>4
      <3> QED  BY <3>1, <3>2
    <2>2. last' \in Calls \cup {NoCall}
      <3> HIDE DEF reports
      <3> QED  BY <1>1, <1>2 DEF Calls
    <2> QED  BY <1>1, <2>1, <2>2 DEF PsrTypeOK
  <1>7. NoneBelow' /\ LoggersReported'
    <2> HIDE DEF reports
    <2>1. last'.class = c /\ last'.level = level /\ last'.fit = fit
          /\ last'.reports = Cardinality(reports)
      BY <1>1
    <2>2. Cardinality(reports) > 0 <=> reports # {}
      BY <1>2
    <2>3. NoneBelow'
      BY <1>1, <1>2, <1>3, <2>1 DEF NoneBelow
    <2>4. Due' => /\ Steady(base[c]) /\ fit = "fine"
                  /\ threshold # Off /\ level >= threshold
      BY <1>1, <2>1 DEF Due, Steady
    <2>5. LoggersReported'
      BY <1>1, <1>3, <2>1, <2>2, <2>4 DEF LoggersReported
    <2> QED  BY <2>3, <2>5
  <1>8. StandsKnown' /\ BaseDeclares'
    BY <1>1 DEF StandsKnown, BaseDeclares
  <1> QED  BY <1>5, <1>6, <1>7, <1>8

LEMMA PsrStep == PsrInv /\ [PsrNext]_psrVars => PsrInv'
  <1> SUFFICES ASSUME PsrInv, [PsrNext]_psrVars PROVE PsrInv'
    OBVIOUS
  <1>1. ASSUME last' = NoCall PROVE NoneBelow' /\ LoggersReported'
    BY <1>1 DEF NoneBelow, LoggersReported, Due, NoCall
  <1>2. CASE NextRequest
    <2>1. PsrTypeOK'
      BY <1>2 DEF NextRequest, PsrInv, PsrTypeOK
    <2>2. HooksSound' /\ NoHooksSound' /\ StandsKnown' /\ BaseDeclares'
      BY <1>2 DEF NextRequest, PsrInv, HooksSound, NoHooksSound, StandsKnown, BaseDeclares
    <2> QED  BY <1>1, <1>2, <2>1, <2>2 DEF NextRequest, PsrInv
  <1>3. ASSUME NEW c \in Classes, NEW d \in Classes, NEW k \in ClassKinds, Declare(c, k, d)
        PROVE  PsrInv'
    <2>1. /\ known \in [Classes -> ClassKinds \cup {"none", "many"}]
          /\ stands \in [Classes -> ClassKinds \cup {"none"}]
          /\ base \in [Classes -> Classes]
          /\ stands[c] = "none"
          /\ IF k = "heir" THEN stands[d] \in Declaring ELSE d = c
          /\ last' = NoCall /\ UNCHANGED <<threshold, HOOK_MAP>>
          /\ stands' = [stands EXCEPT ![c] = k]
          /\ base' = [base EXCEPT ![c] = d]
          /\ known' = [known EXCEPT ![c] = IF known[c] \in {"none", k} THEN k ELSE "many"]
      BY <1>3 DEF Declare, PsrInv, PsrTypeOK
    <2>2. PsrTypeOK'
      <3>1. known' \in [Classes -> ClassKinds \cup {"none", "many"}]
        BY <2>1
      <3>2. stands' \in [Classes -> ClassKinds \cup {"none"}]
        BY <2>1
      <3>3. base' \in [Classes -> Classes]
        BY <2>1
      <3> QED  BY <2>1, <3>1, <3>2, <3>3 DEF PsrInv, PsrTypeOK
    <2>3. ASSUME NEW e \in Classes
          PROVE  /\ known[e] \notin {"none", "plain"} => known'[e] \notin {"none", "plain"}
                 /\ known[e] \in {"plain", "many"} => known'[e] \in {"plain", "many"}
      BY <2>1 DEF ClassKinds, Declaring
    <2>4. HooksSound' /\ NoHooksSound'
      <3>1. UNCHANGED <<threshold, HOOK_MAP>>
        BY <2>1
      <3>2. HooksSound'
        BY <2>3, <3>1 DEF PsrInv, HooksSound
      <3>3. NoHooksSound'
        BY <2>3, <3>1 DEF PsrInv, NoHooksSound
      <3> QED  BY <3>2, <3>3
    <2>5. StandsKnown'
      BY <2>1 DEF PsrInv, StandsKnown
    <2>6. BaseDeclares'
      <3> SUFFICES ASSUME NEW e \in Classes, stands'[e] # "none"
                   PROVE  stands'[base'[e]] \in Declaring
        BY DEF BaseDeclares
      <3>1. CASE e = c
        BY <2>1, <3>1 DEF ClassKinds, Declaring
      <3>2. CASE e # c
        <4>1. stands[base[e]] \in Declaring
          BY <2>1, <3>2 DEF PsrInv, BaseDeclares
        <4>2. base[e] # c
          BY <2>1, <4>1 DEF Declaring
        <4> QED  BY <2>1, <3>2, <4>1, <4>2
      <3> QED  BY <3>1, <3>2
    <2> QED  BY <1>1, <2>1, <2>2, <2>4, <2>5, <2>6 DEF PsrInv
  <1>4. CASE UNCHANGED psrVars
    <2>1. UNCHANGED <<threshold, stands, base, known, HOOK_MAP, last>>
      BY <1>4 DEF psrVars
    <2>2. PsrTypeOK' /\ HooksSound' /\ NoHooksSound' /\ StandsKnown' /\ BaseDeclares'
      BY <2>1 DEF PsrInv, PsrTypeOK, HooksSound, NoHooksSound, StandsKnown, BaseDeclares
    <2>3. NoneBelow' /\ LoggersReported'
      BY <2>1 DEF PsrInv, NoneBelow, LoggersReported, Due, Steady
    <2> QED  BY <2>2, <2>3 DEF PsrInv
  <1> QED  BY <1>2, <1>3, <1>4, CallKeepsPsr DEF PsrNext

LEMMA PsrInvHolds == PsrSpec => []PsrInv
  <1>1. PsrInit => PsrInv
    <2> SUFFICES ASSUME PsrInit PROVE PsrInv
      OBVIOUS
    <2>1. PsrTypeOK
      BY PsrAssumption DEF PsrInit, PsrTypeOK
    <2>2. HooksSound /\ NoHooksSound /\ StandsKnown /\ BaseDeclares
      BY DEF PsrInit, HooksSound, NoHooksSound, StandsKnown, BaseDeclares
    <2>3. NoneBelow /\ LoggersReported
      BY DEF PsrInit, NoneBelow, LoggersReported, Due
    <2> QED  BY <2>1, <2>2, <2>3 DEF PsrInv
  <1> QED  BY <1>1, PsrStep, PTL DEF PsrSpec

(* Whatever was called and remembered before, no message below the         *)
(* threshold is reported, and none at all with Off: for any number of      *)
(* levels and any classes (hook_log, hook_log_methods).                    *)
THEOREM NoneReportedBelow == PsrSpec => []NoneBelow
  BY PsrInvHolds, PTL DEF PsrInv

(* From the threshold on messages to classes whose methods a logger        *)
(* declares are reported, and no others, for any number of levels and any  *)
(* classes whose names have stood for one kind (select_plugin_hook).  A    *)
(* LoggerInterface class that inherits them from a class without is one of *)
(* the others.                                                             *)
THEOREM LoggersAreReported == PsrSpec => []LoggersReported
  BY PsrInvHolds, PTL DEF PsrInv

-----------------------------------------------------------------------------
(* The refinement: what the steps do to the context and to spans.          *)
TracingStep == [Tracing!Next]_(Tracing!vars)

(* Calls that are still to come have made no span. *)
Untraced == \A n \in CallIds : n > calls => traced[n] = 0

LEMMA UntracedStep ==
  ASSUME IInv, Untraced, [Next]_vars
  PROVE  Untraced'
  <1>1. calls \in Nat
    BY HooksAssumption DEF IInv, TypeOK
  <1>2. ASSUME NEW kind \in Kinds, NEW hooked \in BOOLEAN, NEW data \in BOOLEAN,
               Call(kind, hooked, data)
        PROVE  Untraced'
    <2>1. calls' = calls + 1
      BY <1>2 DEF Call
    <2>2. \A n \in CallIds : n # calls + 1 => traced'[n] = traced[n]
      BY <1>2 DEF Call, Before, IInv, TypeOK
    <2> QED  BY <1>1, <2>1, <2>2 DEF Untraced, CallIds
  <1>3. CASE UNCHANGED <<calls, traced>>
    BY <1>3 DEF Untraced
  <1> QED
    BY <1>2, <1>3 DEF Next, RequestInit, Return, Bailout, RequestShutdown, vars

(* The requests of the process are numbered, and only the last has a       *)
(* context.                                                                *)
LEMMA NumberedRequests ==
  ASSUME IInv
  PROVE  /\ request \in Nat /\ MaxRequests \in Nat /\ request <= MaxRequests
         /\ context = 0 \/ context = request
         /\ ~active => context = 0
         /\ active \in BOOLEAN
  BY HooksAssumption DEF IInv, TypeOK

LEMMA InitTraces ==
  ASSUME IInv, RequestInit
  PROVE  TracingStep
  <1>1. /\ ~active /\ active' /\ request < MaxRequests /\ request' = request + 1
        /\ context = 0 /\ context' \in {request + 1, 0} /\ UNCHANGED traced
    BY NumberedRequests DEF RequestInit
  <1>2. request + 1 \in 1 .. MaxRequests
    BY <1>1, NumberedRequests
  <1>3. Open = {} /\ Over = 1 .. request /\ SpansOf' = SpansOf
    BY <1>1, NumberedRequests DEF Open, Over, SpansOf
  <1>4. request + 1 \notin Open \cup Over
    BY <1>3, NumberedRequests
  <1>5. CASE context' = request + 1
    <2>1. Open' = (Open \ {}) \cup {request + 1} /\ Over' = Over \cup {}
      BY <1>1, <1>3, <1>5, NumberedRequests DEF Open, Over
    <2>2. Tracing!Begin(request + 1, {})
      BY <1>3, <1>4, <2>1 DEF Tracing!Begin
    <2> QED  BY <1>2, <2>2 DEF TracingStep, Tracing!Next
  <1>6. CASE context' = 0
    <2>1. Open' = Open /\ Over' = Over \cup {request + 1}
      BY <1>1, <1>3, <1>6, NumberedRequests DEF Open, Over
    <2>2. Tracing!Refuse(request + 1)
      BY <1>3, <1>4, <2>1 DEF Tracing!Refuse
    <2> QED  BY <1>2, <2>2 DEF TracingStep, Tracing!Next
  <1> QED  BY <1>1, <1>5, <1>6

LEMMA CallTraces ==
  ASSUME IInv, Untraced, NEW kind \in Kinds, NEW hooked \in BOOLEAN, NEW data \in BOOLEAN,
         Call(kind, hooked, data)
  PROVE  TracingStep
  <1>1. UNCHANGED <<request, active, context>>
    BY DEF Call
  <1>2. Open' = Open /\ Over' = Over
    BY <1>1 DEF Open, Over
  <1>3. CASE UNCHANGED traced
    <2>1. SpansOf' = SpansOf
      BY <1>3 DEF SpansOf
    <2> QED  BY <1>2, <2>1 DEF TracingStep, Tracing!vars
  <1>4. CASE context # 0 /\ traced' = [traced EXCEPT ![calls + 1] = context]
    <2> DEFINE n == calls + 1
    <2>1. /\ n \in CallIds /\ traced[n] = 0
          /\ context # 0 /\ traced' = [traced EXCEPT ![n] = context]
      BY <1>4, HooksAssumption DEF Call, Before, IInv, TypeOK, CallIds, Untraced
    <2>2. context \in Open /\ context \in 1 .. MaxRequests
      BY <2>1, NumberedRequests DEF Open
    <2>3. traced \in [CallIds -> 0 .. MaxRequests]
      BY DEF IInv, TypeOK
    <2> HIDE DEF n
    <2>4. ASSUME NEW r \in 1 .. MaxRequests
          PROVE  SpansOf'[r] = IF r = context THEN SpansOf[context] \cup {n} ELSE SpansOf[r]
      <3>1. r # 0
        BY NumberedRequests
      <3>2. \A m \in CallIds : traced'[m] = IF m = n THEN context ELSE traced[m]
        BY <2>1, <2>3
      <3> QED  BY <2>1, <2>2, <3>1, <3>2 DEF SpansOf
    <2>5. SpansOf' = [SpansOf EXCEPT ![context] = SpansOf[context] \cup {n}]
      BY <2>2, <2>4 DEF SpansOf
    <2>6. Tracing!AddSpan(context, n)
      BY <1>2, <2>2, <2>5 DEF Tracing!AddSpan
    <2> QED  BY <2>1, <2>2, <2>6 DEF TracingStep, Tracing!Next
  <1> QED  BY <1>3, <1>4 DEF Call, Before

LEMMA ShutdownTraces ==
  ASSUME IInv, RequestShutdown
  PROVE  TracingStep
  <1>1. active /\ ~active' /\ context' = 0 /\ UNCHANGED <<request, traced>>
    BY DEF RequestShutdown
  <1>2. SpansOf' = SpansOf /\ Open' = {} /\ Over' = 1 .. request
    BY <1>1 DEF SpansOf, Open, Over
  <1>3. CASE context = 0
    <2>1. Open = {} /\ Over = 1 .. request
      BY <1>3, NumberedRequests DEF Open, Over
    <2> QED  BY <1>2, <2>1 DEF TracingStep, Tracing!vars
  <1>4. CASE context # 0
    <2>1. /\ Open = {context} /\ context \in 1 .. MaxRequests /\ context \in 1 .. request
          /\ Over = (1 .. request) \ {context}
      BY <1>1, <1>4, NumberedRequests DEF Open, Over
    <2>2. Open' = Open \ {context} /\ Over' = Over \cup {context}
      BY <1>2, <2>1
    <2>3. Tracing!Finish(context)
      BY <1>2, <2>1, <2>2 DEF Tracing!Finish
    <2> QED  BY <2>1, <2>3 DEF TracingStep, Tracing!Next
  <1> QED  BY <1>3, <1>4

(* The requests of a PHP-FPM process are traced as RequestTracing          *)
(* promises: the spans of hooked calls go to the context of the request    *)
(* that runs, which is made once, and to none that is over, for any        *)
(* requests, calls, nesting and fatal errors (request_init_for_fpm,        *)
(* request_shutdown_for_fpm).                                              *)
THEOREM HooksTrace == Spec => ImplementsTracing
  <1>1. ASSUME Init PROVE Tracing!Init /\ Untraced
    <2>1. Open = {} /\ Over = {}
      BY <1>1 DEF Init, Open, Over
    <2>2. \A n \in CallIds, r \in 1 .. MaxRequests : traced[n] # r
      BY <1>1, HooksAssumption DEF Init
    <2>3. SpansOf = [r \in 1 .. MaxRequests |-> {}]
      BY <2>2 DEF SpansOf
    <2>4. Untraced
      BY <1>1 DEF Init, Untraced
    <2> QED  BY <2>1, <2>3, <2>4 DEF Tracing!Init
  <1>2. ASSUME IInv, Untraced, [Next]_vars PROVE [Tracing!Next]_(Tracing!vars)
    <2>1. ASSUME UNCHANGED <<request, active, context, traced>> PROVE TracingStep
      BY <2>1 DEF TracingStep, Tracing!vars, Open, Over, SpansOf
    <2>2. ASSUME Return PROVE TracingStep
      BY <2>1, <2>2 DEF Return
    <2>3. ASSUME Bailout PROVE TracingStep
      BY <2>1, <2>3 DEF Bailout
    <2>4. ASSUME UNCHANGED vars PROVE TracingStep
      BY <2>1, <2>4 DEF vars
    <2> QED
      BY <1>2, <2>2, <2>3, <2>4, InitTraces, CallTraces, ShutdownTraces
      DEF Next, TracingStep
  <1> QED
    BY <1>1, <1>2, InitIInv, NextPreserves, UntracedStep, PTL
    DEF Spec, ImplementsTracing, Tracing!Spec
=============================================================================
