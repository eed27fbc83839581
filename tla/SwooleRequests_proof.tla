------------------------- MODULE SwooleRequests_proof ------------------------
(***************************************************************************)
(* No context outlives its handler and no segment is reported twice, for   *)
(* any number of requests and connections, whatever overlaps and whatever  *)
(* header fails to decode; status, spans and callbacks are those of the    *)
(* request where nothing overlaps; and the requests implement              *)
(* RequestTracing.                                                         *)
(***************************************************************************)
EXTENDS SwooleRequests, TLAPS

(* Every variable keeps its type, and a request that has arrived has its   *)
(* connection (skywalking_hack_swoole_on_request).                         *)
THEOREM SwooleTypeCorrect == Spec => []TypeOK
<1> USE SwooleAssumption
<1>1. Init => TypeOK
  BY DEF Init, TypeOK, Outcomes
<1>2. ASSUME TypeOK, [Next]_vars PROVE TypeOK'
  <2> USE <1>2 DEF TypeOK, Outcomes
  <2>1. ASSUME NEW c \in Callbacks, Register(c) PROVE TypeOK'
    BY <2>1 DEF Register, reqVars, called, mapVars, past
  <2>2. ASSUME NEW r \in Requests, NEW f \in Fds, NEW c \in Callbacks, Arrive(r, f, c)
        PROVE  TypeOK'
    <3>1. began' \in [Requests -> BOOLEAN] /\ context' \in [Fds -> Requests \cup {None}]
            /\ reported' \in [Requests -> Outcomes]
      <4>1. CASE Begin(r, f)
        BY <4>1 DEF Begin, Report
      <4>2. CASE UNCHANGED <<began, context, reported>>
        BY <4>2
      <4> QED BY <2>2, <4>1, <4>2 DEF Arrive
    <3>2. /\ phase' \in [Requests -> {"new", "handling", "done"}]
          /\ fd' \in [Requests -> Fds \cup {None}]
          /\ {route', served'} \subseteq Callbacks \cup {None}
      BY <2>2 DEF Arrive
    <3>3. \A q \in Requests : phase'[q] # "new" => fd'[q] \in Fds
      BY <2>2 DEF Arrive
    <3>4. overlaps' \subseteq Fds /\ leaks' \subseteq Fds /\ misheard' \subseteq Requests
      BY <2>2 DEF Arrive
    <3> QED BY <2>2, <3>1, <3>2, <3>3, <3>4 DEF Arrive
  <2>3. ASSUME NEW r \in Requests, NEW code \in Codes, SetStatus(r, code) PROVE TypeOK'
    <3>1. fd[r] \in Fds
      BY <2>3 DEF SetStatus
    <3>2. /\ own' \in [Requests -> Codes] /\ status' \in [Fds -> Codes \cup {None}]
          /\ leaks' \subseteq Fds /\ misheard' \subseteq Requests
      BY <2>3, <3>1 DEF SetStatus
    <3> QED BY <2>3, <3>2 DEF SetStatus, called
  <2>8. ASSUME NEW r \in Requests, NEW code \in Codes, SetStatusUnhooked(r, code) PROVE TypeOK'
    <3>1. own' \in [Requests -> Codes] /\ misheard' \subseteq Requests
      BY <2>8 DEF SetStatusUnhooked
    <3> QED BY <2>8, <3>1 DEF SetStatusUnhooked, called, mapVars
  <2>4. ASSUME NEW r \in Requests, EndResponse(r) PROVE TypeOK'
    BY <2>4 DEF EndResponse, called, mapVars, past
  <2>5. ASSUME NEW r \in Requests, PluginCall(r) PROVE TypeOK'
    <3>1. context[fd[r]] \in Requests
      BY <2>5 DEF PluginCall
    <3> QED BY <2>5, <3>1 DEF PluginCall, reqVars, called, past
  <2>6. ASSUME NEW r \in Requests, Return(r) PROVE TypeOK'
    <3>1. fd[r] \in Fds
      BY <2>6 DEF Return
    <3>2. /\ status' \in [Fds -> Codes \cup {None}]
          /\ context' \in [Fds -> Requests \cup {None}]
          /\ reported' \in [Requests -> Outcomes]
      <4>1. CASE began[r]
        <5>1. Shutdown(fd[r])
          BY <2>6, <4>1 DEF Return
        <5>2. context[fd[r]] # None => context[fd[r]] \in Requests
          BY <3>1
        <5>3. /\ status' \in [Fds -> Codes \cup {None}]
              /\ context' \in [Fds -> Requests \cup {None}]
          BY <5>1 DEF Shutdown
        <5>4. PICK code \in Outcomes :
                 context[fd[r]] # None => reported' = [reported EXCEPT ![context[fd[r]]] = code]
          <6>1. Ok \in Outcomes /\ (status[fd[r]] # None => status[fd[r]] \in Outcomes)
            BY <3>1
          <6> QED BY <5>1, <6>1 DEF Shutdown, Report
        <5>5. context[fd[r]] = None => reported' = reported
          BY <5>1 DEF Shutdown
        <5> QED BY <5>2, <5>3, <5>4, <5>5
      <4>2. CASE ~began[r]
        BY <2>6, <4>2 DEF Return
      <4> QED BY <4>1, <4>2
    <3>3. ended' \in [Requests -> BOOLEAN]
      BY <2>6 DEF Return
    <3>4. /\ UNCHANGED <<fd, began, own, route, served, strays, origin, hacked>>
          /\ UNCHANGED <<overlaps, leaks, misheard>>
      BY <2>6 DEF Return, called, past
    <3>5. /\ phase' \in [Requests -> {"new", "handling", "done"}]
          /\ \A q \in Requests : phase'[q] # "new" => fd'[q] \in Fds
      BY <2>6, <3>1, <3>4 DEF Return
    <3> QED BY <3>2, <3>3, <3>4, <3>5
  <2>7. CASE UNCHANGED vars
    BY <2>7 DEF vars, reqVars, called, mapVars, past
  <2> QED BY <1>2, <2>1, <2>2, <2>3, <2>4, <2>5, <2>6, <2>7, <2>8 DEF Next
<1> QED BY <1>1, <1>2, PTL DEF Spec

-----------------------------------------------------------------------------
(* What NoOrphanContext rests on: only a request that has arrived has      *)
(* begun, and a context still in the map has not been reported.            *)
Unreported ==
    /\ \A f \in Fds : context[f] # None => reported[context[f]] = None
    /\ \A r \in Requests : phase[r] = "new" => reported[r] = None /\ ~began[r]

IInv == TypeOK /\ NoOrphanContext /\ Unreported

LEMMA InitOrphan == Init => IInv
BY SwooleAssumption, SwooleTypeCorrect DEF Init, IInv, TypeOK, Outcomes, NoOrphanContext, Unreported

(* The part of the invariant that speaks of one connection. *)
Sound(f) ==
    context[f] # None =>
        /\ phase[context[f]] = "handling"
        /\ fd[context[f]] = f
        /\ began[context[f]]
        /\ reported[context[f]] = None

LEMMA SoundIs ==
    (NoOrphanContext /\ Unreported) <=>
        /\ \A f \in Fds : Sound(f)
        /\ \A r \in Requests : phase[r] = "new" => reported[r] = None /\ ~began[r]
BY DEF NoOrphanContext, Unreported, Sound

LEMMA ArriveSound ==
    ASSUME IInv, TypeOK', NEW r \in Requests, NEW f \in Fds, NEW c \in Callbacks, Arrive(r, f, c)
    PROVE  IInv'
<1> USE SwooleAssumption DEF TypeOK
<1>1. phase[r] = "new" /\ reported[r] = None
  BY SoundIs DEF Arrive, IInv
<1>2. \A g \in Fds : Sound(g)
  BY SoundIs DEF IInv
<1>3. \A g \in Fds : Sound(g)'
  <2> SUFFICES ASSUME NEW g \in Fds, context'[g] # None
               PROVE  Sound(g)'
    BY DEF Sound
  <2>1. CASE context[g] # None /\ context'[g] = context[g]
    <3>1. context[g] # r /\ context[g] \in Requests
      BY <1>1, <1>2, <2>1 DEF Sound, IInv
    <3>2. g # f \/ context[f] # context'[f] => g # f \/ reported' = reported
      BY <2>1
    <3>3. reported'[context[g]] = None
      <4>1. CASE context[f] = context[g] /\ Begin(r, f)
        <5>1. g = f
          BY <4>1, <1>2, <2>1 DEF Sound, IInv
        <5> QED BY <5>1, <4>1, <2>1, <3>1 DEF Begin, IInv
      <4>2. CASE context[f] # context[g] /\ Begin(r, f)
        BY <4>2, <1>2, <2>1, <3>1 DEF Begin, Report, Sound, IInv
      <4>3. CASE UNCHANGED <<began, context, reported>>
        BY <4>3, <1>2, <2>1, <3>1 DEF Sound, IInv
      <4> QED BY <4>1, <4>2, <4>3 DEF Arrive
    <3>4. phase'[context[g]] = "handling" /\ fd'[context[g]] = g
      BY <1>2, <2>1, <3>1 DEF Arrive, Sound, IInv
    <3>5. began'[context[g]]
      BY <1>2, <2>1, <3>1 DEF Arrive, Begin, Sound, IInv
    <3> QED BY <2>1, <3>3, <3>4, <3>5 DEF Sound
  <2>2. CASE context'[g] # context[g]
    <3>1. g = f /\ Begin(r, f) /\ context'[g] = r
      BY <2>2 DEF Arrive, Begin, IInv
    <3>2. reported'[r] = None
      <4>1. context[f] # r
        BY <1>1, <1>2 DEF Sound, IInv
      <4> QED BY <3>1, <1>1, <4>1 DEF Begin, Report, IInv
    <3> QED BY <3>1, <3>2 DEF Arrive, Begin, Sound, IInv
  <2> QED BY <2>1, <2>2
<1>4. ASSUME NEW q \in Requests, phase'[q] = "new"
      PROVE  reported'[q] = None /\ ~began'[q]
  <2>1. q # r /\ phase[q] = "new"
    BY <1>4 DEF Arrive, IInv
  <2>2. reported[q] = None /\ ~began[q]
    BY <2>1, SoundIs DEF IInv
  <2>3. context[f] # q
    BY <1>2, <2>1 DEF Sound, IInv
  <2> QED BY <2>1, <2>2, <2>3 DEF Arrive, Begin, Report, IInv
<1>5. (NoOrphanContext /\ Unreported)'
  BY <1>3, <1>4 DEF NoOrphanContext, Unreported, Sound
<1> QED BY <1>5 DEF IInv

LEMMA ReturnSound ==
    ASSUME IInv, TypeOK', NEW r \in Requests, Return(r)
    PROVE  IInv'
<1> USE SwooleAssumption DEF TypeOK
<1>0. phase[r] = "handling" /\ fd[r] \in Fds
  BY DEF Return, IInv
<1>2. \A g \in Fds : Sound(g)
  BY SoundIs DEF IInv
<1>3. \A g \in Fds : Sound(g)'
  <2> SUFFICES ASSUME NEW g \in Fds, context'[g] # None
               PROVE  Sound(g)'
    BY DEF Sound
  <2>1. context'[g] = context[g] /\ context[g] \in Requests
    BY <1>0 DEF Return, Shutdown, IInv
  <2>2. context[g] # r
    <3>1. CASE began[r]
      <4>1. g # fd[r]
        BY <3>1, <1>0 DEF Return, Shutdown, IInv
      <4> QED BY <4>1, <1>2, <2>1 DEF Sound
    <3>2. CASE ~began[r]
      BY <3>2, <1>2, <2>1 DEF Sound
    <3> QED BY <3>1, <3>2
  <2>3. phase'[context[g]] = "handling" /\ fd'[context[g]] = g /\ began'[context[g]]
    BY <1>2, <2>1, <2>2 DEF Return, Sound, IInv
  <2>4. reported'[context[g]] = None
    <3>1. CASE began[r]
      <4>1. g # fd[r]
        BY <3>1, <1>0 DEF Return, Shutdown, IInv
      <4>2. context[fd[r]] # context[g]
        BY <4>1, <1>0, <1>2, <2>1 DEF Sound
      <4> QED BY <3>1, <4>2, <1>2, <2>1 DEF Return, Shutdown, Report, Sound, IInv
    <3>2. CASE ~began[r]
      BY <3>2, <1>2, <2>1 DEF Return, Sound
    <3> QED BY <3>1, <3>2
  <2> QED BY <2>1, <2>3, <2>4 DEF Sound
<1>4. ASSUME NEW q \in Requests, phase'[q] = "new"
      PROVE  reported'[q] = None /\ ~began'[q]
  <2>1. phase[q] = "new"
    BY <1>4 DEF Return, IInv
  <2>2. reported[q] = None /\ ~began[q]
    BY <2>1, SoundIs DEF IInv
  <2>3. context[fd[r]] # q
    BY <1>0, <1>2, <2>1 DEF Sound
  <2> QED BY <2>2, <2>3 DEF Return, Shutdown, Report, IInv
<1>5. (NoOrphanContext /\ Unreported)'
  BY <1>3, <1>4 DEF NoOrphanContext, Unreported, Sound
<1> QED BY <1>5 DEF IInv

LEMMA StepSound == IInv /\ TypeOK' /\ [Next]_vars => IInv'
<1> SUFFICES ASSUME IInv, TypeOK', [Next]_vars PROVE IInv'
  OBVIOUS
<1>1. ASSUME UNCHANGED <<phase, fd, began, context, reported>> PROVE IInv'
  BY <1>1 DEF IInv, NoOrphanContext, Unreported
<1>2. ASSUME NEW c \in Callbacks, Register(c) PROVE IInv'
  BY <1>2, <1>1 DEF Register, reqVars, called, mapVars
<1>3. ASSUME NEW r \in Requests, NEW code \in Codes, SetStatus(r, code) PROVE IInv'
  BY <1>3, <1>1 DEF SetStatus
<1>7. ASSUME NEW r \in Requests, NEW code \in Codes, SetStatusUnhooked(r, code) PROVE IInv'
  BY <1>7, <1>1 DEF SetStatusUnhooked, mapVars
<1>4. ASSUME NEW r \in Requests, EndResponse(r) PROVE IInv'
  BY <1>4, <1>1 DEF EndResponse, mapVars
<1>5. ASSUME NEW r \in Requests, PluginCall(r) PROVE IInv'
  BY <1>5, <1>1 DEF PluginCall, reqVars
<1>6. CASE UNCHANGED vars
  BY <1>6, <1>1 DEF vars, reqVars, called, mapVars
<1> QED
  BY <1>2, <1>3, <1>4, <1>5, <1>6, <1>7, ArriveSound, ReturnSound DEF Next

(* A context in the map is that of a request whose handler has not         *)
(* returned, on that connection (set_global, remove_global).               *)
THEOREM NoContextOutlives == Spec => []NoOrphanContext
<1>1. IInv => NoOrphanContext
  BY DEF IInv
<1> QED BY <1>1, InitOrphan, StepSound, SwooleTypeCorrect, PTL DEF Spec

(* A segment is reported once, when its context has left the map           *)
(* (finish_request_context).                                               *)
THEOREM ReportsOnce == Spec => ReportedOnce
<1> DEFINE Step ==
      \A r \in Requests :
          /\ reported[r] # None => reported'[r] = reported[r]
          /\ reported'[r] # None => \A f \in Fds : context'[f] # r
<1>1. ASSUME IInv, IInv', [Next]_vars PROVE [Step]_vars
  <2> SUFFICES ASSUME Next, NEW q \in Requests
               PROVE  /\ reported[q] # None => reported'[q] = reported[q]
                      /\ reported'[q] # None => \A f \in Fds : context'[f] # q
    BY <1>1
  <2>1. reported'[q] # None => \A f \in Fds : context'[f] # q
    BY <1>1, SwooleAssumption DEF IInv, Unreported
  <2>2. ASSUME NEW f \in Fds, reported[q] # None PROVE context[f] # q
    BY <1>1, <2>2, SwooleAssumption DEF IInv, Unreported
  <2>3. ASSUME reported[q] # None PROVE reported'[q] = reported[q]
    <3> USE <2>2, <2>3, <1>1 DEF IInv, TypeOK
    <3>1. ASSUME NEW r \in Requests, NEW f \in Fds, NEW c \in Callbacks, Arrive(r, f, c)
          PROVE  reported'[q] = reported[q]
      BY <3>1 DEF Arrive, Begin, Report
    <3>2. ASSUME NEW r \in Requests, Return(r) PROVE reported'[q] = reported[q]
      <4>1. fd[r] \in Fds
        BY <3>2 DEF Return
      <4> QED BY <3>2, <4>1 DEF Return, Shutdown, Report
    <3> QED
      BY <3>1, <3>2
      DEF Next, Register, SetStatus, SetStatusUnhooked, EndResponse, PluginCall, mapVars, reqVars
  <2> QED BY <2>1, <2>3
<1>2. IInv /\ IInv' /\ [Next]_vars => [Step]_vars
  BY <1>1
<1>3. Spec => []IInv
  BY InitOrphan, StepSound, SwooleTypeCorrect, PTL DEF Spec
<1> QED BY <1>2, <1>3, PTL DEF Spec, ReportedOnce

-----------------------------------------------------------------------------
(* What SpansOwn rests on: a connection that is not in overlaps has one    *)
(* handler at most, and only a request that has arrived makes spans.       *)
Alone ==
    \A r, s \in Requests :
        /\ phase[r] = "handling" /\ phase[s] = "handling"
        /\ fd[r] = fd[s] /\ fd[r] \notin overlaps
        => r = s

StraysArrived == \A s \in strays : phase[s[1]] # "new"

SpansInv == IInv /\ Alone /\ StraysArrived /\ SpansOwn

LEMMA ArriveSpans ==
    ASSUME SpansInv, NEW r \in Requests, NEW f \in Fds, NEW c \in Callbacks, Arrive(r, f, c)
    PROVE  (Alone /\ StraysArrived /\ SpansOwn)'
<1> USE DEF SpansInv, IInv, TypeOK
<1>1. /\ phase[r] = "new" /\ phase' = [phase EXCEPT ![r] = "handling"]
      /\ fd' = [fd EXCEPT ![r] = f]
      /\ overlaps' = IF Handling(f) THEN overlaps \cup {f} ELSE overlaps
      /\ strays' = strays
  BY DEF Arrive
<1>2. Alone'
  <2> SUFFICES ASSUME NEW p \in Requests, NEW q \in Requests,
                      phase'[p] = "handling", phase'[q] = "handling",
                      fd'[p] = fd'[q], fd'[p] \notin overlaps'
               PROVE  p = q
    BY DEF Alone
  <2>1. CASE p # r /\ q # r
    BY <1>1, <2>1 DEF Alone
  <2>2. ASSUME NEW s \in Requests, s # r, phase'[s] = "handling", fd'[s] = f
        PROVE  f \in overlaps'
    BY <1>1, <2>2 DEF Handling
  <2>3. fd'[r] = f
    BY <1>1
  <2> QED BY <2>1, <2>2, <2>3
<1>3. ASSUME NEW s \in strays
      PROVE  phase'[s[1]] # "new" /\ (s[1] = s[2] \/ fd'[s[1]] \in overlaps')
  <2>1. s[1] \in Requests /\ s[1] # r
    BY <1>1 DEF StraysArrived
  <2> QED BY <1>1, <2>1 DEF StraysArrived, SpansOwn
<1> QED BY <1>1, <1>2, <1>3 DEF StraysArrived, SpansOwn

LEMMA StepSpans == SpansInv /\ IInv' /\ [Next]_vars => SpansInv'
<1> SUFFICES ASSUME SpansInv, IInv', [Next]_vars PROVE (Alone /\ StraysArrived /\ SpansOwn)'
  BY DEF SpansInv
<1> USE DEF SpansInv
<1>1. ASSUME UNCHANGED <<phase, fd, overlaps, strays>>
      PROVE  (Alone /\ StraysArrived /\ SpansOwn)'
  BY <1>1 DEF Alone, StraysArrived, SpansOwn
<1>2. ASSUME NEW c \in Callbacks, Register(c) PROVE (Alone /\ StraysArrived /\ SpansOwn)'
  BY <1>2, <1>1 DEF Register, reqVars, mapVars, past
<1>3. ASSUME NEW r \in Requests, NEW code \in Codes, SetStatus(r, code)
      PROVE  (Alone /\ StraysArrived /\ SpansOwn)'
  BY <1>3, <1>1 DEF SetStatus
<1>8. ASSUME NEW r \in Requests, NEW code \in Codes, SetStatusUnhooked(r, code)
      PROVE  (Alone /\ StraysArrived /\ SpansOwn)'
  BY <1>8, <1>1 DEF SetStatusUnhooked, mapVars
<1>4. ASSUME NEW r \in Requests, EndResponse(r) PROVE (Alone /\ StraysArrived /\ SpansOwn)'
  BY <1>4, <1>1 DEF EndResponse, mapVars, past
<1>5. ASSUME NEW r \in Requests, PluginCall(r) PROVE (Alone /\ StraysArrived /\ SpansOwn)'
  <2>1. /\ phase[r] = "handling" /\ context[fd[r]] # None
        /\ strays' = strays \cup {<<r, context[fd[r]]>>}
        /\ UNCHANGED <<phase, fd, overlaps>>
    BY <1>5 DEF PluginCall, reqVars, past
  <2>2. fd[r] \in Fds /\ context[fd[r]] \in Requests
    BY <2>1 DEF IInv, TypeOK
  <2>3. fd[r] \notin overlaps => context[fd[r]] = r
    BY <2>1, <2>2 DEF IInv, NoOrphanContext, Alone
  <2>4. Alone'
    BY <2>1 DEF Alone
  <2>5. StraysArrived' /\ SpansOwn'
    BY <2>1, <2>3 DEF StraysArrived, SpansOwn
  <2> QED BY <2>4, <2>5
<1>6. ASSUME NEW r \in Requests, Return(r) PROVE (Alone /\ StraysArrived /\ SpansOwn)'
  <2>1. /\ phase' = [phase EXCEPT ![r] = "done"]
        /\ UNCHANGED <<fd, overlaps, strays>>
    BY <1>6 DEF Return, past
  <2> QED BY <2>1 DEF IInv, TypeOK, Alone, StraysArrived, SpansOwn
<1>7. CASE UNCHANGED vars
  BY <1>7, <1>1 DEF vars, reqVars, mapVars, past
<1> QED
  BY <1>2, <1>3, <1>4, <1>5, <1>6, <1>7, <1>8, ArriveSpans DEF Next

LEMMA SpansInvHolds == Spec => []SpansInv
<1>1. Init => SpansInv
  BY InitOrphan DEF Init, SpansInv, Alone, StraysArrived, SpansOwn
<1>2. SpansInv => IInv
  BY DEF SpansInv
<1>3. SpansInv /\ TypeOK' /\ [Next]_vars => SpansInv'
  BY <1>2, StepSound, StepSpans
<1> QED BY <1>1, <1>3, SwooleTypeCorrect, PTL DEF Spec

(* A span made below a handler goes to the segment of its own request, on  *)
(* every connection that has never had two handlers (infer_request_id).    *)
THEOREM SpansGoHome == Spec => []SpansOwn
<1>1. SpansInv => SpansOwn
  BY DEF SpansInv
<1> QED BY <1>1, SpansInvHolds, PTL

-----------------------------------------------------------------------------
(* What ReportsOwnStatus rests on. On a connection that is in neither of   *)
(* overlaps and leaks, the context of a handler is in the map and the      *)
(* status there, if any, is the one its application gave last, unless it   *)
(* was misheard; and between two requests no status is left behind         *)
(* (hook_status, request_shutdown_for_swoole).                             *)
Clean(f) == f \notin overlaps \cup leaks

HandlerSound(r) ==
    phase[r] = "handling" /\ Clean(fd[r]) =>
        /\ began[r]
        /\ context[fd[r]] = r
        /\ r \notin misheard =>
              own[r] = IF status[fd[r]] = None THEN Ok ELSE status[fd[r]]

DoneSound(r) ==
    phase[r] = "done" /\ Clean(fd[r]) /\ began[r] /\ r \notin misheard =>
        reported[r] = own[r]

NothingLeft(f) == Clean(f) /\ ~Handling(f) => status[f] = None

StatusParts ==
    /\ \A r \in Requests : phase[r] = "new" => own[r] = Ok /\ r \notin misheard
    /\ \A r \in Requests : HandlerSound(r) /\ DoneSound(r)
    /\ \A f \in Fds : NothingLeft(f)

StatusInv == SpansInv /\ StatusParts

LEMMA ArriveStatus ==
    ASSUME StatusInv, NEW r \in Requests, NEW f \in Fds, NEW c \in Callbacks, Arrive(r, f, c)
    PROVE  StatusParts'
<1> USE DEF StatusInv, StatusParts, SpansInv, IInv, TypeOK
<1>1. /\ phase[r] = "new" /\ phase' = [phase EXCEPT ![r] = "handling"]
      /\ fd' = [fd EXCEPT ![r] = f]
      /\ UNCHANGED <<own, status, misheard>>
      /\ overlaps \subseteq overlaps' /\ leaks \subseteq leaks'
      /\ Handling(f) => f \in overlaps'
  BY DEF Arrive
<1>2. Begin(r, f) \/ (f \in leaks' /\ UNCHANGED <<began, context, reported>>)
  BY DEF Arrive
<1>3. ASSUME NEW g \in Fds, Clean(g)' PROVE Clean(g)
  BY <1>1, <1>3 DEF Clean
<1>4. ASSUME NEW q \in Requests, q # r, phase[q] # "new"
      PROVE  /\ began'[q] = began[q]
             /\ fd[q] # f => context'[fd[q]] = context[fd[q]]
             /\ phase[q] = "done" => reported'[q] = reported[q]
  <2>1. CASE Begin(r, f)
    <3>1. context[f] # None => phase[context[f]] = "handling"
      BY DEF NoOrphanContext
    <3> QED BY <1>4, <2>1, <3>1 DEF Begin, Report
  <2>2. CASE UNCHANGED <<began, context, reported>>
    BY <2>2
  <2> QED BY <1>2, <2>1, <2>2
<1>5. ASSUME NEW q \in Requests PROVE HandlerSound(q)'
  <2> SUFFICES ASSUME phase'[q] = "handling", Clean(fd[q])'
               PROVE  /\ began'[q]
                      /\ context'[fd'[q]] = q
                      /\ q \notin misheard' =>
                            own'[q] = IF status'[fd'[q]] = None THEN Ok ELSE status'[fd'[q]]
    BY DEF HandlerSound
  <2>1. CASE q = r
    <3>1. fd'[q] = f /\ Begin(r, f) /\ ~Handling(f)
      BY <1>1, <1>2, <2>1 DEF Clean
    <3>2. status[f] = None
      BY <1>1, <1>3, <3>1 DEF NothingLeft
    <3> QED BY <1>1, <2>1, <3>1, <3>2 DEF Begin
  <2>2. CASE q # r
    <3>1. phase[q] = "handling" /\ fd'[q] = fd[q] /\ fd[q] \in Fds
      BY <1>1, <2>2
    <3>2. fd[q] # f
      BY <1>1, <3>1 DEF Clean, Handling
    <3> QED BY <1>1, <1>3, <1>4, <2>2, <3>1, <3>2 DEF HandlerSound
  <2> QED BY <2>1, <2>2
<1>6. ASSUME NEW q \in Requests PROVE DoneSound(q)'
  <2> SUFFICES ASSUME phase'[q] = "done", Clean(fd[q])' PROVE DoneSound(q)'
    BY DEF DoneSound
  <2>1. q # r /\ phase[q] = "done" /\ fd'[q] = fd[q] /\ fd[q] \in Fds
    BY <1>1
  <2> QED BY <1>1, <1>3, <1>4, <2>1 DEF DoneSound
<1>7. ASSUME NEW g \in Fds PROVE NothingLeft(g)'
  <2> SUFFICES ASSUME Clean(g)', ~Handling(g)' PROVE status'[g] = None
    BY DEF NothingLeft
  <2>1. ~Handling(g)
    BY <1>1 DEF Handling
  <2> QED BY <1>1, <1>3, <2>1 DEF NothingLeft
<1>8. \A q \in Requests : phase'[q] = "new" => own'[q] = Ok /\ q \notin misheard'
  BY <1>1
<1> QED BY <1>5, <1>6, <1>7, <1>8

LEMMA SetStatusStatus ==
    ASSUME StatusInv, NEW r \in Requests, NEW code \in Codes, SetStatus(r, code)
    PROVE  StatusParts'
<1> USE SwooleAssumption DEF StatusInv, StatusParts, SpansInv, IInv, TypeOK
<1>1. /\ phase[r] # "new"
      /\ own' = [own EXCEPT ![r] = IF ended[r] THEN @ ELSE code]
      /\ status' = [status EXCEPT ![fd[r]] = code]
      /\ misheard' = IF ended[r] THEN misheard \cup {r} ELSE misheard \ {r}
      /\ leaks' = IF phase[r] = "done" THEN leaks \cup {fd[r]} ELSE leaks
      /\ UNCHANGED <<phase, fd, began, context, reported, overlaps>>
  BY DEF SetStatus
<1>2. ASSUME NEW g \in Fds, Clean(g)'
      PROVE  Clean(g) /\ (fd[r] = g => phase[r] = "handling")
  BY <1>1, <1>2 DEF Clean
<1>3. ASSUME NEW q \in Requests PROVE HandlerSound(q)'
  <2> SUFFICES ASSUME phase[q] = "handling", Clean(fd[q])' PROVE HandlerSound(q)'
    BY <1>1 DEF HandlerSound, Clean
  <2>1. fd[q] \in Fds /\ Clean(fd[q]) /\ (fd[r] = fd[q] => phase[r] = "handling")
    BY <1>1, <1>2
  <2>2. CASE q = r
    <3>1. began[r] /\ context[fd[r]] = r /\ status'[fd[r]] = code
      BY <1>1, <2>1, <2>2 DEF HandlerSound
    <3>2. r \notin misheard' => own'[r] = code
      BY <1>1
    <3> QED BY <1>1, <2>2, <3>1, <3>2 DEF HandlerSound
  <2>3. CASE q # r
    <3>1. fd[q] # fd[r]
      BY <2>1, <2>3 DEF Alone, Clean
    <3>2. (q \in misheard' <=> q \in misheard) /\ own'[q] = own[q] /\ status'[fd[q]] = status[fd[q]]
      BY <1>1, <2>3, <3>1
    <3> QED BY <1>1, <2>1, <3>2 DEF HandlerSound
  <2> QED BY <2>2, <2>3
<1>4. ASSUME NEW q \in Requests PROVE DoneSound(q)'
  <2> SUFFICES ASSUME phase[q] = "done", Clean(fd[q])' PROVE DoneSound(q)'
    BY <1>1 DEF DoneSound, Clean
  <2>1. fd[q] \in Fds /\ Clean(fd[q]) /\ q # r
    BY <1>1, <1>2
  <2>2. (q \in misheard' <=> q \in misheard) /\ own'[q] = own[q]
    BY <1>1, <2>1
  <2> QED BY <1>1, <2>1, <2>2 DEF DoneSound
<1>5. ASSUME NEW g \in Fds PROVE NothingLeft(g)'
  <2> SUFFICES ASSUME Clean(g)', ~Handling(g) PROVE status'[g] = None
    BY <1>1 DEF NothingLeft, Handling
  <2>1. Clean(g) /\ g # fd[r]
    BY <1>2 DEF Handling
  <2> QED BY <1>1, <2>1 DEF NothingLeft
<1>6. \A q \in Requests : phase'[q] = "new" => own'[q] = Ok /\ q \notin misheard'
  BY <1>1
<1> QED BY <1>3, <1>4, <1>5, <1>6

LEMMA ReturnStatus ==
    ASSUME StatusInv, NEW r \in Requests, Return(r)
    PROVE  StatusParts'
<1> USE SwooleAssumption DEF StatusInv, StatusParts, SpansInv, IInv, TypeOK
<1> DEFINE f == fd[r]
<1>1. /\ phase[r] = "handling" /\ phase' = [phase EXCEPT ![r] = "done"]
      /\ f \in Fds /\ UNCHANGED <<fd, began, own, overlaps, leaks, misheard>>
      /\ IF began[r] THEN Shutdown(f) ELSE UNCHANGED <<status, context, reported>>
  BY DEF Return, past
<1>2. ASSUME NEW g \in Fds, Clean(g)' PROVE Clean(g)
  BY <1>1, <1>2 DEF Clean
<1>3. ASSUME NEW g \in Fds, g # f PROVE status'[g] = status[g] /\ context'[g] = context[g]
  BY <1>1, <1>3 DEF Shutdown
<1>4. ASSUME NEW q \in Requests, fd[q] # f PROVE reported'[q] = reported[q]
  BY <1>1, <1>4 DEF Shutdown, Report, NoOrphanContext
<1>5. ASSUME NEW q \in Requests PROVE HandlerSound(q)'
  <2> SUFFICES ASSUME phase'[q] = "handling", Clean(fd[q])' PROVE HandlerSound(q)'
    BY DEF HandlerSound
  <2>1. q # r /\ phase[q] = "handling" /\ fd[q] \in Fds /\ Clean(fd[q])
    BY <1>1, <1>2
  <2>2. fd[q] # f
    BY <1>1, <2>1 DEF Alone, Clean
  <2> QED BY <1>1, <1>3, <2>1, <2>2 DEF HandlerSound
<1>6. ASSUME NEW q \in Requests PROVE DoneSound(q)'
  <2> SUFFICES ASSUME phase'[q] = "done", Clean(fd[q])' PROVE DoneSound(q)'
    BY DEF DoneSound
  <2>1. CASE q = r
    <3>1. Clean(f)
      BY <1>1, <1>2, <2>1
    <3>2. /\ began[r] /\ context[f] = r
          /\ r \notin misheard => own[r] = IF status[f] = None THEN Ok ELSE status[f]
      BY <1>1, <3>1 DEF HandlerSound
    <3>3. r \notin misheard => reported'[r] = own[r]
      BY <1>1, <3>2 DEF Shutdown, Report
    <3> QED BY <1>1, <2>1, <3>3 DEF DoneSound
  <2>2. CASE q # r
    <3>1. phase[q] = "done" /\ fd[q] \in Fds /\ Clean(fd[q])
      BY <1>1, <1>2, <2>2
    <3>2. reported'[q] = reported[q]
      <4>1. CASE fd[q] # f
        BY <1>4, <4>1
      <4>2. CASE fd[q] = f
        <5>1. context[f] = r
          BY <1>1, <3>1, <4>2 DEF HandlerSound
        <5> QED BY <1>1, <2>2, <5>1 DEF Shutdown, Report
      <4> QED BY <4>1, <4>2
    <3> QED BY <1>1, <2>2, <3>1, <3>2 DEF DoneSound
  <2> QED BY <2>1, <2>2
<1>7. ASSUME NEW g \in Fds PROVE NothingLeft(g)'
  <2> SUFFICES ASSUME Clean(g)', ~Handling(g)' PROVE status'[g] = None
    BY DEF NothingLeft
  <2>1. CASE g = f
    <3>1. began[r]
      BY <1>1, <1>2, <2>1 DEF HandlerSound
    <3> QED BY <1>1, <2>1, <3>1 DEF Shutdown
  <2>2. CASE g # f
    <3>1. ~Handling(g)
      BY <1>1, <2>2 DEF Handling
    <3> QED BY <1>2, <1>3, <2>2, <3>1 DEF NothingLeft
  <2> QED BY <2>1, <2>2
<1>8. \A q \in Requests : phase'[q] = "new" => own'[q] = Ok /\ q \notin misheard'
  BY <1>1
<1> QED BY <1>5, <1>6, <1>7, <1>8

LEMMA StepStatus == StatusInv /\ SpansInv' /\ [Next]_vars => StatusInv'
<1> SUFFICES ASSUME StatusInv, [Next]_vars PROVE StatusParts'
  BY DEF StatusInv
<1> USE DEF StatusInv
<1>1. ASSUME UNCHANGED <<phase, fd, began, own, context, status, reported>>,
             UNCHANGED <<overlaps, leaks, misheard>>
      PROVE  StatusParts'
  BY <1>1 DEF StatusParts, HandlerSound, DoneSound, NothingLeft, Handling, Clean
<1>2. ASSUME NEW c \in Callbacks, Register(c) PROVE StatusParts'
  BY <1>2, <1>1 DEF Register, reqVars, mapVars, past
<1>3. ASSUME NEW r \in Requests, EndResponse(r) PROVE StatusParts'
  BY <1>3, <1>1 DEF EndResponse, mapVars, past
<1>4. ASSUME NEW r \in Requests, PluginCall(r) PROVE StatusParts'
  BY <1>4, <1>1 DEF PluginCall, reqVars, past
<1>5. CASE UNCHANGED vars
  BY <1>5, <1>1 DEF vars, reqVars, mapVars, past
<1>6. ASSUME NEW r \in Requests, NEW code \in Codes, SetStatusUnhooked(r, code)
      PROVE  StatusParts'
  <2>1. /\ own' = [own EXCEPT ![r] = code] /\ misheard' = misheard \cup {r} /\ phase[r] # "new"
        /\ UNCHANGED <<phase, fd, began, context, status, reported, overlaps, leaks>>
    BY <1>6 DEF SetStatusUnhooked, Responding, mapVars
  <2>2. \A q \in Requests : q \notin misheard' => q \notin misheard /\ own'[q] = own[q]
    BY <2>1 DEF SpansInv, IInv, TypeOK
  <2>3. \A q \in Requests : HandlerSound(q)' /\ DoneSound(q)'
    BY <2>1, <2>2 DEF StatusParts, HandlerSound, DoneSound, Clean
  <2>4. \A g \in Fds : NothingLeft(g)'
    BY <2>1 DEF StatusParts, NothingLeft, Handling, Clean
  <2>5. \A q \in Requests : phase'[q] = "new" => own'[q] = Ok /\ q \notin misheard'
    BY <2>1 DEF StatusParts, SpansInv, IInv, TypeOK
  <2> QED BY <2>3, <2>4, <2>5 DEF StatusParts
<1> QED
  BY <1>2, <1>3, <1>4, <1>5, <1>6, ArriveStatus, SetStatusStatus, ReturnStatus DEF Next

(* The segment of a request says the code of its own response, on every    *)
(* connection on which requests do not overlap, no init has failed and no  *)
(* status() came after the handler, unless the hook has not heard of the   *)
(* code or the response has refused it (hook_status,                       *)
(* request_shutdown_for_swoole).                                           *)
THEOREM StatusIsOwn == Spec => []ReportsOwnStatus
<1>1. Init => StatusInv
  BY InitOrphan DEF Init, StatusInv, StatusParts, SpansInv, Alone, StraysArrived, SpansOwn,
     HandlerSound, DoneSound, NothingLeft, Handling
<1>2. StatusInv => ReportsOwnStatus
  BY DEF StatusInv, StatusParts, DoneSound, Clean, ReportsOwnStatus
<1> QED BY <1>1, <1>2, StepStatus, SpansInvHolds, PTL DEF Spec

-----------------------------------------------------------------------------
(* ORI_SWOOLE_ON_REQUEST holds the callback replaced last.                 *)
OriginIsLast == hacked # <<>> => origin = hacked[Len(hacked)]

ServedInv == OriginIsLast /\ ServedByLatest

LEMMA StepServed == TypeOK /\ ServedInv /\ [Next]_vars => ServedInv'
<1> SUFFICES ASSUME TypeOK, ServedInv, [Next]_vars PROVE ServedInv'
  OBVIOUS
<1> USE DEF TypeOK, ServedInv, OriginIsLast, ServedByLatest
<1>1. ASSUME NEW c \in Callbacks, Register(c) PROVE ServedInv'
  <2>1. /\ hacked' = Append(hacked, c) /\ origin' = c
        /\ route' = route /\ served' = served
    BY <1>1 DEF Register, called
  <2>2. /\ Len(hacked') = Len(hacked) + 1
        /\ hacked'[Len(hacked')] = c
        /\ \A i \in 1 .. Len(hacked) : hacked'[i] = hacked[i]
    BY <2>1
  <2>3. ServedByLatest'
    <3> SUFFICES ASSUME served # route
                 PROVE  \E i, j \in 1 .. Len(hacked') :
                           i < j /\ hacked'[i] = route /\ hacked'[j] = served
      BY <2>1
    <3>1. PICK i \in 1 .. Len(hacked), j \in 1 .. Len(hacked) :
             i < j /\ hacked[i] = route /\ hacked[j] = served
      OBVIOUS
    <3>2. i \in 1 .. Len(hacked') /\ j \in 1 .. Len(hacked')
      BY <2>2
    <3> QED BY <2>2, <3>1, <3>2
  <2> QED BY <2>1, <2>2, <2>3
<1>2. ASSUME NEW r \in Requests, NEW f \in Fds, NEW c \in Callbacks, Arrive(r, f, c)
      PROVE  ServedInv'
  <2>1. /\ route' = c /\ served' = origin
        /\ hacked' = hacked /\ origin' = origin
    BY <1>2 DEF Arrive
  <2>2. PICK i \in 1 .. Len(hacked) : hacked[i] = c
    BY <1>2 DEF Arrive, Contains
  <2>3. origin = hacked[Len(hacked)] /\ Len(hacked) \in 1 .. Len(hacked)
    BY <2>2
  <2>4. origin # c => i < Len(hacked)
    BY <2>2, <2>3
  <2> QED BY <2>1, <2>2, <2>3, <2>4
<1>3. ASSUME UNCHANGED <<route, served, hacked, origin>> PROVE ServedInv'
  BY <1>3
<1> QED
  BY <1>1, <1>2, <1>3
  DEF Next, SetStatus, SetStatusUnhooked, EndResponse, PluginCall, Return, vars, called

(* A request is handled by the callback registered for it or by one that   *)
(* was registered later, for any callbacks in any order of registration    *)
(* and arrival (hack_callback, skywalking_hack_swoole_on_request).         *)
THEOREM LatestServes == Spec => []ServedByLatest
<1>1. Init => ServedInv
  BY DEF Init, ServedInv, OriginIsLast, ServedByLatest
<1> QED
  BY <1>1, SwooleTypeCorrect, StepServed, PTL DEF Spec, ServedInv
-----------------------------------------------------------------------------
(* The refinement: what the steps do to contexts, reports and spans.       *)
TracingStep == [Tracing!Next]_(Tracing!vars)

(* Arrivals, and steps that leave contexts, reports and spans alone.       *)
LEMMA TracingUnchanged ==
  ASSUME UNCHANGED <<context, reported, strays>>,
         \A r \in Requests : (phase'[r] # "new" /\ ~began'[r]) <=> (phase[r] # "new" /\ ~began[r])
  PROVE  TracingStep
  <1>1. Open' = Open
    BY DEF Open
  <1>2. Over' = Over
    BY DEF Over
  <1>3. SpansOf' = SpansOf
    BY DEF SpansOf
  <1> QED  BY <1>1, <1>2, <1>3 DEF TracingStep, Tracing!vars

(* A context is at the connection of its request only.                     *)
LEMMA OpenIs ==
  ASSUME IInv
  PROVE  /\ \A f, g \in Fds : context[f] # None /\ context[f] = context[g] => f = g
         /\ \A f \in Fds : context[f] # None => context[f] \in Open
         /\ \A r \in Open : r \in Requests /\ r # None /\ r \notin Over
  <1>1. None \notin Requests
    BY SwooleAssumption
  <1>2. \A f \in Fds : context[f] # None =>
           /\ context[f] \in Requests
           /\ fd[context[f]] = f /\ began[context[f]] /\ reported[context[f]] = None
    BY DEF IInv, TypeOK, NoOrphanContext, Unreported
  <1> QED  BY <1>1, <1>2 DEF Open, Over

LEMMA ArriveTraces ==
  ASSUME IInv, NEW r \in Requests, NEW f \in Fds, NEW c \in Callbacks, Arrive(r, f, c)
  PROVE  TracingStep
  <1>1. /\ phase[r] = "new" /\ ~began[r] /\ reported[r] = None
        /\ r \notin Open \cup Over
    <2>1. phase[r] = "new" /\ ~began[r] /\ reported[r] = None
      BY DEF Arrive, IInv, Unreported
    <2>2. r \notin Open
      BY <2>1, SwooleAssumption DEF Open, IInv, NoOrphanContext
    <2> QED  BY <2>1, <2>2 DEF Over
  <1>2. phase' = [phase EXCEPT ![r] = "handling"] /\ UNCHANGED strays
    BY DEF Arrive
  <1>3. SpansOf' = SpansOf
    BY <1>2 DEF SpansOf
  <1>4. /\ context \in [Fds -> Requests \cup {None}]
        /\ phase \in [Requests -> {"new", "handling", "done"}]
        /\ began \in [Requests -> BOOLEAN] /\ reported \in [Requests -> Outcomes]
    BY DEF IInv, TypeOK
  <1>5. CASE Begin(r, f)
    <2> DEFINE others == {context[f]} \ {None}
    <2>1. context' = [context EXCEPT ![f] = r] /\ began' = [began EXCEPT ![r] = TRUE]
      BY <1>5 DEF Begin
    <2>2. others \in SUBSET Open
      BY OpenIs
    <2>3. Open' = (Open \ others) \cup {r}
      <3>1. \A g \in Fds : context'[g] = IF g = f THEN r ELSE context[g]
        BY <1>4, <2>1
      <3>2. ASSUME NEW q \in Requests PROVE q \in Open' <=> q \in (Open \ others) \cup {r}
        <4>1. q # None
          BY SwooleAssumption
        <4>2. CASE q = r
          BY <3>1, <4>2 DEF Open
        <4>3. CASE q # r /\ q = context[f]
          <5>1. \A g \in Fds : context[g] = q => g = f
            BY <4>1, <4>3, OpenIs
          <5> QED  BY <3>1, <4>1, <4>3, <5>1 DEF Open
        <4>4. CASE q # r /\ q # context[f]
          BY <3>1, <4>4 DEF Open
        <4> QED  BY <4>2, <4>3, <4>4
      <3>3. Open \subseteq Requests /\ Open' \subseteq Requests
        BY DEF Open
      <3> QED  BY <3>2, <3>3
    <2>4. \A q \in Requests : reported'[q] # None <=> (reported[q] # None \/ q \in others)
      <3>1. CASE context[f] = None
        BY <1>5, <3>1 DEF Begin
      <3>2. CASE context[f] # None
        <4>1. reported' = [reported EXCEPT ![context[f]] = Dropped] /\ Dropped # None
          BY <1>5, <3>2, SwooleAssumption DEF Begin, Report
        <4> QED  BY <1>4, <3>2, <4>1
      <3> QED  BY <3>1, <3>2
    <2>5. Over' = Over \cup others
      <3>1. \A q \in Requests :
               (phase'[q] # "new" /\ ~began'[q]) <=> (phase[q] # "new" /\ ~began[q])
        BY <1>1, <1>2, <1>4, <2>1
      <3>2. others \subseteq Requests
        BY <2>2, OpenIs
      <3> HIDE DEF others
      <3> QED  BY <2>4, <3>1, <3>2 DEF Over
    <2> HIDE DEF others
    <2>6. Tracing!Begin(r, others)
      BY <1>1, <1>3, <2>3, <2>5 DEF Tracing!Begin
    <2> QED  BY <2>2, <2>6 DEF TracingStep, Tracing!Next
  <1>6. CASE UNCHANGED <<began, context, reported>>
    <2>1. Open' = Open
      BY <1>6 DEF Open
    <2>2. Over' = Over \cup {r}
      BY <1>1, <1>2, <1>4, <1>6 DEF Over
    <2>3. Tracing!Refuse(r)
      BY <1>1, <1>3, <2>1, <2>2 DEF Tracing!Refuse
    <2> QED  BY <2>3 DEF TracingStep, Tracing!Next
  <1> QED  BY <1>5, <1>6 DEF Arrive

LEMMA PluginCallTraces ==
  ASSUME IInv, NEW r \in Requests, PluginCall(r)
  PROVE  TracingStep
  <1> DEFINE s == context[fd[r]]
  <1>1. /\ fd[r] \in Fds /\ s # None
        /\ strays' = strays \cup {<<r, s>>} /\ UNCHANGED <<phase, began, context, reported>>
    BY DEF PluginCall, IInv, TypeOK, reqVars
  <1>2. s \in Open /\ s \in Requests
    BY <1>1, OpenIs
  <1> HIDE DEF s
  <1>3. Open' = Open /\ Over' = Over
    BY <1>1 DEF Open, Over
  <1>4. SpansOf' = [SpansOf EXCEPT ![s] = SpansOf[s] \cup {r}]
    <2>1. \A q \in Requests :
             SpansOf'[q] = IF q = s THEN SpansOf[s] \cup {r} ELSE SpansOf[q]
      BY <1>1, <1>2 DEF SpansOf
    <2>2. /\ SpansOf' = [q \in Requests |-> SpansOf'[q]]
          /\ SpansOf = [q \in Requests |-> SpansOf[q]]
      BY DEF SpansOf
    <2> QED  BY <1>2, <2>1, <2>2
  <1>5. Tracing!AddSpan(s, r)
    BY <1>2, <1>3, <1>4 DEF Tracing!AddSpan
  <1> QED  BY <1>2, <1>5 DEF TracingStep, Tracing!Next

LEMMA ReturnTraces ==
  ASSUME IInv, NEW r \in Requests, Return(r)
  PROVE  TracingStep
  <1> DEFINE f == fd[r]
             s == context[f]
  <1>1. /\ f \in Fds /\ phase[r] = "handling" /\ UNCHANGED <<began, strays>>
        /\ phase' = [phase EXCEPT ![r] = "done"]
    BY DEF Return, IInv, TypeOK
  <1>2. \A q \in Requests :
           (phase'[q] # "new" /\ ~began'[q]) <=> (phase[q] # "new" /\ ~began[q])
    BY <1>1 DEF IInv, TypeOK
  <1>3. CASE UNCHANGED <<context, reported>>
    BY <1>1, <1>2, <1>3, TracingUnchanged
  <1>4. CASE ~UNCHANGED <<context, reported>>
    <2>1. /\ began[r] /\ context' = [context EXCEPT ![f] = None]
          /\ IF s = None
             THEN UNCHANGED reported
             ELSE Report(s, IF status[f] = None THEN Ok ELSE status[f])
      BY <1>4 DEF Return, Shutdown
    <2>2. context \in [Fds -> Requests \cup {None}] /\ reported \in [Requests -> Outcomes]
      BY DEF IInv, TypeOK
    <2>3. s # None
      BY <1>1, <1>4, <2>1, <2>2
    <2>4. s \in Open /\ s \in Requests
      BY <1>1, <2>3, OpenIs
    <2>5. Open' = Open \ {s}
      <3>1. \A g \in Fds : context'[g] = IF g = f THEN None ELSE context[g]
        BY <1>1, <2>1, <2>2
      <3>2. \A g \in Fds : context[g] = s => g = f
        BY <1>1, <2>3, OpenIs
      <3>3. None \notin Requests
        BY SwooleAssumption
      <3> HIDE DEF f
      <3> QED  BY <1>1, <3>1, <3>2, <3>3 DEF Open
    <2>6. Over' = Over \cup {s}
      <3>1. PICK code : code # None /\ reported' = [reported EXCEPT ![s] = code]
        <4>1. Ok # None
          BY SwooleAssumption
        <4> QED  BY <2>1, <2>3, <4>1 DEF Report
      <3> HIDE DEF s
      <3> QED  BY <1>2, <2>2, <2>4, <3>1 DEF Over
    <2>7. SpansOf' = SpansOf
      BY <1>1 DEF SpansOf
    <2> HIDE DEF s
    <2>8. Tracing!Finish(s)
      BY <2>4, <2>5, <2>6, <2>7 DEF Tracing!Finish
    <2> QED  BY <2>4, <2>8 DEF TracingStep, Tracing!Next
  <1> QED  BY <1>3, <1>4

(* Requests of Swoole are traced as RequestTracing promises: one that has  *)
(* been reported, or whose init failed, gets no context and no span any    *)
(* more, for any requests, connections and overlap (create_request_context,*)
(* finish_request_context, infer_request_id).                              *)
THEOREM SwooleTraces == Spec => ImplementsTracing
  <1>1. ASSUME Init PROVE Tracing!Init
    <2>1. Open = {}
      BY <1>1, SwooleAssumption DEF Init, Open
    <2>2. Over = {}
      BY <1>1 DEF Init, Over
    <2>3. SpansOf = [r \in Requests |-> {}]
      BY <1>1 DEF Init, SpansOf
    <2> QED  BY <2>1, <2>2, <2>3 DEF Tracing!Init
  <1>2. ASSUME IInv, [Next]_vars PROVE [Tracing!Next]_(Tracing!vars)
    <2>1. ASSUME UNCHANGED <<phase, began, context, reported, strays>> PROVE TracingStep
      BY <2>1, TracingUnchanged
    <2>2. ASSUME NEW c \in Callbacks, Register(c) PROVE TracingStep
      BY <2>1, <2>2 DEF Register, reqVars, mapVars
    <2>3. ASSUME NEW r \in Requests, NEW code \in Codes, SetStatus(r, code) PROVE TracingStep
      BY <2>1, <2>3 DEF SetStatus
    <2>4. ASSUME NEW r \in Requests, NEW code \in Codes, SetStatusUnhooked(r, code)
          PROVE  TracingStep
      BY <2>1, <2>4 DEF SetStatusUnhooked, mapVars
    <2>5. ASSUME NEW r \in Requests, EndResponse(r) PROVE TracingStep
      BY <2>1, <2>5 DEF EndResponse, mapVars
    <2>6. ASSUME UNCHANGED vars PROVE TracingStep
      BY <2>1, <2>6 DEF vars, reqVars, called, mapVars, past
    <2> QED
      BY <1>2, <2>2, <2>3, <2>4, <2>5, <2>6, ArriveTraces, PluginCallTraces, ReturnTraces
      DEF Next, TracingStep
  <1> QED
    BY <1>1, <1>2, SwooleTypeCorrect, InitOrphan, StepSound, PTL
    DEF Spec, ImplementsTracing, Tracing!Spec

(* Requests whose segments are over stay apart from those that have a      *)
(* context.                                                                *)
TracingInv == Open \subseteq Requests /\ Over \subseteq Requests /\ Open \cap Over = {}

(* So nothing is added to a segment that was reported, and its request     *)
(* never has a context again: not by a plugin call of its own coroutine,   *)
(* nor by one of another on the same connection (finish_request_context).  *)
THEOREM SwooleSegmentsFinal == Spec => Tracing!Final
  <1> DEFINE Step ==
        \A r \in Over : r \in Over' /\ r \notin Open' /\ SpansOf'[r] = SpansOf[r]
  <1>1. Tracing!Init => TracingInv
    BY DEF Tracing!Init, TracingInv
  <1>2. ASSUME TracingInv, [Tracing!Next]_(Tracing!vars)
        PROVE  TracingInv' /\ (Step \/ UNCHANGED Tracing!vars)
    <2>1. SpansOf = [q \in Requests |-> SpansOf[q]]
      BY DEF SpansOf
    <2>2. CASE UNCHANGED Tracing!vars
      BY <1>2, <2>2 DEF TracingInv, Tracing!vars
    <2> USE DEF TracingInv
    <2>3. ASSUME NEW r \in Requests, NEW others \in SUBSET Open, Tracing!Begin(r, others)
          PROVE  TracingInv' /\ Step
      BY <1>2, <2>3 DEF Tracing!Begin
    <2>4. ASSUME NEW r \in Requests, Tracing!Refuse(r)
          PROVE  TracingInv' /\ Step
      BY <1>2, <2>4 DEF Tracing!Refuse
    <2>5. ASSUME NEW r \in Requests, NEW s \in Requests, Tracing!AddSpan(r, s)
          PROVE  TracingInv' /\ Step
      BY <1>2, <2>1, <2>5 DEF Tracing!AddSpan
    <2>6. ASSUME NEW r \in Requests, Tracing!Finish(r)
          PROVE  TracingInv' /\ Step
      BY <1>2, <2>6 DEF Tracing!Finish
    <2> QED  BY <1>2, <2>2, <2>3, <2>4, <2>5, <2>6 DEF Tracing!Next
  <1> HIDE DEF Step
  <1>3. ASSUME TracingInv, [Tracing!Next]_(Tracing!vars)
        PROVE  [Step]_(Tracing!vars)
    BY <1>2, <1>3
  <1>4. TracingInv /\ [Tracing!Next]_(Tracing!vars) => TracingInv'
    BY <1>2
  <1> QED
    BY <1>1, <1>3, <1>4, SwooleTraces, PTL
    DEF ImplementsTracing, Tracing!Spec, Tracing!Final, Step
=============================================================================
