--------------------------- MODULE PdoPlugin_proof ---------------------------
(***************************************************************************)
(* Theorems about PdoPlugin, for any handles, data sources and number of   *)
(* objects; and about DriverPlugins, the plugins of the other clients of   *)
(* servers, for any hosts, ports and objects.                              *)
(***************************************************************************)
EXTENDS PdoPlugin, DriverPlugins, TLAPS

(* What every state satisfies of one handle. *)
Own(h) ==
    /\ class[h] = "free" /\ DSN_MAP[h] # None => stale[h]
    /\ class[h] # "free" /\ DSN_MAP[h] \notin {None, dsn[h]} => stale[h]
    /\ class[h] # "free" /\ named[h] \notin {None, dsn[h]} => stale[h] \/ destructed[h]
    /\ class[h] # "free" /\ DSN_MAP[h] # None => table[class[h]] = "plugin" \/ stale[h]
    /\ class[h] # "free" /\ destructed[h] /\ DSN_MAP[h] # None =>
          stale[h] \/ (calling = "plugin" /\ dying = h)

(* What every state satisfies of the destruction that is going on. *)
Dying ==
    /\ calling # "none" => dying \in Handles /\ class[dying] # "free" /\ destructed[dying]
    /\ calling = "plugin" => depth = 0 \/ (depth = 1 /\ DTOR_MAP[dying] = "none")
    /\ depth <= 2

IInv == TypeOK /\ Dying /\ \A h \in Handles : Own(h)

LEMMA InitIInv == Init => IInv
  BY PdoAssumption DEF Init, IInv, TypeOK, Dying, Own, Classes, Dtors

-----------------------------------------------------------------------------
LEMMA TypeStep == TypeOK /\ Dying /\ [Next]_vars => TypeOK'
  <1> SUFFICES ASSUME TypeOK, Dying, [Next]_vars
      PROVE  TypeOK'
    OBVIOUS
  <1> USE DEF TypeOK, Classes, Dtors, objectVars, dtorVars
  <1>1. ASSUME NEW h \in Handles, NEW c \in {"PDO", "PDOStatement"}, NEW d \in Dsns \cup {None},
               MakeObject(h, c, d)
        PROVE  /\ class' \in [Handles -> Classes \cup {"free"}]
               /\ dsn' \in [Handles -> Dsns \cup {None}]
               /\ destructed' \in [Handles -> BOOLEAN]
               /\ made' \in 0 .. MaxObjects
    BY <1>1, PdoAssumption DEF MakeObject
  <1>2. ASSUME NEW h \in Handles, NEW c \in {"PDO", "PDOStatement"}, HackDtor(h, c)
        PROVE  /\ table' \in [Classes -> {"original", "plugin"}]
               /\ DTOR_MAP' \in [Handles -> Dtors]
    BY <1>2 DEF HackDtor
  <1>3. ASSUME NEW h \in Handles, NEW d \in Dsns, NEW traced \in BOOLEAN,
               ConstructHook(h, d, traced)
        PROVE  /\ table' \in [Classes -> {"original", "plugin"}]
               /\ DTOR_MAP' \in [Handles -> Dtors]
               /\ DSN_MAP' \in [Handles -> Dsns \cup {None}]
               /\ stale' \in [Handles -> BOOLEAN]
               /\ named' \in [Handles -> Dsns \cup {None}]
               /\ UNCHANGED dtorVars
    BY <1>2, <1>3 DEF ConstructHook
  <1>4. ASSUME NEW h \in Handles, NEW d \in Dsns, NEW traced \in BOOLEAN,
               Construct(h, d, traced)
        PROVE  TypeOK'
    BY <1>1, <1>3, <1>4 DEF Construct
  <1>5. ASSUME NEW h \in Handles, NEW d \in Dsns, NEW traced \in BOOLEAN,
               ConstructAgain(h, d, traced)
        PROVE  TypeOK'
    BY <1>3, <1>5 DEF ConstructAgain
  <1>6. ASSUME NEW h \in Handles, Call(h)
        PROVE  TypeOK'
    BY <1>6 DEF Call
  <1>7. ASSUME NEW h \in Handles, Destruct(h)
        PROVE  TypeOK'
    BY <1>7 DEF Destruct
  <1>8. ASSUME NEW h \in Handles, Free(h)
        PROVE  TypeOK'
    BY <1>8 DEF Free
  <1>9. ASSUME NEW h \in Handles, Skip(h)
        PROVE  TypeOK'
    BY <1>9 DEF Skip
  <1>10. ASSUME NEW h \in Handles, NEW s \in Handles, NEW traced \in BOOLEAN,
                Prepare(h, s, traced)
         PROVE  TypeOK'
    <2>1. MakeObject(s, "PDOStatement", dsn[h])
      BY <1>10 DEF Prepare
    <2>2. dsn[h] \in Dsns \cup {None}
      OBVIOUS
    <2>3. /\ table' \in [Classes -> {"original", "plugin"}]
          /\ DTOR_MAP' \in [Handles -> Dtors]
      BY <1>2, <1>10 DEF Prepare
    <2> QED  BY <1>1, <1>10, <2>1, <2>2, <2>3 DEF Prepare
  <1>11. CASE PluginDtor
    BY <1>11 DEF PluginDtor, Dying
  <1>12. CASE OriginalDtor
    BY <1>12 DEF OriginalDtor
  <1>13. CASE UNCHANGED vars
    BY <1>13 DEF vars
  <1> QED
    BY <1>4, <1>5, <1>6, <1>7, <1>8, <1>9, <1>10, <1>11, <1>12, <1>13 DEF Next

LEMMA DyingStep == IInv /\ [Next]_vars => Dying'
  <1> SUFFICES ASSUME IInv, [Next]_vars
      PROVE  Dying'
    OBVIOUS
  <1> USE DEF IInv, TypeOK, Dying, Classes, Dtors, objectVars, dtorVars
  <1>1. ASSUME NEW h \in Handles, NEW d \in Dsns, NEW traced \in BOOLEAN,
               Construct(h, d, traced) \/ ConstructAgain(h, d, traced)
        PROVE  Dying'
    BY <1>1 DEF Construct, ConstructAgain, ConstructHook, MakeObject, HackDtor, Running
  <1>2. ASSUME NEW h \in Handles, Call(h) \/ Destruct(h) \/ Free(h) \/ Skip(h)
        PROVE  Dying'
    BY <1>2 DEF Call, Destruct, Free, Skip, Running
  <1>3. ASSUME NEW h \in Handles, NEW s \in Handles, NEW traced \in BOOLEAN,
               Prepare(h, s, traced)
        PROVE  Dying'
    BY <1>3 DEF Prepare, MakeObject, HackDtor, Running
  <1>4. CASE PluginDtor
    BY <1>4 DEF PluginDtor
  <1>5. CASE OriginalDtor
    BY <1>5 DEF OriginalDtor
  <1>6. CASE UNCHANGED vars
    BY <1>6 DEF vars
  <1> QED  BY <1>1, <1>2, <1>3, <1>4, <1>5, <1>6 DEF Next

LEMMA OwnStep ==
  ASSUME IInv, [Next]_vars, NEW g \in Handles
  PROVE  Own(g)'
  <1> USE DEF IInv, TypeOK, Own, Classes, Dtors, objectVars, dtorVars
  <1>1. ASSUME NEW h \in Handles, NEW d \in Dsns, NEW traced \in BOOLEAN,
               Construct(h, d, traced)
        PROVE  Own(g)'
    <2>1. CASE g = h
      BY <1>1, <2>1 DEF Construct, ConstructHook, MakeObject, HackDtor
    <2>2. CASE g # h
      BY <1>1, <2>2 DEF Construct, ConstructHook, MakeObject, HackDtor
    <2> QED  BY <2>1, <2>2
  <1>2. ASSUME NEW h \in Handles, NEW d \in Dsns, NEW traced \in BOOLEAN,
               ConstructAgain(h, d, traced)
        PROVE  Own(g)'
    <2>1. CASE g = h
      BY <1>2, <2>1 DEF ConstructAgain, ConstructHook, HackDtor
    <2>2. CASE g # h
      BY <1>2, <2>2 DEF ConstructAgain, ConstructHook, HackDtor
    <2> QED  BY <2>1, <2>2
  <1>3. ASSUME NEW h \in Handles, Call(h)
        PROVE  Own(g)'
    BY <1>3 DEF Call
  <1>4. ASSUME NEW h \in Handles, Destruct(h)
        PROVE  Own(g)'
    BY <1>4 DEF Destruct
  <1>5. ASSUME NEW h \in Handles, Free(h)
        PROVE  Own(g)'
    BY <1>5 DEF Free, Running
  <1>6. ASSUME NEW h \in Handles, Skip(h)
        PROVE  Own(g)'
    BY <1>6 DEF Skip
  <1>7. ASSUME NEW h \in Handles, NEW s \in Handles, NEW traced \in BOOLEAN,
               Prepare(h, s, traced)
        PROVE  Own(g)'
    <2>1. h # s /\ class[h] = "PDO" /\ class[s] = "free"
      BY <1>7 DEF Prepare, MakeObject
    <2>2. CASE g = s
      BY <1>7, <2>1, <2>2 DEF Prepare, MakeObject, HackDtor, Running
    <2>3. CASE g = h
      BY <1>7, <2>1, <2>3 DEF Prepare, MakeObject, HackDtor, Running
    <2>4. CASE g # s /\ g # h
      BY <1>7, <2>1, <2>4 DEF Prepare, MakeObject, HackDtor, Running
    <2> QED  BY <2>2, <2>3, <2>4
  <1>8. CASE PluginDtor
    BY <1>8 DEF PluginDtor, Dying
  <1>9. CASE OriginalDtor
    BY <1>9 DEF OriginalDtor
  <1>10. CASE UNCHANGED vars
    BY <1>10 DEF vars
  <1> QED
    BY <1>1, <1>2, <1>3, <1>4, <1>5, <1>6, <1>7, <1>8, <1>9, <1>10 DEF Next

LEMMA NextPreserves == IInv /\ [Next]_vars => IInv'
  <1> SUFFICES ASSUME IInv, [Next]_vars
      PROVE  IInv'
    OBVIOUS
  <1>1. TypeOK'
    BY TypeStep DEF IInv
  <1>2. Dying'
    BY DyingStep
  <1>3. \A h \in Handles : Own(h)'
    BY OwnStep
  <1> QED  BY <1>1, <1>2, <1>3 DEF IInv

-----------------------------------------------------------------------------
(* The variables keep their types. *)
THEOREM PdoTypeCorrect == Spec => []TypeOK
  <1>1. IInv => TypeOK
    BY DEF IInv
  <1> QED  BY InitIInv, NextPreserves, <1>1, PTL DEF Spec

(* Spans name the data source of their object, but for the entries that    *)
(* were left behind (with_dsn, after_hook_when_pdo_statement).             *)
THEOREM NamesOwn == Spec => []SpanNamesOwn
  <1>1. IInv => SpanNamesOwn
    BY DEF IInv, Own, SpanNamesOwn
  <1> QED  BY InitIInv, NextPreserves, <1>1, PTL DEF Spec

(* Entries go with their objects, but for those that went without their    *)
(* destructor (dtor).                                                      *)
THEOREM EntriesGo == Spec => []EntriesGoWithObjects
  <1>1. IInv => EntriesGoWithObjects
    BY DEF IInv, Own, EntriesGoWithObjects
  <1> QED  BY InitIInv, NextPreserves, <1>1, PTL DEF Spec

(* The destructor of the plugin calls itself at most once (dtor).          *)
THEOREM DtorEnds == Spec => []DestructionEnds
  <1>1. IInv => DestructionEnds
    BY DEF IInv, Dying, DestructionEnds
  <1> QED  BY InitIInv, NextPreserves, <1>1, PTL DEF Spec

-----------------------------------------------------------------------------
(* What the plugins without data of their own find.  What PeerIsServer     *)
(* says of a call is settled by the step of the call; for the sw8 of a     *)
(* message it matters that only one that has gone out with its headers     *)
(* keeps serialized properties with them.                                  *)
KeepsOnlyGone == \A m \in Messages : cached[m] # {} /\ headers[m] # Nothing => m \in gone

DriverInv == DriverTypeOK /\ KeepsOnlyGone /\ PeerIsServer /\ HeaderOfOwnSpan

LEMMA InitDriver == DriverInit => DriverInv
  <1> SUFFICES ASSUME DriverInit PROVE DriverInv
    OBVIOUS
  <1>1. DriverTypeOK
    <2>1. pool \in [Pools -> SUBSET Servers] /\ known \in [Managers -> SUBSET Servers]
      BY Zenon DEF DriverInit
    <2>2. server \in [Links -> MysqlServers \cup {Nothing}]
      BY DEF DriverInit
    <2>3. headers \in [Messages -> AllTables \cup {Nothing}]
      <3>1. Tables \cup {Nothing} \subseteq AllTables \cup {Nothing}
        BY DEF AllTables
      <3>2. headers \in [Messages -> Tables \cup {Nothing}]
        BY DEF DriverInit
      <3> QED  BY <3>1, <3>2
    <2>4. header \in [AllTables -> SW8]
      BY DEF DriverInit, SW8
    <2>6. cached \in [Messages -> SUBSET SW8] /\ gone \subseteq Messages
      <3>1. cached \in [Messages -> SUBSET SW8]
        BY Zenon DEF DriverInit
      <3> QED  BY <3>1 DEF DriverInit
    <2>5. context \in BOOLEAN /\ published \in 0 .. MaxSpans
      <3>1. MaxSpans \in Nat
        BY DriverAssumption
      <3>2. context = FALSE /\ published = 0
        BY DEF DriverInit
      <3>3. context \in BOOLEAN
        BY <3>2, Zenon
      <3> QED  BY <3>1, <3>2, <3>3
    <2> QED  BY <2>1, <2>2, <2>3, <2>4, <2>5, <2>6 DEF DriverTypeOK
  <1>2. last.call = "none" /\ ~last.span /\ ~last.through
    BY DEF DriverInit, Untraced
  <1>3. KeepsOnlyGone
    BY DEF DriverInit, KeepsOnlyGone
  <1> QED  BY <1>1, <1>2, <1>3 DEF DriverInv, PeerIsServer, HeaderOfOwnSpan

(* What a call says, whether or not its hooks ran.                         *)
LEMMA UntracedIs ==
  ASSUME NEW call, NEW to, NEW result
  PROVE  LET u == Untraced(call, to, result)
         IN  /\ u.call = call /\ u.to = to /\ u.result = result /\ u.args = 0
             /\ ~u.span /\ ~u.through /\ u.peer = {} /\ u.carried = {}
  BY DEF Untraced

LEMMA FinishIs ==
  ASSUME NEW call, NEW peers, NEW error, NEW to, NEW result, context \in BOOLEAN,
         Finish(call, peers, error, to, result)
  PROVE  /\ last'.call = call /\ last'.to = to /\ last'.result = result
         /\ last'.span => last'.peer \in peers
  <1>1. CASE context
    <2>1. PICK p \in peers :
             last' = [Untraced(call, to, result) EXCEPT
                        !.span = TRUE, !.through = TRUE, !.peer = p, !.error = error]
      BY <1>1 DEF Finish
    <2> QED  BY <1>1, <2>1 DEF Untraced
  <1>2. CASE ~context
    <2>1. context = FALSE /\ last' = Untraced(call, to, result)
      BY <1>2 DEF Finish
    <2> QED  BY <2>1 DEF Untraced
  <1> QED  BY <1>1, <1>2

(* A step that is no call says nothing, so the properties hold of it.      *)
LEMMA NoCallSays == NoCall => PeerIsServer' /\ HeaderOfOwnSpan'
  BY DEF NoCall, Untraced, PeerIsServer, HeaderOfOwnSpan

(* mysqli_real_connect has every parameter one place later.                *)
LEMMA LinkIsFirst ==
  ASSUME NEW S, "link" \in S, NEW t \in Seq(S)
  PROVE  /\ Len(Params("mysqli_real_connect", t)) = Len(t) + 1
         /\ \A i \in 1 .. Len(t) : Params("mysqli_real_connect", t)[i + 1] = t[i]
  BY DEF Params

(* The peers the parameters of a connect tell, when all of them are given  *)
(* and counted right: the server, if it is not behind a socket             *)
(* (get_peer_by_parameters).                                               *)
LEMMA ParametersTell ==
  ASSUME NEW s \in MysqlServers, NEW args \in ConnectArgs(s), Len(args) = 5,
         NEW call \in ConnectCalls \ {"mysqli_connect"}
  PROVE  PeersByParameters(Style(call), Params(call, args)) =
            {{<<s[1], IF s = Local THEN DefaultPort ELSE s[2]>>}}
  <1> DEFINE port == IF s = Local THEN DefaultPort ELSE s[2]
  <1>1. args = <<s[1], User, "password", "database", port>>
    BY DEF ConnectArgs
  <1> HIDE DEF port
  <1>2. SUFFICES PeersByParameters(Style(call), Params(call, args)) = {{<<s[1], port>>}}
    BY DEF port
  <1>3. CASE call \in {"__construct", "real_connect"}
    <2>1. Style(call) = "OO" /\ Params(call, args) = args
      BY <1>3 DEF Style, Params
    <2>2. Place("OO", 0) = 1 /\ Place("OO", 4) = 5
      BY DEF Place
    <2>3. args[1] = s[1] /\ args[5] = port
      BY <1>1
    <2>4. ~(Len(args) < 1) /\ ~(Len(args) < 5)
      OBVIOUS
    <2> QED  BY <2>1, <2>2, <2>3, <2>4 DEF PeersByParameters
  <1>4. CASE call = "mysqli_real_connect"
    <2> DEFINE values == {"link", s[1], User, "password", "database", port}
    <2>1. "link" \in values /\ args \in Seq(values)
      BY <1>1
    <2>2. /\ 1 \in 1 .. Len(args) /\ args[1] = s[1]
          /\ 5 \in 1 .. Len(args) /\ args[5] = port
      BY <1>1
    <2> HIDE DEF values
    <2>3. /\ Len(Params(call, args)) = 6
          /\ Params(call, args)[2] = s[1]
          /\ Params(call, args)[6] = port
      <3>1. /\ Len(Params(call, args)) = Len(args) + 1
            /\ \A i \in 1 .. Len(args) : Params(call, args)[i + 1] = args[i]
        BY <1>4, <2>1, LinkIsFirst
      <3>2. /\ Params(call, args)[1 + 1] = args[1]
            /\ Params(call, args)[5 + 1] = args[5]
        BY <2>2, <3>1
      <3> QED  BY <2>2, <3>1, <3>2
    <2>4. Style(call) = "Procedural"
      BY <1>4 DEF Style
    <2>5. Place("Procedural", 0) = 2 /\ Place("Procedural", 4) = 6
      BY DEF Place
    <2>6. ~(Len(Params(call, args)) < 2) /\ ~(Len(Params(call, args)) < 6)
      BY <2>3
    <2> QED  BY <2>3, <2>4, <2>5, <2>6 DEF PeersByParameters
  <1> QED  BY <1>3, <1>4 DEF ConnectCalls

(* What is said of a connection names its server, or its host and 3306     *)
(* (get_peer_by_this).                                                     *)
LEMMA HostAndPort ==
  ASSUME NEW s \in MysqlServers
  PROVE  /\ s # Nothing
         /\ s[2] = DefaultPort => {<<s[1], DefaultPort>>} = {s}
         /\ s \in Servers => s = <<s[1], s[2]>>
         /\ s \notin Servers => s = Local /\ s[1] = Localhost /\ s[2] # DefaultPort
  BY DriverAssumption DEF MysqlServers, Servers, Local

(* Such a peer is what PeerIsServer asks for, or excepts.                  *)
LEMMA NamedOrPortless ==
  ASSUME NEW s \in MysqlServers, last'.call \in ConnectCalls \cup {"query"},
         last'.to = {s}, last'.peer \in {{s}, {<<s[1], DefaultPort>>}}
  PROVE  PeerIsServer'
  <1>1. CASE s[2] = DefaultPort \/ last'.peer = {s}
    BY <1>1, HostAndPort DEF PeerIsServer, ConnectCalls
  <1>2. CASE s[2] # DefaultPort /\ last'.peer = {<<s[1], DefaultPort>>}
    <2>1. Portless'
      BY <1>2 DEF Portless
    <2> QED  BY <2>1 DEF PeerIsServer
  <1> QED  BY <1>1, <1>2

LEMMA ConnectSays ==
  ASSUME NEW l \in Links, NEW call \in ConnectCalls, NEW s \in MysqlServers,
         NEW result \in Results \cup {"null"}, NEW args \in ConnectArgs(s),
         DriverTypeOK, MysqliConnect(l, call, s, args, result)
  PROVE  PeerIsServer' /\ HeaderOfOwnSpan'
  <1> DEFINE given == PeersByParameters(Style(call), Params(call, args))
  <1>1. /\ last'.call = call /\ last'.to = {s} /\ last'.result = result
        /\ last'.args = Len(args) /\ last'.span = context
        /\ context => last'.peer \in ResetPeer(given, server'[l])
    <2>1. CASE context
      <3>1. PICK p \in ResetPeer(given, server'[l]) :
               last' = [Untraced(call, {s}, result) EXCEPT
                           !.span = TRUE, !.through = TRUE, !.peer = p,
                           !.error = result \in Bad, !.args = Len(args)]
        BY <2>1 DEF MysqliConnect
      <3> QED  BY <2>1, <3>1 DEF Untraced
    <2>2. CASE ~context
      <3>1. context = FALSE
        BY <2>2 DEF DriverTypeOK
      <3> QED  BY <2>2, <3>1 DEF MysqliConnect, Untraced
    <2> QED  BY <2>1, <2>2
  <1>2. server'[l] = IF result = "ok" THEN s ELSE Nothing
    BY DEF MysqliConnect, DriverTypeOK
  <1>6. HeaderOfOwnSpan'
    BY <1>1 DEF HeaderOfOwnSpan, ConnectCalls
  <1>7. ASSUME ~last'.span PROVE PeerIsServer'
    BY <1>7 DEF PeerIsServer
  <1>3. CASE result = "ok"
    <2>1. PeerByThis(server'[l]) = {<<s[1], DefaultPort>>}
      BY <1>2, <1>3, HostAndPort DEF PeerByThis, HostInfo
    <2>2. ResetPeer(given, server'[l]) = {{<<s[1], DefaultPort>>}}
      BY <2>1 DEF ResetPeer
    <2> QED  BY <1>1, <1>6, <1>7, <2>2, NamedOrPortless
  <1>4. CASE result # "ok" /\ Len(args) = 5 /\ call # "mysqli_connect"
    <2>1. ResetPeer(given, server'[l]) = given
      BY <1>2, <1>4 DEF ResetPeer, PeerByThis
    <2>2. given = {{<<s[1], IF s = Local THEN DefaultPort ELSE s[2]>>}}
      BY <1>4, ParametersTell
    <2>3. given \in {{{s}}, {{<<s[1], DefaultPort>>}}}
      BY <2>2, HostAndPort
    <2> HIDE DEF given
    <2>4. context => last'.peer \in {{s}, {<<s[1], DefaultPort>>}}
      BY <1>1, <2>1, <2>3
    <2> QED  BY <1>1, <1>6, <1>7, <2>4, NamedOrPortless
  <1>5. CASE result # "ok" /\ (Len(args) # 5 \/ call = "mysqli_connect")
    <2> DEFINE port == IF s = Local THEN DefaultPort ELSE s[2]
    <2>0. args \in {<<>>, <<s[1]>>, <<s[1], User, "password", "database", port>>}
      BY DEF ConnectArgs
    <2> HIDE DEF port
    <2>1. Len(args) # 5 => Len(args) < 5
      <3>1. CASE args = <<>>
        BY <3>1
      <3>2. CASE args = <<s[1]>>
        BY <3>2
      <3>3. CASE args = <<s[1], User, "password", "database", port>>
        BY <3>3
      <3> QED  BY <2>0, <3>1, <3>2, <3>3
    <2>2. Guessed'
      BY <1>1, <1>5, <2>1 DEF Guessed
    <2> QED  BY <1>6, <2>2 DEF PeerIsServer
  <1> QED  BY <1>3, <1>4, <1>5

(* A query finds the peer the link has (get_peer_by_this), also when its   *)
(* hook breaks off.                                                        *)
LEMMA QuerySays ==
  ASSUME NEW l \in Links, NEW result \in Results, DriverTypeOK, MysqliQuery(l, result)
  PROVE  PeerIsServer' /\ HeaderOfOwnSpan'
  <1> DEFINE p == PeerByThis(server[l])
             to == {server[l]} \ {Nothing}
  <1>1. context \in BOOLEAN /\ server[l] \in MysqlServers \cup {Nothing}
    BY DEF DriverTypeOK
  <1>2. last'.call = "query" /\ last'.to = to /\ (last'.span => last'.peer = p)
    <2>0. \/ Finish("query", {p}, result \in Bad, to, result)
          \/ BreaksOff("query", p, to, result)
      BY DEF MysqliQuery
    <2> HIDE DEF p, to
    <2>1. CASE Finish("query", {p}, result \in Bad, to, result)
      BY <1>1, <2>1, FinishIs
    <2>2. CASE BreaksOff("query", p, to, result)
      BY <2>2 DEF BreaksOff, Untraced
    <2> QED  BY <2>0, <2>1, <2>2
  <1>3. HeaderOfOwnSpan'
    BY <1>2 DEF HeaderOfOwnSpan
  <1>4. CASE server[l] = Nothing
    <2>1. p = {} /\ to = {}
      BY <1>4 DEF PeerByThis
    <2> QED  BY <1>2, <1>3, <2>1 DEF PeerIsServer
  <1>5. CASE server[l] # Nothing
    <2>1. server[l] \in MysqlServers /\ to = {server[l]}
      BY <1>1, <1>5
    <2>2. p = {<<server[l][1], DefaultPort>>}
      BY <1>5 DEF PeerByThis, HostInfo
    <2>3. CASE last'.span
      BY <1>2, <1>3, <2>1, <2>2, <2>3, NamedOrPortless
    <2>4. CASE ~last'.span
      BY <1>3, <2>4 DEF PeerIsServer
    <2> QED  BY <2>3, <2>4
  <1> QED  BY <1>4, <1>5

(* Of the methods of Memcached all but those with a server key are found   *)
(* in the tables (MemcachedPlugin::hook).                                  *)
LEMMA HookedAre ==
  ASSUME NEW name \in MemcachedMethods
  PROVE  Hooked(name) <=> name # "getByKey"
  BY DEF MemcachedMethods, Hooked, Lower, EMPTY_METHODS, KEY_METHODS, SERVER_KEY_METHODS

LEMMA MemcachedSays ==
  ASSUME NEW p \in Pools, NEW name \in MemcachedMethods, NEW k \in Keys, NEW result \in Results,
         DriverTypeOK, MemcachedCall(p, name, k, result)
  PROVE  PeerIsServer' /\ HeaderOfOwnSpan'
  <1> DEFINE one == name \in {"get", "getByKey"}
             to == IF one THEN PeerOfKey(p, k) ELSE pool[p]
             peer == IF one THEN PeerOfKey(p, k) ELSE {}
  <1>1. context \in BOOLEAN /\ name # "basic_publish"
    BY DEF DriverTypeOK, MemcachedMethods
  <1>2. CASE name # "getByKey"
    <2>1. Finish(name, {peer}, result \in Bad, to, result)
      BY <1>2, HookedAre DEF MemcachedCall
    <2> HIDE DEF peer, to
    <2>2. /\ last'.call = name /\ last'.to = to
          /\ last'.span => last'.peer \in {peer}
      BY <1>1, <2>1, FinishIs
    <2>3. one => peer = to
      BY DEF peer, to
    <2>4. ~one => peer = {} /\ name \in {"flush", "getMulti"}
      BY DEF peer, MemcachedMethods
    <2>5. PeerIsServer'
      BY <2>2, <2>3, <2>4 DEF PeerIsServer, Vague, MemcachedMethods
    <2> QED  BY <1>1, <2>2, <2>5 DEF HeaderOfOwnSpan
  <1>3. CASE name = "getByKey"
    <2>1. last' = Untraced(name, to, result)
      BY <1>3, HookedAre DEF MemcachedCall, Unseen
    <2> HIDE DEF to
    <2>2. last'.call = name /\ ~last'.span /\ ~last'.through
      BY <2>1, UntracedIs
    <2> QED  BY <2>2 DEF PeerIsServer, HeaderOfOwnSpan
  <1> QED  BY <1>2, <1>3

LEMMA PredisSays ==
  ASSUME NEW s \in Servers, NEW connection \in {"single", "hostless", "cluster"},
         NEW command \in PredisCommands, NEW result \in Results,
         DriverTypeOK, PredisCall(s, connection, command, result)
  PROVE  PeerIsServer' /\ HeaderOfOwnSpan'
  <1> DEFINE peer == IF connection = "single" THEN {s} ELSE {UnknownPeer}
  <1>1. context \in BOOLEAN /\ command # "basic_publish"
    BY DEF DriverTypeOK, PredisCommands
  <1>3. CASE connection = "hostless" \/ Upper(command) \notin ALL_COMMANDS
    <2>1. last' = Untraced(command, {s}, result)
      BY <1>3 DEF PredisCall, Unseen
    <2>2. ~last'.span /\ ~last'.through
      BY <2>1, UntracedIs
    <2> QED  BY <2>2 DEF PeerIsServer, HeaderOfOwnSpan
  <1>4. CASE connection # "hostless" /\ Upper(command) \in ALL_COMMANDS
    <2>1. Finish(command, {peer}, result \in Bad, {s}, result)
      BY <1>4 DEF PredisCall
    <2> HIDE DEF peer
    <2>2. /\ last'.call = command /\ last'.to = {s}
          /\ last'.span => last'.peer \in {peer}
      BY <1>1, <2>1, FinishIs
    <2>3. peer = {s} \/ peer = {UnknownPeer}
      BY DEF peer
    <2>4. PeerIsServer'
      BY <2>2, <2>3 DEF PeerIsServer, Vague, PredisCommands
    <2> QED  BY <1>1, <2>2, <2>4 DEF HeaderOfOwnSpan
  <1> QED  BY <1>3, <1>4

LEMMA ManagerSays ==
  ASSUME NEW g \in Managers, NEW found \in SUBSET Servers,
         NEW to, NEW result \in Results, DriverTypeOK, ManagerCall(g, found, to, result)
  PROVE  PeerIsServer' /\ HeaderOfOwnSpan'
  <1>1. /\ Finish("executeQuery", {known'[g]}, result = "thrown", to, result)
        /\ context \in BOOLEAN /\ to \subseteq found
    BY DEF ManagerCall, PeerOfManager, DriverTypeOK
  <1>2. known'[g] = found
    <2>1. known \in [Managers -> SUBSET Servers] /\ known' = [known EXCEPT ![g] = found]
      BY DEF ManagerCall, DriverTypeOK
    <2> QED  BY <2>1, Zenon
  <1>3. /\ last'.call = "executeQuery" /\ last'.to = to
        /\ last'.span => last'.peer \in {found}
    BY <1>1, <1>2, FinishIs
  <1> QED  BY <1>1, <1>3 DEF PeerIsServer, HeaderOfOwnSpan

(* A message that has not gone out with the headers it has is serialized   *)
(* with the sw8 just injected into them, whosever they are                 *)
(* (inject_sw_header).                                                     *)
LEMMA Injected ==
  ASSUME DriverTypeOK, KeepsOnlyGone, NEW m \in Messages, m \notin gone, NEW sw, Inject(m, sw)
  PROVE  Serialized(m) = {sw}
  <1> DEFINE t == IF headers[m] = Nothing THEN m ELSE headers[m]
  <1>1. t \in AllTables /\ t # Nothing
    BY DriverAssumption DEF DriverTypeOK, AllTables
  <1>2. headers' = [headers EXCEPT ![m] = t] /\ header' = [header EXCEPT ![t] = sw]
    BY DEF Inject
  <1>3. headers'[m] = t /\ header'[t] = sw
    <2> HIDE DEF t
    <2> QED  BY <1>1, <1>2 DEF DriverTypeOK
  <1>4. cached[m] = {} \/ headers[m] = Nothing
    BY DEF KeepsOnlyGone
  <1>5. ~(cached[m] # {} /\ headers'[m] = headers[m])
    <2> HIDE DEF t
    <2> QED  BY <1>1, <1>3, <1>4
  <1> HIDE DEF t
  <1> QED  BY <1>1, <1>3, <1>5 DEF Serialized

LEMMA PublishSays ==
  ASSUME NEW m \in Messages, NEW s \in Servers, NEW reachable \in BOOLEAN, NEW result \in Results,
         NEW carried, DriverTypeOK, KeepsOnlyGone, Publish(m, s, reachable, carried, result)
  PROVE  PeerIsServer' /\ HeaderOfOwnSpan'
  <1>1. CASE context
    <2> DEFINE peer == IF reachable THEN {s} ELSE {UnknownPeer}
    <2>1. PICK through \in BOOLEAN :
             /\ IF through THEN Inject(m, published') ELSE UNCHANGED <<headers, header>>
             /\ last' = [Untraced("basic_publish", {s}, result) EXCEPT
                            !.span = TRUE, !.through = through, !.peer = peer,
                            !.error = through /\ result = "thrown",
                            !.carried = carried, !.again = m \in gone]
      BY <1>1 DEF Publish
    <2> HIDE DEF peer
    <2>2. /\ last'.call = "basic_publish" /\ last'.to = {s} /\ last'.span
          /\ last'.through = through /\ last'.peer = peer
          /\ last'.carried = carried /\ last'.again = (m \in gone)
      BY <2>1 DEF Untraced
    <2>3. PeerIsServer'
      BY <2>2 DEF PeerIsServer, Vague, peer
    <2>4. carried # {} => carried = Serialized(m)
      BY DEF Publish, GoesOut
    <2>5. ASSUME through, carried # {}, m \notin gone
          PROVE  carried = {published'}
      BY <2>1, <2>4, <2>5, Injected
    <2> QED  BY <2>2, <2>3, <2>5 DEF HeaderOfOwnSpan
  <1>2. CASE ~context
    <2>1. last' = [Untraced("basic_publish", {s}, result) EXCEPT
                      !.carried = carried, !.again = m \in gone]
      BY <1>2 DEF Publish
    <2>2. ~last'.span /\ ~last'.through
      BY <1>2, <2>1 DEF Untraced
    <2> QED  BY <2>2 DEF PeerIsServer, HeaderOfOwnSpan
  <1> QED  BY <1>1, <1>2

(* What is kept of a message is of a message that has gone out, whether or *)
(* not the publish threw before (AMQPMessage::serialize_properties).       *)
LEMMA PublishKeepsGone ==
  ASSUME NEW m \in Messages, DriverTypeOK, KeepsOnlyGone, NEW carried, NEW result,
         GoesOut(m, carried, result), \A n \in Messages \ {m} : headers'[n] = headers[n]
  PROVE  KeepsOnlyGone'
  <1> SUFFICES ASSUME NEW n \in Messages, cached'[n] # {}, headers'[n] # Nothing
               PROVE  n \in gone'
    BY DEF KeepsOnlyGone
  <1>1. gone \subseteq gone'
    BY DEF GoesOut
  <1>2. CASE n # m
    <2>1. cached'[n] = cached[n] /\ headers'[n] = headers[n]
      BY <1>2 DEF GoesOut, DriverTypeOK
    <2> QED  BY <1>1, <2>1 DEF KeepsOnlyGone
  <1>3. CASE n = m
    <2>1. CASE gone' = IF headers'[m] = Nothing THEN gone ELSE gone \cup {m}
      BY <1>3, <2>1
    <2>2. CASE cached' = [cached EXCEPT ![m] = IF headers'[m] = headers[m] THEN cached[m] ELSE {}]
      <3>1. cached'[m] = IF headers'[m] = headers[m] THEN cached[m] ELSE {}
        BY <2>2 DEF DriverTypeOK
      <3> QED  BY <1>1, <1>3, <3>1 DEF KeepsOnlyGone
    <2> QED  BY <2>1, <2>2 DEF GoesOut
  <1> QED  BY <1>2, <1>3

-----------------------------------------------------------------------------
(* Only connects and closes change links, only added servers a pool, only  *)
(* calls of a manager its servers, only scripts and publishes headers.     *)
LEMMA DriverTypeStep == DriverTypeOK /\ [DriverNext]_driverVars => DriverTypeOK'
  <1> SUFFICES ASSUME DriverTypeOK, [DriverNext]_driverVars PROVE DriverTypeOK'
    OBVIOUS
  <1>1. ASSUME UNCHANGED <<server, pool, known, headers, header, cached, gone, published>>,
               context' \in BOOLEAN
        PROVE  DriverTypeOK'
    BY <1>1 DEF DriverTypeOK
  <1>2. context \in BOOLEAN
    BY DEF DriverTypeOK
  <1>3. CASE ContextChanges
    BY <1>1, <1>2, <1>3 DEF ContextChanges, stores, headerVars
  <1>4. ASSUME NEW l \in Links, NEW s \in MysqlServers \cup {Nothing},
               server' = [server EXCEPT ![l] = s], UNCHANGED <<context, pool, known, headerVars>>
        PROVE  DriverTypeOK'
    BY <1>4 DEF DriverTypeOK, headerVars
  <1>5. ASSUME NEW l \in Links, NEW call \in ConnectCalls, NEW s \in MysqlServers,
               NEW result \in Results \cup {"null"}, NEW args \in ConnectArgs(s),
               MysqliConnect(l, call, s, args, result)
        PROVE  DriverTypeOK'
    <2>1. server' = [server EXCEPT ![l] = IF result = "ok" THEN s ELSE Nothing]
      BY <1>5 DEF MysqliConnect
    <2> QED  BY <1>4, <1>5, <2>1 DEF MysqliConnect
  <1>6. ASSUME NEW l \in Links, MysqliClose(l) PROVE DriverTypeOK'
    BY <1>4, <1>6 DEF MysqliClose
  <1>7. ASSUME UNCHANGED <<context, stores, headerVars>> PROVE DriverTypeOK'
    BY <1>1, <1>2, <1>7 DEF stores, headerVars
  <1>8. ASSUME NEW p \in Pools, NEW s \in Servers, AddServer(p, s) PROVE DriverTypeOK'
    <2>1. pool \in [Pools -> SUBSET Servers] /\ pool' = [pool EXCEPT ![p] = pool[p] \cup {s}]
      BY <1>8 DEF AddServer, DriverTypeOK
    <2>2. pool[p] \cup {s} \in SUBSET Servers
      BY <2>1
    <2>3. pool' \in [Pools -> SUBSET Servers]
      BY <2>1, <2>2, Zenon
    <2> QED  BY <1>8, <2>3 DEF AddServer, DriverTypeOK, headerVars
  <1>9. ASSUME NEW g \in Managers, NEW found \in SUBSET Servers, NEW to,
               NEW result \in Results, ManagerCall(g, found, to, result)
        PROVE  DriverTypeOK'
    <2>1. /\ known \in [Managers -> SUBSET Servers]
          /\ known' = [known EXCEPT ![g] = found]
      BY <1>9 DEF ManagerCall, DriverTypeOK
    <2>2. known' \in [Managers -> SUBSET Servers]
      BY <2>1, Zenon
    <2> QED  BY <1>9, <2>2 DEF ManagerCall, DriverTypeOK, headerVars
  <1>10. ASSUME NEW m \in Messages, NEW t \in Tables \cup {Nothing}, SetHeaders(m, t)
         PROVE  DriverTypeOK'
    <2>1. cached' \in [Messages -> SUBSET SW8]
      <3>1. cached \in [Messages -> SUBSET SW8] /\ cached' = [cached EXCEPT ![m] = {}]
        BY <1>10 DEF SetHeaders, DriverTypeOK
      <3> QED  BY <3>1, Zenon
    <2>2. headers' \in [Messages -> AllTables \cup {Nothing}]
      BY <1>10 DEF SetHeaders, DriverTypeOK, AllTables
    <2>3. gone' \subseteq Messages
      BY <1>10 DEF SetHeaders, DriverTypeOK
    <2> QED  BY <1>10, <2>1, <2>2, <2>3 DEF SetHeaders, DriverTypeOK, stores
  <1>11. ASSUME NEW m \in Messages, NEW s \in Servers, NEW reachable \in BOOLEAN,
                NEW carried \in SUBSET SW8, NEW result \in Results,
                Publish(m, s, reachable, carried, result)
         PROVE  DriverTypeOK'
    <2>1. /\ published' \in 0 .. MaxSpans
          /\ headers' \in [Messages -> AllTables \cup {Nothing}]
          /\ header' \in [AllTables -> SW8]
      <3>1. CASE context
        <4>1. /\ published < MaxSpans /\ published' = published + 1
              /\ Inject(m, published') \/ UNCHANGED <<headers, header>>
          BY <1>11, <3>1 DEF Publish
        <4>2. published' \in 0 .. MaxSpans /\ published' \in SW8
          <5>1. MaxSpans \in Nat /\ published \in 0 .. MaxSpans
            BY DriverAssumption DEF DriverTypeOK
          <5>2. published' \in 1 .. MaxSpans
            BY <4>1, <5>1
          <5> QED  BY <5>1, <5>2 DEF SW8
        <4>3. CASE Inject(m, published')
          <5> DEFINE t == IF headers[m] = Nothing THEN m ELSE headers[m]
          <5>1. t \in AllTables
            BY DEF DriverTypeOK, AllTables
          <5>2. /\ headers' = [headers EXCEPT ![m] = t]
                /\ header' = [header EXCEPT ![t] = published']
            BY <4>3 DEF Inject
          <5> HIDE DEF t
          <5> QED  BY <4>2, <5>1, <5>2 DEF DriverTypeOK
        <4>4. CASE UNCHANGED <<headers, header>>
          BY <4>2, <4>4 DEF DriverTypeOK
        <4> QED  BY <4>1, <4>3, <4>4
      <3>2. CASE ~context
        BY <1>11, <3>2 DEF Publish, DriverTypeOK
      <3> QED  BY <3>1, <3>2
    <2>2. cached' \in [Messages -> SUBSET SW8]
      <3>1. cached \in [Messages -> SUBSET SW8]
        BY DEF DriverTypeOK
      <3>2. \E c \in SUBSET SW8 : cached' = [cached EXCEPT ![m] = c]
        <4>1. CASE cached' = [cached EXCEPT ![m] = carried]
          BY <4>1, Zenon
        <4>2. CASE cached' = [cached EXCEPT ![m] =
                                 IF headers'[m] = headers[m] THEN cached[m] ELSE {}]
          <5> DEFINE c == IF headers'[m] = headers[m] THEN cached[m] ELSE {}
          <5>1. c \in SUBSET SW8
            BY <3>1
          <5> QED  BY <4>2, <5>1, Zenon
        <4> QED  BY <1>11, <4>1, <4>2 DEF Publish, GoesOut
      <3> QED  BY <3>1, <3>2, Zenon
    <2>3. gone' \subseteq Messages /\ UNCHANGED <<context, stores>>
      BY <1>11 DEF Publish, GoesOut, DriverTypeOK
    <2> QED  BY <2>1, <2>2, <2>3 DEF DriverTypeOK, stores
  <1>12. CASE UNCHANGED driverVars
    BY <1>7, <1>12 DEF driverVars
  <1> QED
    BY <1>3, <1>5, <1>6, <1>7, <1>8, <1>9, <1>10, <1>11, <1>12
    DEF DriverNext, MysqliQuery, MemcachedCall, PredisCall

(* Only scripts and publishes touch what messages keep.                    *)
LEMMA KeepsOnlyGoneStep ==
  ASSUME DriverTypeOK, KeepsOnlyGone, [DriverNext]_driverVars
  PROVE  KeepsOnlyGone'
  <1>1. ASSUME UNCHANGED headerVars PROVE KeepsOnlyGone'
    BY <1>1 DEF headerVars, KeepsOnlyGone
  <1>2. ASSUME NEW m \in Messages, NEW t, SetHeaders(m, t)
        PROVE  KeepsOnlyGone'
    <2>1. /\ headers' = [headers EXCEPT ![m] = t] /\ cached' = [cached EXCEPT ![m] = {}]
          /\ gone' = gone \ {m}
      BY <1>2 DEF SetHeaders
    <2> SUFFICES ASSUME NEW n \in Messages, cached'[n] # {}, headers'[n] # Nothing
                 PROVE  n \in gone'
      BY DEF KeepsOnlyGone
    <2>2. n # m
      BY <2>1 DEF DriverTypeOK
    <2> QED  BY <2>1, <2>2 DEF DriverTypeOK, KeepsOnlyGone
  <1>3. ASSUME NEW m \in Messages, NEW s \in Servers, NEW reachable \in BOOLEAN,
               NEW carried, NEW result \in Results, Publish(m, s, reachable, carried, result)
        PROVE  KeepsOnlyGone'
    <2>1. GoesOut(m, carried, result)
      BY <1>3 DEF Publish
    <2>2. \A n \in Messages \ {m} : headers'[n] = headers[n]
      <3>1. CASE Inject(m, published')
        BY <3>1 DEF Inject, DriverTypeOK
      <3>2. CASE UNCHANGED headers
        BY <3>2
      <3> QED  BY <1>3, <3>1, <3>2 DEF Publish
    <2> QED  BY <2>1, <2>2, PublishKeepsGone
  <1>4. CASE ContextChanges
    BY <1>1, <1>4 DEF ContextChanges
  <1>5. ASSUME NEW l \in Links,
               \/ \E call \in ConnectCalls, s \in MysqlServers, result \in Results \cup {"null"} :
                     \E args \in ConnectArgs(s) : MysqliConnect(l, call, s, args, result)
               \/ \E result \in Results : MysqliQuery(l, result)
               \/ MysqliClose(l)
        PROVE  KeepsOnlyGone'
    BY <1>1, <1>5 DEF MysqliConnect, MysqliQuery, MysqliClose
  <1>6. ASSUME NEW q \in Pools,
               \/ \E s \in Servers : AddServer(q, s)
               \/ \E name \in MemcachedMethods, k \in Keys, result \in Results :
                     MemcachedCall(q, name, k, result)
        PROVE  KeepsOnlyGone'
    BY <1>1, <1>6 DEF AddServer, MemcachedCall
  <1>7. ASSUME NEW s, NEW connection, NEW command, NEW result,
               PredisCall(s, connection, command, result)
        PROVE  KeepsOnlyGone'
    BY <1>1, <1>7 DEF PredisCall
  <1>8. ASSUME NEW g, NEW found, NEW to, NEW result, ManagerCall(g, found, to, result)
        PROVE  KeepsOnlyGone'
    BY <1>1, <1>8 DEF ManagerCall
  <1>9. CASE UNCHANGED driverVars
    BY <1>1, <1>9 DEF driverVars
  <1> QED
    BY <1>2, <1>3, <1>4, <1>5, <1>6, <1>7, <1>8, <1>9 DEF DriverNext

LEMMA DriverStep == DriverInv /\ [DriverNext]_driverVars => DriverInv'
  <1> SUFFICES ASSUME DriverInv, [DriverNext]_driverVars PROVE DriverInv'
    OBVIOUS
  <1>1. DriverTypeOK /\ DriverTypeOK' /\ KeepsOnlyGone /\ KeepsOnlyGone'
    BY DriverTypeStep, KeepsOnlyGoneStep DEF DriverInv
  <1>2. PeerIsServer' /\ HeaderOfOwnSpan'
    <2>1. NoCall => PeerIsServer' /\ HeaderOfOwnSpan'
      BY NoCallSays
    <2>2. ContextChanges => NoCall
      BY DEF ContextChanges
    <2>3. \A l \in Links : MysqliClose(l) => NoCall
      BY DEF MysqliClose
    <2>4. \A p \in Pools, s \in Servers : AddServer(p, s) => NoCall
      BY DEF AddServer
    <2>5. \A m \in Messages, t \in Tables \cup {Nothing} : SetHeaders(m, t) => NoCall
      BY DEF SetHeaders
    <2>6. CASE UNCHANGED driverVars
      BY <2>6 DEF driverVars, headerVars, stores, DriverInv, PeerIsServer, HeaderOfOwnSpan,
           Vague, Guessed, Portless
    <2> QED
      BY <1>1, <2>1, <2>2, <2>3, <2>4, <2>5, <2>6, ConnectSays, QuerySays, MemcachedSays,
         PredisSays, ManagerSays, PublishSays
      DEF DriverNext
  <1> QED  BY <1>1, <1>2 DEF DriverInv

LEMMA DriverInvHolds == DriverSpec => []DriverInv
  BY InitDriver, DriverStep, PTL DEF DriverSpec

(* For any hosts, ports, links, pools and managers, the span of a call     *)
(* names the servers of the call, whatever the link, the pool or the       *)
(* driver was connected to before, but for calls whose servers cannot be   *)
(* known, connects that fail, and MySQL servers that do not listen on      *)
(* 3306 (get_peer, get_peer_by_this, get_peer_by_parameters).              *)
THEOREM PeersAreServers == DriverSpec => []PeerIsServer
  BY DriverInvHolds, PTL DEF DriverInv

(* For any messages, and any tables they share, a message that has not     *)
(* gone out with its headers before goes out with the sw8 of the span of   *)
(* its own publish (inject_sw_header).                                     *)
THEOREM HeadersAreOwn == DriverSpec => []HeaderOfOwnSpan
  BY DriverInvHolds, PTL DEF DriverInv
=============================================================================
