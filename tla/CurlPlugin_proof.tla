--------------------------- MODULE CurlPlugin_proof ---------------------------
(***************************************************************************)
(* Theorems about CurlPlugin, for any handles, header arrays and number of *)
(* requests.                                                               *)
(***************************************************************************)
EXTENDS CurlPlugin, TLAPS

(* What every state satisfies of the header lists: the sw8 header is never *)
(* among the remembered ones, so that an injection adds it to none; and    *)
(* what is remembered, and set, is the script's as long as no injection    *)
(* has taken it out and the hooks have seen where it came from.            *)
HeadersOf(h) ==
    /\ headers[h].sw = <<>>
    /\ Len(wire[h].sw) <= 1
    /\ h \notin used => headers[h] = Empty
    /\ h \in live /\ first[h] =>
          headers[h].user = given[h] /\ wire[h].user = given[h]

Live ==
    /\ live \subseteq used
    /\ attached \subseteq live
    /\ running \subseteq attached /\ over \subseteq attached
    /\ info.handles \subseteq live

(* Nothing is left of a handle that is gone but its entry in CURL_HEADERS.  *)
Gone == \A h \in Handles \ live : given[h] = None /\ wire[h] = Empty

SentOf(h) ==
    /\ Len(sent[h].list.sw) <= 1
    /\ sent[h].span # 0 /\ scheme[h] = "http" => sent[h].list.sw = <<sent[h].span>>
    /\ sent[h].first => sent[h].list.user = sent[h].set

IInv ==
    /\ TypeOK
    /\ Live
    /\ Gone
    /\ \A h \in Handles : HeadersOf(h) /\ SentOf(h)
    /\ MultiSpansKept

LEMMA InitIInv == Init => IInv
  BY CurlAssumption DEF Init, IInv, TypeOK, Live, Gone, HeadersOf, SentOf, MultiSpansKept,
     Lists, Empty, NoInfo, NoTransfer

-----------------------------------------------------------------------------
(* A list without sw8 is given one. *)
LEMMA OneHeader ==
  ASSUME NEW u \in Headers \cup {None}, NEW c \in 1 .. MaxRequests
  PROVE  /\ [user |-> u, sw |-> <<c>>] \in Lists
         /\ [[user |-> u, sw |-> <<>>] EXCEPT !.sw = Append(@, c)] = [user |-> u, sw |-> <<c>>]
  <1>1. <<c>> \in Seq(1 .. MaxRequests) /\ Append(<<>>, c) = <<c>>
    OBVIOUS
  <1>2. [user |-> u, sw |-> <<c>>] \in Lists
    BY <1>1, Zenon DEF Lists
  <1>3. [[user |-> u, sw |-> <<>>] EXCEPT !.sw = Append(@, c)]
          = [user |-> u, sw |-> Append(<<>>, c)]
    OBVIOUS
  <1> QED  BY <1>1, <1>2, <1>3, Zenon

(* inject_sw_header, in a request with a context. *)
LEMMA InjectOnto ==
  ASSUME IInv, context # 0, NEW g \in Handles
  PROVE  /\ WithHeader(headers[g]) = [user |-> headers[g].user, sw |-> <<context>>]
         /\ WithHeader(headers[g]) \in Lists
  <1>1. headers[g] \in Lists /\ headers[g].sw = <<>> /\ context \in 1 .. MaxRequests
    BY DEF IInv, TypeOK, HeadersOf
  <1>2. headers[g] = [user |-> headers[g].user, sw |-> <<>>]
    BY <1>1 DEF Lists
  <1>3. headers[g].user \in Headers \cup {None}
    BY <1>1 DEF Lists
  <1>4. WithHeader(headers[g])
          = [[user |-> headers[g].user, sw |-> <<>>] EXCEPT !.sw = Append(@, context)]
    BY <1>2, Zenon DEF WithHeader
  <1> QED  BY <1>1, <1>3, <1>4, OneHeader

LEMMA InjectTypes ==
  ASSUME IInv, NEW hs \in SUBSET Handles, Inject(hs), hs # {} => context # 0
  PROVE  /\ headers' \in [Handles -> Lists]
         /\ wire' \in [Handles -> Lists]
         /\ first' \in [Handles -> BOOLEAN]
  <1>1. \A g \in hs : WithHeader(headers[g]) \in Lists
    BY InjectOnto
  <1>2. Empty \in Lists
    BY DEF Empty, Lists
  <1> QED  BY <1>1, <1>2 DEF Inject, IInv, TypeOK

LEMMA InjectKeeps ==
  ASSUME IInv, NEW hs \in SUBSET Handles, Inject(hs), hs # {} => context # 0,
         NEW h \in Handles
  PROVE  /\ headers'[h] = IF h \in hs THEN Empty ELSE headers[h]
         /\ wire'[h] = IF h \in hs
                       THEN [user |-> headers[h].user, sw |-> <<context>>]
                       ELSE wire[h]
         /\ first'[h] <=> first[h] /\ h \notin hs
  BY InjectOnto DEF Inject

(* A transfer that starts. *)
LEMMA TransferFields ==
  ASSUME NEW h, NEW traced, NEW closed
  PROVE  /\ Transfer(h, traced, closed).span = IF traced THEN context ELSE 0
         /\ Transfer(h, traced, closed).closed = (traced /\ closed)
  BY DEF Transfer

LEMMA TransferSound ==
  ASSUME IInv, NEW hs \in SUBSET Handles, Inject(hs), hs # {} => context # 0,
         NEW h \in live, NEW traced \in BOOLEAN, NEW closed \in BOOLEAN,
         traced /\ scheme[h] = "http" => h \in hs,
         sent'[h] = Transfer(h, traced, closed), UNCHANGED scheme
  PROVE  /\ SentOf(h)'
         /\ sent'[h] \in [list : Lists, set : Headers \cup {None}, first : BOOLEAN,
                          span : 0 .. MaxRequests, closed : BOOLEAN]
  <1> USE DEF IInv, TypeOK
  <1>1. h \in Handles
    OBVIOUS
  <1>2. /\ wire' \in [Handles -> Lists]
        /\ wire'[h] = IF h \in hs
                      THEN [user |-> headers[h].user, sw |-> <<context>>]
                      ELSE wire[h]
    BY <1>1, InjectKeeps, InjectTypes
  <1>3. /\ sent'[h].list = wire'[h] /\ sent'[h].set = given[h] /\ sent'[h].first = first[h]
        /\ sent'[h].span = (IF traced THEN context ELSE 0)
        /\ sent'[h].closed = (traced /\ closed)
    BY DEF Transfer
  <1>4. Len(<<context>>) = 1
    OBVIOUS
  <1>5. Len(wire'[h].sw) <= 1
    BY <1>1, <1>2, <1>4 DEF HeadersOf
  <1>6. first[h] => wire'[h].user = given[h]
    BY <1>1, <1>2 DEF HeadersOf
  <1>7. traced /\ scheme[h] = "http" => wire'[h].sw = <<context>>
    BY <1>2
  <1>8. Transfer(h, traced, closed)
            \in [list : Lists, set : Headers \cup {None}, first : BOOLEAN,
                 span : 0 .. MaxRequests, closed : BOOLEAN]
    BY <1>1, <1>2, CurlAssumption DEF Transfer
  <1> QED  BY <1>3, <1>5, <1>6, <1>7, <1>8 DEF SentOf

Same(h) ==
    /\ headers'[h] = headers[h] /\ wire'[h] = wire[h]
    /\ given'[h] = given[h] /\ first'[h] = first[h]
    /\ sent'[h] = sent[h] /\ scheme'[h] = scheme[h]

LEMMA SameKeeps ==
  ASSUME NEW h \in Handles, HeadersOf(h), SentOf(h), Same(h),
         h \in used => h \in used', h \in live' => h \in live
  PROVE  HeadersOf(h)' /\ SentOf(h)'
  BY DEF Same, HeadersOf, SentOf

-----------------------------------------------------------------------------
LEMMA NoTransferIs ==
  /\ Empty \in Lists /\ Empty.sw = <<>> /\ Empty.user = None /\ Len(<<>>) = 0
  /\ NoTransfer \in [list : Lists, set : Headers \cup {None}, first : BOOLEAN,
                     span : 0 .. MaxRequests, closed : BOOLEAN]
  /\ NoTransfer.list = Empty /\ NoTransfer.set = None /\ NoTransfer.span = 0
  <1>1. Empty \in Lists /\ Empty.sw = <<>> /\ Empty.user = None /\ Len(<<>>) = 0
    BY DEF Empty, Lists
  <1>2. NoTransfer \in [list : Lists, set : Headers \cup {None}, first : BOOLEAN,
                       span : 0 .. MaxRequests, closed : BOOLEAN]
    BY <1>1, CurlAssumption DEF NoTransfer
  <1> QED  BY <1>1, <1>2 DEF NoTransfer

(* Handles that are gone. *)
LEMMA DropKeeps ==
  ASSUME IInv, NEW hs \in SUBSET Handles, Drop(hs), UNCHANGED <<used, scheme>>,
         \A g \in Handles : headers'[g] \in {headers[g], Empty},
         \A g \in Handles \ hs : headers'[g] = headers[g]
  PROVE  /\ live' \subseteq Handles
         /\ given' \in [Handles -> Headers \cup {None}]
         /\ first' \in [Handles -> BOOLEAN]
         /\ wire' \in [Handles -> Lists]
         /\ sent' \in [Handles -> [list : Lists, set : Headers \cup {None}, first : BOOLEAN,
                                   span : 0 .. MaxRequests, closed : BOOLEAN]]
         /\ \A g \in Handles : HeadersOf(g)' /\ SentOf(g)'
  <1>1. /\ live' \subseteq Handles
        /\ given' \in [Handles -> Headers \cup {None}]
        /\ first' \in [Handles -> BOOLEAN]
        /\ wire' \in [Handles -> Lists]
    BY NoTransferIs DEF Drop, IInv, TypeOK
  <1>2. sent' \in [Handles -> [list : Lists, set : Headers \cup {None}, first : BOOLEAN,
                              span : 0 .. MaxRequests, closed : BOOLEAN]]
    <2> DEFINE Kind == [list : Lists, set : Headers \cup {None}, first : BOOLEAN,
                        span : 0 .. MaxRequests, closed : BOOLEAN]
    <2>1. NoTransfer \in Kind /\ sent \in [Handles -> Kind]
      BY NoTransferIs DEF IInv, TypeOK
    <2> HIDE DEF Kind
    <2>2. sent' \in [Handles -> Kind]
      BY <2>1 DEF Drop
    <2> QED  BY <2>2 DEF Kind
  <1>3. ASSUME NEW g \in Handles
        PROVE  HeadersOf(g)' /\ SentOf(g)'
    <2>1. CASE g \in hs
      <3>1. /\ wire'[g] = Empty /\ sent'[g] = NoTransfer /\ g \notin live'
            /\ headers'[g] \in {headers[g], Empty} /\ used' = used
        BY <2>1 DEF Drop
      <3>2. headers[g].sw = <<>> /\ (g \notin used => headers[g] = Empty)
        BY DEF IInv, HeadersOf
      <3> QED  BY <3>1, <3>2, NoTransferIs DEF HeadersOf, SentOf
    <2>2. CASE g \notin hs
      <3>1. Same(g) /\ (g \in live' => g \in live)
        BY <2>2 DEF Drop, Same, IInv, TypeOK
      <3> QED  BY <3>1, SameKeeps DEF IInv
    <2> QED  BY <2>1, <2>2
  <1> QED  BY <1>1, <1>2, <1>3

LEMMA RequestStep == IInv /\ NextRequest => IInv'
  <1> SUFFICES ASSUME IInv, NextRequest
      PROVE  IInv'
    OBVIOUS
  <1>1. /\ request' \in 0 .. MaxRequests /\ context' \in 0 .. MaxRequests
        /\ attached = {} /\ running = {} /\ over = {} /\ live \in SUBSET Handles
        /\ info.handles = {}
        /\ Drop(live) /\ UNCHANGED <<used, scheme, headers, attached, running, over, info>>
    BY CurlAssumption DEF NextRequest, IInv, TypeOK, Live, multiVars, NoInfo
  <1>2. /\ live' \subseteq Handles
        /\ given' \in [Handles -> Headers \cup {None}]
        /\ first' \in [Handles -> BOOLEAN]
        /\ wire' \in [Handles -> Lists]
        /\ sent' \in [Handles -> [list : Lists, set : Headers \cup {None}, first : BOOLEAN,
                                  span : 0 .. MaxRequests, closed : BOOLEAN]]
        /\ \A g \in Handles : HeadersOf(g)' /\ SentOf(g)'
    BY <1>1, DropKeeps
  <1>3. TypeOK'
    BY <1>1, <1>2 DEF IInv, TypeOK
  <1>4. Live' /\ Gone'
    BY <1>1 DEF IInv, Live, Gone, Drop
  <1>5. MultiSpansKept'
    BY <1>1 DEF MultiSpansKept
  <1> QED  BY <1>2, <1>3, <1>4, <1>5 DEF IInv

LEMMA HandleSteps ==
  ASSUME IInv, NEW h \in Handles,
         \/ CurlInit(h) \/ CurlClose(h) \/ Unset(h) \/ CurlReset(h)
         \/ \E v \in Headers : SetHeaders(h, v)
         \/ \E copy \in Handles : CurlCopy(h, copy)
  PROVE  IInv'
  <1> USE DEF IInv, handleVars, multiVars
  <1>1. CASE CurlInit(h)
    <2>1. TypeOK' /\ Live'
      BY <1>1 DEF CurlInit, TypeOK, Live
    <2>2. HeadersOf(h)' /\ SentOf(h)'
      <3>1. /\ used' = used \cup {h} /\ headers' = headers /\ given' = given
            /\ wire' = wire /\ sent' = sent /\ scheme' = scheme
            /\ first'[h] <=> h \notin used
            /\ h \notin live
        BY <1>1 DEF CurlInit, TypeOK
      <3>2. HeadersOf(h) /\ SentOf(h) /\ given[h] = None /\ wire[h] = Empty
        BY <3>1 DEF Gone
      <3>3. headers[h].sw = <<>> /\ (h \notin used => headers[h] = Empty)
        BY <3>2 DEF HeadersOf
      <3> QED  BY <3>1, <3>2, <3>3, NoTransferIs DEF HeadersOf, SentOf
    <2>3. ASSUME NEW g \in Handles, g # h
          PROVE  HeadersOf(g)' /\ SentOf(g)'
      BY <1>1, <2>3, SameKeeps DEF CurlInit, Same, TypeOK
    <2>4. MultiSpansKept'
      BY <1>1 DEF CurlInit, MultiSpansKept, TypeOK, Live
    <2>5. Gone'
      BY <1>1 DEF CurlInit, Gone
    <2> QED  BY <2>1, <2>2, <2>3, <2>4, <2>5
  <1>2. CASE CurlClose(h) \/ Unset(h)
    <2> HIDE DEF IInv
    <2>1. /\ h \in live /\ h \notin attached \cup info.handles /\ Drop({h})
          /\ UNCHANGED <<request, context, used, scheme, attached, running, over, info>>
          /\ headers' = headers \/ headers' = [headers EXCEPT ![h] = Empty]
      BY <1>2 DEF CurlClose, Unset
    <2>2. /\ \A g \in Handles : headers'[g] \in {headers[g], Empty}
          /\ \A g \in Handles \ {h} : headers'[g] = headers[g]
          /\ headers' \in [Handles -> Lists]
      BY <2>1, NoTransferIs DEF IInv, TypeOK
    <2>3. /\ live' \subseteq Handles
          /\ given' \in [Handles -> Headers \cup {None}]
          /\ first' \in [Handles -> BOOLEAN]
          /\ wire' \in [Handles -> Lists]
          /\ sent' \in [Handles -> [list : Lists, set : Headers \cup {None}, first : BOOLEAN,
                                    span : 0 .. MaxRequests, closed : BOOLEAN]]
          /\ \A g \in Handles : HeadersOf(g)' /\ SentOf(g)'
      BY <2>1, <2>2, DropKeeps
    <2>4. TypeOK' /\ Live'
      <3>1. info.handles \subseteq live' /\ attached \subseteq live' /\ live' \subseteq used
        BY <2>1 DEF Drop, IInv, Live
      <3> QED  BY <2>1, <2>2, <2>3, <3>1 DEF IInv, TypeOK, Live
    <2>5. MultiSpansKept'
      <3>1. \A g \in running \cup over : sent'[g] = sent[g]
        BY <2>1 DEF Drop, IInv, TypeOK
      <3> QED  BY <2>1, <3>1 DEF IInv, MultiSpansKept
    <2>6. Gone'
      BY <2>1 DEF Drop, Gone, IInv
    <2> QED  BY <2>3, <2>4, <2>5, <2>6 DEF IInv
  <1>3. CASE CurlReset(h)
    <2>1. TypeOK' /\ Live' /\ Gone'
      BY <1>3, NoTransferIs DEF CurlReset, TypeOK, Live, Gone
    <2>2. HeadersOf(h)' /\ SentOf(h)'
      <3>1. /\ wire'[h] = Empty /\ given'[h] = None
            /\ first'[h] <=> first[h] /\ given[h] = None
            /\ UNCHANGED <<live, used, scheme, headers, sent>>
        BY <1>3 DEF CurlReset, TypeOK
      <3>2. HeadersOf(h) /\ SentOf(h)
        OBVIOUS
      <3> QED  BY <3>1, <3>2, NoTransferIs DEF HeadersOf, SentOf
    <2>3. ASSUME NEW g \in Handles, g # h
          PROVE  HeadersOf(g)' /\ SentOf(g)'
      BY <1>3, <2>3, SameKeeps DEF CurlReset, Same, TypeOK
    <2>4. MultiSpansKept'
      BY <1>3 DEF CurlReset, MultiSpansKept
    <2> QED  BY <2>1, <2>2, <2>3, <2>4
  <1>4. ASSUME NEW v \in Headers, SetHeaders(h, v)
        PROVE  IInv'
    <2>1. [user |-> v, sw |-> <<>>] \in Lists /\ Len(<<>>) = 0
      BY DEF Lists
    <2>2. TypeOK' /\ Live' /\ Gone'
      BY <1>4, <2>1 DEF SetHeaders, TypeOK, Live, Gone
    <2>3. HeadersOf(h)' /\ SentOf(h)'
      BY <1>4, <2>1 DEF SetHeaders, HeadersOf, SentOf, TypeOK, Live
    <2>4. ASSUME NEW g \in Handles, g # h
          PROVE  HeadersOf(g)' /\ SentOf(g)'
      BY <1>4, <2>4, SameKeeps DEF SetHeaders, Same, TypeOK
    <2>5. MultiSpansKept'
      BY <1>4 DEF SetHeaders, MultiSpansKept
    <2> QED  BY <2>2, <2>3, <2>4, <2>5
  <1>5. ASSUME NEW c \in Handles, CurlCopy(h, c)
        PROVE  IInv'
    <2>1. TypeOK' /\ Live' /\ Gone'
      BY <1>5 DEF CurlCopy, TypeOK, Live, Gone
    <2>2. HeadersOf(c)' /\ SentOf(c)'
      <3>1. /\ used' = used \cup {c} /\ headers' = headers /\ sent' = sent /\ scheme' = scheme
            /\ wire'[c] = wire[h] /\ given'[c] = given[h]
            /\ first'[c] <=> c \notin used /\ first[h] /\ given[h] = None
            /\ h \in live
        BY <1>5 DEF CurlCopy, TypeOK
      <3>2. HeadersOf(c) /\ HeadersOf(h) /\ SentOf(c)
        OBVIOUS
      <3> QED  BY <3>1, <3>2, NoTransferIs DEF HeadersOf, SentOf
    <2>3. ASSUME NEW g \in Handles, g # c
          PROVE  HeadersOf(g)' /\ SentOf(g)'
      BY <1>5, <2>3, SameKeeps DEF CurlCopy, Same, TypeOK
    <2>4. MultiSpansKept'
      BY <1>5 DEF CurlCopy, MultiSpansKept
    <2> QED  BY <2>1, <2>2, <2>3, <2>4
  <1> QED  BY <1>1, <1>2, <1>3, <1>4, <1>5

LEMMA MultiSteps ==
  ASSUME IInv, MultiClose \/ \E h \in Handles : MultiAdd(h) \/ MultiRemove(h)
  PROVE  IInv'
  <1> USE DEF IInv, handleVars, multiVars
  <1>1. TypeOK' /\ Live'
    <2>1. ASSUME NEW h \in Handles, MultiAdd(h)
          PROVE  TypeOK' /\ Live'
      BY <2>1 DEF MultiAdd, TypeOK, Live
    <2>2. ASSUME NEW h \in Handles, MultiRemove(h)
          PROVE  TypeOK' /\ Live'
      BY <2>2 DEF MultiRemove, TypeOK, Live
    <2>3. CASE MultiClose
      BY <2>3 DEF MultiClose, TypeOK, Live, NoInfo
    <2> QED  BY <2>1, <2>2, <2>3
  <1>2. \A g \in Handles : HeadersOf(g)' /\ SentOf(g)'
    BY SameKeeps DEF MultiAdd, MultiRemove, MultiClose, Same
  <1>3. MultiSpansKept'
    BY DEF MultiAdd, MultiRemove, MultiClose, MultiSpansKept, TypeOK
  <1>4. Gone'
    BY DEF MultiAdd, MultiRemove, MultiClose, Gone
  <1> QED  BY <1>1, <1>2, <1>3, <1>4

(* What an injection leaves of the header lists. *)
LEMMA InjectHeaders ==
  ASSUME IInv, NEW hs \in SUBSET Handles, Inject(hs), hs # {} => context # 0,
         UNCHANGED <<live, used, given>>, NEW h \in Handles
  PROVE  HeadersOf(h)'
  <1>1. /\ headers'[h] = IF h \in hs THEN Empty ELSE headers[h]
        /\ wire'[h] = IF h \in hs
                      THEN [user |-> headers[h].user, sw |-> <<context>>]
                      ELSE wire[h]
        /\ first'[h] <=> first[h] /\ h \notin hs
    BY InjectKeeps
  <1>2. HeadersOf(h)
    BY DEF IInv
  <1>3. Empty.sw = <<>> /\ Len(<<context>>) = 1
    BY DEF Empty
  <1> QED  BY <1>1, <1>2, <1>3 DEF HeadersOf

LEMMA InjectGone ==
  ASSUME IInv, NEW hs \in SUBSET live, Inject(hs), UNCHANGED <<live, given>>
  PROVE  Gone'
  BY DEF Inject, IInv, TypeOK, Gone

LEMMA ExecStep ==
  ASSUME IInv, NEW h \in Handles, CurlExec(h)
  PROVE  IInv'
  <1> DEFINE traced == context # 0 /\ scheme[h] # "bad"
             hs == IF traced THEN Http({h}) ELSE {}
  <1> USE DEF IInv, TypeOK, multiVars
  <1>1. /\ h \in live \ attached
        /\ Inject(hs)
        /\ sent' = [sent EXCEPT ![h] = Transfer(h, traced, TRUE)]
        /\ UNCHANGED <<request, context, live, used, scheme, given, attached, running, over, info>>
    BY DEF CurlExec
  <1>2. hs \in SUBSET Handles /\ (hs # {} => context # 0)
    BY <1>1 DEF Http
  <1>3. traced /\ scheme[h] = "http" => h \in hs
    BY DEF Http
  <1> HIDE DEF hs, traced
  <1>4. traced \in BOOLEAN
    BY DEF traced
  <1>5. sent'[h] = Transfer(h, traced, TRUE) /\ \A g \in Handles : g # h => sent'[g] = sent[g]
    BY <1>1
  <1>6. /\ SentOf(h)'
        /\ sent'[h] \in [list : Lists, set : Headers \cup {None}, first : BOOLEAN,
                         span : 0 .. MaxRequests, closed : BOOLEAN]
    <2> HIDE DEF IInv, TypeOK
    <2> QED  BY <1>1, <1>2, <1>3, <1>4, <1>5, TransferSound
  <1>7. \A g \in Handles : HeadersOf(g)'
    BY <1>1, <1>2, InjectHeaders
  <1>8. \A g \in Handles : SentOf(g)'
    BY <1>1, <1>5, <1>6 DEF SentOf
  <1>9. /\ headers' \in [Handles -> Lists]
        /\ wire' \in [Handles -> Lists]
        /\ first' \in [Handles -> BOOLEAN]
    BY <1>1, <1>2, InjectTypes
  <1>10. TypeOK' /\ Live'
    <2> DEFINE Kind == [list : Lists, set : Headers \cup {None}, first : BOOLEAN,
                        span : 0 .. MaxRequests, closed : BOOLEAN]
    <2>1. sent'[h] \in Kind /\ sent \in [Handles -> Kind]
      BY <1>6
    <2> HIDE DEF Kind
    <2>2. sent' \in [Handles -> Kind]
      BY <1>1, <2>1
    <2> QED  BY <1>1, <1>9, <2>2 DEF Live, Kind
  <1>11. MultiSpansKept'
    <2>1. \A g \in running' \cup over' : sent'[g] = sent[g] /\ g \in running \cup over
      <3>1. \A g \in running \cup over : g \in Handles /\ g # h
        BY <1>1
      <3> QED  BY <1>1, <1>5, <3>1, Zenon
    <2>2. running' = running /\ info' = info
      BY <1>1
    <2>3. MultiSpansKept
      OBVIOUS
    <2> HIDE DEF IInv, TypeOK
    <2> QED  BY <2>1, <2>2, <2>3 DEF MultiSpansKept
  <1>12. Gone'
    <2>1. hs \in SUBSET live
      BY <1>1 DEF hs, Http
    <2> HIDE DEF IInv, TypeOK
    <2> QED  BY <1>1, <2>1, InjectGone
  <1> QED  BY <1>7, <1>8, <1>10, <1>11, <1>12

LEMMA MultiExecStep ==
  ASSUME IInv, NEW ended \in SUBSET attached, NEW ok \in BOOLEAN, MultiExec(ended, ok)
  PROVE  IInv'
  <1> DEFINE starting == attached \ (running \cup over)
             spans == IF Traceable THEN info.handles ELSE info.spans
             exec == info.handles # {} /\ (info.exec \/ Traceable)
             still == (running \cup starting) \ ended
             finish == Finish(exec, ok, still)
             closing == IF finish THEN spans \cap info.handles ELSE {}
             hs == IF Traceable THEN Http(info.handles) ELSE {}
             next == IF finish
                     THEN NoInfo
                     ELSE [info EXCEPT !.exec = @ \/ Traceable, !.spans = spans]
             Kind == [list : Lists, set : Headers \cup {None}, first : BOOLEAN,
                      span : 0 .. MaxRequests, closed : BOOLEAN]
  <1> USE DEF IInv, TypeOK
  <1>1. /\ ended \subseteq running \cup starting
        /\ Inject(hs)
        /\ running' = still /\ over' = over \cup ended
        /\ info' = next
        /\ UNCHANGED <<request, context, live, used, scheme, given, attached>>
    BY DEF MultiExec
  <1>2. \A h \in Handles :
          sent'[h] = IF h \in starting
                     THEN Transfer(h, Traceable /\ h \in info.handles, h \in closing)
                     ELSE [sent[h] EXCEPT !.closed = @ \/ h \in closing]
    BY DEF MultiExec
  <1>3. /\ Traceable \in BOOLEAN /\ finish \in BOOLEAN
        /\ Traceable => info.handles # {} /\ ~info.exec /\ context # 0
        /\ finish => still = {} /\ exec
    BY DEF Traceable, Finish
  <1>4. /\ hs \in SUBSET Handles /\ (hs # {} => context # 0)
        /\ \A h \in info.handles : Traceable /\ scheme[h] = "http" => h \in hs
    BY <1>3 DEF Http
  <1>5. /\ headers' \in [Handles -> Lists]
        /\ wire' \in [Handles -> Lists]
        /\ first' \in [Handles -> BOOLEAN]
    <2> HIDE DEF hs
    <2> QED  BY <1>1, <1>4, InjectTypes
  <1>6. \A h \in Handles : HeadersOf(h)'
    BY <1>1, <1>4, InjectHeaders
  <1>7. ASSUME NEW h \in Handles
        PROVE  SentOf(h)' /\ sent'[h] \in Kind
    <2>1. CASE h \in starting
      <3> DEFINE traced == Traceable /\ h \in info.handles
                 closed == h \in closing
      <3>1. /\ h \in live
            /\ traced \in BOOLEAN /\ closed \in BOOLEAN
            /\ sent'[h] = Transfer(h, traced, closed)
        <4>1. h \in live /\ traced \in BOOLEAN /\ closed \in BOOLEAN
          BY <1>3, <2>1 DEF Live
        <4>2. sent'[h] = Transfer(h, traced, closed)
          BY <1>2, <2>1, Zenon
        <4> QED  BY <4>1, <4>2
      <3>2. traced /\ scheme[h] = "http" => h \in hs
        BY <1>4
      <3> HIDE DEF traced, closed, hs, starting, next, IInv, TypeOK
      <3> QED  BY <1>1, <1>4, <3>1, <3>2, TransferSound
    <2>2. CASE h \notin starting
      <3>1. sent'[h] = [sent[h] EXCEPT !.closed = sent[h].closed \/ h \in closing]
        BY <1>2, <2>2
      <3>2. sent[h] \in Kind /\ SentOf(h)
        OBVIOUS
      <3> HIDE DEF closing
      <3> QED  BY <1>1, <3>1, <3>2 DEF SentOf
    <2> QED  BY <2>1, <2>2
  <1>8. sent' \in [Handles -> Kind]
    <2>1. DOMAIN sent' = Handles /\ sent' = [h \in Handles |-> sent'[h]]
      BY DEF MultiExec
    <2> HIDE DEF Kind
    <2> QED  BY <1>7, <2>1
  <1>9. TypeOK' /\ Live'
    <2>1. still \subseteq attached /\ over \cup ended \subseteq attached
      BY <1>1
    <2>2. next.handles \subseteq live
      BY <1>3 DEF NoInfo, Live
    <2>3. next \in [handles : SUBSET Handles, exec : BOOLEAN, spans : SUBSET Handles]
      BY <1>3 DEF NoInfo
    <2> HIDE DEF still, next
    <2> QED  BY <1>1, <1>5, <1>8, <2>1, <2>2, <2>3 DEF Live
  <1>10. MultiSpansKept'
    <2> SUFFICES ASSUME NEW h \in still \cup over \cup ended, sent'[h].span # 0
                 PROVE  IF sent'[h].closed
                        THEN h \notin still
                        ELSE next.exec /\ h \in next.spans /\ h \in next.handles
      BY <1>1, Zenon DEF MultiSpansKept
    <2>1. h \in Handles /\ still \subseteq running \cup starting
      BY <1>1 DEF Live
    <2>2. ~finish => /\ next.handles = info.handles /\ next.spans = spans
                     /\ next.exec = (info.exec \/ Traceable)
      OBVIOUS
    <2>3. CASE h \in starting
      <3> DEFINE traced == Traceable /\ h \in info.handles
                 closed == h \in closing
      <3>1. sent'[h] = Transfer(h, traced, closed)
        BY <1>2, <2>1, <2>3, Zenon
      <3>2. /\ sent'[h].span = IF traced THEN context ELSE 0
            /\ sent'[h].closed = (traced /\ closed)
        <4> HIDE DEF traced, closed
        <4> QED  BY <3>1, TransferFields
      <3>3. Traceable /\ h \in info.handles
        BY <3>2
      <3>4. sent'[h].closed <=> finish
        <4>1. closed <=> finish
          BY <3>3
        <4>2. traced
          BY <3>3
        <4> HIDE DEF traced, closed, finish
        <4> QED  BY <3>2, <4>1, <4>2
      <3> QED  BY <1>3, <2>2, <3>3, <3>4
    <2>4. CASE h \notin starting
      <3>1. h \in running \cup over
        BY <1>1, <2>4
      <3>2. sent'[h] = [sent[h] EXCEPT !.closed = sent[h].closed \/ h \in closing]
        BY <1>2, <2>1, <2>4
      <3>3. /\ sent'[h].span = sent[h].span
            /\ sent'[h].closed = (sent[h].closed \/ h \in closing)
        <4>1. sent[h] \in Kind
          BY <2>1
        <4> HIDE DEF closing
        <4> QED  BY <3>2, <4>1
      <3>4. CASE sent[h].closed
        BY <3>1, <3>3, <3>4, <2>4 DEF MultiSpansKept
      <3>5. CASE ~sent[h].closed
        <4>1. info.exec /\ h \in info.spans /\ h \in info.handles
          BY <3>1, <3>3, <3>5 DEF MultiSpansKept
        <4>2. spans = info.spans
          BY <1>3, <4>1
        <4>3. h \in closing <=> finish
          BY <4>1, <4>2
        <4> QED  BY <1>3, <2>2, <3>3, <3>5, <4>1, <4>2, <4>3
      <3> QED  BY <3>4, <3>5
    <2> QED  BY <2>3, <2>4
  <1>11. Gone'
    <2>1. hs \in SUBSET live
      BY DEF Live, Http
    <2> HIDE DEF hs, IInv, TypeOK
    <2> QED  BY <1>1, <2>1, InjectGone
  <1> HIDE DEF TypeOK
  <1> QED  BY <1>6, <1>7, <1>9, <1>10, <1>11

LEMMA IInvHolds == Spec => []IInv
  <1>1. ASSUME IInv, UNCHANGED vars
        PROVE  IInv'
    BY <1>1 DEF IInv, TypeOK, Live, Gone, HeadersOf, SentOf, MultiSpansKept,
       vars, handleVars, multiVars
  <1>2. ASSUME IInv, Next
        PROVE  IInv'
    BY <1>2, RequestStep, HandleSteps, MultiSteps, ExecStep, MultiExecStep DEF Next
  <1> QED  BY InitIInv, <1>1, <1>2, PTL DEF Spec

-----------------------------------------------------------------------------
(* The variables keep their types. *)
THEOREM CurlTypeCorrect == Spec => []TypeOK
  <1>1. IInv => TypeOK
    BY DEF IInv
  <1> QED  BY IInvHolds, <1>1, PTL

(* A traced HTTP transfer carries the sw8 header of its own request, and   *)
(* none carries two, however often the handle is used and whichever ids    *)
(* come back (inject_sw_header).                                           *)
THEOREM HeaderIsOne == Spec => []OneTraceHeader
  <1>1. IInv => OneTraceHeader
    BY DEF IInv, SentOf, OneTraceHeader
  <1> QED  BY IInvHolds, <1>1, PTL

(* The injection loses none of the script's headers at the first transfer  *)
(* after they were set (CURL_HEADERS).                                     *)
THEOREM HeadersGoOut == Spec => []FirstTransferHasHeaders
  <1>1. IInv => FirstTransferHasHeaders
    BY DEF IInv, SentOf, FirstTransferHasHeaders
  <1> QED  BY IInvHolds, <1>1, PTL

(* The span of a transfer in a multi handle is kept until all transfers    *)
(* are over, and closed then (hook_curl_multi_exec).                       *)
THEOREM SpansAreKept == Spec => []MultiSpansKept
  <1>1. IInv => MultiSpansKept
    BY DEF IInv
  <1> QED  BY IInvHolds, <1>1, PTL
=============================================================================
