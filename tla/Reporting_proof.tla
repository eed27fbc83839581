--------------------------- MODULE Reporting_proof ---------------------------
(***************************************************************************)
(* Theorems about Reporting, for any number of processes and items and any *)
(* capacity.                                                               *)
(***************************************************************************)
EXTENDS Reporting, TLAPS

(* Appending to a sequence leaves what is in it where it is.               *)
LEMMA AppendKeeps ==
  ASSUME NEW S, NEW q \in Seq(S), NEW x
  PROVE  \A i \in DOMAIN q : i \in DOMAIN Append(q, x) /\ Append(q, x)[i] = q[i]
  OBVIOUS

(* Taking the first element out moves each other element one place on.     *)
LEMMA TailShifts ==
  ASSUME NEW S, NEW q \in Seq(S), q # <<>>
  PROVE  \A i \in 1 .. Len(Tail(q)) - 1 :
            /\ i + 1 \in 1 .. Len(q) - 1
            /\ Tail(q)[i] = q[i + 1]
            /\ Tail(q)[i + 1] = q[(i + 1) + 1]
  OBVIOUS

(* ItemOf builds items. *)
LEMMA ItemOfType == \A s \in Sources, k \in Nat : ItemOf(s, k) \in Item
  BY DEF ItemOf, Item

(* The bounds are natural numbers; an empty channel is within its bound. *)
LEMMA Bounds ==
    /\ Capacity \in Nat /\ SockCap \in Nat /\ MaxStarts \in Nat
    /\ 0 \in 0 .. MaxStarts
    /\ Len(<<>>) <= Capacity /\ Len(<<>>) <= SockCap
<1>1. Len(<<>>) = 0
  OBVIOUS
<1>2. Capacity \in Nat /\ SockCap \in Nat /\ MaxStarts \in Nat
  BY ReportingAssumption
<1> QED
  BY <1>1, <1>2

(* try_send never puts more into the channel than it can hold. *)
LEMMA TrySendType ==
    ASSUME ItemsTypeOK, NEW item \in Item, TrySend(item)
    PROVE  chan' \in Seq(Item) /\ Len(chan') <= Capacity /\ logged' \in SUBSET Item
<1>1. CASE ChanOpen /\ Len(chan) < Capacity
  BY <1>1, Bounds DEF TrySend, ItemsTypeOK
<1>2. CASE ~(ChanOpen /\ Len(chan) < Capacity)
  BY <1>2 DEF TrySend, ItemsTypeOK
<1> QED
  BY <1>1, <1>2

(* Reading a chunk leaves a shorter sequence of chunks. *)
LEMMA ReadType ==
    ASSUME ConnTypeOK, NEW p \in Procs,
           \/ wire' = [wire EXCEPT ![p] = <<>>]
           \/ wire[p] # <<>> /\ wire' = [wire EXCEPT ![p] = Tail(@)]
    PROVE  wire' \in [Procs -> Seq(Chunk)] /\ \A q \in Procs : Len(wire'[q]) <= SockCap
<1>1. CASE wire' = [wire EXCEPT ![p] = <<>>]
  BY <1>1, Bounds DEF ConnTypeOK
<1>2. CASE wire[p] # <<>> /\ wire' = [wire EXCEPT ![p] = Tail(@)]
  BY <1>2, Bounds DEF ConnTypeOK
<1> QED
  BY <1>1, <1>2

(* Every step keeps the type invariant (and with it the bounds of the      *)
(* channel and of the socket buffers).                                     *)
LEMMA TypeStep == TypeOK /\ [Next]_vars => TypeOK'
<1> SUFFICES ASSUME TypeOK, [Next]_vars PROVE TypeOK'
  OBVIOUS
<1> USE ItemOfType, Bounds DEF TypeOK, agent, receive, server
<1>1. CASE UNCHANGED vars
  BY <1>1 DEF AgentTypeOK, ConnTypeOK, WorkerTypeOK, ItemsTypeOK, vars
<1>2. ASSUME NEW p \in Procs, Report(p) PROVE TypeOK'
  <2> USE <1>2 DEF Report
  <2>1. AgentTypeOK'
    BY DEF AgentTypeOK, Sources
  <2>2. ConnTypeOK'
    BY DEF ConnTypeOK
  <2>3. WorkerTypeOK'
    BY DEF WorkerTypeOK
  <2>4. ItemsTypeOK'
    BY DEF AgentTypeOK, ConnTypeOK, Sources, ItemsTypeOK
  <2> QED
    BY <2>1, <2>2, <2>3, <2>4
<1>3. ASSUME NEW p \in Procs, WriteSize(p) PROVE TypeOK'
  <2> USE <1>3 DEF WriteSize, WriteAll
  <2>1. AgentTypeOK'
    BY DEF AgentTypeOK, Sources
  <2>2. ConnTypeOK'
    <3>1. CASE stream[p] = "broken"
      BY <3>1 DEF ConnTypeOK
    <3>2. CASE stream[p] = "open"
      <4> DEFINE c == [part |-> "size", n |-> sent[p]]
      <4>1. c \in Chunk
        BY DEF AgentTypeOK, Sources, Chunk
      <4>2. wire' = [wire EXCEPT ![p] = Append(@, c)] /\ Len(wire[p]) < SockCap
        BY <3>2
      <4> HIDE DEF c
      <4> QED
        BY <3>2, <4>1, <4>2 DEF ConnTypeOK
    <3> QED
      BY <3>1, <3>2
  <2>3. WorkerTypeOK'
    BY DEF WorkerTypeOK
  <2>4. ItemsTypeOK'
    BY DEF AgentTypeOK, ConnTypeOK, Sources, ItemsTypeOK
  <2> QED
    BY <2>1, <2>2, <2>3, <2>4
<1>4. ASSUME NEW p \in Procs, WriteContent(p) PROVE TypeOK'
  <2> USE <1>4 DEF WriteContent, WriteAll
  <2>1. AgentTypeOK'
    BY DEF AgentTypeOK, Sources
  <2>2. ConnTypeOK'
    <3>1. CASE stream[p] = "broken"
      BY <3>1 DEF ConnTypeOK
    <3>2. CASE stream[p] = "open"
      <4> DEFINE c == [part |-> "content", n |-> sent[p]]
      <4>1. c \in Chunk
        BY DEF AgentTypeOK, Sources, Chunk
      <4>2. wire' = [wire EXCEPT ![p] = Append(@, c)] /\ Len(wire[p]) < SockCap
        BY <3>2
      <4> HIDE DEF c
      <4> QED
        BY <3>2, <4>1, <4>2 DEF ConnTypeOK
    <3> QED
      BY <3>1, <3>2
  <2>3. WorkerTypeOK'
    BY DEF WorkerTypeOK
  <2>4. ItemsTypeOK'
    BY DEF AgentTypeOK, ConnTypeOK, Sources, ItemsTypeOK
  <2> QED
    BY <2>1, <2>2, <2>3, <2>4
<1>5. ASSUME NEW p \in Procs, ProcExit(p) PROVE TypeOK'
  <2> USE <1>5 DEF ProcExit
  <2>1. AgentTypeOK'
    BY DEF AgentTypeOK, Sources
  <2>2. ConnTypeOK'
    BY DEF ConnTypeOK
  <2>3. WorkerTypeOK'
    BY DEF WorkerTypeOK
  <2>4. ItemsTypeOK'
    BY DEF ItemsTypeOK
  <2> QED
    BY <2>1, <2>2, <2>3, <2>4
<1>6. ASSUME NEW p \in Procs, Accept(p) PROVE TypeOK'
  <2> USE <1>6 DEF Accept
  <2>1. AgentTypeOK'
    BY DEF AgentTypeOK, Sources
  <2>2. ConnTypeOK'
    BY DEF ConnTypeOK
  <2>3. WorkerTypeOK'
    BY DEF WorkerTypeOK
  <2>4. ItemsTypeOK'
    BY DEF ItemsTypeOK
  <2> QED
    BY <2>1, <2>2, <2>3, <2>4
<1>7. ASSUME NEW p \in Procs, ReceiveSize(p) PROVE TypeOK'
  <2> USE <1>7 DEF ReceiveSize
  <2>1. AgentTypeOK'
    BY DEF AgentTypeOK, Sources
  <2>2. ConnTypeOK'
    <3>1. Head(wire[p]) \in Chunk
      BY DEF ConnTypeOK
    <3>2. wire' \in [Procs -> Seq(Chunk)] /\ \A q \in Procs : Len(wire'[q]) <= SockCap
      BY DEF ConnTypeOK
    <3> QED
      BY <3>1, <3>2 DEF ConnTypeOK, Chunk
  <2>3. WorkerTypeOK'
    BY DEF WorkerTypeOK
  <2>4. ItemsTypeOK'
    BY DEF ItemsTypeOK
  <2> QED
    BY <2>1, <2>2, <2>3, <2>4
<1>8. ASSUME NEW p \in Procs, ReceiveContent(p) PROVE TypeOK'
  <2> USE <1>8 DEF ReceiveContent
  <2>1. AgentTypeOK'
    BY DEF AgentTypeOK, Sources
  <2>2. ConnTypeOK'
    BY ReadType DEF ConnTypeOK
  <2>3. WorkerTypeOK'
    BY DEF WorkerTypeOK
  <2>4. ItemsTypeOK'
    <3>1. p \in Sources /\ frame[p] \in Nat
      BY DEF AgentTypeOK, ConnTypeOK, Sources
    <3>2. ItemOf(p, frame[p]) \in Item
      BY <3>1
    <3> QED
      BY <3>2, TrySendType DEF ItemsTypeOK
  <2> QED
    BY <2>1, <2>2, <2>3, <2>4
<1>9. ASSUME NEW p \in Procs, ReceiveEof(p) PROVE TypeOK'
  <2> USE <1>9 DEF ReceiveEof
  <2>1. AgentTypeOK'
    BY DEF AgentTypeOK, Sources
  <2>2. ConnTypeOK'
    BY DEF ConnTypeOK
  <2>3. WorkerTypeOK'
    BY DEF WorkerTypeOK
  <2>4. ItemsTypeOK'
    BY DEF ItemsTypeOK
  <2> QED
    BY <2>1, <2>2, <2>3, <2>4
<1>10. CASE Beat
  <2> USE <1>10 DEF Beat
  <2>1. AgentTypeOK'
    BY DEF AgentTypeOK, Sources
  <2>2. ConnTypeOK'
    BY DEF ConnTypeOK
  <2>3. WorkerTypeOK'
    BY DEF WorkerTypeOK
  <2>4. ItemsTypeOK'
    <3>1. HeartBeat \in Sources /\ sent[HeartBeat] + 1 \in Nat
      BY DEF AgentTypeOK, ConnTypeOK, Sources
    <3>2. ItemOf(HeartBeat, sent[HeartBeat] + 1) \in Item
      BY <3>1
    <3> QED
      BY <3>2, TrySendType DEF ItemsTypeOK
  <2> QED
    BY <2>1, <2>2, <2>3, <2>4
<1>11. CASE CreateEndpoint
  <2> USE <1>11 DEF CreateEndpoint
  <2>1. AgentTypeOK'
    BY DEF AgentTypeOK, Sources
  <2>2. ConnTypeOK'
    BY DEF ConnTypeOK
  <2>3. WorkerTypeOK'
    BY DEF WorkerTypeOK
  <2>4. ItemsTypeOK'
    <3>1. CASE UNCHANGED chan
      BY <3>1 DEF ItemsTypeOK
    <3>2. CASE chan' = <<>>
      BY <3>2 DEF ItemsTypeOK
    <3> QED
      BY <3>1, <3>2
  <2> QED
    BY <2>1, <2>2, <2>3, <2>4
<1>12. CASE Connect
  <2> USE <1>12 DEF Connect
  <2>1. AgentTypeOK'
    BY DEF AgentTypeOK, Sources
  <2>2. ConnTypeOK'
    BY DEF ConnTypeOK
  <2>3. WorkerTypeOK'
    BY DEF WorkerTypeOK
  <2>4. ItemsTypeOK'
    BY DEF ItemsTypeOK
  <2> QED
    BY <2>1, <2>2, <2>3, <2>4
<1>13. CASE Consume
  <2> USE <1>13 DEF Consume
  <2>1. AgentTypeOK'
    BY DEF AgentTypeOK, Sources
  <2>2. ConnTypeOK'
    BY DEF ConnTypeOK
  <2>3. WorkerTypeOK'
    BY DEF WorkerTypeOK
  <2>4. ItemsTypeOK'
    BY DEF ItemsTypeOK
  <2> QED
    BY <2>1, <2>2, <2>3, <2>4
<1>14. CASE Collect
  <2> USE <1>14 DEF Collect
  <2>1. AgentTypeOK'
    BY DEF AgentTypeOK, Sources
  <2>2. ConnTypeOK'
    BY DEF ConnTypeOK
  <2>3. WorkerTypeOK'
    BY DEF WorkerTypeOK
  <2>4. ItemsTypeOK'
    <3>1. /\ chan \in Seq(Item)
          /\ Len(chan) <= Capacity
          /\ oap \in Seq(Item)
          /\ logged \in SUBSET Item
          /\ inflight \in Item
      BY DEF ItemsTypeOK
    <3>2. oap' \in Seq(Item)
      <4>1. CASE oap' = Append(oap, inflight)
        BY <3>1, <4>1
      <4>2. CASE oap' = oap
        BY <3>1, <4>2
      <4> QED
        BY <4>1, <4>2
    <3>3. logged' \in SUBSET Item
      BY <3>1, Zenon
    <3>4. chan' = chan /\ inflight' = NoItem
      OBVIOUS
    <3> QED
      BY <3>1, <3>2, <3>3, <3>4 DEF ItemsTypeOK
  <2> QED
    BY <2>1, <2>2, <2>3, <2>4
<1>15. CASE Start
  <2> USE <1>15 DEF Start
  <2>1. AgentTypeOK'
    BY DEF AgentTypeOK, Sources
  <2>2. ConnTypeOK'
    BY DEF ConnTypeOK
  <2>3. WorkerTypeOK'
    BY DEF WorkerTypeOK
  <2>4. ItemsTypeOK'
    BY DEF ItemsTypeOK
  <2> QED
    BY <2>1, <2>2, <2>3, <2>4
<1>16. CASE Stop
  <2> USE <1>16 DEF Stop
  <2>1. AgentTypeOK'
    BY DEF AgentTypeOK, Sources
  <2>2. ConnTypeOK'
    BY DEF ConnTypeOK
  <2>3. WorkerTypeOK'
    BY DEF WorkerTypeOK
  <2>4. ItemsTypeOK'
    <3>1. CASE UNCHANGED chan
      BY <3>1 DEF ItemsTypeOK
    <3>2. CASE chan' = <<>>
      BY <3>2 DEF ItemsTypeOK
    <3> QED
      BY <3>1, <3>2
  <2> QED
    BY <2>1, <2>2, <2>3, <2>4
<1>17. CASE WorkerGone
  <2> USE <1>17 DEF WorkerGone
  <2>1. AgentTypeOK'
    BY DEF AgentTypeOK, Sources
  <2>2. ConnTypeOK'
    BY DEF ConnTypeOK
  <2>3. WorkerTypeOK'
    BY DEF WorkerTypeOK
  <2>4. ItemsTypeOK'
    BY DEF ItemsTypeOK
  <2> QED
    BY <2>1, <2>2, <2>3, <2>4
<1>18. CASE OapChange
  <2> USE <1>18 DEF OapChange
  <2>1. AgentTypeOK'
    BY DEF AgentTypeOK, Sources
  <2>2. ConnTypeOK'
    BY DEF ConnTypeOK
  <2>3. WorkerTypeOK'
    BY DEF WorkerTypeOK
  <2>4. ItemsTypeOK'
    BY DEF ItemsTypeOK
  <2> QED
    BY <2>1, <2>2, <2>3, <2>4
<1> QED
  BY <1>1, <1>2, <1>3, <1>4, <1>5, <1>6, <1>7, <1>8, <1>9, <1>10, <1>11, <1>12, <1>13, <1>14, <1>15, <1>16, <1>17, <1>18
     DEF Next, ProcNext, ConnNext, WorkerNext, Exit, Kill

LEMMA TypeInit == Init => TypeOK
<1> SUFFICES ASSUME Init PROVE TypeOK
  OBVIOUS
<1> USE ReportingAssumption, Bounds DEF Init
<1>1. AgentTypeOK
  BY DEF AgentTypeOK
<1>2. ConnTypeOK
  BY DEF ConnTypeOK
<1>3. WorkerTypeOK
  BY DEF WorkerTypeOK
<1>4. ItemsTypeOK
  BY DEF ItemsTypeOK
<1> QED
  BY <1>1, <1>2, <1>3, <1>4 DEF TypeOK

(* The channel and the socket buffers stay within their capacities and     *)
(* every variable keeps its type.                                          *)
THEOREM TypeCorrect == Spec => []TypeOK
  BY TypeInit, TypeStep, PTL DEF Spec

-----------------------------------------------------------------------------
(* The wire.                                                               *)

(* A stream that is not open carries nothing and has no task reading it;   *)
(* a process without a stream is not inside a report call.                 *)
StreamShape(p) ==
    /\ stream[p] # "open" => wire[p] = <<>> /\ loop[p] \notin {"size", "content"}
    /\ stream[p] = "none" => pc[p] = "idle"
    /\ pc[p] # "idle" => sent[p] > 0

(* In the socket, a content follows the size of the same item and a size   *)
(* follows a content.                                                      *)
Alternates(p) ==
    \A i \in 1 .. Len(wire[p]) - 1 :
        /\ wire[p][i].part = "size" =>
              wire[p][i + 1] = [part |-> "content", n |-> wire[p][i].n]
        /\ wire[p][i].part = "content" => wire[p][i + 1].part = "size"

(* The last write in the socket, or the last read when it is empty, is the *)
(* one the process did last.                                               *)
TailMatchesWriter(p) ==
    stream[p] = "open" =>
        IF wire[p] = <<>>
        THEN IF pc[p] = "content"
             THEN loop[p] = "content" /\ frame[p] = sent[p]
             ELSE loop[p] # "content"
        ELSE IF pc[p] = "content"
             THEN wire[p][Len(wire[p])] = [part |-> "size", n |-> sent[p]]
             ELSE wire[p][Len(wire[p])].part = "content"

ConnInv(p) == Aligned(p) /\ StreamShape(p) /\ Alternates(p) /\ TailMatchesWriter(p)

WireInv == \A p \in Procs : ConnInv(p)

-----------------------------------------------------------------------------
(* The order of items.                                                     *)

(* What is in the socket is numbered upwards, a content being the last of  *)
(* its item, and nothing in it is newer than the last item handed over.    *)
WireOrdered(p) ==
    /\ \A i \in DOMAIN wire[p] :
          /\ wire[p][i].n \in 1 .. sent[p]
          /\ wire[p][i].part = "content" /\ pc[p] # "idle" => wire[p][i].n < sent[p]
    /\ \A i, j \in DOMAIN wire[p] :
          i < j /\ wire[p][i].part = "content" => wire[p][i].n < wire[p][j].n

ConnOrder(p) ==
    /\ WireOrdered(p)
    /\ loop[p] = "content" => frame[p] \in 1 .. sent[p]

(* The item was handed over, and before what is still on the way to the    *)
(* channel.                                                                *)
Passed(item) ==
    /\ item.n \in 1 .. sent[item.src]
    /\ item.src \in Procs =>
          /\ pc[item.src] # "idle" => item.n < sent[item.src]
          /\ loop[item.src] = "content" => item.n < frame[item.src]
          /\ \A i \in DOMAIN wire[item.src] : item.n < wire[item.src][i].n

Elements(s) == {s[i] : i \in DOMAIN s}

Increasing(s) ==
    \A i, j \in DOMAIN s : i < j /\ s[i].src = s[j].src => s[i].n < s[j].n

(* Of one source, everything in S is older than everything in T. *)
Older(S, T) ==
    \A x \in S, y \in T : x.src = y.src => x.n < y.n

InFlight == {inflight} \ {NoItem}

Down == Elements(oap) \cup InFlight \cup Elements(chan)

DownOrder ==
    /\ Increasing(oap)
    /\ Increasing(chan)
    /\ Older(Elements(oap), InFlight)
    /\ Older(Elements(oap), Elements(chan))
    /\ Older(InFlight, Elements(chan))

OrderInv ==
    /\ \A p \in Procs : ConnOrder(p)
    /\ \A item \in Down : Passed(item)
    /\ DownOrder
(* What Append does to the writes in a socket. *)
LEMMA AppendChunk ==
    ASSUME NEW s \in Seq(Chunk), NEW c \in Chunk
    PROVE  LET t == Append(s, c) IN
           /\ t \in Seq(Chunk) /\ t # <<>>
           /\ Len(s) \in Nat /\ Len(t) = Len(s) + 1
           /\ t[Len(t)] = c
           /\ \A i \in 1 .. Len(s) : t[i] = s[i]
           /\ Head(t) = IF s = <<>> THEN c ELSE Head(s)
<1>1. Append(s, c) \in Seq(Chunk) /\ Len(s) \in Nat
  OBVIOUS
<1>2. /\ Append(s, c) # <<>> /\ Len(Append(s, c)) = Len(s) + 1
      /\ Append(s, c)[Len(s) + 1] = c
      /\ \A i \in 1 .. Len(s) : Append(s, c)[i] = s[i]
  OBVIOUS
<1>3. Head(Append(s, c)) = Append(s, c)[1]
  BY <1>1, <1>2
<1>4. s # <<>> => Len(s) > 0 /\ Head(s) = s[1]
  OBVIOUS
<1>5. s = <<>> => Len(s) = 0
  OBVIOUS
<1>6. Head(Append(s, c)) = IF s = <<>> THEN c ELSE Head(s)
  BY <1>1, <1>2, <1>3, <1>4, <1>5
<1> QED
  BY <1>1, <1>2, <1>6

(* What Tail does to them. *)
LEMMA TailChunk ==
    ASSUME NEW s \in Seq(Chunk), s # <<>>
    PROVE  LET t == Tail(s) IN
           /\ t \in Seq(Chunk)
           /\ Len(s) \in Nat /\ Len(s) > 0 /\ Len(t) = Len(s) - 1
           /\ Head(s) = s[1] /\ Head(s) \in Chunk
           /\ \A i \in 1 .. Len(t) : t[i] = s[i + 1]
           /\ t # <<>> => Len(s) > 1 /\ Head(t) = s[2] /\ t[Len(t)] = s[Len(s)]
           /\ t = <<>> => Len(s) = 1
  OBVIOUS

(* Nothing changes on a connection that a step leaves alone. *)
LEMMA ConnSame ==
    ASSUME NEW p \in Procs, ConnInv(p),
           pc'[p] = pc[p], sent'[p] = sent[p], stream'[p] = stream[p],
           wire'[p] = wire[p], loop'[p] = loop[p], frame'[p] = frame[p]
    PROVE  ConnInv(p)'
  BY DEF ConnInv, Aligned, StreamShape, Alternates, TailMatchesWriter

(* A write that succeeds continues the sequence of frames. *)
LEMMA WriteKeepsConn ==
    ASSUME TypeOK, NEW p \in Procs, ConnInv(p), alive[p],
           WriteSize(p) \/ WriteContent(p)
    PROVE  ConnInv(p)'
<1>0. /\ wire[p] \in Seq(Chunk) /\ sent[p] \in Nat /\ p \in Sources
      /\ pc \in [Procs -> {"idle", "size", "content"}]
      /\ wire \in [Procs -> Seq(Chunk)]
  BY DEF TypeOK, ConnTypeOK, AgentTypeOK, Sources
<1>s. /\ stream'[p] = stream[p] /\ loop'[p] = loop[p] /\ frame'[p] = frame[p]
      /\ sent'[p] = sent[p]
  BY DEF WriteSize, WriteContent
<1>1. CASE stream[p] = "broken"
  <2>1. wire'[p] = wire[p] /\ pc'[p] = "idle"
    BY <1>0, <1>1 DEF WriteSize, WriteContent, WriteAll
  <2> QED
    BY <1>1, <1>s, <2>1 DEF ConnInv, Aligned, StreamShape, Alternates, TailMatchesWriter
<1>2. CASE stream[p] = "open" /\ WriteSize(p)
  <2> DEFINE c == [part |-> "size", n |-> sent[p]]
  <2>1. c \in Chunk
    BY <1>0 DEF Chunk
  <2>2. wire'[p] = Append(wire[p], c) /\ pc[p] = "size" /\ pc'[p] = "content"
    BY <1>0, <1>2 DEF WriteSize, WriteAll
  <2>3. c.part = "size"
    OBVIOUS
  <2>4. /\ wire'[p] # <<>> /\ Len(wire[p]) \in Nat /\ Len(wire'[p]) = Len(wire[p]) + 1
        /\ wire'[p][Len(wire'[p])] = c
        /\ \A i \in 1 .. Len(wire[p]) : wire'[p][i] = wire[p][i]
        /\ Head(wire'[p]) = IF wire[p] = <<>> THEN c ELSE Head(wire[p])
    BY <1>0, <2>1, <2>2, AppendChunk
  <2>5. Len(wire[p]) > 0 => wire[p][Len(wire[p])].part = "content"
    BY <1>0, <1>2, <2>2 DEF ConnInv, TailMatchesWriter
  <2>6. Aligned(p)'
    BY <1>2, <1>s, <2>2, <2>3, <2>4 DEF ConnInv, Aligned, TailMatchesWriter
  <2>7. StreamShape(p)'
    BY <1>2, <1>s, <2>2, <2>4 DEF ConnInv, StreamShape
  <2>8. Alternates(p)'
    <3> SUFFICES ASSUME NEW i \in 1 .. Len(wire'[p]) - 1
                 PROVE  /\ wire'[p][i].part = "size" =>
                              wire'[p][i + 1] = [part |-> "content", n |-> wire'[p][i].n]
                        /\ wire'[p][i].part = "content" => wire'[p][i + 1].part = "size"
      BY DEF Alternates
    <3>1. CASE i < Len(wire[p])
      <4>1. i \in 1 .. Len(wire[p]) - 1
        BY <2>4, <3>1
      <4>2. wire'[p][i] = wire[p][i] /\ wire'[p][i + 1] = wire[p][i + 1]
        BY <2>4, <4>1
      <4>3. Alternates(p)
        BY DEF ConnInv
      <4>4. /\ wire[p][i].part = "size" =>
                  wire[p][i + 1] = [part |-> "content", n |-> wire[p][i].n]
            /\ wire[p][i].part = "content" => wire[p][i + 1].part = "size"
        BY <4>1, <4>3 DEF Alternates
      <4> QED
        BY <4>2, <4>4
    <3>2. CASE i = Len(wire[p])
      <4>1. wire'[p][i] = wire[p][i] /\ wire'[p][i + 1] = c
        BY <2>4, <3>2
      <4>2. wire'[p][i].part = "content"
        BY <2>4, <2>5, <3>2, <4>1
      <4> QED
        BY <2>3, <4>1, <4>2
    <3> QED
      BY <2>4, <3>1, <3>2
  <2>9. TailMatchesWriter(p)'
    BY <1>2, <1>s, <2>2, <2>4 DEF TailMatchesWriter
  <2> QED
    BY <2>6, <2>7, <2>8, <2>9 DEF ConnInv
<1>3. CASE stream[p] = "open" /\ WriteContent(p)
  <2> DEFINE c == [part |-> "content", n |-> sent[p]]
  <2>1. c \in Chunk
    BY <1>0 DEF Chunk
  <2>2. wire'[p] = Append(wire[p], c) /\ pc[p] = "content" /\ pc'[p] = "idle"
    BY <1>0, <1>3 DEF WriteContent, WriteAll
  <2>3. c.part = "content"
    OBVIOUS
  <2>4. /\ wire'[p] # <<>> /\ Len(wire[p]) \in Nat /\ Len(wire'[p]) = Len(wire[p]) + 1
        /\ wire'[p][Len(wire'[p])] = c
        /\ \A i \in 1 .. Len(wire[p]) : wire'[p][i] = wire[p][i]
        /\ Head(wire'[p]) = IF wire[p] = <<>> THEN c ELSE Head(wire[p])
    BY <1>0, <2>1, <2>2, AppendChunk
  <2>5. Len(wire[p]) > 0 => wire[p][Len(wire[p])] = [part |-> "size", n |-> sent[p]]
    BY <1>0, <1>3, <2>2 DEF ConnInv, TailMatchesWriter
  <2>6. Aligned(p)'
    BY <1>3, <1>s, <2>2, <2>3, <2>4 DEF ConnInv, Aligned, TailMatchesWriter
  <2>7. StreamShape(p)'
    BY <1>3, <1>s, <2>2, <2>4 DEF ConnInv, StreamShape
  <2>8. Alternates(p)'
    <3> SUFFICES ASSUME NEW i \in 1 .. Len(wire'[p]) - 1
                 PROVE  /\ wire'[p][i].part = "size" =>
                              wire'[p][i + 1] = [part |-> "content", n |-> wire'[p][i].n]
                        /\ wire'[p][i].part = "content" => wire'[p][i + 1].part = "size"
      BY DEF Alternates
    <3>1. CASE i < Len(wire[p])
      <4>1. i \in 1 .. Len(wire[p]) - 1
        BY <2>4, <3>1
      <4>2. wire'[p][i] = wire[p][i] /\ wire'[p][i + 1] = wire[p][i + 1]
        BY <2>4, <4>1
      <4>3. Alternates(p)
        BY DEF ConnInv
      <4>4. /\ wire[p][i].part = "size" =>
                  wire[p][i + 1] = [part |-> "content", n |-> wire[p][i].n]
            /\ wire[p][i].part = "content" => wire[p][i + 1].part = "size"
        BY <4>1, <4>3 DEF Alternates
      <4> QED
        BY <4>2, <4>4
    <3>2. CASE i = Len(wire[p])
      BY <2>4, <2>5, <3>2
    <3> QED
      BY <2>4, <3>1, <3>2
  <2>9. TailMatchesWriter(p)'
    BY <1>3, <1>s, <2>2, <2>3, <2>4 DEF TailMatchesWriter
  <2> QED
    BY <2>6, <2>7, <2>8, <2>9 DEF ConnInv
<1> QED
  BY <1>1, <1>2, <1>3 DEF WriteSize, WriteContent, WriteAll

(* A read takes the next write off the socket and leaves a task that       *)
(* expects the one after it.                                               *)
LEMMA ReadKeepsConn ==
    ASSUME TypeOK, NEW p \in Procs, ConnInv(p),
           ReceiveSize(p) \/ ReceiveContent(p)
    PROVE  ConnInv(p)'
<1>0. /\ wire[p] \in Seq(Chunk) /\ wire[p] # <<>>
      /\ wire \in [Procs -> Seq(Chunk)]
      /\ frame \in [Procs -> Nat]
      /\ stream \in [Procs -> {"none", "open", "broken"}]
      /\ loop \in [Procs -> {"unaccepted", "size", "content", "done"}]
  BY DEF TypeOK, ConnTypeOK, AgentTypeOK, ReceiveSize, ReceiveContent
<1>s. pc'[p] = pc[p] /\ sent'[p] = sent[p]
  BY DEF ReceiveSize, ReceiveContent, agent
<1>o. stream[p] = "open"
  BY <1>0 DEF ConnInv, StreamShape
<1>t. LET t == Tail(wire[p]) IN
      /\ Len(wire[p]) \in Nat /\ Len(wire[p]) > 0 /\ Len(t) = Len(wire[p]) - 1
      /\ Head(wire[p]) = wire[p][1]
      /\ \A i \in 1 .. Len(t) : t[i] = wire[p][i + 1]
      /\ t # <<>> => Len(wire[p]) > 1 /\ Head(t) = wire[p][2] /\ t[Len(t)] = wire[p][Len(wire[p])]
      /\ t = <<>> => Len(wire[p]) = 1
  BY <1>0, TailChunk
<1>a. ASSUME wire'[p] = Tail(wire[p]) PROVE Alternates(p)'
  <2>1. \A i \in 1 .. Len(Tail(wire[p])) - 1 :
           /\ i + 1 \in 1 .. Len(wire[p]) - 1
           /\ Tail(wire[p])[i] = wire[p][i + 1]
           /\ Tail(wire[p])[i + 1] = wire[p][(i + 1) + 1]
    BY <1>0, TailShifts
  <2>2. \A i \in 1 .. Len(wire'[p]) - 1 :
           /\ i + 1 \in 1 .. Len(wire[p]) - 1
           /\ wire'[p][i] = wire[p][i + 1]
           /\ wire'[p][i + 1] = wire[p][(i + 1) + 1]
    BY <1>a, <2>1
  <2> QED
    BY <2>2, Zenon DEF ConnInv, Alternates
<1>1. CASE ReceiveSize(p)
  <2>1. /\ loop[p] = "size" /\ loop'[p] = "content" /\ wire'[p] = Tail(wire[p])
        /\ frame'[p] = wire[p][1].n /\ stream'[p] = stream[p]
    BY <1>0, <1>1, <1>t DEF ReceiveSize, agent
  <2>2. wire[p][1].part = "size"
    BY <1>0, <1>t, <2>1 DEF ConnInv, Aligned
  <2>3. Len(wire[p]) > 1 => wire[p][2] = [part |-> "content", n |-> wire[p][1].n]
    <3>1. Len(wire[p]) > 1 => 1 \in 1 .. Len(wire[p]) - 1 /\ 1 + 1 = 2
      BY <1>t
    <3> QED
      BY <2>2, <3>1, Zenon DEF ConnInv, Alternates
  <2>4. Aligned(p)'
    BY <1>t, <2>1, <2>3 DEF Aligned
  <2>5. StreamShape(p)'
    BY <1>o, <1>s, <2>1 DEF ConnInv, StreamShape
  <2>6. Alternates(p)'
    BY <1>a, <2>1
  <2>7. TailMatchesWriter(p)'
    BY <1>0, <1>o, <1>s, <1>t, <2>1, <2>2 DEF ConnInv, TailMatchesWriter
  <2> QED
    BY <2>4, <2>5, <2>6, <2>7 DEF ConnInv
<1>2. CASE ReceiveContent(p) /\ stream' # stream
  <2>1. /\ stream'[p] = "broken" /\ loop'[p] = "done" /\ wire'[p] = <<>>
    BY <1>0, <1>2 DEF ReceiveContent
  <2>2. Len(wire'[p]) = 0
    BY <2>1
  <2> QED
    BY <1>s, <2>1, <2>2 DEF ConnInv, Aligned, StreamShape, Alternates, TailMatchesWriter
<1>3. CASE ReceiveContent(p) /\ stream' = stream
  <2>1. loop[p] = "content" /\ frame'[p] = frame[p] /\ stream'[p] = "open"
    BY <1>3, <1>o DEF ReceiveContent
  <2>2. loop'[p] = "size" /\ wire'[p] = Tail(wire[p])
    BY <1>0, <1>3, <2>1 DEF ReceiveContent
  <2>3. wire[p][1] = [part |-> "content", n |-> frame[p]]
    BY <1>0, <1>t, <2>1 DEF ConnInv, Aligned
  <2>4. Len(wire[p]) > 1 => wire[p][2].part = "size"
    <3>1. Len(wire[p]) > 1 => 1 \in 1 .. Len(wire[p]) - 1 /\ 1 + 1 = 2
      BY <1>t
    <3>2. wire[p][1].part = "content"
      BY <2>3
    <3> QED
      BY <3>1, <3>2, Zenon DEF ConnInv, Alternates
  <2>5. Aligned(p)'
    BY <1>t, <2>2, <2>4 DEF Aligned
  <2>6. StreamShape(p)'
    BY <1>s, <2>1, <2>2 DEF ConnInv, StreamShape
  <2>7. Alternates(p)'
    BY <1>a, <2>2
  <2>8. TailMatchesWriter(p)'
    BY <1>0, <1>o, <1>s, <1>t, <2>1, <2>2, <2>3 DEF ConnInv, TailMatchesWriter
  <2> QED
    BY <2>5, <2>6, <2>7, <2>8 DEF ConnInv
<1> QED
  BY <1>1, <1>2, <1>3

(* Every step keeps every connection in the shape the framing needs. *)
LEMMA WireStep == TypeOK /\ WireInv /\ [Next]_vars => WireInv'
<1> SUFFICES ASSUME TypeOK, WireInv, [Next]_vars, NEW q \in Procs
             PROVE  ConnInv(q)'
  BY DEF WireInv
<1>0. ConnInv(q) /\ q \in Sources
  BY DEF WireInv, Sources
<1>t. /\ pc \in [Procs -> {"idle", "size", "content"}] /\ sent \in [Sources -> Nat]
      /\ stream \in [Procs -> {"none", "open", "broken"}]
      /\ wire \in [Procs -> Seq(Chunk)] /\ frame \in [Procs -> Nat]
      /\ loop \in [Procs -> {"unaccepted", "size", "content", "done"}]
  BY DEF TypeOK, AgentTypeOK, ConnTypeOK
<1>1. CASE UNCHANGED vars
  BY <1>0, <1>1, ConnSame DEF vars, agent, receive
<1>2. ASSUME NEW p \in Procs, Report(p) PROVE ConnInv(q)'
  <2>1. CASE q # p
    BY <1>0, <1>t, <1>2, <2>1, ConnSame DEF Report, receive
  <2>2. CASE q = p
    <3>1. /\ wire'[q] = wire[q] /\ loop'[q] = loop[q] /\ frame'[q] = frame[q]
          /\ pc[q] = "idle" /\ sent'[q] = sent[q] + 1 /\ sent[q] \in Nat
      BY <1>0, <1>t, <1>2, <2>2 DEF Report, receive
    <3>2. /\ pc'[q] \in {"idle", "size"}
          /\ stream'[q] \in {"none", "open", "broken"}
          /\ stream'[q] = "none" => pc'[q] = "idle" /\ stream[q] = "none"
          /\ stream'[q] = "open" => stream[q] \in {"open", "none"}
          /\ stream'[q] = "broken" => stream[q] = "broken"
      BY <1>0, <1>t, <1>2, <2>2 DEF Report
    <3>3. Aligned(q)' /\ Alternates(q)'
      BY <1>0, <3>1 DEF ConnInv, Aligned, Alternates
    <3>5. StreamShape(q)'
      BY <1>0, <1>t, <3>1, <3>2 DEF ConnInv, StreamShape
    <3>4. TailMatchesWriter(q)'
      BY <1>0, <3>1, <3>2 DEF ConnInv, StreamShape, TailMatchesWriter
    <3> QED
      BY <3>3, <3>4, <3>5 DEF ConnInv
  <2> QED
    BY <2>1, <2>2
<1>3. ASSUME NEW p \in Procs, WriteSize(p) \/ WriteContent(p) PROVE ConnInv(q)'
  <2>1. CASE q # p
    BY <1>0, <1>t, <1>3, <2>1, ConnSame DEF WriteSize, WriteContent, WriteAll
  <2>2. CASE q = p
    BY <1>0, <1>3, <2>2, WriteKeepsConn DEF WriteSize, WriteContent
  <2> QED
    BY <2>1, <2>2
<1>4. ASSUME NEW p \in Procs, ProcExit(p) PROVE ConnInv(q)'
  BY <1>0, <1>4, ConnSame DEF ProcExit, receive
<1>5. ASSUME NEW p \in Procs, Accept(p) PROVE ConnInv(q)'
  <2>1. CASE q # p
    BY <1>0, <1>t, <1>5, <2>1, ConnSame DEF Accept, agent
  <2>2. CASE q = p
    <3>1. /\ stream[q] = "open" /\ loop[q] = "unaccepted" /\ loop'[q] = "size"
          /\ stream'[q] = stream[q] /\ wire'[q] = wire[q] /\ pc'[q] = pc[q]
          /\ sent'[q] = sent[q] /\ frame'[q] = frame[q]
      BY <1>t, <1>5, <2>2 DEF Accept, agent
    <3> QED
      BY <1>0, <3>1 DEF ConnInv, Aligned, StreamShape, Alternates, TailMatchesWriter
  <2> QED
    BY <2>1, <2>2
<1>6. ASSUME NEW p \in Procs, ReceiveSize(p) \/ ReceiveContent(p) PROVE ConnInv(q)'
  <2>1. CASE q # p
    BY <1>0, <1>t, <1>6, <2>1, ConnSame DEF ReceiveSize, ReceiveContent, agent
  <2>2. CASE q = p
    BY <1>0, <1>6, <2>2, ReadKeepsConn
  <2> QED
    BY <2>1, <2>2
<1>7. ASSUME NEW p \in Procs, ReceiveEof(p) PROVE ConnInv(q)'
  <2>1. CASE q # p
    BY <1>0, <1>t, <1>7, <2>1, ConnSame DEF ReceiveEof
  <2>2. CASE q = p
    <3>1. /\ wire[q] = <<>> /\ wire'[q] = wire[q] /\ loop'[q] = "done"
          /\ stream'[q] = "broken" /\ pc'[q] = pc[q] /\ sent'[q] = sent[q]
      BY <1>t, <1>7, <2>2 DEF ReceiveEof
    <3> QED
      BY <1>0, <3>1 DEF ConnInv, Aligned, StreamShape, Alternates, TailMatchesWriter
  <2> QED
    BY <2>1, <2>2
<1>8. CASE Beat
  <2>1. sent'[q] = sent[q]
    BY <1>0, <1>t, <1>8, ReportingAssumption DEF Beat
  <2> QED
    BY <1>0, <1>8, <2>1, ConnSame DEF Beat, agent, receive
<1>9. CASE CreateEndpoint \/ Connect \/ Consume \/ Collect \/ Start \/ Stop \/ OapChange
  BY <1>0, <1>9, ConnSame
     DEF CreateEndpoint, Connect, Consume, Collect, Start, Stop, OapChange, agent, receive
<1>10. CASE WorkerGone
  <2>1. /\ wire'[q] = <<>> /\ pc'[q] = pc[q] /\ sent'[q] = sent[q]
        /\ stream'[q] = IF stream[q] = "open" THEN "broken" ELSE stream[q]
        /\ loop'[q] = IF stream[q] = "open" THEN "done" ELSE loop[q]
    BY <1>10 DEF WorkerGone
  <2>2. Len(wire'[q]) = 0
    BY <2>1
  <2>3. stream[q] # "open" => wire[q] = <<>>
    BY <1>0 DEF ConnInv, StreamShape
  <2>4. StreamShape(q)' /\ TailMatchesWriter(q)'
    BY <1>0, <1>t, <2>1 DEF ConnInv, StreamShape, TailMatchesWriter
  <2>5. Aligned(q)' /\ Alternates(q)'
    BY <2>1, <2>2 DEF Aligned, Alternates
  <2> QED
    BY <2>4, <2>5 DEF ConnInv
<1> QED
  BY <1>1, <1>2, <1>3, <1>4, <1>5, <1>6, <1>7, <1>8, <1>9, <1>10
     DEF Next, ProcNext, ConnNext, WorkerNext, Exit, Kill

LEMMA WireInit == Init => WireInv
<1> SUFFICES ASSUME Init, NEW p \in Procs PROVE ConnInv(p)
  BY DEF WireInv
<1>1. wire[p] = <<>> /\ Len(wire[p]) = 0 /\ stream[p] = "none" /\ pc[p] = "idle" /\ loop[p] = "unaccepted"
  BY DEF Init
<1> QED
  BY <1>1 DEF ConnInv, Aligned, StreamShape, Alternates, TailMatchesWriter

(* channel_receive stays aligned with channel_send on every connection,    *)
(* whatever dies, fills up or fails to decode.                             *)
THEOREM FramesStayAligned == Spec => []FramesAligned
<1>1. Init => TypeOK /\ WireInv
  BY TypeInit, WireInit
<1>2. TypeOK /\ WireInv /\ [Next]_vars => TypeOK' /\ WireInv'
  BY TypeStep, WireStep
<1>3. WireInv => FramesAligned
  BY DEF WireInv, ConnInv, FramesAligned
<1> QED
  BY <1>1, <1>2, <1>3, PTL DEF Spec

(* Appending, dropping and emptying, seen from the order of items. *)
LEMMA AppendItem ==
    ASSUME NEW s \in Seq(Item), NEW x \in Item
    PROVE  /\ Elements(Append(s, x)) = Elements(s) \cup {x}
           /\ Increasing(s) /\ Older(Elements(s), {x}) => Increasing(Append(s, x))
<1>1. /\ Len(s) \in Nat /\ DOMAIN s = 1 .. Len(s)
      /\ DOMAIN Append(s, x) = 1 .. Len(s) + 1
      /\ Append(s, x)[Len(s) + 1] = x
      /\ \A i \in 1 .. Len(s) : Append(s, x)[i] = s[i]
  OBVIOUS
<1>2. \A i \in 1 .. Len(s) + 1 : i \in 1 .. Len(s) \/ i = Len(s) + 1
  BY <1>1
<1>3. 1 .. Len(s) \subseteq 1 .. Len(s) + 1 /\ Len(s) + 1 \in 1 .. Len(s) + 1
  BY <1>1
<1>4. Elements(Append(s, x)) = Elements(s) \cup {x}
  BY <1>1, <1>2, <1>3 DEF Elements
<1>5. ASSUME Increasing(s), Older(Elements(s), {x}),
             NEW i \in 1 .. Len(s) + 1, NEW j \in 1 .. Len(s) + 1, i < j,
             Append(s, x)[i].src = Append(s, x)[j].src
      PROVE  Append(s, x)[i].n < Append(s, x)[j].n
  <2>1. i \in 1 .. Len(s) /\ s[i] \in Elements(s)
    BY <1>1, <1>5 DEF Elements
  <2>2. CASE j \in 1 .. Len(s)
    BY <1>1, <1>5, <2>1, <2>2 DEF Increasing
  <2>3. CASE j = Len(s) + 1
    BY <1>1, <1>5, <2>1, <2>3 DEF Older
  <2> QED
    BY <1>2, <2>2, <2>3
<1> QED
  BY <1>1, <1>4, <1>5 DEF Increasing

LEMMA TailItem ==
    ASSUME NEW s \in Seq(Item), s # <<>>
    PROVE  /\ Head(s) \in Elements(s) /\ Head(s) \in Item
           /\ Elements(Tail(s)) \subseteq Elements(s)
           /\ Increasing(s) => Increasing(Tail(s)) /\ Older({Head(s)}, Elements(Tail(s)))
<1>1. /\ Len(s) \in Nat /\ Len(s) > 0 /\ DOMAIN s = 1 .. Len(s)
      /\ DOMAIN Tail(s) = 1 .. Len(s) - 1
      /\ \A i \in 1 .. Len(s) - 1 : Tail(s)[i] = s[i + 1]
      /\ Head(s) = s[1] /\ Head(s) \in Item
  OBVIOUS
<1>2. \A i \in 1 .. Len(s) - 1 : i + 1 \in 1 .. Len(s) /\ 1 < i + 1
  BY <1>1
<1>3. Head(s) \in Elements(s) /\ Elements(Tail(s)) \subseteq Elements(s)
  BY <1>1, <1>2 DEF Elements
<1>4. ASSUME Increasing(s) PROVE Increasing(Tail(s))
  <2>1. SUFFICES ASSUME NEW i \in 1 .. Len(s) - 1, NEW j \in 1 .. Len(s) - 1, i < j,
                        Tail(s)[i].src = Tail(s)[j].src
                 PROVE  Tail(s)[i].n < Tail(s)[j].n
    BY <1>1 DEF Increasing
  <2>2. i + 1 \in 1 .. Len(s) /\ j + 1 \in 1 .. Len(s) /\ i + 1 < j + 1
    BY <1>2, <2>1
  <2> QED
    BY <1>1, <1>4, <2>1, <2>2 DEF Increasing
<1>5. ASSUME Increasing(s) PROVE Older({Head(s)}, Elements(Tail(s)))
  <2>1. SUFFICES ASSUME NEW i \in 1 .. Len(s) - 1, s[1].src = s[i + 1].src
                 PROVE  s[1].n < s[i + 1].n
    BY <1>1 DEF Older, Elements
  <2> QED
    BY <1>1, <1>2, <1>5, <2>1 DEF Increasing
<1> QED
  BY <1>1, <1>3, <1>4, <1>5

LEMMA NoItems == Elements(<<>>) = {} /\ Increasing(<<>>)
  BY DEF Elements, Increasing

LEMMA ElementsType == \A s \in Seq(Item) : Elements(s) \subseteq Item
  BY DEF Elements

(* The facts about types that the steps below use. *)
TypeFacts(p) ==
    /\ p \in Sources
    /\ pc \in [Procs -> {"idle", "size", "content"}]
    /\ sent \in [Sources -> Nat]
    /\ wire \in [Procs -> Seq(Chunk)]
    /\ frame \in [Procs -> Nat]
    /\ loop \in [Procs -> {"unaccepted", "size", "content", "done"}]

LEMMA TypeGives == ASSUME TypeOK, NEW p \in Procs PROVE TypeFacts(p)
  BY DEF TypeOK, AgentTypeOK, ConnTypeOK, TypeFacts, Sources

(* An item that has passed the socket of its process stays older than      *)
(* whatever the process and its receive task do next.                      *)
LEMMA PassedStep ==
    ASSUME TypeOK, WireInv, [Next]_vars, NEW item \in Item, Passed(item)
    PROVE  Passed(item)'
<1> DEFINE q == item.src
<1>0. item.n \in 1 .. sent[q] /\ item.n \in Nat /\ q \in Sources
  BY DEF Passed, Item
<1>1. CASE q \notin Procs
  <2>1. q = HeartBeat
    BY <1>0, <1>1 DEF Sources
  <2>2. sent'[q] = sent[q] \/ sent'[q] = sent[q] + 1
    BY <2>1, ReportingAssumption
       DEF Next, ProcNext, ConnNext, WorkerNext, vars, Report, WriteSize, WriteContent, ProcExit,
           Accept, ReceiveSize, ReceiveContent, ReceiveEof, Beat, CreateEndpoint, Connect,
           Consume, Collect, Start, Stop, Exit, Kill, WorkerGone, OapChange,
           TypeOK, AgentTypeOK, Sources
  <2>3. sent[q] \in Nat
    BY <1>0 DEF TypeOK, AgentTypeOK
  <2> QED
    BY <1>0, <1>1, <2>2, <2>3 DEF Passed
<1>2. CASE q \in Procs
  <2>0. /\ TypeFacts(q) /\ sent[q] \in Nat /\ wire[q] \in Seq(Chunk) /\ ConnInv(q)
        /\ pc[q] # "idle" => item.n < sent[q]
        /\ loop[q] = "content" => item.n < frame[q]
        /\ \A i \in DOMAIN wire[q] : item.n < wire[q][i].n
    BY <1>2, TypeGives DEF TypeFacts, WireInv, Passed
  <2> HIDE DEF q
  <2> DEFINE Goal == /\ item.n \in 1 .. sent'[q]
                     /\ pc'[q] # "idle" => item.n < sent'[q]
                     /\ loop'[q] = "content" => item.n < frame'[q]
                     /\ \A i \in DOMAIN wire'[q] : item.n < wire'[q][i].n
  <2>1. ASSUME pc'[q] = pc[q], sent'[q] = sent[q], wire'[q] = wire[q],
               loop'[q] \in {loop[q], "size", "done"}, frame'[q] = frame[q]
        PROVE  Goal
    BY <1>0, <2>0, <2>1
  <2>2. ASSUME NEW p \in Procs, Report(p) PROVE Goal
    <3>1. CASE q # p
      <4>1. /\ pc'[q] = pc[q] /\ sent'[q] = sent[q] /\ wire'[q] = wire[q]
            /\ loop'[q] = loop[q] /\ frame'[q] = frame[q]
        BY <1>2, <2>0, <2>2, <3>1 DEF TypeFacts, Report, receive
      <4> QED
        BY <2>1, <4>1
    <3>2. CASE q = p
      <4>1. sent'[q] = sent[q] + 1 /\ wire' = wire /\ loop' = loop /\ frame' = frame
        BY <1>2, <2>0, <2>2, <3>2 DEF TypeFacts, Report, receive
      <4> QED
        BY <1>0, <2>0, <4>1
    <3> QED
      BY <3>1, <3>2
  <2>3. ASSUME NEW p \in Procs, WriteSize(p) \/ WriteContent(p) PROVE Goal
    <3>1. sent' = sent /\ loop' = loop /\ frame' = frame
      BY <2>3 DEF WriteSize, WriteContent
    <3>2. CASE pc'[q] = pc[q] /\ wire'[q] = wire[q]
      BY <2>1, <3>1, <3>2
    <3>3. CASE q = p /\ stream[p] = "broken"
      <4>1. wire' = wire /\ pc'[q] = "idle"
        BY <1>2, <2>0, <2>3, <3>3 DEF TypeFacts, WriteSize, WriteContent, WriteAll
      <4> QED
        BY <1>0, <2>0, <3>1, <4>1
    <3>4. CASE q = p /\ stream[p] = "open"
      <4> DEFINE c(part) == [part |-> part, n |-> sent[q]]
      <4>1. PICK part \in {"size", "content"} : wire'[q] = Append(wire[q], c(part))
        BY <1>2, <2>0, <2>3, <3>4 DEF TypeFacts, WriteSize, WriteContent, WriteAll
      <4>2. c(part) \in Chunk /\ c(part).n = sent[q]
        BY <2>0 DEF Chunk
      <4>3. pc[q] # "idle"
        BY <2>3, <3>4 DEF WriteSize, WriteContent
      <4> HIDE DEF c
      <4>4. /\ Len(wire[q]) \in Nat /\ DOMAIN wire[q] = 1 .. Len(wire[q])
            /\ DOMAIN wire'[q] = 1 .. Len(wire[q]) + 1
            /\ wire'[q][Len(wire[q]) + 1] = c(part)
            /\ \A i \in 1 .. Len(wire[q]) : wire'[q][i] = wire[q][i]
        BY <2>0, <4>1, <4>2
      <4>5. \A i \in 1 .. Len(wire[q]) + 1 : i \in 1 .. Len(wire[q]) \/ i = Len(wire[q]) + 1
        BY <4>4
      <4>6. \A i \in DOMAIN wire'[q] : item.n < wire'[q][i].n
        BY <2>0, <4>2, <4>3, <4>4, <4>5
      <4> QED
        BY <1>0, <2>0, <3>1, <4>3, <4>6
    <3>5. q # p => pc'[q] = pc[q] /\ wire'[q] = wire[q]
      BY <1>2, <2>0, <2>3 DEF TypeFacts, WriteSize, WriteContent, WriteAll
    <3>6. stream[p] \in {"open", "broken"}
      BY <2>3 DEF WriteSize, WriteContent, WriteAll
    <3> QED
      BY <3>2, <3>3, <3>4, <3>5, <3>6
  <2>4. ASSUME NEW p \in Procs, ReceiveSize(p) \/ ReceiveContent(p) PROVE Goal
    <3>1. pc' = pc /\ sent' = sent
      BY <2>4 DEF ReceiveSize, ReceiveContent, agent
    <3>2. CASE q # p
      <4>1. wire'[q] = wire[q] /\ loop'[q] = loop[q] /\ frame'[q] = frame[q]
        BY <1>2, <2>0, <2>4, <3>2 DEF TypeFacts, ReceiveSize, ReceiveContent
      <4> QED
        BY <2>1, <3>1, <4>1
    <3>3. CASE q = p
      <4>1. wire[q] # <<>> /\ (wire'[q] = <<>> \/ wire'[q] = Tail(wire[q]))
        BY <1>2, <2>0, <2>4, <3>3 DEF TypeFacts, ReceiveSize, ReceiveContent
      <4>2. /\ Len(wire[q]) \in Nat /\ Len(wire[q]) > 0 /\ DOMAIN wire[q] = 1 .. Len(wire[q])
            /\ DOMAIN Tail(wire[q]) = 1 .. Len(wire[q]) - 1
            /\ \A i \in 1 .. Len(wire[q]) - 1 : Tail(wire[q])[i] = wire[q][i + 1]
            /\ Head(wire[q]) = wire[q][1]
        BY <2>0, <4>1
      <4>3. \A i \in 1 .. Len(wire[q]) - 1 : i + 1 \in 1 .. Len(wire[q])
        BY <4>2
      <4>4. ASSUME wire'[q] = <<>> PROVE \A i \in DOMAIN wire'[q] : item.n < wire'[q][i].n
        BY <4>4
      <4>5. ASSUME wire'[q] = Tail(wire[q]) PROVE \A i \in DOMAIN wire'[q] : item.n < wire'[q][i].n
        BY <2>0, <4>2, <4>3, <4>5
      <4>6. \A i \in DOMAIN wire'[q] : item.n < wire'[q][i].n
        BY <4>1, <4>4, <4>5
      <4>7. loop'[q] = "content" => frame'[q] = wire[q][1].n
        BY <1>2, <2>0, <2>4, <3>3, <4>2 DEF TypeFacts, ReceiveSize, ReceiveContent
      <4>8. loop'[q] = "content" => item.n < frame'[q]
        BY <2>0, <4>2, <4>7
      <4> QED
        BY <1>0, <2>0, <3>1, <4>6, <4>8
    <3> QED
      BY <3>2, <3>3
  <2>5. ASSUME NEW p \in Procs, Accept(p) \/ ReceiveEof(p) PROVE Goal
    <3>1. /\ pc' = pc /\ sent' = sent /\ wire' = wire /\ frame' = frame
          /\ loop'[q] \in {loop[q], "size", "done"}
      BY <1>2, <2>0, <2>5 DEF TypeFacts, Accept, ReceiveEof, agent
    <3> QED
      BY <2>1, <3>1
  <2>6. ASSUME Beat PROVE Goal
    <3>1. /\ sent'[q] = sent[q] /\ pc'[q] = pc[q] /\ wire'[q] = wire[q]
          /\ loop'[q] = loop[q] /\ frame'[q] = frame[q]
      BY <1>2, <2>0, <2>6, ReportingAssumption DEF TypeFacts, Beat, agent, receive
    <3> QED
      BY <2>1, <3>1
  <2>7. ASSUME WorkerGone PROVE Goal
    <3>1. /\ pc' = pc /\ sent' = sent /\ frame' = frame /\ wire'[q] = <<>>
          /\ loop'[q] \in {loop[q], "done"}
      BY <1>2, <2>7 DEF WorkerGone
    <3>2. DOMAIN wire'[q] = {}
      BY <3>1
    <3> QED
      BY <1>0, <2>0, <3>1, <3>2
  <2>8. ASSUME UNCHANGED <<pc, sent, wire, loop, frame>> PROVE Goal
    <3>1. /\ sent'[q] = sent[q] /\ pc'[q] = pc[q] /\ wire'[q] = wire[q]
          /\ loop'[q] = loop[q] /\ frame'[q] = frame[q]
      BY <2>8
    <3> QED
      BY <2>1, <3>1
  <2> HIDE DEF Goal
  <2>9. ASSUME UNCHANGED vars PROVE Goal
    BY <2>8, <2>9 DEF vars, agent, receive
  <2>10. ASSUME NEW p \in Procs, ProcExit(p) PROVE Goal
    BY <2>8, <2>10 DEF ProcExit, receive
  <2>11. ASSUME CreateEndpoint \/ Connect \/ Consume \/ Collect \/ Start \/ Stop \/ OapChange PROVE Goal
    BY <2>8, <2>11
       DEF CreateEndpoint, Connect, Consume, Collect, Start, Stop, OapChange, agent, receive
  <2>12. Goal
    BY <2>2, <2>3, <2>4, <2>5, <2>6, <2>7, <2>9, <2>10, <2>11
       DEF Next, ProcNext, ConnNext, WorkerNext, Exit, Kill
  <2> QED
    BY <1>0, <1>2, <2>12 DEF Passed, Goal, q
<1> QED
  BY <1>1, <1>2

(* Writes are appended, and reads taken off, in the order of the items.    *)
LEMMA ConnOrderStep ==
    ASSUME TypeOK, WireInv, [Next]_vars, NEW q \in Procs, ConnOrder(q)
    PROVE  ConnOrder(q)'
<1>0. /\ TypeFacts(q) /\ sent[q] \in Nat /\ wire[q] \in Seq(Chunk) /\ ConnInv(q)
  BY TypeGives DEF TypeFacts, WireInv
<1>w. /\ \A i \in DOMAIN wire[q] :
            /\ wire[q][i].n \in 1 .. sent[q]
            /\ wire[q][i].part = "content" /\ pc[q] # "idle" => wire[q][i].n < sent[q]
      /\ \A i, j \in DOMAIN wire[q] :
            i < j /\ wire[q][i].part = "content" => wire[q][i].n < wire[q][j].n
      /\ loop[q] = "content" => frame[q] \in 1 .. sent[q]
  BY DEF ConnOrder, WireOrdered
<1>1. ASSUME pc'[q] = pc[q], sent'[q] = sent[q], wire'[q] = wire[q],
             loop'[q] \in {loop[q], "size", "done"}, frame'[q] = frame[q]
      PROVE  ConnOrder(q)'
  BY <1>w, <1>1 DEF ConnOrder, WireOrdered
<1>2. ASSUME NEW p \in Procs, Report(p) PROVE ConnOrder(q)'
  <2>1. CASE q # p
    <3>1. /\ pc'[q] = pc[q] /\ sent'[q] = sent[q] /\ wire'[q] = wire[q]
          /\ loop'[q] = loop[q] /\ frame'[q] = frame[q]
      BY <1>0, <1>2, <2>1 DEF TypeFacts, Report, receive
    <3> QED
      BY <1>1, <3>1
  <2>2. CASE q = p
    <3>1. sent'[q] = sent[q] + 1 /\ wire' = wire /\ loop' = loop /\ frame' = frame
      BY <1>0, <1>2, <2>2 DEF TypeFacts, Report, receive
    <3>2. \A k \in 1 .. sent[q] : k \in 1 .. sent'[q] /\ k < sent'[q]
      BY <1>0, <3>1
    <3> QED
      BY <1>w, <3>1, <3>2 DEF ConnOrder, WireOrdered
  <2> QED
    BY <2>1, <2>2
<1>3. ASSUME NEW p \in Procs, WriteSize(p) \/ WriteContent(p) PROVE ConnOrder(q)'
  <2>1. sent' = sent /\ loop' = loop /\ frame' = frame
    BY <1>3 DEF WriteSize, WriteContent
  <2>2. CASE q # p
    <3>1. pc'[q] = pc[q] /\ wire'[q] = wire[q]
      BY <1>0, <1>3, <2>2 DEF TypeFacts, WriteSize, WriteContent, WriteAll
    <3> QED
      BY <1>1, <2>1, <3>1
  <2>3. CASE q = p /\ stream[p] = "broken"
    <3>1. wire' = wire /\ pc'[q] = "idle"
      BY <1>0, <1>3, <2>3 DEF TypeFacts, WriteSize, WriteContent, WriteAll
    <3> QED
      BY <1>w, <2>1, <3>1 DEF ConnOrder, WireOrdered
  <2>4. CASE q = p /\ stream[p] = "open"
    <3> DEFINE c(part) == [part |-> part, n |-> sent[q]]
    <3>1. PICK part \in {"size", "content"} :
              /\ wire'[q] = Append(wire[q], c(part))
              /\ part = "content" => pc'[q] = "idle"
      BY <1>0, <1>3, <2>4 DEF TypeFacts, WriteSize, WriteContent, WriteAll
    <3>2. c(part) \in Chunk /\ c(part).n = sent[q] /\ c(part).part = part
      BY <1>0 DEF Chunk
    <3>3. pc[q] # "idle" /\ sent[q] \in 1 .. sent[q]
      BY <1>0, <1>3, <2>4 DEF WriteSize, WriteContent, ConnInv, StreamShape
    <3> HIDE DEF c
    <3>4. /\ Len(wire[q]) \in Nat /\ DOMAIN wire[q] = 1 .. Len(wire[q])
          /\ DOMAIN wire'[q] = 1 .. Len(wire[q]) + 1
          /\ wire'[q][Len(wire[q]) + 1] = c(part)
          /\ \A i \in 1 .. Len(wire[q]) : wire'[q][i] = wire[q][i]
      BY <1>0, <3>1, <3>2
    <3>5. \A i \in 1 .. Len(wire[q]) + 1 : i \in 1 .. Len(wire[q]) \/ i = Len(wire[q]) + 1
      BY <3>4
    <3>6. \A i \in DOMAIN wire'[q] :
             /\ wire'[q][i].n \in 1 .. sent[q]
             /\ wire'[q][i].part = "content" /\ pc'[q] # "idle" => wire'[q][i].n < sent[q]
      BY <1>w, <3>1, <3>2, <3>3, <3>4, <3>5
    <3>7. ASSUME NEW i \in DOMAIN wire'[q], NEW j \in DOMAIN wire'[q],
                 i < j, wire'[q][i].part = "content"
          PROVE  wire'[q][i].n < wire'[q][j].n
      <4>1. i \in 1 .. Len(wire[q])
        BY <3>4, <3>5, <3>7
      <4>2. CASE j \in 1 .. Len(wire[q])
        BY <1>w, <3>4, <3>7, <4>1, <4>2
      <4>3. CASE j = Len(wire[q]) + 1
        BY <1>w, <3>2, <3>3, <3>4, <3>7, <4>1, <4>3
      <4> QED
        BY <3>4, <3>5, <4>2, <4>3
    <3> QED
      BY <1>w, <2>1, <3>6, <3>7 DEF ConnOrder, WireOrdered
  <2>5. stream[p] \in {"open", "broken"}
    BY <1>3 DEF WriteSize, WriteContent, WriteAll
  <2> QED
    BY <2>2, <2>3, <2>4, <2>5
<1>4. ASSUME NEW p \in Procs, ReceiveSize(p) \/ ReceiveContent(p) PROVE ConnOrder(q)'
  <2>1. pc' = pc /\ sent' = sent
    BY <1>4 DEF ReceiveSize, ReceiveContent, agent
  <2>2. CASE q # p
    <3>1. wire'[q] = wire[q] /\ loop'[q] = loop[q] /\ frame'[q] = frame[q]
      BY <1>0, <1>4, <2>2 DEF TypeFacts, ReceiveSize, ReceiveContent
    <3> QED
      BY <1>1, <2>1, <3>1
  <2>3. CASE q = p
    <3>1. wire[q] # <<>> /\ (wire'[q] = <<>> \/ wire'[q] = Tail(wire[q]))
      BY <1>0, <1>4, <2>3 DEF TypeFacts, ReceiveSize, ReceiveContent
    <3>2. /\ Len(wire[q]) \in Nat /\ Len(wire[q]) > 0 /\ DOMAIN wire[q] = 1 .. Len(wire[q])
          /\ DOMAIN Tail(wire[q]) = 1 .. Len(wire[q]) - 1
          /\ \A i \in 1 .. Len(wire[q]) - 1 : Tail(wire[q])[i] = wire[q][i + 1]
          /\ Head(wire[q]) = wire[q][1]
      BY <1>0, <3>1
    <3>3. \A i \in 1 .. Len(wire[q]) - 1 : i + 1 \in 1 .. Len(wire[q])
      BY <3>2
    <3>4. loop'[q] = "content" => frame'[q] = wire[q][1].n
      BY <1>0, <1>4, <2>3, <3>2 DEF TypeFacts, ReceiveSize, ReceiveContent
    <3>5. loop'[q] = "content" => frame'[q] \in 1 .. sent'[q]
      BY <1>w, <2>1, <3>2, <3>4
    <3>6. ASSUME wire'[q] = <<>> PROVE WireOrdered(q)'
      BY <3>6 DEF WireOrdered
    <3>7. ASSUME wire'[q] = Tail(wire[q]) PROVE WireOrdered(q)'
      <4>1. \A i \in DOMAIN wire'[q] :
               /\ wire'[q][i].n \in 1 .. sent'[q]
               /\ wire'[q][i].part = "content" /\ pc'[q] # "idle" => wire'[q][i].n < sent'[q]
        BY <1>w, <2>1, <3>2, <3>3, <3>7
      <4>2. ASSUME NEW i \in DOMAIN wire'[q], NEW j \in DOMAIN wire'[q],
                   i < j, wire'[q][i].part = "content"
            PROVE  wire'[q][i].n < wire'[q][j].n
        <5>1. i + 1 \in 1 .. Len(wire[q]) /\ j + 1 \in 1 .. Len(wire[q]) /\ i + 1 < j + 1
          BY <3>2, <3>3, <3>7, <4>2
        <5> QED
          BY <1>w, <3>2, <3>7, <4>2, <5>1
      <4> QED
        BY <4>1, <4>2 DEF WireOrdered
    <3> QED
      BY <3>1, <3>5, <3>6, <3>7 DEF ConnOrder
  <2> QED
    BY <2>2, <2>3
<1>5. ASSUME NEW p \in Procs, Accept(p) \/ ReceiveEof(p) PROVE ConnOrder(q)'
  <2>1. /\ pc'[q] = pc[q] /\ sent'[q] = sent[q] /\ wire'[q] = wire[q] /\ frame'[q] = frame[q]
        /\ loop'[q] \in {loop[q], "size", "done"}
    BY <1>0, <1>5 DEF TypeFacts, Accept, ReceiveEof, agent
  <2> QED
    BY <1>1, <2>1
<1>6. CASE Beat
  <2>1. /\ sent'[q] = sent[q] /\ pc'[q] = pc[q] /\ wire'[q] = wire[q]
        /\ loop'[q] = loop[q] /\ frame'[q] = frame[q]
    BY <1>0, <1>6, ReportingAssumption DEF TypeFacts, Beat, agent, receive
  <2> QED
    BY <1>1, <2>1
<1>7. CASE WorkerGone
  <2>1. /\ sent' = sent /\ frame' = frame /\ wire'[q] = <<>> /\ loop'[q] \in {loop[q], "done"}
    BY <1>7 DEF WorkerGone
  <2>2. WireOrdered(q)'
    BY <2>1 DEF WireOrdered
  <2> QED
    BY <1>w, <2>1, <2>2 DEF ConnOrder
<1>8. ASSUME UNCHANGED <<pc, sent, wire, loop, frame>> PROVE ConnOrder(q)'
  <2>1. /\ sent'[q] = sent[q] /\ pc'[q] = pc[q] /\ wire'[q] = wire[q]
        /\ loop'[q] = loop[q] /\ frame'[q] = frame[q]
    BY <1>8
  <2> QED
    BY <1>1, <2>1
<1>9. CASE UNCHANGED vars
  BY <1>8, <1>9 DEF vars, agent, receive
<1>10. ASSUME NEW p \in Procs, ProcExit(p) PROVE ConnOrder(q)'
  BY <1>8, <1>10 DEF ProcExit, receive
<1>11. CASE CreateEndpoint \/ Connect \/ Consume \/ Collect \/ Start \/ Stop \/ OapChange
  BY <1>8, <1>11
     DEF CreateEndpoint, Connect, Consume, Collect, Start, Stop, OapChange, agent, receive
<1> QED
  BY <1>2, <1>3, <1>4, <1>5, <1>6, <1>7, <1>9, <1>10, <1>11
     DEF Next, ProcNext, ConnNext, WorkerNext, Exit, Kill

LEMMA DownType == TypeOK => Down \subseteq Item
  BY ElementsType DEF TypeOK, ItemsTypeOK, Down, InFlight

(* try_send puts the item behind everything of its source that went before. *)
LEMMA TrySendOrder ==
    ASSUME ItemsTypeOK, DownOrder, NEW item \in Item, TrySend(item),
           UNCHANGED <<oap, inflight>>, Older(Down, {item})
    PROVE  DownOrder' /\ Down' \subseteq Down \cup {item}
<1>1. CASE chan' = chan
  BY <1>1 DEF DownOrder, Down, InFlight, Increasing, Older, Elements
<1>2. CASE chan' = Append(chan, item)
  <2>1. Elements(chan)' = Elements(chan) \cup {item}
    BY <1>2, AppendItem DEF ItemsTypeOK, Elements
  <2>2. Older(Elements(chan), {item})
    BY DEF Older, Down
  <2>3. Increasing(chan')
    BY <1>2, <2>2, AppendItem DEF ItemsTypeOK, DownOrder
  <2>4. Elements(oap)' = Elements(oap) /\ InFlight' = InFlight /\ Increasing(oap')
    BY DEF Elements, InFlight, Increasing, DownOrder
  <2>5. Older(Elements(oap)', Elements(chan)') /\ Older(InFlight', Elements(chan)')
    BY <2>1, <2>4 DEF Older, Down, DownOrder
  <2>6. Older(Elements(oap)', InFlight')
    BY <2>4 DEF Older, DownOrder
  <2> QED
    BY <2>1, <2>3, <2>4, <2>5, <2>6 DEF DownOrder, Down, Older, Increasing
<1> QED
  BY <1>1, <1>2 DEF TrySend

(* The item a receive task has read is younger than all that passed, and   *)
(* has itself passed once it is read.                                      *)
LEMMA ReceivedItem ==
    ASSUME TypeOK, WireInv, OrderInv, NEW p \in Procs, ReceiveContent(p), Decodes(p)
    PROVE  LET item == ItemOf(p, frame[p]) IN
           item \in Item /\ Older(Down, {item}) /\ Passed(item)'
<1> DEFINE item == ItemOf(p, frame[p])
<1>0. /\ TypeFacts(p) /\ sent[p] \in Nat /\ frame[p] \in Nat /\ wire[p] \in Seq(Chunk)
      /\ wire[p] # <<>> /\ loop[p] = "content" /\ ConnOrder(p)
  BY TypeGives DEF TypeFacts, OrderInv, ReceiveContent
<1>1. item \in Item /\ item.src = p /\ item.n = frame[p]
  BY <1>0 DEF TypeFacts, ItemOf, Item
<1>2. ASSUME NEW x \in Down, x.src = p PROVE x.n < frame[p]
  BY <1>0, <1>2 DEF OrderInv, Passed
<1>3. Older(Down, {item})
  BY <1>1, <1>2 DEF Older
<1>4. /\ Len(wire[p]) \in Nat /\ Len(wire[p]) > 0 /\ DOMAIN wire[p] = 1 .. Len(wire[p])
      /\ DOMAIN Tail(wire[p]) = 1 .. Len(wire[p]) - 1
      /\ \A i \in 1 .. Len(wire[p]) - 1 : Tail(wire[p])[i] = wire[p][i + 1]
      /\ wire[p][1].part = "content" /\ wire[p][1].n = frame[p]
  BY <1>0 DEF Decodes
<1>5. \A i \in 1 .. Len(wire[p]) - 1 : i + 1 \in 1 .. Len(wire[p]) /\ 1 < i + 1
  BY <1>4
<1>6. /\ pc' = pc /\ sent' = sent /\ frame' = frame /\ loop'[p] # "content"
      /\ wire'[p] = <<>> \/ wire'[p] = Tail(wire[p])
  BY <1>0 DEF TypeFacts, ReceiveContent
<1>7. frame[p] \in 1 .. sent[p] /\ (pc[p] # "idle" => frame[p] < sent[p])
  BY <1>0, <1>4 DEF ConnOrder, WireOrdered
<1>8. ASSUME wire'[p] = Tail(wire[p]), NEW i \in DOMAIN wire'[p]
      PROVE  frame[p] < wire'[p][i].n
  <2>1. /\ 1 \in DOMAIN wire[p] /\ i + 1 \in DOMAIN wire[p] /\ 1 < i + 1
        /\ wire'[p][i] = wire[p][i + 1]
    BY <1>4, <1>5, <1>8
  <2>2. \A j, k \in DOMAIN wire[p] :
           j < k /\ wire[p][j].part = "content" => wire[p][j].n < wire[p][k].n
    BY <1>0 DEF ConnOrder, WireOrdered
  <2>3. wire[p][1].n < wire[p][i + 1].n
    BY <1>4, <2>1, <2>2
  <2> QED
    BY <1>4, <2>1, <2>3
<1>9. \A i \in DOMAIN wire'[p] : frame[p] < wire'[p][i].n
  BY <1>6, <1>8
<1> HIDE DEF item
<1>10. Passed(item)'
  <2>1. item' = item
    BY <1>6 DEF item, ItemOf
  <2> QED
    BY <1>1, <1>6, <1>7, <1>9, <2>1 DEF Passed
<1> QED
  BY <1>1, <1>3, <1>10 DEF item

(* Every step keeps the order of what has passed the sockets. *)
LEMMA DownStep ==
    ASSUME TypeOK, WireInv, OrderInv, [Next]_vars
    PROVE  (\A item \in Down' : Passed(item)') /\ DownOrder'
<1>0. Down \subseteq Item /\ ItemsTypeOK /\ DownOrder
  BY DownType DEF TypeOK, OrderInv
<1>p. \A item \in Down : Passed(item)'
  BY <1>0, PassedStep DEF OrderInv
<1>1. ASSUME Down' \subseteq Down, DownOrder'
      PROVE  (\A item \in Down' : Passed(item)') /\ DownOrder'
  BY <1>p, <1>1
<1>2. ASSUME NEW item \in Item, TrySend(item), UNCHANGED <<oap, inflight>>,
             Older(Down, {item}), Passed(item)'
      PROVE  (\A x \in Down' : Passed(x)') /\ DownOrder'
  BY <1>0, <1>p, <1>2, TrySendOrder
<1>3. ASSUME UNCHANGED <<oap, inflight, chan>>
      PROVE  (\A item \in Down' : Passed(item)') /\ DownOrder'
  <2>1. Down' = Down /\ DownOrder'
    BY <1>0, <1>3 DEF Down, DownOrder, InFlight, Increasing, Older, Elements
  <2> QED
    BY <1>1, <2>1
<1>4. ASSUME NEW p \in Procs, ReceiveContent(p)
      PROVE  (\A item \in Down' : Passed(item)') /\ DownOrder'
  <2>1. CASE Decodes(p)
    <3> DEFINE item == ItemOf(p, frame[p])
    <3>1. TrySend(item) /\ UNCHANGED <<oap, inflight>> /\ frame' = frame
      BY <1>4, <2>1 DEF ReceiveContent, server
    <3>2. item \in Item /\ Older(Down, {item}) /\ Passed(item)'
      BY <1>4, <2>1, ReceivedItem
    <3>3. item' = item
      BY <3>1 DEF ItemOf
    <3> HIDE DEF item
    <3>4. \A x \in Down' : x \in Down \/ x = item
      BY <1>0, <3>1, <3>2, TrySendOrder
    <3>5. DownOrder'
      BY <1>0, <3>1, <3>2, TrySendOrder
    <3>6. ASSUME NEW x \in Down' PROVE Passed(x)'
      <4>1. CASE x \in Down
        BY <1>p, <4>1
      <4>2. CASE x = item
        BY <3>2, <3>3, <4>2 DEF Passed
      <4> QED
        BY <3>4, <4>1, <4>2
    <3> QED
      BY <3>5, <3>6
  <2>2. CASE ~Decodes(p)
    BY <1>3, <1>4, <2>2 DEF ReceiveContent, server
  <2> QED
    BY <2>1, <2>2
<1>5. CASE Beat
  <2> DEFINE k == sent[HeartBeat] + 1
             item == ItemOf(HeartBeat, k)
  <2>1. /\ sent[HeartBeat] \in Nat /\ HeartBeat \in Sources /\ HeartBeat \notin Procs
        /\ sent'[HeartBeat] = k
    BY <1>5, ReportingAssumption DEF Beat, TypeOK, AgentTypeOK, Sources
  <2>2. item \in Item /\ item.src = HeartBeat /\ item.n = k
    BY <2>1 DEF ItemOf, Item
  <2>3. TrySend(item) /\ UNCHANGED <<oap, inflight>>
    BY <1>5 DEF Beat, server
  <2>4. ASSUME NEW x \in Down, x.src = HeartBeat PROVE x.n < k
    <3>1. x.n \in 1 .. sent[HeartBeat]
      BY <2>4 DEF OrderInv, Passed
    <3> QED
      BY <2>1, <3>1
  <2>5. Older(Down, {item})
    BY <2>2, <2>4 DEF Older
  <2>6. k \in 1 .. sent'[HeartBeat]
    BY <2>1
  <2> HIDE DEF item, k
  <2>7. \A x \in Down' : x \in Down \/ x = item
    BY <1>0, <2>2, <2>3, <2>5, TrySendOrder
  <2>8. DownOrder'
    BY <1>0, <2>2, <2>3, <2>5, TrySendOrder
  <2>9. ASSUME NEW x \in Down' PROVE Passed(x)'
    <3>1. CASE x \in Down
      BY <1>p, <3>1
    <3>2. CASE x = item
      BY <2>1, <2>2, <2>6, <3>2 DEF Passed
    <3> QED
      BY <2>7, <3>1, <3>2
  <2> QED
    BY <2>8, <2>9
<1>6. CASE (CreateEndpoint \/ Stop \/ WorkerGone) /\ chan' # chan
  <2>1. /\ chan' = <<>> /\ oap' = oap /\ (inflight' = inflight \/ inflight' = NoItem)
    BY <1>6 DEF CreateEndpoint, Stop, WorkerGone, server
  <2>2. /\ Elements(chan)' = {} /\ Increasing(chan)' /\ Elements(oap)' = Elements(oap)
        /\ InFlight' \subseteq InFlight
    BY <2>1, NoItems DEF Elements, InFlight, Increasing
  <2>3. Down' \subseteq Down
    BY <2>2 DEF Down
  <2>4. Increasing(oap)' /\ Older(Elements(oap)', InFlight')
    BY <1>0, <2>1, <2>2 DEF DownOrder, Increasing, Older
  <2>5. Older(Elements(oap)', Elements(chan)') /\ Older(InFlight', Elements(chan)')
    BY <2>2 DEF Older
  <2>6. DownOrder'
    BY <2>2, <2>4, <2>5 DEF DownOrder, Older, Increasing
  <2> QED
    BY <1>1, <2>3, <2>6
<1>7. CASE WorkerGone /\ chan' = chan
  <2>1. /\ oap' = oap /\ inflight' = NoItem
    BY <1>7 DEF WorkerGone, server
  <2>2. InFlight' = {} /\ Elements(chan)' = Elements(chan) /\ Elements(oap)' = Elements(oap)
    BY <1>7, <2>1 DEF InFlight, Elements
  <2>3. Down' \subseteq Down
    BY <2>2 DEF Down
  <2>4. DownOrder'
    BY <1>0, <1>7, <2>1, <2>2 DEF DownOrder, Older, Increasing
  <2> QED
    BY <1>1, <2>3, <2>4
<1>8. CASE Consume
  <2>1. /\ InFlight = {} /\ chan # <<>> /\ inflight' = Head(chan) /\ chan' = Tail(chan)
        /\ oap' = oap /\ chan \in Seq(Item)
    BY <1>0, <1>8 DEF Consume, InFlight, ItemsTypeOK, server
  <2>2. /\ Head(chan) \in Elements(chan) /\ Head(chan) \in Item
        /\ Elements(chan)' \subseteq Elements(chan)
        /\ Increasing(chan)' /\ Older({Head(chan)}, Elements(chan)')
    BY <1>0, <2>1, TailItem DEF DownOrder, Elements, Increasing
  <2>3. InFlight' = {Head(chan)} /\ Elements(oap)' = Elements(oap)
    BY <2>1, <2>2, NoItemAssumption DEF InFlight, Elements
  <2>4. Down' \subseteq Down
    BY <2>2, <2>3 DEF Down
  <2>5. DownOrder'
    BY <1>0, <2>1, <2>2, <2>3 DEF DownOrder, Older, Increasing
  <2> QED
    BY <1>1, <2>4, <2>5
<1>9. CASE Collect /\ oap' = Append(oap, inflight)
  <2>1. /\ inflight \in Item /\ InFlight = {inflight} /\ inflight' = NoItem /\ chan' = chan
        /\ oap \in Seq(Item)
    BY <1>0, <1>9 DEF Collect, InFlight, ItemsTypeOK
  <2>2. /\ Elements(oap)' = Elements(oap) \cup {inflight} /\ Increasing(oap)'
        /\ InFlight' = {} /\ Elements(chan)' = Elements(chan) /\ Increasing(chan)'
    <3>1. /\ Elements(oap') = Elements(oap) \cup {inflight}
          /\ Increasing(oap) /\ Older(Elements(oap), {inflight}) => Increasing(oap')
      BY <1>9, <2>1, AppendItem
    <3>2. Increasing(oap) /\ Older(Elements(oap), {inflight})
      BY <1>0, <2>1 DEF DownOrder
    <3>3. Elements(chan)' = Elements(chan) /\ Increasing(chan)' /\ InFlight' = {}
      BY <1>0, <2>1 DEF DownOrder, Elements, Increasing, InFlight
    <3>4. Elements(oap)' = Elements(oap') /\ (Increasing(oap') => Increasing(oap)')
      BY DEF Elements, Increasing
    <3> QED
      BY <3>1, <3>2, <3>3, <3>4
  <2>3. Down' \subseteq Down
    BY <2>1, <2>2 DEF Down
  <2>4. Older(Elements(oap)', Elements(chan)')
    BY <1>0, <2>1, <2>2 DEF DownOrder, Older
  <2>5. DownOrder'
    BY <2>2, <2>4 DEF DownOrder, Older, Increasing
  <2> QED
    BY <1>1, <2>3, <2>5
<1>10. CASE Collect /\ oap' = oap
  <2>1. inflight' = NoItem /\ chan' = chan
    BY <1>10 DEF Collect
  <2>2. InFlight' = {} /\ Elements(chan)' = Elements(chan) /\ Elements(oap)' = Elements(oap)
    BY <1>10, <2>1 DEF InFlight, Elements
  <2>3. Down' \subseteq Down
    BY <2>2 DEF Down
  <2>4. DownOrder'
    BY <1>0, <1>10, <2>1, <2>2 DEF DownOrder, Older, Increasing
  <2> QED
    BY <1>1, <2>3, <2>4
<1>11. CASE (CreateEndpoint \/ Stop) /\ chan' = chan
  BY <1>3, <1>11 DEF CreateEndpoint, Stop, server
<1>12. CASE Connect \/ Start \/ OapChange \/ UNCHANGED vars
  BY <1>3, <1>12 DEF Connect, Start, OapChange, vars, server
<1>13. ASSUME NEW p \in Procs,
              ProcNext(p) \/ Accept(p) \/ ReceiveSize(p) \/ ReceiveEof(p)
       PROVE  (\A item \in Down' : Passed(item)') /\ DownOrder'
  BY <1>3, <1>13
     DEF ProcNext, Report, WriteSize, WriteContent, ProcExit, Accept, ReceiveSize, ReceiveEof, server
<1> QED
  BY <1>4, <1>5, <1>6, <1>7, <1>8, <1>9, <1>10, <1>11, <1>12, <1>13
     DEF Next, ConnNext, WorkerNext, Exit, Kill, Collect

LEMMA OrderInit == Init => OrderInv
<1> SUFFICES ASSUME Init PROVE OrderInv
  OBVIOUS
<1>1. /\ oap = <<>> /\ chan = <<>> /\ inflight = NoItem
      /\ \A p \in Procs : wire[p] = <<>> /\ loop[p] = "unaccepted"
  BY DEF Init
<1>2. Elements(oap) = {} /\ Elements(chan) = {} /\ InFlight = {} /\ Increasing(oap) /\ Increasing(chan)
  BY <1>1, NoItems DEF InFlight
<1> QED
  BY <1>1, <1>2 DEF OrderInv, Down, DownOrder, Older, ConnOrder, WireOrdered

(* The inductive invariant: types, framing, order. *)
IInv == TypeOK /\ WireInv /\ OrderInv

LEMMA Inductive == Spec => []IInv
<1>1. Init => IInv
  BY TypeInit, WireInit, OrderInit DEF IInv
<1>2. IInv /\ [Next]_vars => IInv'
  <2> SUFFICES ASSUME IInv, [Next]_vars PROVE IInv'
    OBVIOUS
  <2>1. TypeOK' /\ WireInv'
    BY TypeStep, WireStep DEF IInv
  <2>2. \A p \in Procs : ConnOrder(p)'
    BY ConnOrderStep DEF IInv, OrderInv
  <2>3. (\A item \in Down' : Passed(item)') /\ DownOrder'
    BY DownStep DEF IInv
  <2> QED
    BY <2>1, <2>2, <2>3 DEF IInv, OrderInv
<1> QED
  BY <1>1, <1>2, PTL DEF Spec

(* The reporting path implements lossy, ordered, at-most-once delivery:    *)
(* whatever is dropped, killed or restarted, the server receives of every  *)
(* process and of the heartbeat only items that were handed over, each     *)
(* once, in the order they were handed over.                               *)
THEOREM DeliversInOrder == Spec => ImplementsLossy
<1>1. Init => Lossy!Init
  BY DEF Init, Lossy!Init
<1>2. IInv /\ [Next]_vars => [Lossy!Next]_(Lossy!vars)
  <2> SUFFICES ASSUME IInv, [Next]_vars PROVE [Lossy!Next]_(Lossy!vars)
    OBVIOUS
  <2>1. ASSUME UNCHANGED <<sent, oap>> PROVE [Lossy!Next]_(Lossy!vars)
    BY <2>1 DEF Lossy!vars
  <2>2. ASSUME NEW s \in Sources, sent' = [sent EXCEPT ![s] = @ + 1], oap' = oap
        PROVE  [Lossy!Next]_(Lossy!vars)
    BY <2>2 DEF Lossy!Next, Lossy!Report
  <2>3. ASSUME NEW p \in Procs, Report(p) PROVE [Lossy!Next]_(Lossy!vars)
    BY <2>2, <2>3 DEF Report, server, Sources
  <2>4. CASE Beat
    BY <2>2, <2>4 DEF Beat, server, Sources
  <2>5. CASE Collect /\ oap' = Append(oap, inflight)
    <3>1. inflight \in Item /\ inflight \in Down /\ sent' = sent
      BY <2>5 DEF Collect, IInv, TypeOK, ItemsTypeOK, Down, InFlight
    <3>2. /\ inflight.src \in Sources /\ inflight.n \in 1 .. sent[inflight.src]
          /\ inflight = [src |-> inflight.src, n |-> inflight.n]
      BY <3>1 DEF Item, IInv, OrderInv, Passed
    <3>3. \A i \in DOMAIN oap : oap[i].src = inflight.src => oap[i].n < inflight.n
      <4>1. Older(Elements(oap), InFlight) /\ inflight \in InFlight
        BY <2>5 DEF IInv, OrderInv, DownOrder, Collect, InFlight
      <4>2. \A i \in DOMAIN oap : oap[i] \in Elements(oap)
        BY DEF Elements
      <4> QED
        BY <4>1, <4>2 DEF Older
    <3>4. Lossy!Deliver(inflight)
      BY <2>5, <3>1, <3>3 DEF Lossy!Deliver
    <3> QED
      BY <3>2, <3>4 DEF Lossy!Next
  <2>6. CASE Collect /\ oap' = oap
    BY <2>1, <2>6 DEF Collect
  <2>7. ASSUME NEW p \in Procs, WriteSize(p) \/ WriteContent(p) \/ ProcExit(p) \/ ConnNext(p)
        PROVE  [Lossy!Next]_(Lossy!vars)
    BY <2>1, <2>7
       DEF WriteSize, WriteContent, ProcExit, ConnNext, Accept, ReceiveSize, ReceiveContent,
           ReceiveEof, server
  <2>8. CASE \/ CreateEndpoint \/ Connect \/ Consume \/ Start \/ Stop \/ WorkerGone
             \/ OapChange \/ UNCHANGED vars
    BY <2>1, <2>8
       DEF CreateEndpoint, Connect, Consume, Start, Stop, WorkerGone, OapChange, vars, server
  <2> QED
    BY <2>3, <2>4, <2>5, <2>6, <2>7, <2>8
       DEF Next, ProcNext, WorkerNext, Exit, Kill, Collect
<1> QED
  BY <1>1, <1>2, Inductive, PTL DEF Spec, ImplementsLossy, Lossy!Spec

-----------------------------------------------------------------------------
(* Losses are logged.                                                      *)

(* Before the first worker is started there is nothing of one. *)
NotStarted ==
    starts = 0 =>
        /\ worker = "down" /\ grpc = "ended"
        /\ \A p \in Procs : stream[p] = "none"

LEMMA NotStartedStep == TypeOK /\ WireInv /\ NotStarted /\ [Next]_vars => NotStarted'
<1> SUFFICES ASSUME TypeOK, WireInv, NotStarted, [Next]_vars, starts' = 0 PROVE NotStarted'
  BY DEF NotStarted
<1>0. starts \in Nat /\ stream \in [Procs -> {"none", "open", "broken"}]
  BY ReportingAssumption DEF TypeOK, WorkerTypeOK, AgentTypeOK
<1>1. CASE starts = 0
  <2>1. worker = "down" /\ grpc = "ended" /\ \A p \in Procs : stream[p] = "none"
    BY <1>1 DEF NotStarted
  <2>2. \A p \in Procs : loop[p] \notin {"size", "content"}
    BY <2>1 DEF WireInv, ConnInv, StreamShape
  <2>3. ASSUME NEW p \in Procs, ProcNext(p) \/ ConnNext(p)
        PROVE  UNCHANGED <<worker, grpc, stream>>
    BY <2>1, <2>2, <2>3
       DEF ProcNext, ConnNext, agent, Report, WriteSize, WriteContent, ProcExit, Accept,
           ReceiveSize, ReceiveContent, ReceiveEof
  <2>4. ASSUME WorkerNext \/ OapChange \/ UNCHANGED vars
        PROVE  UNCHANGED <<worker, grpc, stream>> 
    BY <1>0, <1>1, <2>1, <2>4
       DEF WorkerNext, OapChange, vars, agent, Beat, CreateEndpoint, Connect, Consume,
           Collect, Start, Stop, Exit, Kill
  <2>5. UNCHANGED <<worker, grpc, stream>>
    BY <2>3, <2>4 DEF Next
  <2> QED
    BY <2>1, <2>5 DEF NotStarted
<1>2. CASE starts # 0
  BY <1>0, <1>2
     DEF Next, ProcNext, ConnNext, WorkerNext, vars, Report, WriteSize, WriteContent,
         ProcExit, Accept, ReceiveSize, ReceiveContent, ReceiveEof, Beat, CreateEndpoint,
         Connect, Consume, Collect, Start, Stop, Exit, Kill, WorkerGone, OapChange
<1> QED
  BY <1>1, <1>2

(* While the first worker runs, a step keeps track of every item. *)
LEMMA LossStep ==
    ASSUME IInv, NotStarted, NoSilentLoss, [Next]_vars
    PROVE  NoSilentLoss'
<1> SUFFICES ASSUME FirstWorker', NEW s \in Sources, NEW k \in 1 .. sent'[s]
             PROVE  Accounted(s, k)'
  BY DEF NoSilentLoss
<1>0. /\ starts \in Nat /\ sent \in [Sources -> Nat]
      /\ pc \in [Procs -> {"idle", "size", "content"}]
      /\ wire \in [Procs -> Seq(Chunk)]
      /\ chan \in Seq(Item) /\ oap \in Seq(Item)
      /\ WireInv
  BY ReportingAssumption DEF IInv, TypeOK, AgentTypeOK, ConnTypeOK, WorkerTypeOK, ItemsTypeOK
<1> DEFINE OnWire(q) == \E i \in DOMAIN wire[q] : wire[q][i] = [part |-> "content", n |-> k]
           InChan == \E i \in DOMAIN chan : chan[i] = ItemOf(s, k)
<1>1. FirstWorker
  <2>1. CASE starts = 0
    BY <2>1 DEF FirstWorker
  <2>2. CASE starts # 0
    <3>1. starts' = 1 /\ worker' = "up" /\ grpc' # "ended"
      BY <1>0, <2>2
         DEF FirstWorker, ChanOpen, Next, ProcNext, ConnNext, WorkerNext, vars, Report,
             WriteSize, WriteContent, ProcExit, Accept, ReceiveSize, ReceiveContent, ReceiveEof,
             Beat, CreateEndpoint, Connect, Consume, Collect, Start, Stop, Exit, Kill,
             WorkerGone, OapChange
    <3>2. starts = 1 /\ worker = "up" /\ grpc # "ended"
      BY <1>0, <2>2, <3>1
         DEF Next, ProcNext, ConnNext, WorkerNext, vars, Report,
             WriteSize, WriteContent, ProcExit, Accept, ReceiveSize, ReceiveContent, ReceiveEof,
             Beat, CreateEndpoint, Connect, Consume, Collect, Start, Stop, Exit, Kill,
             WorkerGone, OapChange
    <3> QED
      BY <3>2 DEF FirstWorker, ChanOpen
  <2> QED
    BY <2>1, <2>2
<1>2. k \in 1 .. sent[s] => Accounted(s, k)
  BY <1>1 DEF NoSilentLoss
<1>3. ASSUME k \in 1 .. sent[s], logged \subseteq logged', oap' = oap \/ oap' = Append(oap, inflight),
             s \in Procs /\ pc[s] # "idle" /\ k = sent[s] => Accounted(s, k)',
             s \in Procs /\ OnWire(s) => Accounted(s, k)',
             InChan => Accounted(s, k)',
             inflight = ItemOf(s, k) => Accounted(s, k)'
      PROVE  Accounted(s, k)'
  <2>1. CASE Received(s, k)
    <3>1. \A i \in DOMAIN oap : i \in DOMAIN oap' /\ oap'[i] = oap[i]
      <4>1. CASE oap' = oap
        BY <4>1
      <4>2. CASE oap' = Append(oap, inflight)
        BY <1>0, <4>2, AppendKeeps
      <4> QED
        BY <1>0, <1>3, <4>1, <4>2
    <3> QED
      BY <2>1, <3>1 DEF Accounted, Received
  <2>2. CASE ItemOf(s, k) \in logged
    BY <1>3, <2>2 DEF Accounted, ItemOf
  <2>3. CASE Underway(s, k)
    BY <1>3, <2>3 DEF Underway
  <2> QED
    BY <1>2, <1>3, <2>1, <2>2, <2>3 DEF Accounted
<1>4. ASSUME inflight' = inflight, inflight = ItemOf(s, k) PROVE Accounted(s, k)'
  BY <1>4 DEF Accounted, Underway, ItemOf
<1>5. ASSUME chan' = chan \/ \E x \in Item : chan' = Append(chan, x), InChan
      PROVE  Accounted(s, k)'
  <2>1. \A i \in DOMAIN chan : i \in DOMAIN chan' /\ chan'[i] = chan[i]
    <3>1. CASE chan' = chan
      BY <3>1
    <3>2. ASSUME NEW x \in Item, chan' = Append(chan, x)
          PROVE  \A i \in DOMAIN chan : i \in DOMAIN chan' /\ chan'[i] = chan[i]
      BY <1>0, <3>2, AppendKeeps
    <3> QED
      BY <1>5, <3>1, <3>2
  <2> QED
    BY <1>5, <2>1 DEF Accounted, Underway, ItemOf
<1>6. ASSUME s \in Procs, wire'[s] = wire[s], OnWire(s) PROVE Accounted(s, k)'
  BY <1>6 DEF Accounted, Underway
<1>7. ASSUME s \in Procs, pc'[s] = pc[s], sent'[s] = sent[s], pc[s] # "idle", k = sent[s]
      PROVE  Accounted(s, k)'
  BY <1>7 DEF Accounted, Underway
<1>8. ASSUME UNCHANGED <<pc, sent, wire, chan, inflight, oap, logged>> PROVE Accounted(s, k)'
  BY <1>3, <1>4, <1>5, <1>6, <1>7, <1>8
<1>9. ASSUME NEW p \in Procs, Report(p) PROVE Accounted(s, k)'
  <2>0. /\ p \in Sources /\ sent[p] \in Nat /\ pc[p] = "idle" /\ sent' = [sent EXCEPT ![p] = @ + 1]
        /\ UNCHANGED <<wire, chan, inflight, oap>> /\ logged \subseteq logged'
    BY <1>0, <1>9 DEF Report, receive, server, Sources
  <2>1. CASE s = p /\ k = sent[p] + 1
    <3>1. pc'[p] = "size" \/ ItemOf(p, k) \in logged'
      BY <1>0, <1>9, <2>1 DEF Report
    <3>2. sent'[p] = k
      BY <1>0, <2>0, <2>1
    <3> QED
      BY <2>0, <2>1, <3>1, <3>2 DEF Accounted, Underway, ItemOf
  <2>2. CASE s # p \/ k # sent[p] + 1
    <3>1. k \in 1 .. sent[s]
      BY <1>0, <2>0, <2>2
    <3>2. ASSUME s \in Procs, pc[s] # "idle", k = sent[s] PROVE Accounted(s, k)'
      <4>1. s # p
        BY <2>0, <3>2
      <4>2. pc'[s] = pc[s] /\ sent'[s] = sent[s]
        BY <1>0, <1>9, <3>2, <4>1 DEF Report
      <4> QED
        BY <1>7, <3>2, <4>2
    <3> QED
      BY <1>3, <1>4, <1>5, <1>6, <2>0, <3>1, <3>2
  <2> QED
    BY <2>1, <2>2
<1>10. ASSUME NEW p \in Procs, WriteSize(p) \/ WriteContent(p) PROVE Accounted(s, k)'
  <2>0. /\ UNCHANGED <<sent, chan, inflight, oap>> /\ logged \subseteq logged'
        /\ k \in 1 .. sent[s] /\ p \in Sources /\ sent[p] \in Nat /\ wire[p] \in Seq(Chunk)
    BY <1>0, <1>10 DEF WriteSize, WriteContent, WriteAll, server, Sources
  <2>1. ASSUME s \in Procs, s # p PROVE pc'[s] = pc[s] /\ wire'[s] = wire[s]
    BY <1>0, <1>10, <2>1 DEF WriteSize, WriteContent, WriteAll
  <2>2. CASE s = p /\ stream[p] = "broken"
    <3>1. wire' = wire /\ ItemOf(p, sent[p]) \in logged'
      BY <1>10, <2>2 DEF WriteSize, WriteContent, WriteAll
    <3>2. ASSUME k = sent[s] PROVE Accounted(s, k)'
      BY <2>0, <2>2, <3>1, <3>2 DEF Accounted, ItemOf
    <3> QED
      BY <1>3, <1>4, <1>5, <1>6, <2>0, <3>1, <3>2
  <2>3. CASE s = p /\ stream[p] = "open"
    <3> DEFINE c(part) == [part |-> part, n |-> sent[p]]
    <3>1. PICK part \in {"size", "content"} :
              /\ wire'[p] = Append(wire[p], c(part))
              /\ part = "size" => pc'[p] = "content"
      BY <1>0, <1>10, <2>3 DEF WriteSize, WriteContent, WriteAll
    <3>2. c(part) \in Chunk
      BY <2>0 DEF Chunk
    <3> HIDE DEF c
    <3>3. /\ Len(wire[p]) \in Nat /\ Len(wire[p]) + 1 \in DOMAIN wire'[p]
          /\ wire'[p][Len(wire[p]) + 1] = c(part)
          /\ \A i \in DOMAIN wire[p] : i \in DOMAIN wire'[p] /\ wire'[p][i] = wire[p][i]
      BY <2>0, <3>1, <3>2
    <3>4. ASSUME k = sent[s] PROVE Accounted(s, k)'
      <4>1. CASE part = "size"
        BY <2>0, <2>3, <3>1, <3>4, <4>1 DEF Accounted, Underway
      <4>2. CASE part = "content"
        BY <2>0, <2>3, <3>3, <3>4, <4>2 DEF Accounted, Underway, c
      <4> QED
        BY <4>1, <4>2
    <3>5. ASSUME OnWire(s) PROVE Accounted(s, k)'
      BY <2>3, <3>3, <3>5 DEF Accounted, Underway
    <3> QED
      BY <1>3, <1>4, <1>5, <2>0, <3>4, <3>5
  <2>4. CASE s # p
    BY <1>3, <1>4, <1>5, <1>6, <1>7, <2>0, <2>1, <2>4
  <2>5. stream[p] \in {"open", "broken"}
    BY <1>10 DEF WriteSize, WriteContent, WriteAll
  <2> QED
    BY <2>2, <2>3, <2>4, <2>5
<1>11. ASSUME NEW p \in Procs, ReceiveSize(p) \/ ReceiveContent(p) PROVE Accounted(s, k)'
  <2>0. /\ UNCHANGED <<pc, sent, inflight, oap>> /\ logged \subseteq logged' /\ k \in 1 .. sent[s]
        /\ p \in Sources /\ wire[p] \in Seq(Chunk) /\ wire[p] # <<>>
        /\ chan' = chan \/ chan' = Append(chan, ItemOf(p, frame[p]))
        /\ frame[p] \in Nat /\ ConnInv(p) /\ loop[p] \in {"size", "content"}
    BY <1>0, <1>11
       DEF ReceiveSize, ReceiveContent, TrySend, agent, server, Sources, IInv, TypeOK, ConnTypeOK, WireInv
  <2>1. ItemOf(p, frame[p]) \in Item
    BY <2>0, ItemOfType
  <2>2. ChanOpen
    <3>1. stream[p] # "none"
      BY <2>0 DEF ConnInv, StreamShape
    <3> QED
      BY <1>1, <3>1 DEF FirstWorker, NotStarted
  <2>3. ASSUME s \in Procs, OnWire(s) PROVE Accounted(s, k)'
    <3>1. CASE s # p
      <4>1. wire'[s] = wire[s]
        BY <1>0, <1>11, <2>3, <3>1 DEF ReceiveSize, ReceiveContent
      <4> QED
        BY <1>6, <2>3, <4>1
    <3>2. CASE s = p
      <4>1. wire'[p] = Tail(wire[p])
        BY <1>0, <1>11, <2>2 DEF ReceiveSize, ReceiveContent
      <4>2. /\ Len(wire[p]) \in Nat /\ DOMAIN wire[p] = 1 .. Len(wire[p])
            /\ DOMAIN wire'[p] = 1 .. Len(wire[p]) - 1
            /\ \A i \in 1 .. Len(wire[p]) - 1 : wire'[p][i] = wire[p][i + 1]
            /\ Head(wire[p]) = wire[p][1]
        BY <2>0, <4>1
      <4>3. PICK i \in 1 .. Len(wire[p]) : wire[p][i] = [part |-> "content", n |-> k]
        BY <2>3, <3>2, <4>2
      <4>4. CASE i = 1
        <5>1. loop[p] = "content" /\ k = frame[p]
          BY <2>0, <4>2, <4>3, <4>4 DEF ConnInv, Aligned
        <5>2. ReceiveContent(p)
          BY <1>11, <5>1 DEF ReceiveSize
        <5>3. ItemOf(p, k) \in logged' \/ chan' = Append(chan, ItemOf(p, k))
          BY <5>1, <5>2 DEF ReceiveContent, TrySend
        <5>4. ASSUME chan' = Append(chan, ItemOf(p, k))
              PROVE  Len(chan) + 1 \in DOMAIN chan' /\ chan'[Len(chan) + 1] = ItemOf(p, k)
          BY <1>0, <2>1, <5>1, <5>4
        <5> QED
          BY <3>2, <5>3, <5>4 DEF Accounted, Underway, ItemOf
      <4>5. CASE i # 1
        <5>1. i - 1 \in 1 .. Len(wire[p]) - 1 /\ wire'[p][i - 1] = wire[p][(i - 1) + 1] /\ (i - 1) + 1 = i
          BY <4>2, <4>3, <4>5
        <5> QED
          BY <3>2, <4>2, <4>3, <5>1 DEF Accounted, Underway
      <4> QED
        BY <4>4, <4>5
    <3> QED
      BY <3>1, <3>2
  <2>4. InChan => Accounted(s, k)'
    BY <1>5, <2>0, <2>1
  <2>5. s \in Procs /\ pc[s] # "idle" /\ k = sent[s] => Accounted(s, k)'
    BY <1>7, <2>0
  <2>6. inflight = ItemOf(s, k) => Accounted(s, k)'
    BY <1>4, <2>0
  <2> QED
    BY <1>3, <2>0, <2>3, <2>4, <2>5, <2>6
<1>12. ASSUME NEW p \in Procs, ProcExit(p) \/ Accept(p) \/ ReceiveEof(p) PROVE Accounted(s, k)'
  BY <1>8, <1>12 DEF ProcExit, Accept, ReceiveEof, agent, receive, server
<1>13. CASE Beat
  <2>0. /\ HeartBeat \in Sources /\ HeartBeat \notin Procs /\ sent[HeartBeat] \in Nat
        /\ UNCHANGED <<pc, wire, inflight, oap>> /\ logged \subseteq logged'
        /\ sent' = [sent EXCEPT ![HeartBeat] = @ + 1]
        /\ \/ chan' = chan /\ ItemOf(HeartBeat, sent[HeartBeat] + 1) \in logged'
           \/ chan' = Append(chan, ItemOf(HeartBeat, sent[HeartBeat] + 1))
    BY <1>0, <1>13, ReportingAssumption DEF Beat, TrySend, agent, receive, server, Sources
  <2>1. ItemOf(HeartBeat, sent[HeartBeat] + 1) \in Item
    BY <2>0 DEF ItemOf, Item
  <2>2. CASE s = HeartBeat /\ k = sent[HeartBeat] + 1
    <3>1. ASSUME chan' = Append(chan, ItemOf(s, k))
          PROVE  Len(chan) + 1 \in DOMAIN chan' /\ chan'[Len(chan) + 1] = ItemOf(s, k)
      BY <1>0, <2>1, <2>2, <3>1
    <3> QED
      BY <2>0, <2>2, <3>1 DEF Accounted, Underway, ItemOf
  <2>3. CASE s # HeartBeat \/ k # sent[HeartBeat] + 1
    <3>1. k \in 1 .. sent[s]
      BY <1>0, <2>0, <2>3
    <3>2. s \in Procs => sent'[s] = sent[s]
      BY <1>0, <2>0
    <3>3. InChan => Accounted(s, k)'
      BY <1>5, <2>0, <2>1
    <3> QED
      BY <1>3, <1>4, <1>6, <1>7, <2>0, <3>1, <3>2, <3>3
  <2> QED
    BY <2>2, <2>3
<1>14. CASE CreateEndpoint
  <2>1. chan' = chan
    <3>1. grpc' # "ended"
      BY <1>1, <1>14 DEF FirstWorker, ChanOpen, NotStarted, CreateEndpoint
    <3> QED
      BY <1>14, <3>1 DEF CreateEndpoint
  <2> QED
    BY <1>8, <1>14, <2>1 DEF CreateEndpoint, agent, receive, server
<1>15. CASE Connect \/ Start \/ OapChange \/ UNCHANGED vars
  BY <1>8, <1>15 DEF Connect, Start, OapChange, vars, agent, receive, server
<1>16. CASE Consume
  <2>0. /\ UNCHANGED <<pc, sent, wire, oap, logged>> /\ k \in 1 .. sent[s] /\ inflight = NoItem
        /\ chan # <<>> /\ inflight' = Head(chan) /\ chan' = Tail(chan)
    BY <1>16 DEF Consume, agent, receive, server
  <2>1. /\ Len(chan) \in Nat /\ DOMAIN chan = 1 .. Len(chan)
        /\ DOMAIN Tail(chan) = 1 .. Len(chan) - 1
        /\ \A i \in 1 .. Len(chan) - 1 : Tail(chan)[i] = chan[i + 1]
        /\ Head(chan) = chan[1]
    BY <1>0, <2>0
  <2>2. ASSUME InChan PROVE Accounted(s, k)'
    <3>1. PICK i \in 1 .. Len(chan) : chan[i] = ItemOf(s, k)
      BY <2>1, <2>2
    <3>2. CASE i = 1
      BY <2>0, <2>1, <3>1, <3>2 DEF Accounted, Underway, ItemOf
    <3>3. CASE i # 1
      <4>1. i - 1 \in DOMAIN chan' /\ chan'[i - 1] = chan[(i - 1) + 1] /\ (i - 1) + 1 = i
        BY <2>0, <2>1, <3>1, <3>3
      <4> QED
        BY <3>1, <4>1 DEF Accounted, Underway, ItemOf
    <3> QED
      BY <3>2, <3>3
  <2>3. inflight # ItemOf(s, k)
    BY <2>0, ItemOfType, NoItemAssumption
  <2> QED
    BY <1>3, <1>6, <1>7, <2>0, <2>2, <2>3
<1>17. CASE Collect
  <2>0. /\ UNCHANGED <<pc, sent, wire, chan>> /\ k \in 1 .. sent[s] /\ logged \subseteq logged'
        /\ oap' = Append(oap, inflight) \/ (oap' = oap /\ inflight \in logged')
        /\ inflight \in Item
    <3>1. inflight \in Item
      BY <1>17 DEF Collect, IInv, TypeOK, ItemsTypeOK
    <3>2. UNCHANGED <<pc, sent, wire, chan>> /\ k \in 1 .. sent[s] /\ logged \subseteq logged'
      BY <1>17 DEF Collect, agent, receive
    <3>3. oap' = Append(oap, inflight) \/ (oap' = oap /\ inflight \in logged')
      <4>1. CASE oap' = Append(oap, inflight)
        BY <4>1
      <4>2. CASE ~oapUp /\ oap' = oap
        <5>1. logged' = logged \cup {inflight}
          BY <1>17, <4>2 DEF Collect
        <5> QED
          BY <4>2, <5>1
      <4> QED
        BY <1>17, <4>1, <4>2 DEF Collect
    <3> QED
      BY <3>1, <3>2, <3>3
  <2>1. ASSUME inflight = ItemOf(s, k) PROVE Accounted(s, k)'
    <3>1. ASSUME oap' = Append(oap, inflight)
          PROVE  Len(oap) + 1 \in DOMAIN oap' /\ oap'[Len(oap) + 1] = inflight
      BY <1>0, <2>0, <3>1
    <3> QED
      BY <2>0, <2>1, <3>1 DEF Accounted, Received, ItemOf
  <2> QED
    BY <1>3, <1>5, <1>6, <1>7, <2>0, <2>1
<1>18. CASE Stop \/ Exit \/ Kill
  BY <1>1, <1>18 DEF FirstWorker, NotStarted, Stop, Exit, Kill, WorkerGone
<1> QED
  BY <1>9, <1>10, <1>11, <1>12, <1>13, <1>14, <1>15, <1>16, <1>17, <1>18
     DEF Next, ProcNext, ConnNext, WorkerNext

(* While the first worker runs and its reporter has not failed, no item    *)
(* vanishes without an error log: it is underway, received, or logged.     *)
THEOREM LossIsLogged == Spec => []NoSilentLoss
<1>1. Init => NotStarted /\ NoSilentLoss
  BY DEF Init, NotStarted, NoSilentLoss
<1>2. IInv /\ NotStarted /\ NoSilentLoss /\ [Next]_vars => NotStarted' /\ NoSilentLoss'
  BY NotStartedStep, LossStep DEF IInv
<1> QED
  BY <1>1, <1>2, Inductive, PTL DEF Spec


-----------------------------------------------------------------------------
(* An open stream has a worker at its other end, which has yet to accept   *)
(* it or reads it in a task; only a stream that was never opened has no    *)
(* end (Accept, ReceiveEof, WorkerGone).                                   *)
Attended(p) ==
    /\ stream[p] = "none" => loop[p] = "unaccepted"
    /\ stream[p] = "open" => worker # "down" /\ loop[p] # "done"

(* What a write of p waits for is at hand: the write goes on, or fails, or *)
(* the worker can accept the stream, or its task has bytes to read.        *)
NeverStuck(p) ==
    pc[p] # "idle" =>
        \/ stream[p] = "broken"
        \/ stream[p] = "open" /\ Len(wire[p]) < SockCap
        \/ stream[p] = "open" /\ worker # "down" /\ loop[p] = "unaccepted"
        \/ stream[p] = "open" /\ loop[p] \in {"size", "content"} /\ wire[p] # <<>>

LEMMA AttendedStep ==
  ASSUME TypeOK, WireInv, [Next]_vars, NEW p \in Procs, Attended(p)
  PROVE  Attended(p)'
<1>0. /\ stream \in [Procs -> {"none", "open", "broken"}]
      /\ loop \in [Procs -> {"unaccepted", "size", "content", "done"}]
      /\ loop[p] \in {"size", "content"} => stream[p] = "open"
  BY DEF TypeOK, AgentTypeOK, ConnTypeOK, WireInv, ConnInv, StreamShape
<1> USE <1>0 DEF Attended
<1>1. CASE UNCHANGED <<stream, loop, worker>>
  BY <1>1
<1>2. ASSUME NEW q \in Procs, Report(q)
      PROVE  Attended(p)'
  BY <1>2 DEF Report, receive
<1>3. ASSUME NEW q \in Procs, WriteSize(q) \/ WriteContent(q) \/ ProcExit(q)
      PROVE  Attended(p)'
  BY <1>3, <1>1 DEF WriteSize, WriteContent, ProcExit, receive
<1>4. ASSUME NEW q \in Procs, Accept(q) \/ ReceiveSize(q)
      PROVE  Attended(p)'
  BY <1>4 DEF Accept, ReceiveSize, agent
<1>5. ASSUME NEW q \in Procs, ReceiveContent(q)
      PROVE  Attended(p)'
  <2>1. /\ UNCHANGED worker
        /\ \/ loop' = [loop EXCEPT ![q] = "done"] /\ stream' = [stream EXCEPT ![q] = "broken"]
           \/ loop' = [loop EXCEPT ![q] = "size"] /\ UNCHANGED stream
        /\ loop[q] = "content"
    BY <1>5 DEF ReceiveContent
  <2> QED  BY <2>1
<1>6. ASSUME NEW q \in Procs, ReceiveEof(q)
      PROVE  Attended(p)'
  BY <1>6 DEF ReceiveEof
<1>7. CASE WorkerGone
  BY <1>7 DEF WorkerGone
<1>8. CASE Beat \/ CreateEndpoint \/ Connect \/ Consume \/ Collect \/ OapChange
  BY <1>8, <1>1
  DEF Beat, CreateEndpoint, Connect, Consume, Collect, OapChange, agent, receive
<1>9. CASE Start \/ Stop
  BY <1>9 DEF Start, Stop, agent, receive
<1>10. CASE UNCHANGED vars
  BY <1>10, <1>1 DEF vars, agent, receive
<1> QED
  BY <1>2, <1>3, <1>4, <1>5, <1>6, <1>7, <1>8, <1>9, <1>10
  DEF Next, ProcNext, ConnNext, WorkerNext, Exit, Kill

(* The safety half of ReportReturns: "Try send here, to prevent the ipc    *)
(* blocking".  No write of a PHP process waits for something that nobody   *)
(* is there to do, for any number of processes, sizes of socket and        *)
(* channel, and stops and kills of the worker (channel_send, start_worker).*)
THEOREM WritersNeverStuck == Spec => [](\A p \in Procs : NeverStuck(p))
<1> DEFINE AllAttended == \A p \in Procs : Attended(p)
<1>1. Init => AllAttended
  BY DEF Init, Attended
<1>2. IInv /\ AllAttended /\ [Next]_vars => AllAttended'
  BY AttendedStep DEF IInv
<1>3. IInv /\ AllAttended => \A p \in Procs : NeverStuck(p)
  <2> SUFFICES ASSUME IInv, NEW p \in Procs, Attended(p)
               PROVE  NeverStuck(p)
    OBVIOUS
  <2>1. /\ stream[p] \in {"none", "open", "broken"}
        /\ loop[p] \in {"unaccepted", "size", "content", "done"}
    BY DEF IInv, TypeOK, AgentTypeOK, ConnTypeOK
  <2>2. stream[p] = "none" => pc[p] = "idle"
    BY DEF IInv, WireInv, ConnInv, StreamShape
  <2>3. wire[p] = <<>> => Len(wire[p]) < SockCap
    BY ReportingAssumption
  <2> QED  BY <2>1, <2>2, <2>3 DEF Attended, NeverStuck
<1> HIDE DEF AllAttended
<1> QED  BY <1>1, <1>2, <1>3, Inductive, PTL DEF Spec
=============================================================================
