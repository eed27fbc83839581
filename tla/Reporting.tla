------------------------------ MODULE Reporting ------------------------------
(***************************************************************************)
(* The reporting path: PHP processes write framed items into one unix      *)
(* stream each (src/channel.rs); the worker process reads every stream in  *)
(* a task of its own and puts the items in a bounded channel               *)
(* (worker/src/lib.rs, worker/src/channel.rs); a single reporter task      *)
(* takes them out and sends them to the OAP server                         *)
(* (worker/src/reporter/reporter_grpc.rs).  Nothing is retried and nothing *)
(* is acknowledged on the way back.                                        *)
(*                                                                         *)
(* PHP processes may be killed, the worker may be stopped, killed and      *)
(* started again, and the server comes and goes.                           *)
(***************************************************************************)
EXTENDS Naturals, Sequences

CONSTANTS
    Procs,        \* PHP processes; one that is respawned is another member
    HeartBeat,    \* the heartbeat task, a source of items inside the worker
    Capacity,     \* capacity of the mpsc channel (255 in the code)
    SockCap,      \* how many writes the kernel buffers for one stream
    MaxItems,     \* bound: items a process reports
    MaxBeats,     \* bound: items the heartbeat task reports (0: no heartbeat)
    MaxStarts,    \* bound: times a worker is started
    Undecodable,  \* the items the worker's decoder rejects
    NoItem        \* stands for "no item in flight"

ASSUME ReportingAssumption ==
    /\ HeartBeat \notin Procs
    /\ Capacity \in Nat \ {0}
    /\ SockCap \in Nat \ {0}
    /\ MaxItems \in Nat
    /\ MaxBeats \in Nat
    /\ MaxStarts \in Nat

Sources == Procs \cup {HeartBeat}
Item == [src : Sources, n : Nat]

ASSUME NoItemAssumption == NoItem \notin Item

VARIABLES
    alive,     \* alive[p]: the PHP process has not exited
    pc,        \* pc[p]: where p is inside Reporter::report
    sent,      \* sent[s]: how many items source s has handed to its reporter
    stream,    \* stream[p]: the OnceCell and the state of the socket in it
    wire,      \* wire[p]: the writes in the socket that were not read yet
    loop,      \* loop[p]: the worker's receive task for the stream of p
    frame,     \* frame[p]: the item whose size the receive task has read
    worker,    \* the worker process
    starts,    \* how many workers were started so far
    chan,      \* the mpsc channel
    grpc,      \* the reporter task
    inflight,  \* the item of the collect call in progress, or NoItem
    oapUp,     \* the OAP server answers
    oap,       \* what the OAP server has received
    logged     \* the items whose loss some component has logged

agent   == <<alive, pc, stream>>
receive == <<wire, loop, frame>>
server  == <<oapUp, oap>>
vars == <<agent, sent, receive, worker, starts, chan, grpc, inflight, server, logged>>

ItemOf(s, k) == [src |-> s, n |-> k]
Chunk == [part : {"size", "content"}, n : Nat]

Init ==
    /\ alive = [p \in Procs |-> TRUE]
    /\ pc = [p \in Procs |-> "idle"]
    /\ sent = [s \in Sources |-> 0]
    /\ stream = [p \in Procs |-> "none"]
    /\ wire = [p \in Procs |-> <<>>]
    /\ loop = [p \in Procs |-> "unaccepted"]
    /\ frame = [p \in Procs |-> 0]
    /\ worker = "down"
    /\ starts = 0
    /\ chan = <<>>
    /\ grpc = "ended"
    /\ inflight = NoItem
    /\ oapUp = FALSE
    /\ oap = <<>>
    /\ logged = {}

-----------------------------------------------------------------------------
(* The PHP processes: Reporter::report and channel_send.                   *)

(* report is called with the next item; get_or_try_init connects unless    *)
(* the cell holds a stream, whatever has become of that stream.  A failed  *)
(* connect leaves the cell empty and the item is gone, as is one that does *)
(* not encode.                                                             *)
Report(p) ==
    /\ alive[p]
    /\ pc[p] = "idle"
    /\ sent[p] < MaxItems
    /\ sent' = [sent EXCEPT ![p] = @ + 1]
    /\ \/ /\ stream[p] = "none" /\ worker # "up"
          /\ logged' = logged \cup {ItemOf(p, sent[p] + 1)}
          /\ UNCHANGED <<stream, pc>>
       \/ /\ \/ /\ stream[p] = "none" /\ worker = "up"
                /\ stream' = [stream EXCEPT ![p] = "open"]
             \/ /\ stream[p] # "none"
                /\ UNCHANGED stream
          /\ \/ /\ pc' = [pc EXCEPT ![p] = "size"]
                /\ UNCHANGED logged
             \/ /\ logged' = logged \cup {ItemOf(p, sent[p] + 1)}
                /\ UNCHANGED pc
    /\ UNCHANGED <<alive, receive, worker, starts, chan, grpc, inflight, server>>

(* A blocking write_all: it waits while the socket buffer is full and      *)
(* fails once the other end is closed.                                     *)
WriteAll(p, part, next) ==
    \/ /\ stream[p] = "open"
       /\ Len(wire[p]) < SockCap
       /\ wire' = [wire EXCEPT ![p] = Append(@, [part |-> part, n |-> sent[p]])]
       /\ pc' = [pc EXCEPT ![p] = next]
       /\ UNCHANGED logged
    \/ /\ stream[p] = "broken"
       /\ pc' = [pc EXCEPT ![p] = "idle"]
       /\ logged' = logged \cup {ItemOf(p, sent[p])}
       /\ UNCHANGED wire

WriteSize(p) ==
    /\ alive[p]
    /\ pc[p] = "size"
    /\ WriteAll(p, "size", "content")
    /\ UNCHANGED <<alive, sent, stream, loop, frame, worker, starts, chan, grpc, inflight, server>>

WriteContent(p) ==
    /\ alive[p]
    /\ pc[p] = "content"
    /\ WriteAll(p, "content", "idle")
    /\ UNCHANGED <<alive, sent, stream, loop, frame, worker, starts, chan, grpc, inflight, server>>

(* The process exits or is killed, perhaps between the two writes.  What   *)
(* it has written stays readable.                                          *)
ProcExit(p) ==
    /\ alive[p]
    /\ alive' = [alive EXCEPT ![p] = FALSE]
    /\ UNCHANGED <<pc, sent, stream, receive, worker, starts, chan, grpc, inflight, server, logged>>

-----------------------------------------------------------------------------
(* The worker: accept loop, receive tasks, heartbeat.                      *)

(* The receiving half of the channel lives as long as the reporter task.   *)
ChanOpen == grpc # "ended"

(* The check for a free slot off by one. *)
TrySendOffByOne(item) ==
    IF ChanOpen /\ Len(chan) <= Capacity
    THEN chan' = Append(chan, item) /\ UNCHANGED logged
    ELSE logged' = logged \cup {item} /\ UNCHANGED chan

(* The awaiting send instead of try_send. *)
SendAwait(item) ==
    IF ChanOpen
    THEN Len(chan) < Capacity /\ chan' = Append(chan, item) /\ UNCHANGED logged
    ELSE logged' = logged \cup {item} /\ UNCHANGED chan

(* mpsc try_send: the item is refused when the channel is full or closed.  *)
TrySend(item) ==
    IF ChanOpen /\ Len(chan) < Capacity
    THEN /\ chan' = Append(chan, item)
         /\ UNCHANGED logged
    ELSE /\ logged' = logged \cup {item}
         /\ UNCHANGED chan

(* The receive loop awaited in the accept loop instead of spawned. *)
AcceptInline(p) ==
    /\ worker # "down"
    /\ stream[p] = "open"
    /\ loop[p] = "unaccepted"
    /\ \A q \in Procs : loop[q] \in {"unaccepted", "done"}
    /\ loop' = [loop EXCEPT ![p] = "size"]
    /\ UNCHANGED <<agent, sent, wire, frame, worker, starts, chan, grpc, inflight, server, logged>>

(* accept, and spawn the receive task of the new connection. *)
Accept(p) ==
    /\ worker # "down"
    /\ stream[p] = "open"
    /\ loop[p] = "unaccepted"
    /\ loop' = [loop EXCEPT ![p] = "size"]
    /\ UNCHANGED <<agent, sent, wire, frame, worker, starts, chan, grpc, inflight, server, logged>>

(* channel_receive under a timeout, which may fire after the size. *)
ReceiveSizeTimeout(p) ==
    /\ loop[p] = "size"
    /\ wire[p] # <<>>
    /\ frame' = [frame EXCEPT ![p] = Head(wire[p]).n]
    /\ wire' = [wire EXCEPT ![p] = Tail(@)]
    /\ \E next \in {"size", "content"} : loop' = [loop EXCEPT ![p] = next]
    /\ UNCHANGED <<agent, sent, worker, starts, chan, grpc, inflight, server, logged>>

(* First read_exact of channel_receive. *)
ReceiveSize(p) ==
    /\ loop[p] = "size"
    /\ wire[p] # <<>>
    /\ frame' = [frame EXCEPT ![p] = Head(wire[p]).n]
    /\ wire' = [wire EXCEPT ![p] = Tail(@)]
    /\ loop' = [loop EXCEPT ![p] = "content"]
    /\ UNCHANGED <<agent, sent, worker, starts, chan, grpc, inflight, server, logged>>

(* The item decodes, and the bytes read as content are its content. *)
Decodes(p) ==
    /\ Head(wire[p]) = [part |-> "content", n |-> frame[p]]
    /\ ItemOf(p, frame[p]) \notin Undecodable

(* Any try_send error ends the task, a full channel included. *)
ReceiveContentFullEnds(p) ==
    LET item == ItemOf(p, frame[p]) IN
    /\ loop[p] = "content"
    /\ wire[p] # <<>>
    /\ IF Decodes(p) THEN TrySend(item)
       ELSE logged' = logged \cup {item} /\ UNCHANGED chan
    /\ IF Decodes(p) /\ UNCHANGED chan
       THEN /\ loop' = [loop EXCEPT ![p] = "done"]
            /\ stream' = [stream EXCEPT ![p] = "broken"]
            /\ wire' = [wire EXCEPT ![p] = <<>>]
       ELSE /\ loop' = [loop EXCEPT ![p] = "size"]
            /\ wire' = [wire EXCEPT ![p] = Tail(@)]
            /\ UNCHANGED stream
    /\ UNCHANGED <<alive, pc, sent, frame, worker, starts, grpc, inflight, server>>

(* Second read_exact, decode, try_send.  An item that does not decode is   *)
(* logged and the task goes on with the next frame; a full channel loses   *)
(* the item only; a closed channel ends the task, which closes the stream. *)
ReceiveContent(p) ==
    LET item == ItemOf(p, frame[p]) IN
    /\ loop[p] = "content"
    /\ wire[p] # <<>>
    /\ IF Decodes(p) THEN TrySend(item)
       ELSE /\ logged' = logged \cup {item}
            /\ UNCHANGED chan
    /\ IF Decodes(p) /\ ~ChanOpen
       THEN /\ loop' = [loop EXCEPT ![p] = "done"]
            /\ stream' = [stream EXCEPT ![p] = "broken"]
            /\ wire' = [wire EXCEPT ![p] = <<>>]
       ELSE /\ loop' = [loop EXCEPT ![p] = "size"]
            /\ wire' = [wire EXCEPT ![p] = Tail(@)]
            /\ UNCHANGED stream
    /\ UNCHANGED <<alive, pc, sent, frame, worker, starts, grpc, inflight, server>>

(* Either read_exact meets the end of a stream whose writer is gone. *)
ReceiveEof(p) ==
    /\ ~alive[p]
    /\ wire[p] = <<>>
    /\ loop[p] \in {"size", "content"}
    /\ loop' = [loop EXCEPT ![p] = "done"]
    /\ stream' = [stream EXCEPT ![p] = "broken"]
    /\ UNCHANGED <<alive, pc, sent, wire, frame, worker, starts, chan, grpc, inflight, server, logged>>

(* The heartbeat task reports through TxReporter. *)
Beat ==
    /\ worker # "down"
    /\ sent[HeartBeat] < MaxBeats
    /\ sent' = [sent EXCEPT ![HeartBeat] = @ + 1]
    /\ TrySend(ItemOf(HeartBeat, sent[HeartBeat] + 1))
    /\ UNCHANGED <<agent, receive, worker, starts, grpc, inflight, server>>

-----------------------------------------------------------------------------
(* The worker: reporter task.                                              *)

(* create_endpoint rejects a bad address or certificate; run_reporter then *)
(* returns and its consumer, the receiving half of the channel, with it.   *)
CreateEndpoint ==
    /\ grpc = "init"
    /\ \/ /\ grpc' = "connecting"
          /\ UNCHANGED chan
       \/ /\ grpc' = "ended"
          /\ chan' = <<>>
    /\ UNCHANGED <<agent, sent, receive, worker, starts, inflight, server, logged>>

(* connect retries until the server answers. *)
Connect ==
    /\ grpc = "connecting"
    /\ oapUp
    /\ grpc' = "ready"
    /\ UNCHANGED <<agent, sent, receive, worker, starts, chan, inflight, server, logged>>

(* The reporter takes the next item and starts a collect call. *)
Consume ==
    /\ grpc = "ready"
    /\ inflight = NoItem
    /\ chan # <<>>
    /\ inflight' = Head(chan)
    /\ chan' = Tail(chan)
    /\ UNCHANGED <<agent, sent, receive, worker, starts, grpc, server, logged>>

(* A failed call is repeated. *)
CollectRetry ==
    /\ inflight # NoItem
    /\ oap' = Append(oap, inflight) \/ (~oapUp /\ UNCHANGED oap)
    /\ IF oapUp THEN inflight' = NoItem ELSE UNCHANGED inflight
    /\ UNCHANGED <<agent, sent, receive, worker, starts, chan, grpc, oapUp, logged>>

(* The call ends.  When the server goes away during the call the status    *)
(* handler logs the failure, whether or not the server had the item.       *)
Collect ==
    /\ inflight # NoItem
    /\ inflight' = NoItem
    /\ \/ oap' = Append(oap, inflight)
       \/ ~oapUp /\ UNCHANGED oap
    /\ IF oapUp THEN UNCHANGED logged ELSE logged' = logged \cup {inflight}
    /\ UNCHANGED <<agent, sent, receive, worker, starts, chan, grpc, oapUp>>

-----------------------------------------------------------------------------
(* Life of the worker, and of the server.                                  *)

(* start_worker has bound the socket and made a new channel. *)
Start ==
    /\ worker = "down"
    /\ starts < MaxStarts
    /\ starts' = starts + 1
    /\ worker' = "up"
    /\ grpc' = "init"
    /\ UNCHANGED <<agent, sent, receive, chan, inflight, server, logged>>

(* start_worker returns: a signal arrived, or run_reporter has failed.     *)
(* The socket file is removed.  A reporter still in run_reporter is        *)
(* dropped with its channel; a spawned one lives on with the other tasks   *)
(* until the process is gone.                                              *)
Stop ==
    /\ worker = "up"
    /\ worker' = "stopping"
    /\ IF grpc = "ready"
       THEN UNCHANGED <<grpc, chan>>
       ELSE grpc' = "ended" /\ chan' = <<>>
    /\ UNCHANGED <<agent, sent, receive, starts, inflight, server, logged>>

(* The process is gone, with all its tasks, its channel and its sockets. *)
WorkerGone ==
    /\ worker' = "down"
    /\ grpc' = "ended"
    /\ chan' = <<>>
    /\ inflight' = NoItem
    /\ stream' = [p \in Procs |-> IF stream[p] = "open" THEN "broken" ELSE stream[p]]
    /\ wire' = [p \in Procs |-> <<>>]
    /\ loop' = [p \in Procs |-> IF stream[p] = "open" THEN "done" ELSE loop[p]]
    /\ UNCHANGED <<alive, pc, sent, frame, starts, server, logged>>

Exit == worker = "stopping" /\ WorkerGone
Kill == worker = "up" /\ WorkerGone

OapChange ==
    /\ oapUp' = ~oapUp
    /\ UNCHANGED <<agent, sent, receive, worker, starts, chan, grpc, inflight, oap, logged>>

-----------------------------------------------------------------------------
ProcNext(p) ==
    \/ Report(p)
    \/ WriteSize(p)
    \/ WriteContent(p)
    \/ ProcExit(p)

ConnNext(p) ==
    \/ Accept(p)
    \/ ReceiveSize(p)
    \/ ReceiveContent(p)
    \/ ReceiveEof(p)

WorkerNext ==
    \/ Beat
    \/ CreateEndpoint
    \/ Connect
    \/ Consume
    \/ Collect
    \/ Start
    \/ Stop
    \/ Exit
    \/ Kill

Next ==
    \/ \E p \in Procs : ProcNext(p) \/ ConnNext(p)
    \/ WorkerNext
    \/ OapChange

Spec == Init /\ [][Next]_vars

(* Running threads run and ready tokio tasks are polled.  Nobody is        *)
(* obliged to report, to start or stop a worker, or to keep the server up. *)
Fairness ==
    /\ \A p \in Procs :
          /\ WF_vars(WriteSize(p) \/ WriteContent(p))
          /\ WF_vars(ConnNext(p))
    /\ WF_vars(CreateEndpoint)
    /\ WF_vars(Connect)
    /\ WF_vars(Consume)
    /\ WF_vars(Collect)
    /\ WF_vars(Exit)
    /\ WF_vars(grpc = "ended" /\ Stop)

FairSpec == Spec /\ Fairness

-----------------------------------------------------------------------------
(* Properties.                                                             *)

(* Values of the variables; the channel never holds more than the mpsc     *)
(* capacity and the socket never more than the kernel buffers.             *)
AgentTypeOK ==
    /\ alive \in [Procs -> BOOLEAN]
    /\ pc \in [Procs -> {"idle", "size", "content"}]
    /\ sent \in [Sources -> Nat]
    /\ stream \in [Procs -> {"none", "open", "broken"}]

ConnTypeOK ==
    /\ wire \in [Procs -> Seq(Chunk)]
    /\ \A p \in Procs : Len(wire[p]) <= SockCap
    /\ loop \in [Procs -> {"unaccepted", "size", "content", "done"}]
    /\ frame \in [Procs -> Nat]

WorkerTypeOK ==
    /\ worker \in {"down", "up", "stopping"}
    /\ starts \in 0 .. MaxStarts
    /\ grpc \in {"init", "connecting", "ready", "ended"}
    /\ oapUp \in BOOLEAN

ItemsTypeOK ==
    /\ chan \in Seq(Item)
    /\ Len(chan) <= Capacity
    /\ inflight \in Item \cup {NoItem}
    /\ oap \in Seq(Item)
    /\ logged \in SUBSET Item

TypeOK == AgentTypeOK /\ ConnTypeOK /\ WorkerTypeOK /\ ItemsTypeOK

(* channel_receive never takes one item's size for another item's content, *)
(* whoever was killed, refused or undecodable in between: the bytes it     *)
(* reads next are those it expects.                                        *)
Aligned(p) ==
    wire[p] # <<>> =>
        /\ loop[p] \in {"unaccepted", "size"} => Head(wire[p]).part = "size"
        /\ loop[p] = "content" => Head(wire[p]) = [part |-> "content", n |-> frame[p]]

FramesAligned == \A p \in Procs : Aligned(p)

(* The item is still on its way. *)
Underway(s, k) ==
    \/ s \in Procs /\ pc[s] # "idle" /\ k = sent[s]
    \/ s \in Procs /\ \E i \in DOMAIN wire[s] : wire[s][i] = [part |-> "content", n |-> k]
    \/ \E i \in DOMAIN chan : chan[i] = ItemOf(s, k)
    \/ inflight = ItemOf(s, k)

Received(s, k) == \E i \in DOMAIN oap : oap[i] = ItemOf(s, k)

(* While the first worker runs, every item somebody reported is underway,  *)
(* received by the server, or the subject of one of the error logs of      *)
(* Reporter::report, the receive task, TxReporter or the status handler.   *)
FirstWorker == starts = 0 \/ (starts = 1 /\ worker = "up" /\ ChanOpen)

Accounted(s, k) == Underway(s, k) \/ Received(s, k) \/ ItemOf(s, k) \in logged

NoSilentLoss ==
    FirstWorker => \A s \in Sources : \A k \in 1 .. sent[s] : Accounted(s, k)

(* The pipeline implements lossy, ordered, at-most-once delivery of what   *)
(* was reported (Report in src/channel.rs to collect in the reporter).     *)
Lossy == INSTANCE LossyReporting WITH reported <- sent, delivered <- oap
ImplementsLossy == Lossy!Spec

(* "Try send here, to prevent the ipc blocking ...": a report call of a    *)
(* PHP process returns, although the server may never be up and the        *)
(* channel may stay full.                                                  *)
ReportReturns ==
    \A p \in Procs : (alive[p] /\ pc[p] # "idle") ~> (~alive[p] \/ pc[p] = "idle")

(* Once the server stays up and the worker is not stopped any more, what   *)
(* is underway in the worker is received or logged: nothing is kept in the *)
(* channel or the reporter for ever.                                       *)
Settles ==
    <>[]oapUp =>
        \A s \in Sources : \A k \in 1 .. (MaxItems + MaxBeats) :
            (worker # "down" /\ Underway(s, k)) ~>
                \/ Received(s, k)
                \/ ItemOf(s, k) \in logged
                \/ worker = "down"
                \/ s \in Procs /\ ~alive[s]
=============================================================================
