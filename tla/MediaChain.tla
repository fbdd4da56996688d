------------------------------ MODULE MediaChain ------------------------------
(***************************************************************************)
(* The video chain of a media graph: TrackRouterNode, DecoderNode and      *)
(* EncoderNode of src/mediaflow/media_nodes.cpp on FFmpegDecoder and       *)
(* FFmpegEncoder, fed by StreamSourceNode and stopped by the graph.        *)
(*                                                                         *)
(* Both codecs hold back what they are given, so what comes out of the     *)
(* chain belongs to an input that is long past, and every decision here (a *)
(* new generation, a gap in the numbers, a failure, an end of stream, a    *)
(* stop) has to say what becomes of what is still inside.                  *)
(*                                                                         *)
(* The edges keep the promise of Mailbox: FIFO, they shed plain messages   *)
(* when they are full and never a boundary, and a closed edge takes        *)
(* nothing.  A handler's critical sections on state_mutex_ are separate    *)
(* steps where the graph's thread, the only other one that touches a node, *)
(* can tell the difference.  Pictures, time stamps, statistics and error   *)
(* texts are left out, and so is the edge in front of the router.          *)
(*                                                                         *)
(* A graceful stop flushes a node in the graph's own thread when it has    *)
(* seen nothing under way.  It looks at one node or edge after the other,  *)
(* so it may be wrong, and then two threads are in one codec, which has no *)
(* lock.  Of what that may lead to the model has the orders of whole calls *)
(* on the codec.                                                           *)
(***************************************************************************)
EXTENDS Integers, Sequences

CONSTANTS
  Streams,        \* indexes of the video streams of the source
  Selection,      \* video_selection_.stream_index; negative: the first one seen
  Configured,     \* values of configured_stream_info_: "none", "same" as the stream, or "other"
  Capacity,       \* of the edges
  MaxPackets,     \* bound: packets the source reads
  MaxGenerations, \* bound: connections of the source
  MaxFailures     \* bound: failures of the codecs

ASSUME ChainAssumption ==
  /\ Streams \subseteq Nat
  /\ Selection \in Int
  /\ Configured \subseteq {"none", "same", "other"}
  /\ {Capacity, MaxPackets, MaxGenerations, MaxFailures} \subseteq Nat
  /\ Capacity > 0

VARIABLES
  source,     \* StreamSourceNode: its generation, its video_sequence, whether the puller knows the
              \* size of the picture yet, whether it has ended
  router,     \* TrackRouterNode: selected stream, and the generation it was selected for
  toDecoder,  \* the edges
  toEncoder,
  dec, dpc, dmsg,          \* DecoderNode with its codec, its worker, the message in hand
  enc, epc, emsg, batch,   \* EncoderNode likewise; batch is the local vector of packets
  gpc,        \* the graph's thread
  wait,       \* WaitForQuiescence: how many nodes have been flushed before it, how many reads of the
              \* look have found idle, and (history) whether a message went past it
  tail,       \* the local vector of packets of the graph's own flush of the encoder, and their label
  early,      \* history: the graph has flushed a node or reported success with messages under way
  completed,  \* result of GracefulStop
  out,        \* history: what the encoder has sent on
  tailLost,   \* history: a flush or the sending of its packets failed
  failures    \* bound

decoder == <<dec, dpc, dmsg>>
encoder == <<enc, epc, emsg, batch>>
graph == <<gpc, wait, tail, early, completed>>
vars == <<source, router, toDecoder, toEncoder, decoder, encoder, graph, out, tailLost, failures>>

NoMessage == [gen |-> 0, eos |-> FALSE]
Packet(g, n, k, i) == [gen |-> g, seq |-> n, key |-> k, info |-> i, eos |-> FALSE]
EndOf(g) == [gen |-> g, eos |-> TRUE]
\* Which packet it was.
Id(p) == [gen |-> p.gen, seq |-> p.seq]
NoId == [gen |-> 0, seq |-> 0]
\* A frame or an encoded packet: the generation it is labelled with, and the packet it shows.
Frame(g, id) == [gen |-> g, of |-> id, eos |-> FALSE]

\* The outcomes of Send on an edge: the queue afterwards and whether the message is in it.
Offer(q, m) ==
  IF gpc \in {"join", "down"} THEN {[queue |-> q, ok |-> FALSE]}
  ELSE IF Len(q) < Capacity THEN {[queue |-> Append(q, m), ok |-> TRUE]}
  ELSE (IF m.eos THEN {} ELSE {[queue |-> q, ok |-> FALSE]})
       \cup {[queue |-> Append(Tail(q), m), ok |-> TRUE]}

\* A decoder without a codec context holds nothing and has been given nothing; last is history.
NoDecoder == [open |-> "none", held |-> <<>>, drained |-> FALSE, last |-> NoId]
NoEncoder == [open |-> FALSE, held |-> <<>>, drained |-> FALSE]
OpenDecoder(description) == [NoDecoder EXCEPT !.open = description]
OpenEncoder == [NoEncoder EXCEPT !.open = TRUE]

\* The router and the encoder node as the start of the graph leaves them, and the latter after Deinit.
StartedRouter == [gen |-> 0, stream |-> Selection]
StartedEncoder == [accepting |-> TRUE, active |-> 0, flushed |-> FALSE, codec |-> OpenEncoder]
NoTail == [gen |-> 0, packets |-> <<>>]
LookFrom(flushed) == [flushed |-> flushed, seen |-> 0, passed |-> FALSE]
EncoderDown(node) == [node EXCEPT !.accepting = FALSE, !.active = 0, !.flushed = FALSE, !.codec = NoEncoder]

Init ==
  /\ source = [gen |-> 1, seq |-> 0, count |-> 0, described |-> FALSE, ended |-> FALSE]
  /\ router = StartedRouter
  /\ toDecoder = <<>> /\ toEncoder = <<>>
  \* Init of the node opens the decoder if its stream description was configured.
  /\ \E c \in Configured :
       dec = [configured |-> c, accepting |-> TRUE, active |-> 0, callback |-> 0, seqGen |-> 0,
              lastSeq |-> 0, awaiting |-> c # "none", flushed |-> FALSE,
              codec |-> OpenDecoder(c)]
  /\ dpc = "idle" /\ dmsg = NoMessage
  /\ enc = StartedEncoder
  /\ epc = "idle" /\ emsg = NoMessage /\ batch = <<>>
  /\ gpc = "run" /\ wait = LookFrom(0) /\ tail = NoTail /\ early = FALSE /\ completed = FALSE
  /\ out = <<>> /\ tailLost = FALSE /\ failures = 0

\* A message went from an edge that the look has not read to a node that it has, the n-th.
PassesLook(n) == wait' = [wait EXCEPT !.passed = @ \/ (gpc = "drain" /\ wait.seen >= n)]

Fail == failures < MaxFailures /\ failures' = failures + 1

-----------------------------------------------------------------------------
(* Source and router *)

Selected(g, s) ==
  IF router.gen = g THEN router.stream
  ELSE IF Selection < 0 THEN s ELSE Selection

\* TrackRouterNode::Process for a packet of stream s: one stream of each generation passes.
Route(p, s) ==
  /\ router' = [gen |-> p.gen, stream |-> Selected(p.gen, s)]
  /\ IF s = Selected(p.gen, s)
     THEN \E o \in Offer(toDecoder, p) : toDecoder' = o.queue
     ELSE UNCHANGED toDecoder

\* The source counts all video packets of a connection, whichever stream they are of.
Produce ==
  /\ gpc = "run" /\ ~source.ended /\ source.count < MaxPackets
  /\ \E s \in Streams, k, i \in BOOLEAN :
       /\ source.described => i
       /\ source' = [source EXCEPT !.seq = @ + 1, !.count = @ + 1, !.described = i]
       /\ Route(Packet(source.gen, source.seq + 1, k, i), s)
  /\ UNCHANGED <<toEncoder, decoder, encoder, graph, out, tailLost, failures>>

\* The edge from the source to the router was full.
LoseEarly ==
  /\ gpc = "run" /\ ~source.ended /\ source.count < MaxPackets
  /\ source' = [source EXCEPT !.seq = @ + 1, !.count = @ + 1]
  /\ UNCHANGED <<router, toDecoder, toEncoder, decoder, encoder, graph, out, tailLost, failures>>

Reconnect ==
  /\ gpc = "run" /\ ~source.ended /\ source.gen < MaxGenerations
  /\ source' = [source EXCEPT !.gen = @ + 1, !.seq = 0, !.described = FALSE]
  /\ UNCHANGED <<router, toDecoder, toEncoder, decoder, encoder, graph, out, tailLost, failures>>

\* The source reads the end and the router passes the boundary on without a look at the stream.
SourceEnds ==
  /\ gpc = "run" /\ ~source.ended
  /\ source' = [source EXCEPT !.ended = TRUE]
  /\ \E o \in Offer(toDecoder, EndOf(source.gen)) : toDecoder' = o.queue
  /\ UNCHANGED <<router, toEncoder, decoder, encoder, graph, out, tailLost, failures>>

-----------------------------------------------------------------------------
(* The decoder *)

BeginKeyframeRecovery(d) ==
  [d EXCEPT !.awaiting = TRUE, !.callback = 0, !.flushed = FALSE, !.codec = NoDecoder]

ForGeneration(d, m) ==
  IF d.active = 0 THEN [d EXCEPT !.awaiting = TRUE]
  ELSE IF d.active = m.gen THEN d
  ELSE [BeginKeyframeRecovery(d) EXCEPT !.active = m.gen]

LastSequence(d, m) == IF d.seqGen = m.gen THEN d.lastSeq ELSE 0

SequenceGap(d, m) ==
  LET last == LastSequence(d, m) IN last # 0 /\ (m.seq <= last \/ m.seq - last > 1)

\* Defect: a gap is not acted upon and the codec keeps what it has of the interrupted run.
AdmitThroughGap(d, m) ==
  [ForGeneration(d, m) EXCEPT !.seqGen = m.gen, !.lastSeq = m.seq]

\* The first critical section of Process for a video packet.
Admit(d, m) ==
  LET known == ForGeneration(d, m)
  IN  [(IF SequenceGap(d, m) THEN BeginKeyframeRecovery(known) ELSE known)
         EXCEPT !.seqGen = m.gen, !.lastSeq = m.seq]

FlushDue == dec.codec.open # "none" /\ ~dec.flushed

\* DecoderNode::Process: refused, dropped, or on to the codec.
DecoderReceive ==
  /\ dpc = "idle" /\ toDecoder # <<>>
  /\ LET m == Head(toDecoder)
     IN  /\ toDecoder' = Tail(toDecoder)
         /\ IF ~dec.accepting \/ m.gen < dec.active
            THEN UNCHANGED decoder
            ELSE IF m.eos
            THEN /\ dec' = [dec EXCEPT !.active = m.gen, !.callback = m.gen,
                                       !.codec.drained = FlushDue \/ @]
                 /\ dpc' = IF FlushDue THEN "flush" ELSE "end"
                 /\ dmsg' = m
            ELSE /\ dec' = Admit(dec, m)
                 /\ IF dec'.awaiting /\ ~m.key
                    THEN UNCHANGED <<dpc, dmsg>>
                    ELSE dpc' = "open" /\ dmsg' = m
  /\ PassesLook(1)
  /\ UNCHANGED <<source, router, toEncoder, encoder, gpc, tail, early, completed, out, tailLost,
                 failures>>

DecoderDone == dpc' = "idle" /\ dmsg' = NoMessage

\* The description to open the codec with: the message's if it is complete.
Description == IF dmsg.info THEN "same" ELSE dec.configured

\* The context has to be opened anew: there is none, or the generation or the stream is another.
MustReopen ==
  \/ dec.codec.open # Description
  \/ dec.active # 0 /\ dec.active # dmsg.gen

\* OpenForMessage, and callback_generation_ and flushed_ set for Decode.
OpenForMessage ==
  /\ dpc = "open"
  /\ \/ /\ ~dec.accepting \/ Description = "none"
        /\ DecoderDone /\ UNCHANGED <<dec, failures>>
     \/ /\ dec.accepting /\ Description # "none"
        /\ dec' = [dec EXCEPT !.active = dmsg.gen, !.callback = dmsg.gen, !.flushed = FALSE,
                     !.codec = IF MustReopen THEN OpenDecoder(Description) ELSE @]
        /\ dpc' = "decode"
        /\ UNCHANGED <<dmsg, failures>>
     \/ /\ dec.accepting /\ Description # "none" /\ MustReopen
        /\ Fail /\ DecoderDone
        /\ dec' = [dec EXCEPT !.codec = NoDecoder]
  /\ UNCHANGED <<source, router, toDecoder, toEncoder, encoder, graph, out, tailLost>>

\* FFmpegDecoder::Decode up to avcodec_send_packet, which refuses everything after a flush.
Decode ==
  /\ dpc = "decode"
  /\ ~dec.codec.drained
  /\ dec' = [dec EXCEPT !.codec.held = Append(@, Id(dmsg)), !.codec.last = Id(dmsg)]
  /\ dpc' = "receive"
  /\ UNCHANGED <<source, router, toDecoder, toEncoder, dmsg, encoder, graph, out, tailLost,
                 failures>>

\* One round of FFmpegDecoder::ReceiveFrames: the oldest frame comes out.
ReceiveFrame(d) == [d EXCEPT !.codec.held = Tail(@)]

\* The frame callback of that round, in the worker or in the graph's thread.
OnDecodedFrame ==
  /\ dpc \in {"receive", "flush"} \/ gpc = "flushDecoder"
  /\ dec.codec.held # <<>>
  /\ dec' = ReceiveFrame(dec)
  /\ IF dec.accepting /\ dec.callback # 0
     THEN \E o \in Offer(toEncoder, Frame(dec.callback, Head(dec.codec.held))) :
            toEncoder' = o.queue
     ELSE UNCHANGED toEncoder
  /\ UNCHANGED <<source, router, toDecoder, dpc, dmsg, encoder, graph, out, tailLost, failures>>

\* The codec wants more input; Process ends, and with a keyframe the recovery.
Decoded ==
  /\ dpc = "receive"
  /\ dec' = [dec EXCEPT !.awaiting = @ /\ ~dmsg.key]
  /\ DecoderDone
  /\ UNCHANGED <<source, router, toDecoder, toEncoder, encoder, graph, out, tailLost, failures>>

DecodeFails ==
  /\ dpc \in {"decode", "receive"}
  /\ IF dpc = "decode" /\ dec.codec.drained THEN UNCHANGED failures ELSE Fail
  /\ dec' = BeginKeyframeRecovery(dec)
  /\ DecoderDone
  /\ UNCHANGED <<source, router, toDecoder, toEncoder, encoder, graph, out, tailLost>>

\* DecoderNode::Flush has everything out: for an end of stream, which goes on, or for the graph.
\* A codec that was opened meanwhile wants input instead.
DecoderFlushed ==
  /\ dec.codec.held = <<>> \/ ~dec.codec.drained
  /\ \/ dpc = "flush" /\ dpc' = "end" /\ UNCHANGED <<gpc, wait>>
     \/ gpc = "flushDecoder" /\ gpc' = "drain" /\ wait' = LookFrom(3) /\ UNCHANGED dpc
  /\ dec' = [dec EXCEPT !.flushed = TRUE]
  /\ UNCHANGED <<source, router, toDecoder, toEncoder, dmsg, encoder, tail, early, completed, out,
                 tailLost, failures>>

\* A flush that fails swallows the end of stream, or ends the graceful stop.
DecoderFlushFails ==
  /\ \/ dpc = "flush" /\ DecoderDone /\ UNCHANGED gpc
     \/ gpc = "flushDecoder" /\ gpc' = "stop" /\ UNCHANGED <<dpc, dmsg>>
  /\ Fail
  /\ tailLost' = TRUE
  /\ UNCHANGED <<source, router, toDecoder, toEncoder, dec, encoder, wait, tail, early, completed,
                 out>>

\* Defect: the boundary is shed like a frame when the edge is full.
DecoderEndShed ==
  /\ dpc = "end"
  /\ toEncoder' = IF Len(toEncoder) < Capacity THEN Append(toEncoder, EndOf(dmsg.gen))
                  ELSE toEncoder
  /\ DecoderDone
  /\ UNCHANGED <<source, router, toDecoder, dec, encoder, graph, out, tailLost, failures>>

DecoderEnd ==
  /\ dpc = "end"
  /\ \E o \in Offer(toEncoder, EndOf(dmsg.gen)) : toEncoder' = o.queue
  /\ DecoderDone
  /\ UNCHANGED <<source, router, toDecoder, dec, encoder, graph, out, tailLost, failures>>

-----------------------------------------------------------------------------
(* The encoder *)

EncoderFlushDue == enc.codec.open /\ ~enc.flushed

EncoderReceive ==
  /\ epc = "idle" /\ toEncoder # <<>>
  /\ LET m == Head(toEncoder)
     IN  /\ toEncoder' = Tail(toEncoder)
         /\ IF ~enc.accepting \/ m.gen < enc.active
            THEN UNCHANGED encoder
            ELSE /\ enc' = IF m.eos THEN [enc EXCEPT !.active = m.gen] ELSE enc
                 /\ epc' = IF ~m.eos THEN "open" ELSE IF EncoderFlushDue THEN "flush" ELSE "end"
                 /\ emsg' = m
                 /\ UNCHANGED batch
  /\ PassesLook(2)
  /\ UNCHANGED <<source, router, toDecoder, decoder, gpc, tail, early, completed, out, tailLost,
                 failures>>

EncoderDone == epc' = "idle" /\ emsg' = NoMessage /\ batch' = <<>>

\* Defect: the encoder keeps the frames of the previous connection.
KeepsOldFrames ==
  /\ epc = "open"
  /\ enc.accepting
  /\ enc' = [enc EXCEPT !.active = emsg.gen]
  /\ epc' = "encode"
  /\ UNCHANGED <<source, router, toDecoder, toEncoder, decoder, emsg, batch, graph, out,
                 tailLost, failures>>

\* A generation that is not the active one gets an encoder of its own; the old one is not flushed.
OpenForGeneration ==
  /\ epc = "open"
  /\ LET reopen == ~enc.codec.open \/ (enc.active # 0 /\ enc.active # emsg.gen)
     IN  \/ /\ ~enc.accepting \/ emsg.gen < enc.active
            /\ EncoderDone /\ UNCHANGED <<enc, failures>>
         \/ /\ enc.accepting /\ emsg.gen >= enc.active
            /\ enc' = [enc EXCEPT !.active = emsg.gen, !.flushed = @ /\ ~reopen,
                         !.codec = IF reopen THEN OpenEncoder ELSE @]
            /\ epc' = "encode"
            /\ UNCHANGED <<emsg, batch, failures>>
         \/ /\ enc.accepting /\ reopen
            /\ Fail /\ EncoderDone
            /\ enc' = [enc EXCEPT !.codec = NoEncoder]
  /\ UNCHANGED <<source, router, toDecoder, toEncoder, decoder, graph, out, tailLost>>

\* FFmpegEncoder::ReceivePackets: the first n of what is held come out, for generation g.
ReceivePackets(held, n, g) == [i \in 1 .. n |-> Frame(g, held[i])]

\* FFmpegEncoder::Encode: some of what the codec holds comes out as packets.
Encode ==
  /\ epc = "encode" /\ ~enc.codec.drained
  /\ LET held == Append(enc.codec.held, emsg.of)
     IN  \E n \in 0 .. Len(held) :
           /\ batch' = ReceivePackets(held, n, emsg.gen)
           /\ enc' = [enc EXCEPT !.codec.held = SubSeq(held, n + 1, Len(held))]
  /\ epc' = "emit"
  /\ UNCHANGED <<source, router, toDecoder, toEncoder, decoder, emsg, graph, out, tailLost,
                 failures>>

\* Neither the frame nor the packets received so far go anywhere.
EncodeFails ==
  /\ epc = "encode"
  /\ IF enc.codec.drained THEN UNCHANGED <<failures, enc>>
     ELSE /\ Fail
          /\ \E n \in 0 .. Len(enc.codec.held) :
               enc' = [enc EXCEPT !.codec.held = SubSeq(@, n + 1, Len(@))]
  /\ EncoderDone
  /\ UNCHANGED <<source, router, toDecoder, toEncoder, decoder, graph, out, tailLost>>

\* EncoderNode::Flush: the codec gives away all it holds, to the worker or to the graph.
EncoderFlush ==
  /\ enc.codec.open
  /\ \/ /\ epc = "flush" /\ epc' = "emitTail"
        /\ batch' = ReceivePackets(enc.codec.held, Len(enc.codec.held), enc.active)
        /\ UNCHANGED <<gpc, tail>>
     \/ /\ gpc = "flushEncoder" /\ gpc' = "emitTail"
        /\ tail' = [tail EXCEPT !.packets =
                       ReceivePackets(enc.codec.held, Len(enc.codec.held), tail.gen)]
        /\ UNCHANGED <<epc, batch>>
  /\ enc' = [enc EXCEPT !.codec.held = <<>>, !.codec.drained = TRUE]
  /\ UNCHANGED <<source, router, toDecoder, toEncoder, decoder, emsg, wait, early, completed, out,
                 tailLost, failures>>

EncoderFlushFails ==
  /\ \/ epc = "flush" /\ EncoderDone /\ UNCHANGED <<gpc, tail>>
     \/ gpc = "flushEncoder" /\ gpc' = "stop" /\ tail' = NoTail /\ UNCHANGED <<epc, emsg, batch>>
  /\ IF enc.codec.open THEN Fail ELSE UNCHANGED failures
  /\ tailLost' = TRUE
  /\ UNCHANGED <<source, router, toDecoder, toEncoder, decoder, enc, wait, early, completed, out>>

\* EmitPackets gets the first n packets of generation g out; the edge to the publisher may
\* refuse the next one, and then the rest is not offered.
Emits(packets, g, n) ==
  /\ n # 0 => enc.accepting /\ enc.active = g
  /\ out' = out \o SubSeq(packets, 1, n)

AllEmitted(packets, g, n) == enc.accepting /\ enc.active = g /\ n = Len(packets)

EmitPackets ==
  /\ epc = "emit"
  /\ \E n \in 0 .. Len(batch) : Emits(batch, emsg.gen, n)
  /\ EncoderDone
  /\ UNCHANGED <<source, router, toDecoder, toEncoder, decoder, enc, graph, tailLost, failures>>

\* The packets of a flush.  If all are taken the flush has succeeded, otherwise it has failed.
EmitTail ==
  /\ epc = "emitTail"
  /\ \E n \in 0 .. Len(batch) :
       /\ Emits(batch, emsg.gen, n)
       /\ IF AllEmitted(batch, emsg.gen, n)
          THEN /\ enc' = [enc EXCEPT !.flushed = TRUE]
               /\ epc' = "end" /\ batch' = <<>> /\ UNCHANGED <<emsg, tailLost>>
          ELSE EncoderDone /\ tailLost' = TRUE /\ UNCHANGED enc
  /\ UNCHANGED <<source, router, toDecoder, toEncoder, decoder, graph, failures>>

\* The same in the graph's thread.
GraphEmitsTail ==
  /\ gpc = "emitTail"
  /\ \E n \in 0 .. Len(tail.packets) :
       /\ Emits(tail.packets, tail.gen, n)
       /\ IF AllEmitted(tail.packets, tail.gen, n)
          THEN /\ enc' = [enc EXCEPT !.flushed = TRUE]
               /\ gpc' = "drain" /\ wait' = LookFrom(4) /\ UNCHANGED tailLost
          ELSE gpc' = "stop" /\ tailLost' = TRUE /\ UNCHANGED <<enc, wait>>
  /\ tail' = NoTail
  /\ UNCHANGED <<source, router, toDecoder, toEncoder, decoder, epc, emsg, batch, early, completed,
                 failures>>

EncoderEnd ==
  /\ epc = "end"
  /\ out' = Append(out, EndOf(emsg.gen))
  /\ EncoderDone
  /\ UNCHANGED <<source, router, toDecoder, toEncoder, decoder, enc, graph, tailLost, failures>>

-----------------------------------------------------------------------------
(* The graph's thread *)

\* What WaitForQuiescence reads, in its order: PendingTasks of the nodes, IsIdle of the edges.
Idle == <<dpc = "idle", epc = "idle", toDecoder = <<>>, toEncoder = <<>>>>

\* Stop, or GracefulStop, which first stops the source.
StopBegins ==
  /\ gpc = "run"
  /\ gpc' \in {"stop", "drain"}
  /\ source' = [source EXCEPT !.ended = TRUE]
  /\ UNCHANGED <<router, toDecoder, toEncoder, decoder, encoder, wait, tail, early, completed, out,
                 tailLost, failures>>

\* One read of WaitForQuiescence.  The nodes go on between two of them; one that finds work starts
\* the look over, or the deadline has passed.
Look ==
  /\ gpc = "drain" /\ wait.seen < Len(Idle)
  /\ IF Idle[wait.seen + 1]
     THEN wait' = [wait EXCEPT !.seen = @ + 1] /\ UNCHANGED gpc
     ELSE wait' = LookFrom(wait.flushed) /\ gpc' \in {"drain", "stop"}
  /\ UNCHANGED <<source, router, toDecoder, toEncoder, decoder, encoder, tail, early, completed, out,
                 tailLost, failures>>

\* WaitForQuiescence has answered true for the n-th time.
Answered(n) == gpc = "drain" /\ wait.flushed = n /\ wait.seen = Len(Idle)

NothingUnderWay == \A i \in 1 .. Len(Idle) : Idle[i]
ActsOnAnswer == early' = (early \/ ~NothingUnderWay)

\* The source and the router have nothing to flush.
FlushOthers ==
  /\ Answered(0) \/ Answered(1)
  /\ wait' = LookFrom(wait.flushed + 1)
  /\ UNCHANGED <<source, router, toDecoder, toEncoder, decoder, encoder, gpc, tail, early, completed,
                 out, tailLost, failures>>

\* The graph flushes the decoder in its own thread, beside a worker that may be in the node.
FlushDecoder ==
  /\ Answered(2) /\ ActsOnAnswer
  /\ IF FlushDue
     THEN /\ gpc' = "flushDecoder" /\ wait' = LookFrom(2)
          /\ dec' = [dec EXCEPT !.codec.drained = TRUE]
     ELSE wait' = LookFrom(3) /\ UNCHANGED <<gpc, dec>>
  /\ UNCHANGED <<source, router, toDecoder, toEncoder, dpc, dmsg, encoder, tail, completed, out,
                 tailLost, failures>>

FlushEncoder ==
  /\ Answered(3) /\ ActsOnAnswer
  /\ IF EncoderFlushDue /\ enc.active # 0
     THEN /\ gpc' = "flushEncoder" /\ wait' = LookFrom(3)
          /\ tail' = [NoTail EXCEPT !.gen = enc.active]
     ELSE wait' = LookFrom(4) /\ UNCHANGED <<gpc, tail>>
  /\ UNCHANGED <<source, router, toDecoder, toEncoder, decoder, encoder, completed, out, tailLost,
                 failures>>

GracefulCompletes ==
  /\ Answered(4) /\ ActsOnAnswer
  /\ gpc' = "stop" /\ completed' = TRUE
  /\ UNCHANGED <<source, router, toDecoder, toEncoder, decoder, encoder, wait, tail, out, tailLost,
                 failures>>

\* The nodes stop in the order of their registration.
StopDecoder ==
  /\ gpc = "stop"
  /\ dec' = [dec EXCEPT !.accepting = FALSE]
  /\ gpc' = "stopEncoder"
  /\ UNCHANGED <<source, router, toDecoder, toEncoder, dpc, dmsg, encoder, wait, tail, early,
                 completed, out, tailLost, failures>>

\* The encoder stops and the edges are closed; what an encoder that does not accept takes from
\* its edge in between is lost like what is cleared.
StopEncoder ==
  /\ gpc = "stopEncoder"
  /\ enc' = [enc EXCEPT !.accepting = FALSE]
  /\ toDecoder' = <<>> /\ toEncoder' = <<>>
  /\ gpc' = "join"
  /\ UNCHANGED <<source, router, decoder, epc, emsg, batch, wait, tail, early, completed, out,
                 tailLost, failures>>

\* The executors have stopped: no handler runs, and Deinit closes both codecs.
Deinit ==
  /\ gpc = "join" /\ dpc = "idle" /\ epc = "idle"
  /\ dec' = [dec EXCEPT !.active = 0, !.callback = 0, !.seqGen = 0, !.lastSeq = 0,
                        !.awaiting = FALSE, !.flushed = FALSE, !.codec = NoDecoder]
  /\ enc' = EncoderDown(enc)
  /\ gpc' = "down"
  /\ UNCHANGED <<source, router, toDecoder, toEncoder, dpc, dmsg, epc, emsg, batch, wait, tail, early,
                 completed, out, tailLost, failures>>

-----------------------------------------------------------------------------

SourceStep == Produce \/ LoseEarly \/ Reconnect \/ SourceEnds

DecoderStep ==
  \/ DecoderReceive \/ OpenForMessage \/ Decode \/ OnDecodedFrame \/ Decoded \/ DecodeFails
  \/ DecoderFlushed \/ DecoderFlushFails \/ DecoderEnd

EncoderStep ==
  \/ EncoderReceive \/ OpenForGeneration \/ Encode \/ EncodeFails \/ EncoderFlush
  \/ EncoderFlushFails \/ EmitPackets \/ EmitTail \/ EncoderEnd

GraphStep ==
  \/ Look \/ FlushOthers \/ FlushDecoder \/ FlushEncoder \/ GraphEmitsTail \/ GracefulCompletes
  \/ StopDecoder \/ StopEncoder \/ Deinit

Next == SourceStep \/ DecoderStep \/ EncoderStep \/ StopBegins \/ GraphStep

Spec == Init /\ [][Next]_vars

\* The threads of the executors and a stop that has begun go on.
Fairness == WF_vars(DecoderStep) /\ WF_vars(EncoderStep) /\ WF_vars(GraphStep)
FairSpec == Spec /\ Fairness

-----------------------------------------------------------------------------
(* Properties *)

Generations == 0 .. MaxGenerations
Packets == [gen : Generations, seq : 1 .. MaxPackets, key : BOOLEAN, info : BOOLEAN,
            eos : {FALSE}]
Ends == [gen : Generations, eos : {TRUE}]
Ids == [gen : Generations, seq : 1 .. MaxPackets]
Frames == [gen : Generations, of : Ids, eos : {FALSE}]

\* Types of the nodes' fields, the queues and the histories.
TypeOK ==
  /\ source \in [gen : 1 .. MaxGenerations, seq : 0 .. MaxPackets, count : 0 .. MaxPackets,
                 described : BOOLEAN, ended : BOOLEAN]
  /\ router \in [gen : Generations, stream : Streams \cup {Selection}]
  /\ toDecoder \in Seq(Packets \cup Ends) /\ toEncoder \in Seq(Frames \cup Ends)
  /\ Len(toDecoder) <= Capacity /\ Len(toEncoder) <= Capacity
  /\ dec \in [configured : Configured, accepting : BOOLEAN, active : Generations, callback : Generations,
              seqGen : Generations, lastSeq : 0 .. MaxPackets, awaiting : BOOLEAN,
              flushed : BOOLEAN,
              codec : [open : {"none", "same", "other"}, held : Seq(Ids),
                       drained : BOOLEAN, last : Ids \cup {NoId}]]
  /\ dpc \in {"idle", "open", "decode", "receive", "flush", "end"}
  /\ dmsg \in Packets \cup Ends \cup {NoMessage}
  /\ enc \in [accepting : BOOLEAN, active : Generations, flushed : BOOLEAN,
              codec : [open : BOOLEAN, held : Seq(Ids), drained : BOOLEAN]]
  /\ epc \in {"idle", "open", "encode", "emit", "flush", "emitTail", "end"}
  /\ emsg \in Frames \cup Ends \cup {NoMessage} /\ batch \in Seq(Frames)
  /\ gpc \in {"run", "drain", "flushDecoder", "flushEncoder", "emitTail", "stop", "stopEncoder",
              "join", "down"}
  /\ wait \in [flushed : 0 .. 4, seen : 0 .. Len(Idle), passed : BOOLEAN]
  /\ tail \in [gen : Generations, packets : Seq(Frames)]
  /\ {early, completed, tailLost} \subseteq BOOLEAN
  /\ out \in Seq(Frames \cup Ends)
  /\ failures \in 0 .. MaxFailures

\* Whatever was lost on the way, whatever failed and however often the source reconnected: what
\* one decoder context has been given is a keyframe and then an unbroken run of packets of
\* one connection (media_nodes.cpp:612, 629, 641, 684).
KeyframeThenRun ==
  [][dpc = "decode" /\ dpc' = "receive" =>
       LET last == dec.codec.last
       IN  IF last = NoId THEN dmsg.key
           ELSE dmsg.gen = last.gen /\ dmsg.seq = last.seq + 1]_vars

Before(p, q) == p.gen < q.gen \/ (p.gen = q.gen /\ p.seq < q.seq)

\* What leaves the chain is in the order in which it entered the source, nothing twice, the
\* labels never go back, an end of stream is the last message, and only a tail that such an end
\* of stream flushes may carry a later generation than its own (media_nodes.cpp:601, 970, 1019).
OutputInOrder ==
  \A i, j \in 1 .. Len(out) : i < j =>
    /\ ~out[i].eos
    /\ out[i].gen <= out[j].gen
    /\ ~out[j].eos => /\ Before(out[i].of, out[j].of)
                      /\ out[i].gen # out[i].of.gen => out[j].of.gen < out[j].gen

\* The look at the nodes and then at the edges answers true only when nothing is under way, unless a
\* message has gone from an edge it had yet to read to a node it had read (graph.h:1191-1218).
LookMissesOnlyWhatPasses ==
  gpc = "drain" /\ wait.seen = Len(Idle) /\ ~wait.passed => NothingUnderWay

\* A graceful stop that reports success has left nothing in an edge or in a codec, whether the
\* tail was flushed by an end of stream before it, by the stop itself, or by both
\* (graph.h:1092-1107 and the nodes' flushed_).
CompleteIsDrained ==
  completed /\ gpc = "stop" =>
    toDecoder = <<>> /\ toEncoder = <<>> /\ dec.codec.held = <<>> /\ enc.codec.held = <<>>

\* What the chain puts out is in order, and all of it when a stop says so, as long as the graph has
\* not flushed a node beside its worker, on an answer that a passing message has made false.
OutputInOrderAndWhole ==
  TypeOK /\ LookMissesOnlyWhatPasses /\ (early \/ (OutputInOrder /\ CompleteIsDrained))

\* An end of stream passes both codecs and leaves the chain, unless a flush fails, a packet of the
\* tail is refused, or the graph is stopped first (media_nodes.cpp:655-667, 978-994).
EndArrives ==
  (\E i \in 1 .. Len(toDecoder) : toDecoder[i].eos)
    ~> (gpc # "run" \/ tailLost \/ \E i \in 1 .. Len(out) : out[i].eos)

=============================================================================
