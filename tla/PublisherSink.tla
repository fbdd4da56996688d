----------------------------- MODULE PublisherSink -----------------------------
(***************************************************************************)
(* The end of a media graph: PublisherSinkNode                             *)
(* (src/mediaflow/media_nodes.cpp) with its DtsInterleaver                 *)
(* (media_timing.cpp), on DefaultPublisher, FfmpegProtocolAdapter and      *)
(* FfmpegMuxProtocol (src/media/publisher, src/media/protocol), fed by the *)
(* encoders of several tracks.                                             *)
(*                                                                         *)
(* Process holds state_mutex_ from its first line to its last, so messages *)
(* of different tracks are handled one after the other, but in any order.  *)
(* One call publishes any number of packets, each with an outcome of its   *)
(* own; what it still has to do is the sequence work, and every action on  *)
(* its head is one iteration of one of the loops of the code.              *)
(*                                                                         *)
(* A packet is its track, generation, number, decoding time stamp and      *)
(* whether it is a keyframe.  Contents, descriptions of tracks beyond      *)
(* their presence, statistics and texts of errors are left out.            *)
(***************************************************************************)
EXTENDS Integers, FiniteSets, SequencesExt

CONSTANTS
  Tracks, VideoTracks,  \* track ids, and which of them carry video
  Configured,           \* initial values of the set of ids in config_.tracks
  WaitForAllTracks, WaitForKeyframe, Interleaving,   \* PublisherSinkNodeOptions
  MaxPending,           \* options_.max_pending_packets
  MaxBuffered, MaxSpan, \* DtsInterleaverConfig
  ReconnectAttempts,    \* config_.ffmpeg.reconnect_attempts
  MaxGenerations,       \* bound: connections of the source
  MaxPackets,           \* bound: packets of each track
  Stamps,               \* bound: time stamps of each track; NoStamp for a packet without one
  MaxFaults             \* bound: failures of the remote side

NoStamp == -1

VARIABLES
  feed,    \* per track, what its encoder has sent: generation, number, last stamp, end of stream
  node,    \* fields of PublisherSinkNode
  inter,   \* pending_ and generation_ of DtsInterleaver
  pub,     \* the publisher: started_, waiting_for_keyframe_, and which remote session this is
  work,    \* what is left of the call of Process
  written, \* history: what the muxer has taken, with its session
  overflow,\* history: the start-up queue has refused a packet
  faults   \* bound

vars == <<feed, node, inter, pub, work, written, overflow, faults>>

IsVideo(p) == p.track \in VideoTracks
IsVideoKeyframe(p) == IsVideo(p) /\ p.key

\* started, waiting for a keyframe, number of the session, and the packet it was opened for.
Unconnected == [started |-> FALSE, waiting |-> FALSE, session |-> 0, opener |-> "none"]

Init ==
  /\ feed = [t \in Tracks |-> [gen |-> 1, number |-> 0, stamp |-> NoStamp, ended |-> FALSE]]
  /\ \E tracks \in Configured :
       node = [tracks |-> tracks, accepting |-> TRUE, active |-> 0, started |-> FALSE,
               awaiting |-> WaitForKeyframe, pending |-> <<>>, seen |-> {}, eos |-> {}]
  /\ inter = [buffer |-> <<>>, gen |-> 0]
  /\ pub = Unconnected
  /\ work = <<>> /\ written = <<>> /\ overflow = FALSE /\ faults = 0

HasVideo == node.tracks \cap VideoTracks # {}
AllTracksSeen == node.tracks \subseteq node.seen

\* Items of work.
Do(what) == [do |-> what]
With(what, p) == [do |-> what, packet |-> p]
Todo(what) == work # <<>> /\ Head(work).do = what
Packet == Head(work).packet
Next1 == Tail(work)
Each(what, packets) == [i \in 1 .. Len(packets) |-> With(what, packets[i])]

-----------------------------------------------------------------------------
(* The muxer: DefaultPublisher on FfmpegProtocolAdapter on FfmpegMuxProtocol *)

\* A new remote session; its header is written.
Connected(p) == [started |-> TRUE, waiting |-> FALSE, session |-> pub.session + 1,
                 opener |-> p.track]
\* Stop, which is also the first thing Start does.
Disconnected == [pub EXCEPT !.started = FALSE, !.waiting = FALSE]

Outcome(code, pb, wrote) == [code |-> code, pub |-> pb, wrote |-> wrote]

\* Defect: after a reconnect the packet in hand goes out whatever it is.
AfterDisconnectAnyFrame(p) ==
  {Outcome("failed", Disconnected, FALSE)} \cup
  (IF ReconnectAttempts = 0 THEN {} ELSE {Outcome("ok", Connected(p), TRUE)})

\* FfmpegMuxProtocol::Write after WriteEncodedPacket reported that the remote side is gone.
AfterDisconnect(p) ==
  LET again == Connected(p)
      lost == Outcome("failed", Disconnected, FALSE)
  IN  {lost} \cup
      (IF ReconnectAttempts = 0 THEN {}
       ELSE IF IsVideo(p) /\ ~p.key
       THEN {Outcome("awaiting", [again EXCEPT !.waiting = TRUE], FALSE)}
       ELSE {Outcome("ok", again, TRUE),
             Outcome("failed", [again EXCEPT !.waiting = IsVideo(p)], FALSE),
             Outcome("failed", [again EXCEPT !.started = FALSE], FALSE)})

\* FfmpegProtocolAdapter::FindTrackForPacket.
Routed(p) == p.track \in node.tracks

\* DefaultPublisher::Publish without a fault of the remote side.
Publish(p) ==
  IF ~pub.started \/ ~Routed(p) THEN Outcome("failed", pub, FALSE)
  ELSE IF pub.waiting /\ ~IsVideoKeyframe(p) THEN Outcome("awaiting", pub, FALSE)
  ELSE Outcome("ok", [pub EXCEPT !.waiting = FALSE], TRUE)

\* Start of the publisher for packet p succeeds, or the remote side refuses.
StartPublisher(p, prepared, todo, kept) ==
  \/ /\ pub' = Connected(p)
     /\ node' = [prepared EXCEPT !.started = TRUE, !.pending = <<>>]
     /\ inter' = todo.inter
     /\ work' = todo.work \o Next1
     /\ UNCHANGED faults
  \/ /\ faults < MaxFaults /\ faults' = faults + 1
     /\ pub' = Disconnected
     /\ node' = [prepared EXCEPT !.pending = kept]
     /\ work' = Next1
     /\ UNCHANGED inter

-----------------------------------------------------------------------------
(* The encoders *)

\* A packet of track t reaches the node: of the generation of the packet before it, or a later one.
Arrive(t) ==
  /\ work = <<>> /\ ~feed[t].ended /\ feed[t].number < MaxPackets[t]
  /\ \E g \in feed[t].gen .. MaxGenerations, s \in Stamps[t], k \in BOOLEAN :
       /\ s # NoStamp /\ g = feed[t].gen => s > feed[t].stamp
       /\ t \notin VideoTracks => ~k
       /\ feed' = [feed EXCEPT ![t] =
                     [gen |-> g, number |-> @.number + 1,
                      stamp |-> IF s # NoStamp THEN s ELSE IF g = @.gen THEN @.stamp ELSE NoStamp,
                      ended |-> FALSE]]
       /\ LET p == [track |-> t, gen |-> g, number |-> feed[t].number + 1, stamp |-> s, key |-> k]
          IN  work' = IF ~node.accepting \/ g < node.active THEN <<>>
                      ELSE IF node.active \notin {0, g}
                      THEN <<Do("flush"), With("renew", p), With("admit", p)>>
                      ELSE <<With("admit", p)>>
       /\ node' = IF work' # <<>> /\ node.active = 0 THEN [node EXCEPT !.active = g] ELSE node
  /\ UNCHANGED <<inter, pub, written, overflow, faults>>

\* Defect: what the interleaver still holds is forgotten.
EndWithoutFlush(t) ==
  /\ work = <<>> /\ ~feed[t].ended
  /\ feed' = [feed EXCEPT ![t].ended = TRUE]
  /\ node' = [node EXCEPT !.eos = @ \cup {t}]
  /\ work' = IF node'.tracks \subseteq node'.eos /\ node.started THEN <<Do("close")>> ELSE <<>>
  /\ UNCHANGED <<inter, pub, written, overflow, faults>>

\* HandleEndOfStream: with the last track the publisher is closed.  There is no look at the
\* generation of the message.
EndOfStream(t) ==
  /\ work = <<>> /\ ~feed[t].ended
  /\ feed' = [feed EXCEPT ![t].ended = TRUE]
  /\ IF node.accepting
     THEN /\ node' = [node EXCEPT !.eos = @ \cup {t}]
          /\ work' = IF node'.tracks \subseteq node'.eos /\ node.started
                     THEN <<Do("flush"), Do("close")>> ELSE <<>>
     ELSE UNCHANGED <<node, work>>
  /\ UNCHANGED <<inter, pub, written, overflow, faults>>

Close ==
  /\ Todo("close")
  /\ pub' = Disconnected
  /\ node' = [node EXCEPT !.started = FALSE, !.awaiting = FALSE]
  /\ work' = Next1
  /\ UNCHANGED <<feed, inter, written, overflow, faults>>

\* A new generation, after what the interleaver held of the old one has been written.
Renew ==
  /\ Todo("renew")
  /\ pub' = Disconnected
  /\ node' = [node EXCEPT !.active = Packet.gen, !.started = FALSE, !.awaiting = TRUE,
                          !.pending = <<>>, !.eos = {}]
  /\ work' = Next1
  /\ UNCHANGED <<feed, inter, written, overflow, faults>>

-----------------------------------------------------------------------------
(* Admission: the part of Process before anything is published *)

\* PrepareTrack: a track that is not configured is refused, unless none is.
Prepared(p) == node.tracks = {} \/ p.track \in node.tracks
PrepareTrack(p) == [node EXCEPT !.tracks = @ \cup {p.track}, !.seen = @ \cup {p.track}]

\* Into the start-up queue, or refused if it is full.
Enqueue(n, p) ==
  /\ node' = IF Len(n.pending) < MaxPending THEN [n EXCEPT !.pending = Append(@, p)] ELSE n
  /\ overflow' = (overflow \/ Len(n.pending) >= MaxPending)
  /\ work' = Next1
  /\ UNCHANGED <<feed, inter, pub, written, faults>>

\* Positions of the queued packets at which a session may begin.
Anchors == {i \in 1 .. Len(node.pending) : IsVideoKeyframe(node.pending[i])}

AwaitsAnchor(n) == WaitForKeyframe /\ n.awaiting /\ n.tracks \cap VideoTracks # {}

Ready(n) == ~WaitForAllTracks \/ Cardinality(n.tracks) <= 1 \/ n.tracks \subseteq n.seen

Fresh(p) == [buffer |-> <<>>, gen |-> p.gen]

Admit ==
  /\ Todo("admit") /\ ~node.started
  /\ LET p == Packet
         n == PrepareTrack(p)
     IN  \/ /\ ~Prepared(p)
            /\ work' = Next1
            /\ UNCHANGED <<feed, node, inter, pub, written, overflow, faults>>
         \/ /\ Prepared(p) /\ ~Ready(n)
            /\ Enqueue(n, p)
         \/ /\ Prepared(p) /\ Ready(n) /\ AwaitsAnchor(n) /\ Anchors # {}
            /\ LET a == CHOOSE i \in Anchors : \A j \in Anchors : i <= j
                   anchor == node.pending[a]
                   rest == SubSeq(node.pending, a + 1, Len(node.pending))
               IN  StartPublisher(anchor, n,
                     [inter |-> Fresh(anchor),
                      work |-> <<With("publish", anchor)>> \o Each("interleave", rest)
                                 \o <<With("interleave", p)>>], <<>>)
            /\ UNCHANGED <<feed, written, overflow>>
         \/ /\ Prepared(p) /\ Ready(n) /\ AwaitsAnchor(n) /\ Anchors = {} /\ ~IsVideoKeyframe(p)
            /\ Enqueue(n, p)
         \/ /\ Prepared(p) /\ Ready(n) /\ AwaitsAnchor(n) /\ Anchors = {} /\ IsVideoKeyframe(p)
            /\ StartPublisher(p, n, [inter |-> Fresh(p), work |-> <<With("publish", p)>>],
                              node.pending)
            /\ UNCHANGED <<feed, written, overflow>>
         \/ /\ Prepared(p) /\ Ready(n) /\ ~AwaitsAnchor(n)
            /\ StartPublisher(p, n,
                 [inter |-> inter,
                  work |-> Each("interleave", node.pending) \o <<With("interleave", p)>>],
                 node.pending)
            /\ UNCHANGED <<feed, written, overflow>>

\* The publisher runs; after a reconnect of the muxer only a keyframe begins a new run.
AdmitStarted ==
  /\ Todo("admit") /\ node.started
  /\ IF ~AwaitsAnchor(node)
     THEN work' = <<With("interleave", Packet)>> \o Next1 /\ UNCHANGED inter
     ELSE IF IsVideoKeyframe(Packet)
     THEN work' = <<With("publish", Packet)>> \o Next1 /\ inter' = Fresh(Packet)
     ELSE work' = Next1 /\ UNCHANGED inter
  /\ UNCHANGED <<feed, node, pub, written, overflow, faults>>

-----------------------------------------------------------------------------
(* PublishOrInterleave and PublishPacket *)

\* DtsInterleaver::Push: a packet of another generation waits for a flush, one without a stamp for
\* a drain of the buffer.
Push(p) ==
  IF inter.gen \notin {0, p.gen}
  THEN [inter |-> inter, work |-> <<Do("flush"), With("interleave", p)>>]
  ELSE IF p.stamp = NoStamp
  THEN [inter |-> [inter EXCEPT !.gen = p.gen], work |-> <<Do("drain"), With("publish", p)>>]
  ELSE [inter |-> [gen |-> p.gen, buffer |-> Append(inter.buffer, p)], work |-> <<Do("emit")>>]

PublishOrInterleave ==
  /\ Todo("interleave")
  /\ IF ~Interleaving \/ Cardinality(node.tracks) <= 1
     THEN work' = <<With("publish", Packet)>> \o Next1 /\ UNCHANGED inter
     ELSE LET pushed == Push(Packet)
          IN  inter' = pushed.inter /\ work' = pushed.work \o Next1
  /\ UNCHANGED <<feed, node, pub, written, overflow, faults>>

Buffered == {inter.buffer[i].stamp : i \in 1 .. Len(inter.buffer)}
Span == LET stamps == Buffered
        IN  (CHOOSE x \in stamps : \A y \in stamps : y <= x)
              - (CHOOSE x \in stamps : \A y \in stamps : x <= y)

BufferLimit == IF MaxBuffered = 0 THEN 1 ELSE MaxBuffered

OverLimit ==
  \/ Len(inter.buffer) > BufferLimit
  \/ MaxSpan > 0 /\ Span >= MaxSpan

\* Position of the packet with the earliest stamp, the first of several.
Earliest ==
  CHOOSE i \in 1 .. Len(inter.buffer) :
    \A j \in 1 .. Len(inter.buffer) :
      \/ inter.buffer[i].stamp < inter.buffer[j].stamp
      \/ inter.buffer[i].stamp = inter.buffer[j].stamp /\ i <= j

\* One round of EmitReady: forced for "drain" and "flush", within the limits for "emit".
EmitReady ==
  /\ work # <<>> /\ Head(work).do \in {"emit", "drain", "flush"}
  /\ LET force == Head(work).do # "emit"
     IN  IF inter.buffer # <<>> /\ (force \/ OverLimit)
         THEN /\ inter' = [inter EXCEPT !.buffer = RemoveAt(@, Earliest)]
              /\ work' = <<With("publish", inter.buffer[Earliest])>>
                           \o (IF ~force /\ Len(inter'.buffer) <= 1 THEN Next1 ELSE work)
         ELSE /\ inter' = IF Head(work).do = "flush" THEN [inter EXCEPT !.gen = 0] ELSE inter
              /\ work' = Next1
  /\ UNCHANGED <<feed, node, pub, written, overflow, faults>>

\* PublishPacket refuses or drops without a call of the publisher.
Withheld(p) == ~node.started \/ (AwaitsAnchor(node) /\ ~IsVideoKeyframe(p))

Published(o) ==
  /\ pub' = o.pub
  /\ written' = IF o.wrote THEN Append(written, [session |-> o.pub.session, packet |-> Packet,
                                                 opener |-> o.pub.opener])
                ELSE written
  /\ node' = [node EXCEPT !.started = o.code # "failed",
                !.awaiting = IF o.code = "ok" THEN @ /\ ~IsVideoKeyframe(Packet) /\ HasVideo
                             ELSE TRUE]

PublishPacket ==
  /\ Todo("publish")
  /\ IF Withheld(Packet) THEN UNCHANGED <<node, pub, written>> ELSE Published(Publish(Packet))
  /\ work' = Next1
  /\ UNCHANGED <<feed, inter, overflow, faults>>

\* The remote side fails while the packet is written, or the muxer refuses it.
PublishFails ==
  /\ Todo("publish") /\ ~Withheld(Packet) /\ Publish(Packet).wrote
  /\ faults < MaxFaults /\ faults' = faults + 1
  /\ \E o \in AfterDisconnect(Packet) \cup {Outcome("failed", pub, FALSE)} : Published(o)
  /\ work' = Next1
  /\ UNCHANGED <<feed, inter, overflow>>

-----------------------------------------------------------------------------
(* The graph *)

\* Stop; then, when the executors have stopped, Deinit, which closes the session.
Stop ==
  /\ node.accepting /\ work = <<>>
  /\ node' = [node EXCEPT !.accepting = FALSE]
  /\ UNCHANGED <<feed, inter, pub, work, written, overflow, faults>>

Deinit ==
  /\ ~node.accepting /\ node.active # 0
  /\ pub' = Disconnected
  /\ node' = [node EXCEPT !.started = FALSE, !.awaiting = FALSE, !.pending = <<>>, !.seen = {},
                          !.eos = {}, !.active = 0]
  /\ inter' = [buffer |-> <<>>, gen |-> 0]
  /\ UNCHANGED <<feed, work, written, overflow, faults>>

Next ==
  \/ \E t \in Tracks : Arrive(t) \/ EndOfStream(t)
  \/ Renew \/ Admit \/ AdmitStarted \/ PublishOrInterleave \/ EmitReady \/ PublishPacket \/ PublishFails
  \/ Close \/ Stop \/ Deinit

Spec == Init /\ [][Next]_vars

-----------------------------------------------------------------------------
(* Properties *)

Packets == UNION {[track : {t}, gen : 1 .. MaxGenerations, number : 1 .. MaxPackets[t],
                   stamp : Stamps[t], key : BOOLEAN] : t \in Tracks}

\* Types, and the bounds of both queues: the interleaver holds one packet more than its limit
\* only until EmitReady has run.
TypeOK ==
  /\ \A t \in Tracks :
       feed[t] \in [gen : 1 .. MaxGenerations, number : 0 .. MaxPackets[t],
                    stamp : Stamps[t] \cup {NoStamp}, ended : BOOLEAN]
  /\ node \in [tracks : SUBSET Tracks, accepting : BOOLEAN, active : 0 .. MaxGenerations,
               started : BOOLEAN, awaiting : BOOLEAN, pending : Seq(Packets),
               seen : SUBSET Tracks, eos : SUBSET Tracks]
  /\ Len(node.pending) <= MaxPending
  /\ inter \in [buffer : Seq(Packets), gen : 0 .. MaxGenerations]
  /\ work = <<>> => Len(inter.buffer) <= BufferLimit
  /\ pub \in [started : BOOLEAN, waiting : BOOLEAN, session : Nat,
              opener : Tracks \cup {"none"}]
  /\ \A i \in 1 .. Len(work) : "packet" \in DOMAIN work[i] => work[i].packet \in Packets
  /\ \A i \in 1 .. Len(written) : written[i].packet \in Packets
  /\ overflow \in BOOLEAN /\ faults \in 0 .. MaxFaults

\* However the tracks are interleaved and wherever the publisher failed: the packets of one track
\* leave in the order of their decoding, none twice (media_timing.cpp:287, 296, 336).
TrackInOrder ==
  \A i, j \in 1 .. Len(written) :
    i < j /\ written[i].packet.track = written[j].packet.track =>
      written[i].packet.number < written[j].packet.number

\* A remote session carries packets of one connection of the source (media_nodes.cpp:1188-1202).
OneGenerationPerSession ==
  \A i, j \in 1 .. Len(written) :
    written[i].session = written[j].session => written[i].packet.gen = written[j].packet.gen

\* The packet at position i of the output can be decoded: it is a keyframe, or its predecessor
\* is in the same session.
Decodable(i) ==
  LET p == written[i].packet
  IN  p.key \/ \E j \in 1 .. i - 1 :
                 /\ written[j].session = written[i].session
                 /\ written[j].packet.track = p.track
                 /\ written[j].packet.number = p.number - 1

\* Every session is playable from its first picture on and without a hole, after any sequence of
\* failures, reconnects and late tracks, unless the start-up queue overflowed or the muxer
\* reconnected on behalf of an audio packet (media_nodes.cpp:1228-1286; ffmpeg_mux_protocol.cpp:200).
PlayableSessions ==
  ~overflow =>
    \A i \in 1 .. Len(written) :
      IsVideo(written[i].packet) /\ written[i].opener \in VideoTracks => Decodable(i)

\* When the node knows that all tracks have ended no packet can be published any more, and unless
\* a packet was refused before, the session is closed and the interleaver has given away the tail
\* (media_nodes.cpp:1427-1447).
EndCloses ==
  work = <<>> /\ node.tracks # {} /\ node.tracks \subseteq node.eos =>
    /\ ~node.started
    /\ faults = 0 /\ node.tracks = Tracks => ~pub.started /\ inter.buffer = <<>>

\* What a remote session receives is of one piece and in order, and it ends when its tracks do.
SessionsWhole == TypeOK /\ TrackInOrder /\ OneGenerationPerSession /\ PlayableSessions /\ EndCloses

=============================================================================
