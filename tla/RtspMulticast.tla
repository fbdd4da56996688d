----------------------------- MODULE RtspMulticast -----------------------------
(***************************************************************************)
(* RtspMulticastPublisher (src/media/protocol/rtsp): the one RTP stream    *)
(* all clients that asked for multicast share, and the reports they send   *)
(* about it, from the first SETUP to the Close of Stop.                    *)
(*                                                                         *)
(* Requests, media, sends and reports are handlers of one io thread; Close *)
(* is called by the owner at any moment.  Between the two stands mutex_: a *)
(* step is what happens under it at once, or between two times it is held. *)
(* A handler checks a socket and then uses it without the mutex.           *)
(*                                                                         *)
(* Addresses, ports and SSRCs are a few values, a payload is its number,   *)
(* and a report block is the stream it is about.                           *)
(***************************************************************************)
EXTENDS Integers, FiniteSets, SequencesExt

CONSTANTS
  Clients,          \* sessions that may ask for multicast
  Asked,            \* what the Transport header of a SETUP may say of the group
  Options,          \* multicast_address, its ports and multicast_ttl
  FirstSequence,    \* the random number the stream begins with, below
  SequenceModulus,  \* 2^16 of the code, smaller here
  Reporters,        \* SSRCs of receivers
  Datagrams,        \* what may arrive at the RTCP port of the group
  MaxUnits,         \* bound: access units written
  MaxSetups,        \* bound: requests of clients
  MaxDatagrams      \* bound: datagrams that arrive

VARIABLES
  pub,      \* ready_, closed_, transport_spec_, the counters of sender_, feedback_by_reporter_ and
            \* receiver_reports_received_
  sockets,  \* the three sockets of the publisher: "none", "open" or "closed"
  receive,  \* the receive that was started last, and what it has brought
  posted,   \* sends posted to the executor
  handler,  \* what the io thread still has to do
  client,   \* per client: the group it was told, playing_, and what RTP-Info announced to it
  wire,     \* what has been sent to the group
  budget,   \* what is left of the bounds
  reported  \* history: per reporter, the blocks about this stream that have arrived; whether a
            \* receive has failed

multicastVars == <<pub, sockets, receive, posted, handler, client, wire, budget, reported>>

NoGroup == [destination |-> "", rtp |-> 0, rtcp |-> 0, ttl |-> 0]
NoReports == [r \in Reporters |-> 0]
Free == [do |-> "nothing"]
Do(what) == [do |-> what]
Idle == handler = Free
Doing(what) == handler.do = what
NoAnnouncement == [sequence |-> -1, ahead |-> -1]

Init ==
  /\ pub = [ready |-> FALSE, closed |-> FALSE, group |-> NoGroup, next |-> 0, packets |-> 0,
            by |-> NoReports, total |-> 0]
  /\ sockets = "none" /\ receive = [state |-> "none"]
  /\ posted = <<>> /\ handler = Free /\ wire = <<>>
  /\ client = [c \in Clients |-> [told |-> NoGroup, playing |-> FALSE, info |-> NoAnnouncement]]
  /\ budget = [units |-> MaxUnits, setups |-> MaxSetups, datagrams |-> MaxDatagrams]
  /\ reported = [by |-> NoReports, failed |-> FALSE]

-----------------------------------------------------------------------------
(* Configure, in the handler of a SETUP *)

IsIpv4Multicast(address) == address \in {"group", "other group"}

OrDefault(asked, default) == IF asked = 0 THEN default ELSE asked
Sixteen == 16

\* What the client left open is filled in.
Completed(asked) ==
  [destination |-> IF asked.destination = "" THEN Options.destination ELSE asked.destination,
   rtp |-> OrDefault(asked.rtp, Options.rtp), rtcp |-> OrDefault(asked.rtcp, Options.rtcp),
   ttl |-> OrDefault(asked.ttl, OrDefault(Options.ttl, Sixteen))]

Acceptable(group) == IsIpv4Multicast(group.destination) /\ group.rtp # 0 /\ group.rtcp # 0

\* The sockets become members only when all of them are open, bound and joined.
Established(group) ==
  [pub EXCEPT !.ready = TRUE, !.group = group, !.next = FirstSequence, !.packets = 0,
              !.by = NoReports, !.total = 0]

\* Defect: a later client configures the group anew, with a new sender.
ConfigureAnew(asked, opened) ==
  IF pub.closed \/ ~Acceptable(Completed(asked)) \/ ~opened THEN pub
  ELSE Established(Completed(asked))

\* The publisher after Configure.  Whatever fails leaves it as it was; a later client gets the group
\* there is.
Configure(asked, opened) ==
  IF pub.closed \/ pub.ready \/ ~Acceptable(Completed(asked)) \/ ~opened THEN pub
  ELSE Established(Completed(asked))

\* PrepareTrackState, Configure and the answer; StartRtcpReceive follows.
SetUp(c, asked, opened) ==
  /\ Idle /\ budget.setups > 0 /\ budget' = [budget EXCEPT !.setups = @ - 1]
  /\ pub' = Configure(asked, opened)
  /\ IF pub' # pub
     THEN sockets' = "open" /\ handler' = Do("start receive")
     ELSE UNCHANGED <<sockets, handler>>
  /\ client' = [client EXCEPT ![c] =
       IF pub'.ready THEN [told |-> pub'.group, playing |-> FALSE, info |-> NoAnnouncement]
       ELSE [@ EXCEPT !.told = NoGroup]]
  /\ UNCHANGED <<receive, posted, wire, reported>>

\* RTP packets that are not on the wire yet.
QueuedRtp == Len(SelectSeq(posted, LAMBDA s : s.kind = "rtp"))
SentRtp == SelectSeq(wire, LAMBDA s : s.kind = "rtp")

\* PLAY: RTP-Info announces GetSequence, 0 when there is no sender any more.
Play(c) ==
  /\ Idle /\ client[c].told # NoGroup /\ ~client[c].playing
  /\ client' = [client EXCEPT ![c].playing = TRUE,
                  ![c].info = IF pub.ready
                              THEN [sequence |-> pub.next, ahead |-> Len(SentRtp) + QueuedRtp]
                              ELSE NoAnnouncement]
  /\ UNCHANGED <<pub, sockets, receive, posted, handler, wire, budget, reported>>

\* PAUSE, or the end of the session.
Pause(c) ==
  /\ Idle /\ client[c].playing
  /\ client' = [client EXCEPT ![c].playing = FALSE]
  /\ UNCHANGED <<pub, sockets, receive, posted, handler, wire, budget, reported>>

-----------------------------------------------------------------------------
(* Publish, and the sends it posts *)

IsPlayingMulticastTrack(c) == client[c].playing /\ client[c].told # NoGroup

\* The task of a Write: it looks once whether anybody listens, and publishes each of its packets.
MediaTask(n) ==
  /\ Idle /\ budget.units > 0 /\ budget' = [budget EXCEPT !.units = @ - 1]
  /\ handler' = IF \E c \in Clients : IsPlayingMulticastTrack(c) THEN [do |-> "publish", left |-> n] ELSE Free
  /\ UNCHANGED <<pub, sockets, receive, posted, client, wire, reported>>

RtpOf(p) == [kind |-> "rtp", sequence |-> p.next]
SenderReport(p) == [kind |-> "report", packets |-> p.packets]

\* The first report is due at once, a later one when the interval is over.
ShouldSendSenderReport(p, due) == due \/ p.packets = 1

\* RtpSender::BuildRtpPacket
Sent(p) == [p EXCEPT !.next = (@ + 1) % SequenceModulus, !.packets = @ + 1]

\* Under the mutex a packet is built, and a sender report when one is due; then they are posted.
Publish(due) ==
  /\ Doing("publish")
  /\ handler' = IF handler.left > 1 THEN [handler EXCEPT !.left = @ - 1] ELSE Free
  /\ IF pub.ready
     THEN /\ pub' = Sent(pub)
          /\ posted' = posted \o <<RtpOf(pub)>>
                         \o (IF ShouldSendSenderReport(Sent(pub), due) THEN <<SenderReport(Sent(pub))>>
                             ELSE <<>>)
     ELSE UNCHANGED <<pub, posted>>
  /\ UNCHANGED <<sockets, receive, client, wire, budget, reported>>

\* The posted handler looks at its socket ...
SendChecks ==
  /\ Idle /\ posted # <<>> /\ posted' = Tail(posted)
  /\ handler' = IF sockets = "open" THEN [do |-> "send", what |-> Head(posted)] ELSE Free
  /\ UNCHANGED <<pub, sockets, receive, client, wire, budget, reported>>

\* ... and sends; on a socket that was closed in between the send fails.
Send ==
  /\ Doing("send") /\ handler' = Free
  /\ wire' = IF sockets = "open" THEN Append(wire, handler.what) ELSE wire
  /\ UNCHANGED <<pub, sockets, receive, posted, client, budget, reported>>

-----------------------------------------------------------------------------
(* Reports *)

\* StartRtcpReceive looks under the mutex whether there is a socket to receive from ...
StartRtcpReceive ==
  /\ Doing("start receive")
  /\ handler' = IF pub.ready THEN Do("receive") ELSE Free
  /\ UNCHANGED <<pub, sockets, receive, posted, client, wire, budget, reported>>

\* ... and receives; on a socket that was closed in between that is an error at once.
AsyncReceive ==
  /\ Doing("receive") /\ handler' = Free
  /\ receive' = [state |-> IF sockets = "open" THEN "pending" ELSE "error"]
  /\ UNCHANGED <<pub, sockets, posted, client, wire, budget, reported>>

\* A datagram: its packets, each with its version, type, the blocks it says it has, its length and
\* what the blocks are about; and how many bytes have arrived.
SizeOf(packets) == FoldLeft(LAMBDA n, p : n + p.size, 0, packets)

\* RtcpPacketCodec::ParseCompound: one bad header and nothing of the datagram counts.
ParseCompound(d) ==
  IF \A i \in DOMAIN d.packets : /\ d.packets[i].version = 2
                                 /\ SizeOf(SubSeq(d.packets, 1, i)) <= d.bytes
  THEN d.packets ELSE <<>>

HeaderSize(p) == IF p.type = "RR" THEN 8 ELSE 28

\* ReadReportBlock: whom it is from, and what it is about.
ReadReportBlock(p, i) == [reporter |-> p.reporter, about |-> p.about[i]]

\* ParseReceiverReport and ParseSenderReport: a packet too short for its blocks is left out.
ReportBlocks(p) ==
  IF p.type \in {"RR", "SR"} /\ p.size >= HeaderSize(p) + p.count * 24
  THEN [i \in 1 .. p.count |-> ReadReportBlock(p, i)]
  ELSE <<>>

BlocksOf(d) == FlattenSeq([i \in DOMAIN ParseCompound(d) |-> ReportBlocks(ParseCompound(d)[i])])

\* What has arrived about this stream; the definition of what is to be counted.
Arrived(d, r) ==
  Cardinality({i \in DOMAIN BlocksOf(d) : BlocksOf(d)[i] = [reporter |-> r, about |-> "stream"]})

DatagramArrives(d) ==
  /\ receive.state = "pending" /\ sockets = "open"
  /\ budget.datagrams > 0 /\ budget' = [budget EXCEPT !.datagrams = @ - 1]
  /\ receive' = [state |-> "done", datagram |-> d]
  /\ UNCHANGED <<pub, sockets, posted, handler, client, wire, reported>>

\* The receive fails although nobody has closed its socket.
ReceiveFails ==
  /\ receive.state = "pending" /\ receive' = [state |-> "error"]
  /\ budget.datagrams > 0 /\ budget' = [budget EXCEPT !.datagrams = @ - 1]
  /\ reported' = [reported EXCEPT !.failed = TRUE]
  /\ UNCHANGED <<pub, sockets, posted, handler, client, wire>>

\* The handler of a receive: after an error, or after Close, it is the last.
HandleReceive ==
  /\ Idle /\ receive.state \in {"done", "error"} /\ receive' = [state |-> "none"]
  /\ IF receive.state = "done" /\ pub.ready
     THEN /\ handler' = [do |-> "report", blocks |-> BlocksOf(receive.datagram)]
          /\ reported' = [reported EXCEPT !.by =
                            [r \in Reporters |-> @[r] + Arrived(receive.datagram, r)]]
     ELSE handler' = Free /\ UNCHANGED reported
  /\ UNCHANGED <<pub, sockets, posted, client, wire, budget>>

\* Defect: a block about any stream counts.
CountedAny(p, block) == [p EXCEPT !.by[block.reporter] = @ + 1, !.total = @ + 1]

\* Each block under the mutex: it counts when it is about the SSRC of the sender.
Counted(p, block) ==
  IF p.ready /\ block.about = "stream"
  THEN [p EXCEPT !.by[block.reporter] = @ + 1, !.total = @ + 1] ELSE p

ParseReportBlock ==
  /\ Doing("report") /\ handler.blocks # <<>>
  /\ pub' = Counted(pub, Head(handler.blocks))
  /\ handler' = [handler EXCEPT !.blocks = Tail(@)]
  /\ UNCHANGED <<sockets, receive, posted, client, wire, budget, reported>>

\* The end of the handler: another receive while the publisher is ready.
ReportsHandled ==
  /\ Doing("report") /\ handler.blocks = <<>>
  /\ handler' = IF pub.ready THEN Do("start receive") ELSE Free
  /\ UNCHANGED <<pub, sockets, receive, posted, client, wire, budget, reported>>

-----------------------------------------------------------------------------
\* The owner.  A receive that is pending is aborted; one that is done stays so.
Close ==
  /\ ~pub.closed
  /\ pub' = [pub EXCEPT !.closed = TRUE, !.ready = FALSE, !.group = NoGroup, !.next = 0,
                        !.packets = 0, !.by = NoReports, !.total = 0]
  /\ sockets' = IF sockets = "open" THEN "closed" ELSE sockets
  /\ receive' = IF receive.state = "pending" THEN [state |-> "error"] ELSE receive
  /\ UNCHANGED <<posted, handler, client, wire, budget, reported>>

Next ==
  \/ \E c \in Clients : \/ \E asked \in Asked, opened \in BOOLEAN : SetUp(c, asked, opened)
                        \/ Play(c) \/ Pause(c)
  \/ \E n \in 1 .. 2 : MediaTask(n)
  \/ \E due \in BOOLEAN : Publish(due)
  \/ SendChecks \/ Send
  \/ StartRtcpReceive \/ AsyncReceive \/ ReceiveFails \/ HandleReceive \/ ParseReportBlock
  \/ ReportsHandled \/ Close
  \/ \E d \in Datagrams : DatagramArrives(d)

Spec == Init /\ [][Next]_multicastVars

-----------------------------------------------------------------------------
(* Properties *)

\* However many clients join, pause and come back, there is one stream: what is on the wire is
\* numbered without a gap or a repetition, across the turn of the sequence number, and a sender
\* report counts what was sent before it; every client is told the one group, and the number
\* RTP-Info announces to it is that of the first packet built after its PLAY
\* (rtsp_multicast_publisher.cpp:44-56, 218-280, rtsp_session.cpp:684-711).
OneStreamForAll ==
  LET Numbered(n) == (FirstSequence + n) % SequenceModulus
  IN  /\ \A i \in DOMAIN SentRtp : SentRtp[i].sequence = Numbered(i - 1)
      /\ \A i \in DOMAIN wire : wire[i].kind = "report" =>
           wire[i].packets = Cardinality({j \in 1 .. i : wire[j].kind = "rtp"})
      /\ \A c, d \in Clients : client[c].told # NoGroup /\ client[d].told # NoGroup
                                 => client[c].told = client[d].told
      /\ \A c \in Clients : client[c].info # NoAnnouncement =>
           client[c].info.sequence = Numbered(client[c].info.ahead)

\* Between two datagrams the feedback is what has arrived: every block about this stream once, under
\* the receiver that sent it, those about another stream and those of a malformed datagram not at
\* all; and Close leaves nothing (rtsp_multicast_publisher.cpp:422-566).
FeedbackCounted ==
  /\ pub.ready /\ ~Doing("report") => pub.by = reported.by
  /\ pub.total = FoldLeft(LAMBDA n, r : n + pub.by[r], 0, SetToSeq(Reporters))
  /\ pub.closed => pub.total = 0

\* A publisher that is ready listens, with one receive at a time, unless a receive has failed; one
\* that is closed has no socket, and a handler that comes late opens none
\* (rtsp_multicast_publisher.cpp:353-420, 282-303).
OneReceiveAtATime ==
  LET held == Doing("start receive") \/ Doing("receive") \/ Doing("report")
  IN  /\ pub.ready => sockets = "open" /\ (held \/ receive.state # "none" \/ reported.failed)
      /\ ~(held /\ receive.state # "none")
      /\ pub.closed => sockets # "open"

GroupServed == OneStreamForAll /\ FeedbackCounted /\ OneReceiveAtATime

=============================================================================
