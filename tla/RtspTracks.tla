------------------------------ MODULE RtspTracks ------------------------------
(***************************************************************************)
(* The tracks of one RTSP session (src/media/protocol/rtsp): what a SETUP  *)
(* asks for and is answered (rtsp_transport_spec.cpp), the transport it    *)
(* makes (rtsp_media_transport.cpp), the media that goes out on it and the *)
(* reports that come back (rtsp_session.cpp).                              *)
(*                                                                         *)
(* Everything is a handler of the io thread and a step; what lies between  *)
(* a datagram that has been received and the handler that is told of it    *)
(* may be any of the others.                                               *)
(*                                                                         *)
(* A Transport header is its alternatives, each its protocol, flags and    *)
(* parameters; addresses are numbers, 0 for none, SSRCs and the server's   *)
(* ports are counted, a report block is the SSRC it is about.              *)
(***************************************************************************)
EXTENDS Integers, FiniteSets, SequencesExt

CONSTANTS
  Tracks,            \* track ids, in their order in SDP
  H264Tracks,        \* those a multicast group can carry
  Enabled,           \* enable_tcp_interleaved, enable_udp, enable_multicast
  Headers,           \* Transport headers clients send
  Group,             \* what the multicast publisher has, see Single
  Remote,            \* the address of the client
  SameFamily,        \* addresses of the family of that address
  SequenceModulus,   \* 2^16 of the code, smaller here
  MaxSetups,
  MaxTraffic         \* bounds: SETUPs; packets sent and reports received

VARIABLES
  track,       \* track_states_
  transports,  \* the media transports made so far
  session,     \* playing_ and closed_
  senders,     \* how many RtpSenders have been made; the last one's SSRC
  wire,        \* what has left for the client
  client,      \* per track, what the client was answered, and RTP-Info told it
  filed,       \* history: per track, what the blocks handled since its SETUP were about
  misfiled,    \* history: a report came to another track than the one it was sent for
  budget

trackVars == <<track, transports, session, senders, wire, client, filed, misfiled, budget>>

-----------------------------------------------------------------------------
(* Transport headers *)

Word16 == 65535
Byte == 255
IsPair(v) == Len(v) = 2 /\ v[1] \in 0 .. Word16 /\ v[2] \in 0 .. Word16

\* A parameter that may be left out: one value, or none when it is malformed.
Pair(a, key, default) ==
  IF key \notin DOMAIN a.params THEN {default} ELSE {v \in {a.params[key]} : IsPair(v)}
NeededPair(a, key) == IF key \in DOMAIN a.params THEN Pair(a, key, <<0, 0>>) ELSE {}
Number8(a, key) ==
  IF key \notin DOMAIN a.params THEN {0}
  ELSE {v[1] : v \in {w \in {a.params[key]} : Len(w) = 1 /\ w[1] \in 0 .. Byte}}
Address(a, key) == IF key \in DOMAIN a.params THEN a.params[key][1] ELSE 0

\* ParseSingleTransport: what an alternative says, or nothing.
Single(a) ==
  LET multicast == "multicast" \in a.flags /\ "unicast" \notin a.flags
      spec(mode, channels, ports, server, ttl) ==
        [mode |-> mode, channels |-> channels, client |-> ports, server |-> server, ttl |-> ttl,
         destination |-> Address(a, "destination"), source |-> Address(a, "source")]
      udp == a.protocol \in {"rtp/avp", "rtp/avp/udp"}
  IN  IF a.protocol = "rtp/avp/tcp"
      THEN {spec("tcp", c, <<0, 0>>, <<0, 0>>, 0) : c \in Pair(a, "interleaved", <<0, 1>>)}
      ELSE IF udp /\ multicast
      THEN UNION {{spec("multicast", <<0, 1>>, <<0, 0>>, s, n) :
                     s \in Pair(a, "server_port", p), n \in Number8(a, "ttl")} :
                   p \in Pair(a, "port", <<0, 0>>)}
      ELSE IF udp
      THEN {spec("unicast", <<0, 1>>, c, s, 0) :
              c \in NeededPair(a, "client_port"), s \in Pair(a, "server_port", <<0, 0>>)}
      ELSE {}

\* RtspTransportSpec::Parse: the first alternative that can be read.
Parse(header) ==
  LET readable == {i \in DOMAIN header : Single(header[i]) # {}}
  IN  IF readable = {} THEN {} ELSE Single(header[Min(readable)])

\* A parameter that is written only when there is something to say.
Said(key, value, said) == IF said THEN key :> value ELSE <<>>

\* RtspTransportSpec::ToSetupResponseHeader.
Response(s) ==
  LET header(protocol, flag, params) == [protocol |-> protocol, flags |-> {flag}, params |-> params]
      source == Said("source", <<s.source>>, s.source # 0)
  IN  CASE s.mode = "tcp" -> header("rtp/avp/tcp", "unicast", "interleaved" :> s.channels)
        [] s.mode = "unicast" ->
             header("rtp/avp", "unicast",
                    ("client_port" :> s.client) @@ Said("server_port", s.server, s.server # <<0, 0>>) @@ source)
        [] OTHER ->
             header("rtp/avp", "multicast",
                    Said("destination", <<s.destination>>, s.destination # 0)
                      @@ Said("port", s.server, s.server # <<0, 0>>) @@ source
                      @@ Said("ttl", <<s.ttl>>, s.ttl # 0))

-----------------------------------------------------------------------------
(* Track states and transports *)

NoTrack ==
  [ready |-> FALSE, mode |-> "unknown", channels |-> <<-1, -1>>, transport |-> 0, ssrc |-> 0, next |-> 0,
   sent |-> 0, has |-> FALSE, last |-> 0, received |-> 0]

NotTold == [told |-> FALSE]
NoNumber == -1

Init ==
  /\ track = [t \in Tracks |-> NoTrack] /\ transports = <<>>
  /\ session = [playing |-> FALSE, closed |-> FALSE]
  /\ senders = 0 /\ wire = <<>>
  /\ client = [t \in Tracks |-> [answer |-> NotTold, announced |-> NoNumber]]
  /\ filed = [t \in Tracks |-> <<>>] /\ misfiled = FALSE
  /\ budget = [setups |-> MaxSetups, traffic |-> MaxTraffic]

\* CloseOnExecutor: the pending receive is cancelled, one that is done is still handled.
Cancelled(receive) == IF receive.state = "pending" THEN [state |-> "none"] ELSE receive
Closed(x) == [x EXCEPT !.open = FALSE, !.receive = Cancelled(@)]
CloseTransport(xs, i) == IF i = 0 THEN xs ELSE [xs EXCEPT ![i] = Closed(@)]

\* Defect: a new SETUP of a track keeps what was reported on the stream before.
PrepareTrackStateKeeps(s) ==
  [s EXCEPT !.ready = FALSE, !.transport = 0, !.ssrc = senders + 1,
            !.next = senders % SequenceModulus, !.sent = 0]

\* A new sender, whose first number may be any.
PrepareTrackState(s) ==
  [NoTrack EXCEPT !.ssrc = senders + 1, !.next = senders % SequenceModulus]

FinishTrackSetup(s, spec, i) ==
  [s EXCEPT !.mode = spec.mode, !.channels = spec.channels, !.transport = i, !.ready = TRUE]

Destination(spec) == IF spec.destination = 0 THEN Remote ELSE spec.destination

\* Two ports of the server that nobody else has.
ServerPorts == <<2 * Len(transports) + 100, 2 * Len(transports) + 101>>
Local == 9

\* RtspMediaTransportFactory::Create: the spec the transport has, or nothing.
Create(spec, resources) ==
  IF spec.mode = "tcp"
  THEN {s \in {spec} : s.channels[1] <= Byte /\ s.channels[2] <= Byte /\ resources}
  ELSE {[s EXCEPT !.server = ServerPorts, !.source = Local] :
          s \in {r \in {spec} : r.client[1] # 0 /\ r.client[2] # 0
                                /\ Destination(r) \in SameFamily /\ resources}}

Transport(t, spec) ==
  [track |-> t, spec |-> spec, open |-> TRUE,
   receive |-> [state |-> IF spec.mode = "unicast" THEN "pending" ELSE "none"]]

-----------------------------------------------------------------------------
(* Requests *)

AsksFor == budget.setups > 0 /\ ~session.closed /\ budget' = [budget EXCEPT !.setups = @ - 1]

\* What the client makes of an answer to its request; it knows the destination it asked for.
Answered(asked, spec) ==
  LET read == CHOOSE s \in Single(Response(spec)) : TRUE
  IN  [told |-> TRUE,
       spec |-> IF read.mode = "unicast" THEN [read EXCEPT !.destination = asked.destination] ELSE read]

MayHave(t, spec) ==
  /\ spec.mode = "tcp" => "tcp" \in Enabled
  /\ spec.mode # "tcp" => "udp" \in Enabled
  /\ spec.mode = "multicast" => "multicast" \in Enabled /\ t \in H264Tracks

\* Unsupported before the track is touched: it goes on as it was.
SetUpRefused(t, header) ==
  /\ AsksFor /\ \A s \in Parse(header) : ~MayHave(t, s)
  /\ UNCHANGED <<track, transports, session, senders, wire, client, filed, misfiled>>

\* PrepareTrackState; then the transport, or the group, is there, or the track is left without.
SetUp(t, header, resources) ==
  /\ AsksFor /\ senders' = senders + 1 /\ filed' = [filed EXCEPT ![t] = <<>>]
  /\ \E asked \in {s \in Parse(header) : MayHave(t, s)} :
       LET shared == asked.mode = "multicast"
           specs == IF ~shared THEN Create(asked, resources) ELSE IF resources THEN {Group} ELSE {}
           s == PrepareTrackState(track[t])
           kept == CloseTransport(transports, track[t].transport)
           i == IF shared THEN 0 ELSE Len(transports) + 1
       IN  \/ /\ specs = {}
              /\ track' = [track EXCEPT ![t] = s] /\ transports' = kept /\ UNCHANGED session
              /\ client' = [client EXCEPT ![t] = [answer |-> NotTold, announced |-> NoNumber]]
           \/ \E spec \in specs :
                /\ track' = [track EXCEPT ![t] = FinishTrackSetup(s, spec, i)]
                /\ transports' = IF shared THEN kept ELSE Append(kept, Transport(t, spec))
                /\ session' = [session EXCEPT !.playing = FALSE]
                /\ client' = [client EXCEPT ![t] = [answer |-> Answered(asked, spec),
                                                    announced |-> NoNumber]]
  /\ UNCHANGED <<wire, misfiled>>

HasReadyTrack == \E t \in Tracks : track[t].ready

\* The next number of each track that has a sender of its own; the group has one for all.
BuildRtpInfo == [t \in {u \in Tracks : track[u].ready /\ track[u].mode # "multicast"} |-> track[t].next]

Play ==
  /\ ~session.closed /\ HasReadyTrack
  /\ session' = [session EXCEPT !.playing = TRUE]
  /\ client' = [t \in Tracks |-> IF t \in DOMAIN BuildRtpInfo
                                 THEN [client[t] EXCEPT !.announced = BuildRtpInfo[t]] ELSE client[t]]
  /\ UNCHANGED <<track, transports, senders, wire, filed, misfiled, budget>>

Pause ==
  /\ session.playing /\ session' = [session EXCEPT !.playing = FALSE]
  /\ UNCHANGED <<track, transports, senders, wire, client, filed, misfiled, budget>>

\* TEARDOWN, or the end of the connection or of the server.
Close ==
  /\ ~session.closed /\ session' = [playing |-> FALSE, closed |-> TRUE]
  /\ transports' = [i \in DOMAIN transports |->
                      IF \E t \in Tracks : track[t].transport = i THEN Closed(transports[i]) ELSE transports[i]]
  /\ track' = [t \in Tracks |-> [track[t] EXCEPT !.transport = 0]]
  /\ UNCHANGED <<senders, wire, client, filed, misfiled, budget>>

-----------------------------------------------------------------------------
(* Media *)

\* Where RTP (1) and RTCP (2) of a spec go: to a channel of the connection, or in a datagram.
TcpWay(spec, k) == <<0, spec.channels[k]>>
UdpWay(spec, k) == <<Destination(spec), spec.client[k]>>
Way(spec, k) == IF spec.mode = "tcp" THEN TcpWay(spec, k) ELSE UdpWay(spec, k)

Traffic == budget.traffic > 0 /\ budget' = [budget EXCEPT !.traffic = @ - 1]

ToldWay(t, k) == IF client[t].answer.told THEN Way(client[t].answer.spec, k) ELSE <<>>

\* RtpSender::BuildRtpPacket
RtpPacket(t) ==
  [kind |-> "rtp", ssrc |-> track[t].ssrc, number |-> track[t].next, announced |-> client[t].announced,
   to |-> Way(transports[track[t].transport].spec, 1), told |-> ToldWay(t, 1)]

\* After a packet; ShouldSendSenderReport says yes the first time, then when the interval is over.
MaybeSendRtcpSenderReport(t, due) ==
  IF due \/ track[t].sent = 0
  THEN <<[kind |-> "report", ssrc |-> track[t].ssrc, number |-> track[t].sent + 1,
          to |-> Way(transports[track[t].transport].spec, 2), told |-> ToldWay(t, 2)]>>
  ELSE <<>>

SendRtpPayload(t, due) ==
  /\ Traffic /\ session.playing /\ track[t].ready /\ track[t].transport # 0
  /\ track' = [track EXCEPT ![t].next = (@ + 1) % SequenceModulus, ![t].sent = @ + 1]
  /\ wire' = wire \o <<RtpPacket(t)>> \o MaybeSendRtcpSenderReport(t, due)
  /\ client' = [client EXCEPT ![t].announced = NoNumber]
  /\ UNCHANGED <<transports, session, senders, filed, misfiled>>

-----------------------------------------------------------------------------
(* Reports *)

\* One block: it counts when it is about the stream of the track, or is the first of the track.
ParseReportBlock(s, about) ==
  IF s.ssrc = about \/ ~s.has
  THEN [s EXCEPT !.has = TRUE, !.last = about, !.received = @ + 1] ELSE s

HandleRtcpPacket(t, blocks) ==
  /\ track' = [track EXCEPT ![t] = FoldLeft(ParseReportBlock, @, blocks)]
  /\ filed' = [filed EXCEPT ![t] = @ \o blocks]

\* Defect: the mode of a track is not looked at.
FindByRtcpChannelAnyMode(c) == {t \in Tracks : track[t].ready /\ track[t].channels[2] = c}

\* FindTrackStateByRtcpChannel, of which the first counts.
FindByRtcpChannel(c) ==
  {t \in Tracks : track[t].ready /\ track[t].mode = "tcp" /\ track[t].channels[2] = c}

\* The tracks a client may mean that sends a report on this channel.
Meant(c) == {t \in Tracks : client[t].answer.told /\ client[t].answer.spec.mode = "tcp"
                            /\ client[t].answer.spec.channels[2] = c}

Blocks == {<<n>> : n \in 0 .. senders} \cup {<<0, n>> : n \in 1 .. senders}

HandleInterleavedFrame(c, blocks) ==
  /\ Traffic /\ ~session.closed
  /\ LET found == FindByRtcpChannel(c)
     IN  /\ IF found = {} THEN UNCHANGED <<track, filed>> ELSE HandleRtcpPacket(Min(found), blocks)
         /\ misfiled' = (misfiled \/ \E t \in Tracks : Meant(c) = {t} /\ (found = {} \/ Min(found) # t))
  /\ UNCHANGED <<transports, session, senders, wire, client>>

\* A datagram comes to the RTCP port of a transport, from the port the client named or from another.
DatagramArrives(i, expected, blocks) ==
  /\ Traffic /\ transports[i].receive.state = "pending"
  /\ transports' = [transports EXCEPT ![i].receive =
                      [state |-> "done", expected |-> expected, blocks |-> blocks]]
  /\ UNCHANGED <<track, session, senders, wire, client, filed, misfiled>>

\* A receive that fails is the last.
ReceiveFails(i) ==
  /\ Traffic /\ transports[i].receive.state = "pending"
  /\ transports' = [transports EXCEPT ![i].receive = [state |-> "failed"]]
  /\ UNCHANGED <<track, session, senders, wire, client, filed, misfiled>>

\* on_rtcp: the track of a transport is the one that has its id by now.
OnRtcp(x) == HandleRtcpPacket(x.track, x.receive.blocks)

\* The handler of a receive; what comes from another port than the client's is ignored.
HandleReceive(i) ==
  LET x == transports[i]
  IN  /\ x.receive.state = "done"
      /\ IF x.receive.expected THEN OnRtcp(x) ELSE UNCHANGED <<track, filed>>
      /\ transports' = [transports EXCEPT ![i].receive = [state |-> IF x.open THEN "pending" ELSE "none"]]
      /\ UNCHANGED <<session, senders, wire, client, misfiled, budget>>

Next ==
  \/ \E t \in Tracks :
       \/ \E header \in Headers : \/ SetUpRefused(t, header)
                                  \/ \E resources \in BOOLEAN : SetUp(t, header, resources)
       \/ \E due \in BOOLEAN : SendRtpPayload(t, due)
  \/ Play \/ Pause \/ Close
  \/ \E blocks \in Blocks :
       \/ \E c \in {1, 3} : HandleInterleavedFrame(c, blocks)
       \/ \E i \in DOMAIN transports : DatagramArrives(i, TRUE, blocks)
  \/ \E i \in DOMAIN transports : DatagramArrives(i, FALSE, <<senders>>) \/ ReceiveFails(i) \/ HandleReceive(i)

Spec == Init /\ [][Next]_trackVars

-----------------------------------------------------------------------------
(* Properties *)

\* What leaves for the client goes where the answer to its SETUP, as the client reads it, said that
\* it would; the packets of a sender are numbered without a gap, the first one after a PLAY as
\* RTP-Info announced, and a report counts those before it (rtsp_transport_spec.cpp:246-290,
\* rtsp_media_transport.cpp:112-177, rtsp_session.cpp:340-362, 684-730).
MediaWhereAnswered ==
  LET Rtp(n, i) == {j \in 1 .. i : wire[j].kind = "rtp" /\ wire[j].ssrc = n}
  IN  \A i \in DOMAIN wire :
        LET w == wire[i] IN
        /\ w.to = w.told
        /\ w.kind = "report" => w.number = Cardinality(Rtp(w.ssrc, i))
        /\ w.kind = "rtp" =>
             /\ w.announced \in {NoNumber, w.number}
             /\ w.number = (w.ssrc - 1 + Cardinality(Rtp(w.ssrc, i)) - 1) % SequenceModulus

\* The feedback of a track is that of its present stream: every block about it, and at most one
\* about another, when that came first - a late one of the stream before the last SETUP, say; and a
\* report reaches the track on whose channel it came, when no other track has that channel
\* (rtsp_session.cpp:615-627, 820-873, rtsp_media_transport.cpp:229-256).
FeedbackOfStream ==
  /\ ~misfiled
  /\ \A t \in Tracks :
       LET own == {i \in DOMAIN filed[t] : filed[t][i] = track[t].ssrc}
           other == filed[t] # <<>> /\ 1 \notin own
       IN  /\ track[t].received = Cardinality(own) + (IF other THEN 1 ELSE 0)
           /\ own # {} => track[t].last = track[t].ssrc

\* A transport is open for as long as a track has it, and listens unless a receive has failed
\* (rtsp_session.cpp:639-651, 965-1000, rtsp_media_transport.cpp:104-112, 217-226).
TransportsOwned ==
  /\ \A i \in DOMAIN transports :
       LET x == transports[i] IN
       /\ x.open <=> \E t \in Tracks : track[t].transport = i
       /\ x.receive.state = "pending" => x.open
       /\ x.open /\ x.spec.mode = "unicast" => x.receive.state # "none"
  /\ session.closed => \A i \in DOMAIN transports : ~transports[i].open

TracksServed == MediaWhereAnswered /\ FeedbackOfStream /\ TransportsOwned

=============================================================================
