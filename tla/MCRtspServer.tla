----------------------------- MODULE MCRtspServer -----------------------------
(***************************************************************************)
(* Small instances: of RtspServer, of PublisherSink, which feeds such a    *)
(* server or another muxer, and of what one client meets there: the bytes  *)
(* of its connection (RtspMessages), its credentials (RtspCredentials),    *)
(* its tracks (RtspTracks) and the group it shares (RtspMulticast).  A     *)
(* behaviour is of one of them (machine): what the sink may do depends on  *)
(* a write that succeeds or fails, what the server does on the requests of *)
(* its clients, and what becomes of a request on its session only.         *)
(***************************************************************************)
EXTENDS RtspServer, RtspSamples

CONSTANTS Tracks, VideoTracks, Configured, WaitForAllTracks, WaitForKeyframe, Interleaving, MaxPending,
          MaxBuffered, MaxSpan, ReconnectAttempts, MaxGenerations, MaxPackets, Stamps, MaxFaults
CONSTANTS Streams, Chunks, MaxRequestLine, MaxHeaderLine, MaxHeaders, MaxBody
CONSTANTS Configs, Methods, Uris, BasicHeaders, DigestForms, Ttl, MaxTicks, MaxWaiting, MaxAsked, MaxOdd
CONSTANTS TrackIds, H264Tracks, Enabled, TransportHeaders, SharedGroup, Remote, SameFamily, SequenceModulus,
          MaxSetups, MaxTraffic
CONSTANTS Clients, Asked, Options, FirstSequence, Reporters, Datagrams, MaxUnits, MaxJoins, MaxDatagrams

VARIABLES
  machine,      \* which of them the behaviour is of
  encoded, node, inter, pub, work, written, overflow, faults,
  sent, arrived, buffer, dispatched, failed,
  config, nonce, made, requests, answers, challenged, judged, clock, asked,
  track, transports, playing, senders, wire, told, filed, misfiled, traffic,
  group, sockets, receive, posted, handler, member, shared, joins, reported

Sink == INSTANCE PublisherSink WITH feed <- encoded
sinkVars == <<encoded, node, inter, pub, work, written, overflow, faults>>
Reader == INSTANCE RtspMessages
readerVars == <<sent, arrived, buffer, dispatched, failed>>
Guard == INSTANCE RtspCredentials WITH session <- nonce, client <- challenged, MaxRequests <- MaxAsked
guardVars == <<config, nonce, made, requests, answers, challenged, judged, clock, asked>>
Tracked == INSTANCE RtspTracks WITH
  Tracks <- TrackIds, Headers <- TransportHeaders, Group <- SharedGroup,
  session <- playing, client <- told, budget <- traffic
trackVars == <<track, transports, playing, senders, wire, told, filed, misfiled, traffic>>
Multicast == INSTANCE RtspMulticast WITH
  pub <- group, client <- member, wire <- shared, budget <- joins, MaxSetups <- MaxJoins
groupVars == <<group, sockets, receive, posted, handler, member, shared, joins, reported>>
\* All tracks are configured, or none is and the first packet decides.
AllOrNone == {{}, Tracks}

\* Audio comes in late, early or without a stamp.
NoAudioStamp == -1
FewPackets == [video |-> 3, audio |-> 2]
FewStamps == [video |-> {1, 3}, audio |-> {NoAudioStamp, 2}]

\* A machine that stands still begins in one way.
MCInit ==
  /\ Init /\ Sink!Init /\ Reader!Init /\ Guard!Init /\ Tracked!Init /\ Multicast!Init
  /\ machine \in {"server", "sink", "reader", "guard", "tracks", "group"}
  /\ machine = "sink" \/ node.tracks = {}
  /\ machine = "reader" \/ sent = OnlyEmptyFrame
  /\ machine = "guard" \/ config = DigestConfig
MCNext ==
  \/ /\ machine = "server" /\ Next
     /\ UNCHANGED <<machine, sinkVars, readerVars, guardVars, trackVars, groupVars>>
  \/ /\ machine = "sink" /\ Sink!Next
     /\ UNCHANGED <<machine, vars, readerVars, guardVars, trackVars, groupVars>>
  \/ /\ machine = "reader" /\ Reader!Next
     /\ UNCHANGED <<machine, vars, sinkVars, guardVars, trackVars, groupVars>>
  \/ /\ machine = "guard" /\ Guard!Next
     /\ UNCHANGED <<machine, vars, sinkVars, readerVars, trackVars, groupVars>>
  \/ /\ machine = "tracks" /\ Tracked!Next
     /\ UNCHANGED <<machine, vars, sinkVars, readerVars, guardVars, groupVars>>
  \/ /\ machine = "group" /\ Multicast!Next
     /\ UNCHANGED <<machine, vars, sinkVars, readerVars, guardVars, trackVars>>
MCSpec == MCInit /\ [][MCNext]_<<machine, vars, sinkVars, readerVars, guardVars, trackVars, groupVars>>

\* The properties of the machines beside the server, stated and explained in their modules: what a
\* client receives,
StreamsWhole == Sink!SessionsWhole /\ Tracked!TracksServed /\ Multicast!GroupServed
\* and how it is understood.
RequestsUnderstood == Reader!RequestsAsSent /\ Guard!CredentialsJudged

=============================================================================
