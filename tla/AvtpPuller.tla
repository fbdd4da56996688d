----------------------------- MODULE AvtpPuller -----------------------------
(***************************************************************************)
(* An AVTP talker on the network, the capture thread of EthernetCapture    *)
(* with its bounded queue, and AvtpPuller, which turns packets into access *)
(* units with a time stamp: media/puller/avtp_puller.cpp,                  *)
(* media/puller/ethernet_capture.cpp and media/protocol/avtp.              *)
(*                                                                         *)
(* A reading thread opens the puller, probes for the codec, reads, and     *)
(* opens again after an error; its owner may stop it at any moment, in the *)
(* order of StreamSourceNode: RequestStop, join, Close.  (The first Open,  *)
(* which Start makes in the caller's thread, is the reading thread's too.) *)
(* Locked sections and atomic variables are one step each; a wait on       *)
(* queue_cv_ is a guard, since whoever makes its predicate true notifies   *)
(* with or after the lock.                                                 *)
(*                                                                         *)
(* A packet is what the parser makes of it: a part of a video unit or a    *)
(* packet of audio.  Microseconds and nanoseconds are one unit of time,    *)
(* and a time stamp wraps at StampModulus.                                 *)
(*                                                                         *)
(* A definition marked "Defect" is a variant of the one after it, with a   *)
(* mistake that one of the properties is there to rule out.                *)
(***************************************************************************)
EXTENDS Integers, Sequences, SequencesExt, FiniteSets

CONSTANTS
  Configs,          \* [read : {"timeout", "block"}, format : {"auto", "given"}]
  QueueSize,        \* pcap_queue_size
  ProbeLimit,       \* probe_packet_limit
  MaxParts,         \* parts that fit in max_access_unit_size_
  SequenceModulus,  \* sequence_num has 8 bits
  StampModulus,     \* avtp_timestamp has 32
  Threshold,        \* discontinuity_threshold_us
  Sizes,            \* how many parts a unit may have
  Gaps,             \* how much later than the last one a unit may be captured
  Lags,             \* how long before its capture it may have been stamped
  Spreads,          \* how much later its next part may be captured
  Jumps,            \* how far the talker's clock may move when it restarts
  Hints,            \* whether the talker's format_subtype names its codec: a subset of BOOLEAN
  Sure,             \* whether a stamp may be marked as uncertain: {TRUE} or BOOLEAN
  MaxPackets, MaxAudio, MaxRestarts, MaxOpens   \* bounds

\* A probe whose reads have no limit may last for good, whatever its own time.  And a run of as many
\* lost packets as the sequence number has values is beyond the code: the talker sends fewer.
ASSUME AvtpAssumption ==
  /\ Configs \subseteq [read : {"timeout", "block"}, format : {"auto", "given"}]
  /\ \A c \in Configs : c.format = "auto" => c.read = "timeout"
  /\ QueueSize \in Nat \ {0} /\ ProbeLimit \in Nat \ {0} /\ MaxParts \in Nat \ {0}
  /\ MaxPackets \in 0 .. SequenceModulus
  /\ StampModulus \in Nat \ {0} /\ Threshold \in Nat
  /\ Sizes \subseteq Nat \ {0}
  /\ Gaps \subseteq Nat /\ Lags \subseteq Nat /\ Spreads \subseteq Nat /\ Jumps \subseteq Int
  /\ Sure \subseteq BOOLEAN /\ Hints \subseteq BOOLEAN

\* The network and the capture delay a packet by less than the mapper takes for a jump, and that is
\* less than half a round of the time stamp (0.5 s against 2.1 s).
ASSUME JitterAssumption ==
  /\ \A lag \in Lags, spread \in Spreads, size \in Sizes : lag + (size - 1) * spread <= Threshold
  /\ 2 * Threshold < StampModulus

Kinds == {"video", "audio"}
Nothing == <<>>

VARIABLES
  config,     \* Config: how ReadPacket waits, and whether Open probes
  clock,      \* the capture clock
  talker,     \* the talker: unit, part and size under way, its clock, its restarts
  capture,    \* capture_: whether it exists and its thread runs, stopped_, running_, a dead device
  queue,      \* packet_queue_
  reader,     \* the reading thread: place, opens, packets inspected by the probe
  known,      \* current_codec_ is not UNKNOWN
  assembler,  \* has_stream_, expected_sequence_, dropping_until_marker_, current_ and its stamp
  mapper,     \* initialized_, the anchor, media_clock_restart_bits_
  pending,    \* pending_packets_
  out,        \* history: the packets ReadPacketResult returned
  owner       \* the thread that starts and stops: place, and that a stop was asked for

network == <<clock, talker>>
codec == <<known, assembler, mapper>>
vars == <<config, clock, talker, capture, queue, reader, known, assembler, mapper, pending, out,
          owner>>

EmptyAssembler ==
  [stream |-> FALSE, expected |-> 0, dropping |-> FALSE, current |-> <<>>, first |-> Nothing,
   fresh |-> FALSE]
EmptyMapper ==
  [ready |-> FALSE, avtp |-> 0, captured |-> 0, bit |-> [k \in Kinds |-> 0], anchors |-> 0]
NoCapture == [state |-> "none", stopped |-> FALSE, running |-> FALSE, dead |-> FALSE]

Init ==
  /\ config \in Configs
  /\ clock = 0
  \* With the format given nobody reads the hint.
  /\ \E hints \in IF config.format = "given" THEN {FALSE} ELSE Hints :
       talker = [unit |-> 0, part |-> 0, size |-> 0, stamp |-> 0, sure |-> TRUE, packets |-> 0,
                 audio |-> 0, skew |-> 0, bit |-> 1, epoch |-> 0, hints |-> hints]
  /\ capture = NoCapture /\ queue = <<>>
  /\ reader = [at |-> "ended", opens |-> 0, inspected |-> 0]
  /\ known = FALSE /\ assembler = EmptyAssembler /\ mapper = EmptyMapper
  /\ pending = <<>> /\ out = <<>>
  /\ owner = [at |-> "away", asked |-> FALSE]

-----------------------------------------------------------------------------
(* The talker and the capture thread                                       *)

\* EthernetCapture::handlePacket: a full queue loses its oldest packet.
HandlePacket(p) ==
  queue' = Append(IF Len(queue) >= QueueSize THEN Tail(queue) ELSE queue, p)

Listening == capture.state = "on" /\ capture.running

\* On its way to the capture thread a packet may be lost; while nobody captures the talker is not
\* looked at.
Transmit(p) ==
  /\ Listening
  /\ HandlePacket(p) \/ UNCHANGED queue

TransmitPart(unit, part, size, stamp, sure) ==
  /\ Transmit([kind |-> "video", unit |-> unit, part |-> part, size |-> size,
               sequence |-> (SequenceModulus - 2 + talker.packets) % SequenceModulus,
               stamp |-> stamp, sure |-> sure, bit |-> talker.bit, captured |-> clock',
               epoch |-> talker.epoch, hint |-> talker.hints])
  /\ talker' = [talker EXCEPT !.unit = unit, !.part = part, !.size = size, !.stamp = stamp,
                              !.sure = sure, !.packets = @ + 1]

\* The first part of a unit; all its parts carry the stamp of the moment it was sampled.
SendFirst ==
  /\ talker.part = talker.size /\ talker.packets < MaxPackets
  /\ \E gap \in Gaps, lag \in Lags, size \in Sizes, sure \in Sure :
       /\ clock' = clock + gap
       /\ TransmitPart(talker.unit + 1, 1, size, clock + gap - lag + talker.skew, sure)
  /\ UNCHANGED <<config, capture, reader, codec, pending, out, owner>>

SendNext ==
  /\ talker.part < talker.size /\ talker.packets < MaxPackets
  /\ \E spread \in Spreads :
       /\ clock' = clock + spread
       /\ TransmitPart(talker.unit, talker.part + 1, talker.size, talker.stamp, talker.sure)
  /\ UNCHANGED <<config, capture, reader, codec, pending, out, owner>>

\* A packet of audio is a unit of its own.
SendAudio ==
  /\ talker.audio < MaxAudio
  /\ \E lag \in Lags :
       Transmit([kind |-> "audio", unit |-> talker.audio + 1, part |-> 1, size |-> 1, sequence |-> 0,
                 stamp |-> clock - lag + talker.skew, sure |-> TRUE, bit |-> talker.bit,
                 captured |-> clock, epoch |-> talker.epoch, hint |-> FALSE])
  /\ talker' = [talker EXCEPT !.audio = @ + 1]
  /\ UNCHANGED <<config, clock, capture, reader, codec, pending, out, owner>>

\* The talker's media clock restarts: its time jumps and it toggles the bit in all it sends.
TalkerRestarts ==
  /\ talker.epoch < MaxRestarts /\ talker.part = talker.size
  /\ \E jump \in Jumps :
       talker' = [talker EXCEPT !.skew = @ + jump, !.bit = 3 - @, !.epoch = @ + 1]
  /\ UNCHANGED <<config, clock, capture, queue, reader, codec, pending, out, owner>>

\* captureLoop ends after running_ was cleared, or, still running_, because the device failed.
CaptureEnds ==
  /\ capture.state = "on" /\ ~capture.running
  /\ capture' = [capture EXCEPT !.state = "off", !.stopped = TRUE]
  /\ UNCHANGED <<config, network, queue, reader, codec, pending, out, owner>>

\* Defect: the loop ends without a word.
CaptureFailsSilently ==
  /\ Listening
  /\ capture' = [capture EXCEPT !.state = "off", !.dead = TRUE]
  /\ UNCHANGED <<config, network, queue, reader, codec, pending, out, owner>>

CaptureFails ==
  /\ Listening
  /\ capture' = [capture EXCEPT !.state = "off", !.stopped = TRUE, !.dead = TRUE]
  /\ UNCHANGED <<config, network, queue, reader, codec, pending, out, owner>>

-----------------------------------------------------------------------------
(* Time stamps: AvtpTimestampMapper::Map                                   *)

Distance(a, b) == IF a >= b THEN a - b ELSE b - a

\* Defect: the cycle of the prediction is taken for that of the stamp.
SameCycle(stamp, predicted) == (predicted \div StampModulus) * StampModulus + stamp

\* ExpandNearest: of the cycles around the prediction the one that comes nearest.
Nearest(stamp, predicted) ==
  LET candidate == (predicted \div StampModulus) * StampModulus + stamp
      previous == candidate - StampModulus
      next == candidate + StampModulus
      D(x) == Distance(x, predicted)
  IN  CASE D(previous) < D(candidate) -> previous
        [] D(next) < D(candidate) -> next
        [] OTHER -> candidate

\* The media time of a packet and the mapper after it.  An uncertain stamp leaves it alone; the first
\* one, a toggled restart bit and a jump beyond the threshold set the anchor.
Map(p) ==
  LET stamp == p.stamp % StampModulus
      restarts == mapper.bit[p.kind] \notin {0, p.bit}
      noted == [mapper EXCEPT !.bit[p.kind] = p.bit]
      mapped == mapper.captured - mapper.avtp
                  + Nearest(stamp, mapper.avtp + p.captured - mapper.captured)
  IN  CASE ~p.sure -> [time |-> p.captured, mapper |-> mapper]
        [] p.sure /\ mapper.ready /\ ~restarts /\ Distance(mapped, p.captured) <= Threshold ->
             [time |-> mapped, mapper |-> noted]
        [] OTHER ->
             [time |-> p.captured,
              mapper |-> [noted EXCEPT !.ready = TRUE, !.avtp = stamp, !.captured = p.captured,
                                       !.anchors = @ + 1]]

-----------------------------------------------------------------------------
(* Access units: AvtpH264Assembler::Push and AvtpPayloadAssembler::Push    *)

\* A unit as it is returned, with what history remembers of it: the connection, the error of its
\* time against the talker's, and whether it is the first of its stream.
Unit(p, parts, time, fresh) ==
  [kind |-> p.kind, unit |-> p.unit, parts |-> parts, size |-> p.size, sure |-> p.sure,
   epoch |-> p.epoch, conn |-> reader.opens, late |-> time - p.stamp, fresh |-> fresh]

Drop(a, p) ==
  [unit |-> Nothing,
   assembler |-> [a EXCEPT !.current = <<>>, !.first = Nothing, !.fresh = FALSE,
                           !.dropping = p.part < p.size]]

\* The part is added to the unit, which the marker of its last part completes.
AddPart(a, p, time) ==
  LET current == Append(a.current, p.part)
      first == IF a.current = <<>> THEN [time |-> time, packet |-> p] ELSE a.first
  IN  CASE Len(current) > MaxParts -> Drop(a, p)
        [] Len(current) <= MaxParts /\ p.part < p.size ->
             [unit |-> Nothing, assembler |-> [a EXCEPT !.current = current, !.first = first]]
        [] OTHER ->
             [unit |-> Unit(first.packet, current, first.time, a.fresh),
              assembler |-> [a EXCEPT !.current = <<>>, !.first = Nothing, !.fresh = FALSE]]

\* MakeAudioMediaPacket: a packet of audio is complete.
AudioUnit(p, time) == Unit(p, <<1>>, time, FALSE)

\* Defect: after a lost part the unit goes on with what has arrived.
PushThroughGap(p, time) ==
  LET a == [assembler EXCEPT !.expected = (p.sequence + 1) % SequenceModulus]
  IN  CASE ~a.stream -> AddPart([a EXCEPT !.stream = TRUE, !.fresh = TRUE], p, time)
        [] OTHER -> AddPart(a, p, time)

\* A first packet of a stream starts wherever it is in its unit; a gap drops the unit and what is
\* left of it.
Push(p, time) ==
  LET a == [assembler EXCEPT !.expected = (p.sequence + 1) % SequenceModulus]
  IN  CASE ~a.stream ->
             AddPart([a EXCEPT !.stream = TRUE, !.fresh = TRUE], p, time)
        [] a.stream /\ p.sequence # assembler.expected -> Drop(a, p)
        [] a.stream /\ p.sequence = assembler.expected /\ a.dropping ->
             [unit |-> Nothing, assembler |-> [a EXCEPT !.dropping = p.part < p.size]]
        [] OTHER -> AddPart(a, p, time)

\* SelectCodec: a unit begins with a start code; the rest is recognised by the codec that is known of
\* its stream, the one stream there is, or by what its header says of the format.  (A talker whose
\* header names another codec than it sends is left out.)
Recognised(p) == config.format = "given" \/ p.part = 1 \/ known \/ p.hint

\* ProcessRawPacketData: what the packet completes, and the state it leaves.
Process(p) ==
  LET m == Map(p)
      r == Push(p, m.time)
  IN  CASE p.kind = "audio" ->
             [unit |-> AudioUnit(p, m.time),
              known |-> known, assembler |-> assembler, mapper |-> m.mapper]
        [] p.kind = "video" /\ ~Recognised(p) ->
             [unit |-> Nothing, known |-> known, assembler |-> assembler, mapper |-> mapper]
        [] OTHER ->
             [unit |-> r.unit, known |-> TRUE, assembler |-> r.assembler, mapper |-> m.mapper]

-----------------------------------------------------------------------------
(* The reading thread: AvtpPuller in the hands of StreamSourceNode         *)

At(place) == reader.at = place
Goes(place) == reader' = [reader EXCEPT !.at = place]
Exists == capture.state # "none"

\* RequestStop of the capture; the thread ends with its next round.
Asked == IF Exists THEN [capture EXCEPT !.stopped = TRUE, !.running = FALSE] ELSE capture

\* AvtpPuller::Close begins: the capture is asked to stop ...
Closes(from, to) ==
  /\ At(from) /\ Goes(to)
  /\ capture' = Asked
  /\ UNCHANGED <<config, network, queue, codec, pending, out, owner>>

\* ... and joined.
Joined == capture.state # "on"

OpenCloses == Closes("open", "clear")

\* Open clears all that the last connection left and makes a new capture.
Clear ==
  /\ At("clear") /\ Joined
  /\ capture' = [NoCapture EXCEPT !.state = "created"]
  /\ queue' = <<>> /\ pending' = <<>>
  /\ known' = FALSE /\ assembler' = EmptyAssembler /\ mapper' = EmptyMapper
  /\ Goes("start")
  /\ UNCHANGED <<config, network, out, owner>>

\* The loop of StreamSourceNode looks for a stop before and after every call.
Onward == IF owner.asked THEN "ended" ELSE "read"

\* EthernetCapture::Open starts the thread: a RequestStop since Clear is forgotten.
CaptureStarts ==
  /\ At("start")
  /\ capture' = [capture EXCEPT !.state = "on", !.stopped = FALSE, !.running = TRUE]
  /\ reader' = [reader EXCEPT !.at = IF config.format = "auto" THEN "probe" ELSE Onward,
                              !.opens = @ + 1, !.inspected = 0]
  /\ UNCHANGED <<config, network, queue, codec, pending, out, owner>>

\* A first Open that fails is the end; a later one is followed by a read.
AfterFailedOpen(opens) == IF opens = 1 THEN "ended" ELSE Onward

\* The device, the library or the filter says no.
CaptureRefuses ==
  /\ At("start")
  /\ capture' = NoCapture
  /\ reader' = [reader EXCEPT !.at = AfterFailedOpen(reader.opens + 1), !.opens = @ + 1]
  /\ UNCHANGED <<config, network, queue, codec, pending, out, owner>>

\* A packet leaves the queue and is processed; Taken.unit is what it completes, for the caller.
Taken == Process(Head(queue))

TakePacket ==
  /\ Exists /\ queue # <<>>
  /\ queue' = Tail(queue)
  /\ known' = Taken.known /\ assembler' = Taken.assembler /\ mapper' = Taken.mapper

\* EthernetCapture::ReadPacket comes back empty-handed: at once, after its time, or, if it waits
\* without a limit, with an error once the capture has stopped.
TakeNothing == Exists /\ queue = <<>> /\ config.read # "block"
TakeError == Exists /\ queue = <<>> /\ config.read = "block" /\ capture.stopped

Probing == At("probe") /\ reader.inspected < ProbeLimit /\ ~known
Inspected == reader' = [reader EXCEPT !.inspected = @ + 1]

\* ProbeCodec keeps the units it meets.
ProbeTakes ==
  /\ Probing /\ Inspected
  /\ TakePacket
  /\ pending' = IF Taken.unit = Nothing THEN pending ELSE Append(pending, Taken.unit)
  /\ UNCHANGED <<config, network, capture, out, owner>>

ProbeWaits ==
  /\ Probing /\ Inspected /\ TakeNothing
  /\ UNCHANGED <<config, network, capture, queue, codec, pending, out, owner>>

\* It ends with the first packet of a known codec, at its limit or when its time is up.
ProbeEnds ==
  /\ At("probe")
  /\ Goes(IF known THEN Onward ELSE "giveUp")
  /\ UNCHANGED <<config, network, capture, queue, codec, pending, out, owner>>

GiveUp == Closes("giveUp", "givenUp")

GivenUp ==
  /\ At("givenUp") /\ Joined
  /\ capture' = NoCapture /\ queue' = <<>> /\ pending' = <<>>
  /\ Goes(AfterFailedOpen(reader.opens))
  /\ UNCHANGED <<config, network, codec, out, owner>>

\* A unit that comes back after a stop was asked for goes no further.
Emit(u) == out' = IF u = Nothing \/ owner.asked THEN out ELSE Append(out, u)

\* ReadPacketResult: what the probe has kept comes first.
ReadPending ==
  /\ At("read") /\ pending # <<>>
  /\ Emit(Head(pending)) /\ pending' = Tail(pending)
  /\ Goes(Onward)
  /\ UNCHANGED <<config, network, capture, queue, codec, owner>>

ReadTakes ==
  /\ At("read") /\ pending = <<>> /\ Goes(Onward)
  /\ TakePacket /\ Emit(Taken.unit)
  /\ UNCHANGED <<config, network, capture, pending, owner>>

ReadNothing ==
  /\ At("read") /\ pending = <<>> /\ TakeNothing /\ Goes(Onward)
  /\ UNCHANGED <<config, network, capture, queue, codec, pending, out, owner>>

\* An error is followed by another Open, a closed puller by the end.
ReadFails ==
  /\ At("read") /\ pending = <<>>
  /\ \/ TakeError /\ Goes(IF owner.asked \/ reader.opens = MaxOpens THEN "ended" ELSE "open")
     \/ ~Exists /\ Goes("ended")
  /\ UNCHANGED <<config, network, capture, queue, codec, pending, out, owner>>

-----------------------------------------------------------------------------
(* The owner                                                               *)

OwnerAt(place) == owner.at = place

Start ==
  /\ OwnerAt("away") /\ reader.opens < MaxOpens
  /\ owner' = [at |-> "runs", asked |-> FALSE] /\ Goes("open")
  /\ UNCHANGED <<config, network, capture, queue, codec, pending, out>>

StopBegins ==
  /\ OwnerAt("runs")
  /\ owner' = [at |-> "interrupt", asked |-> TRUE]
  /\ UNCHANGED <<config, network, capture, queue, reader, codec, pending, out>>

\* AvtpPuller::RequestStop, on whatever capture there is at the moment.
Interrupt ==
  /\ OwnerAt("interrupt")
  /\ owner' = [owner EXCEPT !.at = "join"]
  /\ capture' = Asked
  /\ UNCHANGED <<config, network, queue, reader, codec, pending, out>>

\* Stop joins the reading thread and closes the puller ...
JoinReader ==
  /\ OwnerAt("join") /\ At("ended")
  /\ owner' = [owner EXCEPT !.at = "close"]
  /\ capture' = Asked
  /\ UNCHANGED <<config, network, queue, reader, codec, pending, out>>

\* ... with the capture thread.
StopEnds ==
  /\ OwnerAt("close") /\ Joined
  /\ owner' = [owner EXCEPT !.at = "away"]
  /\ capture' = NoCapture /\ queue' = <<>> /\ pending' = <<>>
  /\ UNCHANGED <<config, network, reader, codec, out>>

-----------------------------------------------------------------------------
Network == SendFirst \/ SendNext \/ SendAudio \/ TalkerRestarts \/ CaptureFails

OpenStep ==
  OpenCloses \/ Clear \/ CaptureStarts \/ CaptureRefuses
    \/ ProbeTakes \/ ProbeWaits \/ ProbeEnds \/ GiveUp \/ GivenUp

ReadStep == ReadPending \/ ReadTakes \/ ReadNothing \/ ReadFails

StopStep == Interrupt \/ JoinReader \/ StopEnds

Next == Network \/ CaptureEnds \/ OpenStep \/ ReadStep \/ Start \/ StopBegins \/ StopStep

Spec == Init /\ [][Next]_vars

-----------------------------------------------------------------------------
(* Properties                                                              *)

\* Types, and the limits of the queue and of a unit.
TypeOK ==
  /\ config \in Configs /\ clock \in Nat
  /\ capture.state \in {"none", "created", "on", "off"}
  /\ Len(queue) <= QueueSize
  /\ reader.at \in {"open", "clear", "start", "probe", "giveUp", "givenUp", "read", "ended"}
  /\ reader.opens \in 0 .. MaxOpens /\ reader.inspected \in 0 .. ProbeLimit
  /\ known \in BOOLEAN /\ Len(assembler.current) <= MaxParts
  /\ assembler.expected \in 0 .. SequenceModulus - 1
  /\ mapper.avtp \in 0 .. StampModulus - 1
  /\ owner.at \in {"away", "runs", "interrupt", "join", "close"} /\ owner.asked \in BOOLEAN

\* Whatever is lost on the wire, in the queue, to the probe or between two connections, a unit of
\* video is returned with all its parts and in turn.  Only the first one after Open may lack its
\* beginning, if the capture began in the middle of it and its codec was configured or named in the
\* header; without either the puller waits for the beginning of a unit (avtp_puller.cpp:907-939).
WholeUnits ==
  /\ TypeOK
  /\ \A i \in DOMAIN out :
       LET u == out[i]
           missing == u.size - Len(u.parts)
       IN  /\ u.parts = [k \in 1 .. u.size - missing |-> missing + k]
           /\ missing # 0 => u.fresh /\ (config.format = "given" \/ talker.hints)
           /\ \A j \in 1 .. i - 1 : out[j].kind = u.kind => out[j].unit < u.unit

\* Sound and picture keep the talker's time over the wraps of its stamps: as long as its clock has not
\* restarted, every sure stamp of a connection is moved by the same amount.
\* (avtp_timestamp_mapper.cpp:59-78, 111-139)
SenderTimeKept ==
  \A i, j \in DOMAIN out :
    /\ out[i].sure /\ out[j].sure /\ out[i].conn = out[j].conn
    /\ out[i].epoch = 0 /\ out[j].epoch = 0
    => out[i].late = out[j].late

\* A reader that waits without a limit will be woken: somebody captures, or it has been told, by a stop
\* that met Open as well as by a device that failed.  A reader with a limit is never told, and reads
\* on from a dead device (ethernet_capture.cpp:382-384, 504-508; media_nodes.cpp:278-286).
Waits == At("read") /\ config.read = "block" /\ pending = <<>> /\ queue = <<>> /\ Exists
ReaderIsWoken ==
  Waits /\ ~capture.stopped => Listening /\ ~OwnerAt("join")

=============================================================================
