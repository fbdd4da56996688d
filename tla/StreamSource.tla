---------------------------- MODULE StreamSource ----------------------------
(***************************************************************************)
(* The source of a media graph: StreamSourceNode of                        *)
(* src/mediaflow/media_nodes.cpp on an FFmpegPuller                        *)
(* (src/media/puller/ffmpeg_puller.cpp).                                   *)
(*                                                                         *)
(* The graph's thread calls Start, StopProduction, Stop and Deinit, in the *)
(* order in which Graph calls them.  The reading thread pulls packets,     *)
(* numbers them, stamps them with the generation of the connection, sends  *)
(* them to the mixed port and to the port of their track, and reconnects.  *)
(* The two share three atomics (stop_requested_, finished_, generation_)   *)
(* and the puller's interrupt flag, and no lock.                           *)
(*                                                                         *)
(* What the camera and the network do is a choice of the environment: any  *)
(* packet, silence for good, an end, a transient or a fatal error.  A Send *)
(* returns in the end (QueueTransport and GraphLifecycle ask when it does  *)
(* not).  Stream descriptions and payloads are left out.                   *)
(***************************************************************************)
EXTENDS Integers, Sequences, FiniteSets

CONSTANTS
  Limits,         \* values of max_reconnect_count; -1 is "no limit"
  MaxLifecycles,  \* bound: calls of Start
  MaxPackets,     \* bound: packets the camera delivers
  MaxFailures     \* bound: transient read errors and failed connection attempts

ASSUME SourceAssumption ==
  /\ Limits \subseteq Int
  /\ {MaxLifecycles, MaxPackets, MaxFailures} \subseteq Nat

Tracks == {"video", "audio"}
Ports == Tracks \cup {"out"}

VARIABLES
  stopRequested, finished, generation,  \* the atomics
  connected,    \* fmt_ctx_ is open
  interrupted,  \* interrupt_ctx_.interrupted
  limit,        \* options_.max_reconnect_count
  pc,           \* where the caller and the reading thread are
  call,         \* the call the caller is in
  cur,          \* current_generation, or Start's local generation
  count,        \* reconnect_count
  seqNo,        \* video_sequence and audio_sequence
  message,      \* what the reading thread has read and is about to send
  link,         \* history: connections opened so far; the current one
  attempts,     \* history: attempts to reconnect since the last packet sent
  sent,         \* history: the messages each port was given
  lifecycles, packets, failures  \* bounds

atomics == <<stopRequested, finished, generation>>
puller == <<connected, interrupted>>
locals == <<cur, count, seqNo, message>>
bounds == <<lifecycles, packets, failures>>
vars == <<atomics, puller, limit, pc, call, locals, link, attempts, sent, bounds>>

NoMessage == [kind |-> "none"]
Packet(t) == [kind |-> "packet", track |-> t, gen |-> cur, seq |-> seqNo[t] + 1, link |-> link]
EndOfStream == [kind |-> "eos", gen |-> cur, seq |-> 0, link |-> link]

\* The test of the read loop and of OpenGeneration.  Stop sets the flag before it raises
\* the generation, so reading the two one after the other equals reading them at once.
Stale == stopRequested \/ generation # cur

Goto(p, place) == pc' = [pc EXCEPT ![p] = place]

CallerPlaces == {"idle", "check", "dial", "dialing", "recheck", "refused", "opened",
                 "up", "bump", "ask", "drain", "join", "close", "down"}
ReaderPlaces == {"none", "test", "read", "got", "mixed", "track", "eosAudio", "eosVideo",
                 "wait", "renew", "check", "dial", "dialing", "recheck", "refused", "opened",
                 "waitAgain", "gone"}
Results == {"none", "packet", "eos", "nodata", "retry", "fatal", "stopped"}

Init ==
  /\ stopRequested = TRUE /\ finished = FALSE /\ generation = 0
  /\ connected = FALSE /\ interrupted = FALSE
  /\ limit \in Limits
  /\ pc = [caller |-> "idle", reader |-> "none"] /\ call = "none"
  /\ cur = 0 /\ count = 0 /\ seqNo = [t \in Tracks |-> 0] /\ message = NoMessage
  /\ link = 0 /\ attempts = 0 /\ sent = [p \in Ports |-> <<>>]
  /\ lifecycles = 0 /\ packets = 0 /\ failures = 0

-----------------------------------------------------------------------------
(* OpenGeneration, called by Start and by the reading thread, and the Open *)
(* and Close of the puller in it.                                          *)

OpenCheck(p) ==
  /\ pc[p] = "check"
  /\ Goto(p, IF Stale THEN "refused" ELSE "dial")
  /\ UNCHANGED <<atomics, puller, limit, call, locals, link, attempts, sent, bounds>>

\* Open closes what is open and clears the interrupt flag, also when RequestStop set it.
Dial(p) ==
  /\ pc[p] = "dial"
  /\ connected' = FALSE /\ interrupted' = FALSE
  /\ attempts' = IF p = "reader" THEN attempts + 1 ELSE attempts
  /\ Goto(p, "dialing")
  /\ UNCHANGED <<atomics, limit, call, locals, link, sent, bounds>>

DialSucceeds(p) ==
  /\ pc[p] = "dialing"
  /\ connected' = TRUE /\ link' = link + 1
  /\ Goto(p, "recheck")
  /\ UNCHANGED <<atomics, interrupted, limit, call, locals, attempts, sent, bounds>>

DialFails(p) ==
  /\ pc[p] = "dialing"
  /\ interrupted \/ failures < MaxFailures
  /\ failures' = IF interrupted THEN failures ELSE failures + 1
  /\ connected' = FALSE /\ interrupted' = TRUE
  /\ Goto(p, "refused")
  /\ UNCHANGED <<atomics, limit, call, locals, link, attempts, sent, lifecycles, packets>>

OpenRecheck(p) ==
  /\ pc[p] = "recheck"
  /\ IF Stale
     THEN connected' = FALSE /\ interrupted' = TRUE /\ Goto(p, "refused")
     ELSE UNCHANGED puller /\ Goto(p, "opened")
  /\ UNCHANGED <<atomics, limit, call, locals, link, attempts, sent, bounds>>

OpenGeneration(p) ==
  OpenCheck(p) \/ Dial(p) \/ DialSucceeds(p) \/ DialFails(p) \/ OpenRecheck(p)

-----------------------------------------------------------------------------
(* The caller.                                                             *)

\* Start refuses while a thread of an earlier Start has not been joined.
Start ==
  /\ pc.caller = "idle" /\ pc.reader = "none"
  /\ lifecycles < MaxLifecycles /\ lifecycles' = lifecycles + 1
  /\ stopRequested' = FALSE /\ finished' = FALSE
  /\ generation' = generation + 1 /\ cur' = generation + 1
  /\ call' = "Start" /\ Goto("caller", "check")
  /\ UNCHANGED <<puller, limit, count, seqNo, message, link, attempts, sent, packets, failures>>

StartFails ==
  /\ pc.caller = "refused"
  /\ stopRequested' = TRUE /\ finished' = TRUE
  /\ call' = "none" /\ Goto("caller", "down")
  /\ UNCHANGED <<generation, puller, limit, locals, link, attempts, sent, bounds>>

\* The thread begins with fresh locals.
StartThread ==
  /\ pc.caller = "opened"
  /\ pc' = [caller |-> "up", reader |-> "test"] /\ call' = "none"
  /\ count' = 0 /\ seqNo' = [t \in Tracks |-> 0] /\ message' = NoMessage /\ attempts' = 0
  /\ UNCHANGED <<atomics, puller, limit, cur, link, sent, bounds>>

\* StopProduction and Stop of a running source, Stop after the drain, and the Stop that
\* Deinit repeats, all begin with RequestProductionStop: flag, generation, interrupt.
StopBegins ==
  /\ \/ pc.caller = "up" /\ call' \in {"StopProduction", "Stop"}
     \/ pc.caller = "drain" /\ call' = "Stop"
     \/ pc.caller = "down" /\ call' = "Deinit"
  /\ stopRequested' = TRUE
  /\ Goto("caller", "bump")
  /\ UNCHANGED <<finished, generation, puller, limit, locals, link, attempts, sent, bounds>>

StopBumps ==
  /\ pc.caller = "bump"
  /\ generation' = generation + 1
  /\ Goto("caller", "ask")
  /\ UNCHANGED <<stopRequested, finished, puller, limit, call, locals, link, attempts, sent, bounds>>

\* Defect: the puller is not asked to give up a blocked read.
RequestStopForgotten ==
  /\ pc.caller = "ask"
  /\ Goto("caller", IF call = "StopProduction" THEN "drain" ELSE "join")
  /\ UNCHANGED <<atomics, puller, limit, call, locals, link, attempts, sent, bounds>>

RequestStop ==
  /\ pc.caller = "ask"
  /\ interrupted' = TRUE
  /\ Goto("caller", IF call = "StopProduction" THEN "drain" ELSE "join")
  /\ UNCHANGED <<atomics, connected, limit, call, locals, link, attempts, sent, bounds>>

\* Defect: the puller is closed and the source reported stopped beside the reading thread.
JoinReaderForgotten ==
  /\ pc.caller = "join"
  /\ Goto("caller", "close")
  /\ UNCHANGED <<atomics, puller, limit, call, locals, link, attempts, sent, bounds>>

JoinReader ==
  /\ pc.caller = "join" /\ pc.reader \in {"none", "gone"}
  /\ pc' = [caller |-> "close", reader |-> "none"]
  /\ UNCHANGED <<atomics, puller, limit, call, locals, link, attempts, sent, bounds>>

StopEnds ==
  /\ pc.caller = "close"
  /\ connected' = FALSE /\ interrupted' = TRUE /\ finished' = TRUE
  /\ Goto("caller", IF call = "Deinit" THEN "idle" ELSE "down") /\ call' = "none"
  /\ UNCHANGED <<stopRequested, generation, limit, locals, link, attempts, sent, bounds>>

-----------------------------------------------------------------------------
(* The reading thread.                                                     *)

Finish == finished' = TRUE /\ Goto("reader", "gone") /\ UNCHANGED <<stopRequested, generation>>
Forget == message' = NoMessage  \* result and message are locals of one round
Proceed(place) == Goto("reader", place) /\ UNCHANGED atomics

LoopTest ==
  /\ pc.reader = "test"
  /\ IF Stale THEN Finish ELSE Proceed("read")
  /\ UNCHANGED <<puller, limit, call, locals, link, attempts, sent, bounds>>

\* ReadPacketResult: the results that need nobody's help.  A closed puller answers Stopped.
ReadStopped ==
  /\ pc.reader = "read" /\ (~connected \/ interrupted)
  /\ message' = [kind |-> "stopped"]
  /\ Proceed("got")
  /\ UNCHANGED <<puller, limit, call, cur, count, seqNo, link, attempts, sent, bounds>>

\* ReadPacketResult: what the camera and the network may answer.  After an interrupt an
\* error is reported as Stopped; a packet that has arrived is still delivered.
ReadAnswered ==
  /\ pc.reader = "read" /\ connected
  /\ \/ /\ packets < MaxPackets /\ packets' = packets + 1
        /\ \E t \in Tracks : message' = Packet(t)
        /\ UNCHANGED failures
     \/ /\ message' \in {[kind |-> "nodata"], EndOfStream, [kind |-> "fatal"]}
        /\ UNCHANGED <<packets, failures>>
     \/ /\ ~interrupted /\ failures < MaxFailures /\ failures' = failures + 1
        /\ message' = [kind |-> "retry"]
        /\ UNCHANGED packets
  /\ Proceed("got")
  /\ UNCHANGED <<puller, limit, call, cur, count, seqNo, link, attempts, sent, lifecycles>>

\* max_reconnect_count is reached.
BudgetSpent == limit >= 0 /\ count >= limit

\* The second test, and the cases of the switch that do not send.
GotStale ==
  /\ pc.reader = "got" /\ Stale
  /\ Finish
  /\ Forget
  /\ UNCHANGED <<puller, limit, call, cur, count, seqNo, link, attempts, sent, bounds>>

GotNothing ==
  /\ pc.reader = "got" /\ ~Stale /\ message.kind = "nodata"
  /\ Proceed("test")
  /\ Forget
  /\ UNCHANGED <<puller, limit, call, cur, count, seqNo, link, attempts, sent, bounds>>

GotEnd ==
  /\ pc.reader = "got" /\ ~Stale /\ message.kind \in {"fatal", "stopped"}
  /\ Finish
  /\ Forget
  /\ UNCHANGED <<puller, limit, call, cur, count, seqNo, link, attempts, sent, bounds>>

GotRetry ==
  /\ pc.reader = "got" /\ ~Stale /\ message.kind = "retry"
  /\ IF BudgetSpent
     THEN Finish /\ UNCHANGED <<puller, count>>
     ELSE Proceed("wait") /\ connected' = FALSE /\ interrupted' = TRUE /\ count' = count + 1
  /\ Forget
  /\ UNCHANGED <<limit, call, cur, seqNo, link, attempts, sent, bounds>>

\* The packet gets its number; EmitTrackPacket begins with the mixed port.
GotMessage ==
  /\ pc.reader = "got" /\ ~Stale /\ message.kind \in {"packet", "eos"}
  /\ seqNo' = IF message.kind = "eos" THEN seqNo ELSE [seqNo EXCEPT ![message.track] = message.seq]
  /\ Proceed("mixed")
  /\ UNCHANGED <<puller, limit, call, cur, count, message, link, attempts, sent, bounds>>

Send(port) == sent' = [sent EXCEPT ![port] = Append(@, message)]

EmitMixed ==
  /\ pc.reader = "mixed"
  /\ Send("out")
  /\ Proceed(IF message.kind = "eos" THEN "eosAudio" ELSE "track")
  /\ UNCHANGED <<puller, limit, call, locals, link, attempts, bounds>>

\* A packet that went out ends the series of failures.
EmitTrack ==
  /\ pc.reader = "track"
  /\ Send(message.track)
  /\ count' = 0 /\ attempts' = 0
  /\ Proceed("test") /\ Forget
  /\ UNCHANGED <<puller, limit, call, cur, seqNo, link, bounds>>

EmitAudioEnd ==
  /\ pc.reader = "eosAudio"
  /\ Send("audio")
  /\ Proceed("eosVideo")
  /\ UNCHANGED <<puller, limit, call, locals, link, attempts, bounds>>

EmitVideoEnd ==
  /\ pc.reader = "eosVideo"
  /\ Send("video")
  /\ Finish /\ Forget
  /\ UNCHANGED <<puller, limit, call, cur, count, seqNo, link, attempts, bounds>>

\* Both waits before a reconnect: a stop ends the thread, and finished_ stays as it is.
WaitOver(place, next) ==
  /\ pc.reader = place
  /\ Proceed(IF stopRequested THEN "gone" ELSE next)
  /\ UNCHANGED <<puller, limit, call, locals, link, attempts, sent, bounds>>

\* Defect: the numbers go on across a reconnect.
RenewKeepsNumbers ==
  /\ pc.reader = "renew"
  /\ generation' = generation + 1 /\ cur' = generation + 1
  /\ Goto("reader", "check")
  /\ UNCHANGED <<stopRequested, finished, puller, limit, call, count, seqNo, message, link, attempts, sent, bounds>>

\* The next connection gets a generation of its own, and numbers that start anew.
Renew ==
  /\ pc.reader = "renew"
  /\ generation' = generation + 1 /\ cur' = generation + 1
  /\ seqNo' = [t \in Tracks |-> 0]
  /\ Goto("reader", "check")
  /\ UNCHANGED <<stopRequested, finished, puller, limit, call, count, message, link, attempts, sent, bounds>>

Reopened ==
  /\ pc.reader = "opened"
  /\ Proceed("test")
  /\ UNCHANGED <<puller, limit, call, locals, link, attempts, sent, bounds>>

\* After a second wait the loop continues with a read, not with another Open.
ReopenFails ==
  /\ pc.reader = "refused"
  /\ IF BudgetSpent THEN Finish ELSE Proceed("waitAgain")
  /\ UNCHANGED <<puller, limit, call, locals, link, attempts, sent, bounds>>

-----------------------------------------------------------------------------
CallerStops == StopBegins \/ StopBumps \/ RequestStop \/ JoinReader \/ StopEnds
CallerStep == Start \/ StartFails \/ StartThread \/ CallerStops \/ OpenGeneration("caller")

GotStep == GotStale \/ GotNothing \/ GotEnd \/ GotRetry \/ GotMessage
EmitStep == EmitMixed \/ EmitTrack \/ EmitAudioEnd \/ EmitVideoEnd
ReaderWaits == WaitOver("wait", "renew") \/ WaitOver("waitAgain", "test")
ReaderStep ==
  \/ LoopTest \/ ReadStopped \/ GotStep \/ EmitStep
  \/ ReaderWaits \/ Renew \/ OpenGeneration("reader") \/ Reopened \/ ReopenFails

Next == CallerStep \/ ReaderStep \/ ReadAnswered

Spec == Init /\ [][Next]_vars

(* Both threads run.  The caller need not start or stop anything, but goes *)
(* on with a call it is in, and a drain ends with its deadline.  Connecting*)
(* ends, in success or failure (connect_timeout_ms_); a read need not be   *)
(* answered, for read_timeout_ms_ may be 0.                                *)
Fairness ==
  /\ WF_vars(CallerStep /\ pc.caller \notin {"idle", "up"})
  /\ WF_vars(ReaderStep)

FairSpec == Spec /\ Fairness

-----------------------------------------------------------------------------
(* Properties.                                                             *)

Messages ==
  [kind : {"eos"}, gen : Nat, seq : {0}, link : Nat]
    \cup [kind : {"packet"}, track : Tracks, gen : Nat, seq : 1 .. MaxPackets, link : Nat]

\* The types of the variables; a series of failures is never longer than the limit.
TypeOK ==
  /\ {stopRequested, finished, connected, interrupted} \subseteq BOOLEAN
  /\ {generation, cur, count, link, attempts, lifecycles, packets, failures} \subseteq Nat
  /\ limit \in Limits /\ (limit >= 0 => count <= limit)
  /\ pc.caller \in CallerPlaces /\ pc.reader \in ReaderPlaces
  /\ call \in {"none", "Start", "StopProduction", "Stop", "Deinit"}
  /\ seqNo \in [Tracks -> 0 .. MaxPackets]
  /\ message.kind \in Results
  /\ sent \in [Ports -> Seq(Messages)]

Stamps == UNION {{<<sent[p][i].gen, sent[p][i].link>> : i \in DOMAIN sent[p]} : p \in Ports}

\* What downstream nodes take a generation for: messages carry the same generation
\* exactly when they come from the same connection, through reconnects, stops that race
\* with reconnects, and restarts.
GenerationIsConnection ==
  \A a, b \in Stamps : a[1] = b[1] <=> a[2] = b[2]

\* What DecoderNode takes a sequence number for: on the port of a track the numbers of a
\* generation run from 1 without a gap, generations ascend, and an end of stream is the
\* last message of its generation.
NumberedByTrack ==
  \A t \in Tracks : \A i \in DOMAIN sent[t] :
    LET m == sent[t][i]
        fresh == i = 1 \/ sent[t][i - 1].gen < m.gen
    IN  /\ fresh \/ (sent[t][i - 1].gen = m.gen /\ sent[t][i - 1].kind = "packet")
        /\ m.kind = "packet" => m.seq = IF fresh THEN 1 ELSE sent[t][i - 1].seq + 1

\* How many of the first n messages of the mixed port concern track t.
Concerns(m, t) == m.kind = "eos" \/ m.track = t
Rank(s, t, n) == Cardinality({i \in 1 .. n : Concerns(s[i], t)})

\* s holds the messages of the mixed stream that concern track t, all of them and in order.
TrackOf(mixed, s, t) ==
  /\ Len(s) = Rank(mixed, t, Len(mixed))
  /\ \A i \in DOMAIN mixed : Concerns(mixed[i], t) => s[Rank(mixed, t, i)] = mixed[i]

\* A graph wired to the mixed port and one wired to the track ports see the same stream,
\* end of stream included, whenever the reading thread is between two messages.
PortsAgree ==
  pc.reader \notin {"track", "eosAudio", "eosVideo"} =>
    \A t \in Tracks : TrackOf(sent["out"], sent[t], t)

\* What the messages say of where they come from is true.
MessagesTellTheirSource == TypeOK /\ GenerationIsConnection /\ NumberedByTrack /\ PortsAgree

\* The drain of GracefulStop relies on IsProductionStopped: a source that reports itself
\* finished sends nothing until it is started again.
NothingAfterFinished == [][sent' # sent => ~finished]_vars

\* A stop gets the reading thread out of whatever it is in and comes back, although the
\* camera may be silent for good and a reconnect clears the interrupt flag under way.
StopReturns == pc.caller \in {"bump", "ask", "drain", "join", "close"} ~> pc.caller = "idle"

\* A source that nobody stopped gives up for want of a connection only when all attempts
\* are used up.
AttemptsUsedUp ==
  (pc.reader = "gone" /\ ~stopRequested /\ ~connected) => BudgetSpent

=============================================================================
