# A TLA+ development of video-pipeline

video-pipeline is a C++20 media pipeline for Windows: it pulls audio and video from RTSP, files or
AVTP over Ethernet, decodes, converts, analyses, renders, encodes and publishes them, and serves
them over its own RTSP server. Everything moves through `mediaflow`, a dataflow graph of nodes
joined by typed, bounded edges that run on thread pools. The repository's own design documents are
`docs/media-flow-design.md` and `docs/inference-module-design.md`.

This directory models the parts of that program whose correctness depends on the order in which
threads, handlers and messages meet, and the computations around them that a unit test reaches only
in examples. It holds the models, the TLC configurations that check them on small instances, and
the proofs that TLAPS checks for every instance.

Contents: [the system](#1-the-system), [the modules](#2-the-modules),
[what each run checks](#3-the-runs), [bounds](#4-bounds), [fairness](#5-fairness),
[what is proved](#6-what-is-proved), [where code and documents disagree](#7-where-code-and-documents-disagree),
[what is left out](#8-what-is-left-out), [the plan](#9-plan).


## 1. The system

### The dataflow core, `include/mediaflow/core`

| part | state | operations |
|---|---|---|
| `QueueTransport` (transport.h) | the deque of messages with its cost (items, bytes, a time span per generation and track window), `closed_`, the watermark latch, the epoch of interrupts | `Send`, `TryReceive`, `Open`, `Close`, `InterruptBlockedSenders` |
| `Edge` (graph.h) | the transport, `scheduled_` (a drain is posted), `drain_cancelled_` | `Send`, `Schedule`, `Drain`, `Open`, `Close` |
| `NodeContext` (graph.h) | the dispatch queue, `dispatch_active_` (a pump is posted), `dispatch_closed_`, `pending_tasks_` | `Dispatch`, `RunSerializedOne`, `RunTask`, `OpenDispatch`, `CloseDispatch` |
| `AsioExecutor` (executor.h) | the posted handlers, `accepting_`, `running_`, its threads | `Start`, `Stop`, `Post` |
| `Graph` (graph.h) | `state_`, the nodes in order of registration, the edges | `Start` with `Rollback`, `Stop`, `GracefulStop` |

A producer's `Send` puts a message in the transport and sees to it that one `Drain` is posted on
the destination's executor. `Drain` moves a batch from the transport to `NodeContext::Dispatch`,
which for a Serialized node queues the task and keeps one pump going, and for a Concurrent node
posts one handler per task. The graph opens and closes all of this in phases.

Hard here: a Block edge makes producers wait on a condition variable that four other operations
signal after they have left the mutex; the latch and the pump are hand-overs without a lock; the
handlers posted on an io_context outlive a stop; and a stop has to take apart, in some order,
threads that wait for each other. Correct means: budgets hold, control messages survive, nothing
accepted is stranded, a Serialized node is never entered twice, every start can be undone and
every stop returns and leaves nothing behind.

### The media nodes, `src/mediaflow/media_nodes.cpp`

`StreamSourceNode` reads packets in a thread of its own, numbers them per track and stamps them
with a *generation* that every reconnect raises. `TrackRouterNode` splits tracks, `DecoderNode`
turns packets into frames and falls back to waiting for a keyframe after a gap, a failure or a new
generation, `EncoderNode` encodes them again and reopens for each generation, and
`PublisherSinkNode` waits until it knows every track, starts a publisher at a keyframe, interleaves
tracks by DTS (`DtsInterleaver`, media_timing.cpp) and ends when all tracks have ended. Correct
means: no frame reaches a decoder before the keyframe it depends on, nothing of an old generation
passes into a new one, and the tail of a stream is written before its end. What the codecs are
handed has to be right as well: planes of odd pictures, sound cut into the codec's frames, stamps
through three time bases.

### Sessions and pullers, `src/media/stream`, `src/media/puller`

`MediaStreamSession` drives a puller from handlers on an io_context with several threads: the read
loop, the reconnect timer, a watchdog and the decoder timer, all guarded by a generation number and
a flag. `AdaptiveJitterBuffer` reorders packets between a producer and a consumer. `FFmpegPuller`
interrupts a blocking read by a flag; `AvtpPuller` reads what the thread of `EthernetCapture` has put
in a bounded queue, reassembles access units from packets with an 8-bit sequence number, and maps
the talker's wrapping 32-bit clock to the capture clock. Correct means: after `Stop` no callback and
no connection is left, as long as attempts are left a lost connection is tried again, units are whole
and sound and picture keep the talker's time.

### Publishing, `src/media/publisher`, `src/media/protocol`

`DefaultPublisher` drives an adapter and a protocol, either an FFmpeg muxer or `RtspServerProtocol`.
The server has a thread of its own for its sockets; `Write` posts media to it, `Stop` closes the
sessions behind a barrier. `RtspClientSession` is the RTSP state machine of one client on top of
`RtspConnection`, which has a bounded queue of outgoing buffers. It asks for credentials, makes a media
transport of its own per track (a channel of the connection, or two UDP sockets) or lets the client join the
one multicast stream of `RtspMulticastPublisher`, and keeps what receivers report. Correct means: nothing is
sent after a stop, a client's buffers stay within their bound and in order, every session is closed, media
goes where the answer to SETUP said, and a right password is let in.

### Rendering and inference

`RenderSession` has a video and an audio worker over two bounded queues and puts both tracks on one
time axis. `AudioPcmQueue` accounts for what the sound device has played; `UnifiedClock` follows that
account and the scheduler shows, delays or drops pictures by it. `OpenVinoCpuEngine` takes inference
requests from a pool under one condition variable, runs them on a runtime with threads of its own, and
is loaded and released by an owner meanwhile. Correct means: no frame is lost or overtaken but those
the configuration sheds, pictures follow the sound, calls return, an answer belongs to its input.

`PROJECT.json` lists every part with its sources, and the hazards of the code line by line.


## 2. The modules

```
Mailbox  <--implements--  QueueTransport  <--EXTENDS--  QueueTransportProofs, MCQueueTransport
                               ^
                               | (a queue with room, as far as the edge sees it)
                          EdgeDispatch          EdgeDispatchProofs, MCEdgeDispatch
                               ^
                               | (an edge: full or not, drained or not)
                          GraphLifecycle        GraphLifecycleProofs, MCGraphLifecycle
                               ^
                               | (a thread that produces until it is asked to stop)
 StreamSession            StreamSource          AvtpPuller
   with the jitter buffer      |  StreamSourceProofs  capture, reassembly, clock
   StreamSessionProofs         |
                               | (messages of numbered generations over Mailbox edges)
                          MediaChain       ---   EncoderInput, FramePlanes (its data)
                               |
                          PublisherSink
                               | (what a muxer is given)
                          RtspServer            RtspServerProofs
                               | (one session of it: its bytes, its credentials, its tracks; the shared stream)
             RtspMessages, RtspCredentials, RtspTracks, RtspMulticast     MCRtspServer has all, with the sink

 RenderSession   ---  PlaybackTiming (its time)         MCRenderSession has both; RenderSessionProofs
 InferEngine     ---  Detections, FramePlanes (its data) MCInferEngine has both; InferEngineProofs
```

An MC module checks two or more machines in one run by a sum: a variable chosen in the initial state says
which of them moves. Functions on data are checked the same way: a `sample` variable holds the
input that is tried, and the machine stands still.

**Mailbox** is what a user of a transport may rely on: a FIFO of items, some of them control
boundaries, in which plain items may be shed and boundaries may not, and which takes nothing while
it is closed. It has no budgets, no threads and no policy.

**QueueTransport** is `QueueTransport<T>` with its callers. One action is one critical section of
`mutex_`, and `lock` names the thread that holds it across several steps. A thread that has left
the lock but not yet called `notify_all` is in state `"notify"`: the code notifies after unlocking,
and everything that can go wrong with wake-ups goes wrong there. A sleeping sender is in
`"wait"` (asleep) or `"awake"` (notified, not yet back in the mutex), and may wake without reason.
`WaitCheck` is the predicate of the wait with what follows it, `SendOpen` and `EvictOne`
are the policies, `LimitReason` the three budgets in the order of `FitsLocked`, `WindowOf` the time
windows. The payload is a record of kind, weight, time stamp, duration and generation.

**EdgeDispatch** is an `Edge` with its destination's `NodeContext` and `AsioExecutor`. Each action
is one step that other threads can see: an atomic operation, a critical section of
`dispatch_mutex_`, or a post. Producers, workers, and the graph's thread interleave freely. The
transport is a bounded queue here, since its inside is the subject of the module before. `mode` is
the node's execution mode and never changes. `pending` is `pending_tasks_` with the
wrap-around of an unsigned integer. A message's fate is tracked by `lost`, `handled` and the like,
which no action reads.

**GraphLifecycle** is `Graph::Start`, `Rollback`, `Stop` and `GracefulStop` phase by phase for any
graph, each caller having a program counter, with the threads that a stop must not hang on: each
worker of each executor and each source's reading thread may be blocked on a full edge, and can go
on only when somebody drains or closes it. An executor may be shared with another pipeline.

**StreamSource** is `StreamSourceNode` on an `FFmpegPuller`: the graph's thread in `Start`,
`StopProduction`, `Stop` and `Deinit`, and the reading thread in `ReadLoop`, each with a program
counter, step by step over the three atomics and the puller's interrupt flag they share without a
lock. What a read or a connection attempt returns is a choice of the environment, silence for good
among them. `link`, `attempts` and `sent` are history: which connection a message came from, how often
the source tried since the last packet, and what each of its three ports was given.

**MediaChain** is the three nodes in the middle on edges that keep the promise of `Mailbox`. Both
codecs hold back what they are given; `DecoderReceive` to `DecoderEnd` and `EncoderReceive` to `EncoderEnd`
follow `Process` of each node, and the critical sections of `state_mutex_` are separate steps where the
graph's thread can come between. `batch` is the local vector of packets an encoder call has collected.
`Look` is one read of `WaitForQuiescence`: the pending tasks of decoder and encoder, then their two edges; the
five waits of a graceful stop come before the flush of the source, the router, the decoder and the encoder
and after the last. The flush of a node runs in the graph's thread beside the worker (`tail` is its local
vector). History: `wait.passed` says that a message has gone from an edge the look had yet to read to
a node it had read, `early` that the graph has flushed a node, or reported success, while something was under
way. The message a worker takes and the message it works on are one step apart, so a message in the dispatch
queue of its node is still on the edge in the model; the edge between source and router is left out.

**EncoderInput** and **FramePlanes** are the data of that chain: the bytes of a packed picture and the
addresses that decoder, converter, preprocessor and encoder compute for them (a byte *is* the sample
it holds, so a wrong address shows as a wrong sample), the FIFO that cuts sound, and the stamps.

**PublisherSink** is one call of `Process` at a time, since `state_mutex_` is held throughout; what the
call still has to do is the sequence `work`, and one action is one iteration of a loop of the code, each
with an outcome of its own. Underneath are `DefaultPublisher` and `FFmpegMuxProtocol` with their
attempts. `written` is history: what the muxer took, and in which session.

**RtspServer** has the io thread, which runs one handler at a time as a sequence of steps (`io`), the
thread that writes media, and the owner. `Request` is the dispatcher of `RtspClientSession` with its
methods as operators of their own; `SendTo`, `WriteDone` and `CloseConnection` are the write queue.

**RtspMessages** is the parser of requests and the read loop of a connection over symbols: a byte is a symbol, and
a word in which letters make no difference is one. `Parse` follows `RtspRequestParser::Parse`; where the code
writes a loop the model has a recursion over the rest of the buffer. RtspSamples has what clients send, with its meaning.

**RtspCredentials** is what stands before every method: `AuthenticateRequest` with `DecodeBase64` on digits,
`ParseDigestParameters` on symbols, and the nonce with its age and its count of uses. The client answers its
challenges in every way a client may write them, and pipelines.

**RtspTracks** follows a SETUP through the Transport header (`Parse`), `PrepareTrackState`, the transport that is
made or is not, and the answer (`Response`), which the client reads with the same `Single`. `SendRtpPayload` remembers
where a packet went beside where the client was told it would. A receive of an UDP socket has a state of its own, since
a datagram that has arrived is handled although the track has been set up anew or the session has closed meanwhile.

**RtspMulticast** has the io thread, whose handlers check a socket and then use it without `mutex_`, and `Close`, which
the owner may call in between. A report block is the stream it is about and who sends it.

**StreamSession** gives every thread the sequence of steps it still has to take: two workers of the
io_context, starters and stoppers. A handler that has passed `isGenerationActive` acts on what was true then.
One assumption on the caller is made and named in the module: `BetweenCalls`, a `Start` begins when the calls
before it have returned. A `Stop` may come at any moment of a `Start`, also between its look at the generation
and `running_` (130-148).

**AvtpPuller** has the talker, a wire that loses, the capture thread with its bounded queue, the reading
thread in `Open`, the probe, `ReadPacket` and the assembler, and the owner. Whether a unit is what the
talker sent is known because parts carry their unit's identity, which no action reads.

**RenderSession** takes a critical section of `mutex_` as one step and leaves the verdict of the clock
open. **PlaybackTiming** is the other half: device, device thread, `AudioPcmQueue` with its timeline,
`UnifiedClock`, the audio worker's gate and the video worker with its normaliser and the scheduler's
verdict. A unit of time is a frame of the device. A clock reading is three readings, of the padding, the
queue and the timeline, one after the other as in the code.

**InferEngine** has callers, the runtime and the owner over `engine`, whose fields are plain members: a
read or a write of one is a step. A load carries its pool and its compiled model, so that an answer can
be traced. **Detections** is the way from the output tensor back to objects, as functions.

How names correspond: actions and operators carry the name of the C++ function where there is one
(`Send`, `TryReceive`, `CloseDispatch`, `InterruptBlockedSenders`), or of the step of it
(`DrainCheck`, `DrainReceive`, `DrainUnlatch`, `DrainRecheck` are the lines of `Edge::Drain` in
order). `PROJECT.json`, under `map`, gives the lines of each. Definitions whose comment begins
with *Defect* are deliberately wrong variants: each property is known to fail when the code it is
about is replaced by one of them.


## 3. The runs

| run | asks |
|---|---|
| `Queue` | a mailbox under each of its four policies, two senders, a receiver, an owner that opens, closes and interrupts: `NoLostWakeup` (no sender sleeps on a true predicate unless a `notify_all` is still due), `WaitersReleased` (interrupt and close get waiting senders out of `Send`), `BudgetRespected`, `BacklogDescribed` (bytes, latch and time windows tell what is queued, and a closed queue is empty), `RankRespected` (no eviction takes a boundary, and a keyframe gives way to a boundary alone), `ImplementsMailbox`, and that no state is a deadlock |
| `Edge` | a producer, two workers, both execution modes, a full dispatch queue, a stop at any moment: `WorkIsSeen` (a message in the transport has somebody who will come for it; the counter is the tasks there are, less those left over by the lifecycle before), `InTurn` (one pump, one task at a time, in order), `NothingStranded` (under fair threads what is accepted is worked off, or the pipeline is stopped) |
| `Lifecycle` | two starts and stops of two sources, an encoder and a publisher on three pools, any phase of which may fail: `PhasesAgree` (no source without its graph, no work without Init, nothing left behind, the shared pool untouched), `StopReturns` |
| `Source` | a source with one or any number of reconnects, started twice: `MessagesTellTheirSource` (same generation exactly when same connection, numbers of a track without a gap, an end of stream last, mixed and track ports alike), `NothingAfterFinished` (what the drain of a graceful stop relies on), `StopReturns` |
| `Chain` | router, decoder and encoder with lost packets, a failing codec, a reconnect, an end of stream and a stop of either kind: `KeyframeThenRun` (a decoder is given a keyframe and an unbroken run of one connection), `OutputInOrderAndWhole` (what leaves is in order; the look of a graceful stop is wrong only about a message that passes it; and a graceful stop that reports success, and did not act on a wrong look, has left nothing anywhere), `EndArrives`; and on samples `PixelsInPlace`, `SamplesKept`, `TimesKept` |
| `Session` | two threads of the io_context, a starter and a stopper, attempts with a limit and without: `ConnectionTended` (one read loop without the watchdog, somebody to empty the jitter buffer in the first start, nothing open after Stop), `Delivery` (order, directly and through the jitter buffer), `NoDeadAir` (a running session without a connection gets one, tries again or stops running, unless a retry or a start of an older generation is past its gate: section 7) |
| `Rtsp` | two connections of one client, a media thread and an owner that starts twice: `RegistryAgrees` (places are given back once, Stop closes what it found), `MediaAsAnswered` (media only between the answers to PLAY and PAUSE, after them in the stream), `MediaOfLifecycle`; `StreamsWhole`, which is of the sink before it `SessionsWhole` (in order, of one generation, from a keyframe, ended when its tracks are), of the tracks of a session `TracksServed` (media goes where the client was told, numbered as announced; feedback is that of the present stream; a transport is open as long as a track has it) and of the shared stream `GroupServed` (one numbering for all clients, reports counted once, one receive at a time); and `RequestsUnderstood`, which is of the bytes of a connection `RequestsAsSent` (whatever the chunks, the session is handed what was sent, up to the first malformed message) and of credentials `CredentialsJudged` (a use of a nonce is good once, a right answer is let in as long as its nonce lives) |
| `Render` | two workers with one-place queues, a window the user closes, pauses, two starts: `FramesKept`, `CallsGetOn`; and of the time of its frames `MasterTellsTheSound` (the clock is never further from what is heard than the device's buffers), `PicturesFollowTheSound` |
| `Avtp` | packets lost on the wire or shed by the queue, a clock that jumps and wraps, a stop also inside `Open`: `WholeUnits`, `SenderTimeKept`, `ReaderIsWoken` |
| `Inference` | two callers on one request, a runtime that completes when it likes, two loads, anything of which may fail: `OwnAnswer`, `QuietAfterRelease`, `CallsReturn`; and on samples `DetectionsTrue` |
| `SourceReopen`, `PictureFreezes` | one disagreement each between code and documents, section 7 |

Deadlock is checked in `Queue`. The other models come to a rest when their bounds are used up, so their
configurations switch it off, and the liveness properties say what must not be left undone.


## 4. Bounds

The bounds are constants of the modules or sets of the configurations. Each is chosen as the least that
makes the case in question happen; every property has a mutant of the code it is about that is found
within the same bounds.

* `Queue`: messages of one and two bytes and an end of stream for the policy Block; audio, video,
  keyframes, timestamps that run backwards and a second generation for the dropping ones; three items,
  four bytes and a span of two, so that each budget is the one exceeded at some time and an eviction
  takes two messages. Two senders suffice for one to fill the room the other was woken for; one receiver
  and one owner suffice since `TryReceive` never waits. One close and reopen, one interrupt.
* `Edge`: three messages of three ranks through a capacity of one, a dispatch queue of two and a batch of
  one, so that batches end early, the queue is full and the drain reposts itself; three messages in the first lifecycle or two
  through a stop and a restart (`MaxSent`), which is enough for a handler left over and a new one. `SizeModulus`
  stands for 2^64 and is larger than any count that can occur, so that a wrap shows.
* `Lifecycle`: two sources into an encoder and a publisher, on the pools that
  `docs/media-flow-design.md:221` recommends, is the smallest graph with a join, two edges in a row
  and a phase that can fail after another of the same kind has succeeded.
* `Source`: two packets (one before and one after a reconnect show a number that does not start
  anew), two failures (one attempt more than the limit of one), two starts, a limit and none.
  `MaxFailures` bounds the environment, not the code: with none left an attempt succeeds.
* `Chain`: two video streams, three packets, two connections, one failing codec call, edges of one place.
  Pictures of 1 to 4 by 1 to 4 in six formats; sounds of up to three frames of one to three samples into
  frames of two; stamps through time bases that do not divide each other.
* `Session`: limits of one and two attempts and none (-1); restarts with two packets; one life through a jitter buffer of
  one place; and with the watchdog:
  the sets of modes trade calls for packets, since the features do not meet.
* `Rtsp`: two connections for one place, three requests, one access unit, two starts, a write queue of two. For
  the sink: three video and two audio packets, two generations, one fault, a start-up queue and an interleaver of two.
  For the bytes: every message of RtspSamples alone and every pair of which the first is well-formed, in chunks of 1, 3 and
  100, with lines, headers and bodies at their limits and one beyond. For the tracks: two tracks, of which one may be
  multicast, two SETUPs with headers of each mode, with alternatives and with broken parameters, two packets or reports,
  a sequence number that turns at four. For the shared stream: two clients, two SETUPs, an access unit of one or two packets, one
  datagram. For the credentials: four requests, one of which is written oddly, two ticks of a nonce that lives for two.
* `Render`: two frames per track, one pause, two starts. For its time: a device of one frame, chunks of one
  to three, with a gap or without a stamp, two pictures, four ticks: a chunk spans several device buffers, and the
  position is asked for at every point between the device thread's steps. The device has to have played two
  buffers before the bound of two buffers says anything; within these ticks it does, and the bound is met
  with equality. A device of two frames needs five ticks for that (12 million states, also without an error).
* `Avtp`: units of one and three parts where two fit, a queue of one, a modulus of 8 for both the sequence
  number and the stamp, one restart of the talker and two connections; while probing, a talker whose headers name
  its codec, which sends pictures only and does not restart (neither looks at the name), and one whose headers do not. Stamps are marked as sure; unsure ones
  with a single lag pass as well and take too long together.
* `Inference`: one request for two callers, two loads, two jobs: a load is torn down under a running request.


## 5. Fairness

A thread that may run will run: that is all that is assumed of a thread of the program, and it is weak
fairness of that thread's next step. What is *not* assumed is in each case what the environment does.

* QueueTransport: each thread's step inside `Send` and each pending
  notification. Nothing is assumed about when a producer sends,
  the receiver receives, or the owner closes or interrupts, nor that a sleeper is woken without cause.
* EdgeDispatch: each worker, and a producer that is inside `Send`. The workers are the
  threads of `AsioExecutor` which do nothing but `io_.run()`. Nothing makes a producer send or the
  graph stop, and no order among the workers is assumed.
* GraphLifecycle: a caller inside `Start` or `Stop`, each blocked worker or source that could go on (strongly:
  the room on an edge comes and goes, and a waiter on a condition variable whose predicate is true again and again
  is let in), and a source that has been asked to stop.
* StreamSource: a caller inside a call and the reading thread. A connection
  attempt ends one way or the other, for `connect_timeout_ms_` bounds it; a read has no fairness at all
  unless the puller is closed or interrupted, for `read_timeout_ms_` may be 0. A drain ends with its deadline.
* MediaChain: the workers of decoder and encoder and the graph's thread, whose waits end with the deadline
  or with an answer. The source is not fair.
* StreamSession: threads, and timers, which expire. A read may wait for good.
* PlaybackTiming: the clock, the device thread and the two workers. Sound and pictures need not come.
* InferEngine: callers inside a call, a `Release` between unlock and notification, the runtime, which completes
  what was started, and the owner inside a call. Which waiter a `notify_one` wakes is open.

The other models state safety only. A callback that never returns is outside of all this.


## 6. What is proved

Every theorem below holds for every value of the constants; TLC checks the same properties on one small
instance, and its runs checked the inductive invariants before they were proved.

### `QueueTransportProofs`

For any number of senders and receivers, any set of messages, every policy, all budgets and all bounds:

| theorem | says |
|---|---|
| `TypeCorrect` | `Spec => []TypeOK` |
| `Budget` | `Spec => []BudgetRespected` |
| `Closed` | `Spec => []ClosedIsEmpty` |
| `WakeupsKept` | `Spec => []NoLostWakeup` |
| `BacklogKept` | `Spec => []BacklogDescribed`: what the channel says of its weight, its level and its age is true |
| `RankKept` | `Spec => RankRespected`: no eviction takes a boundary, and a keyframe gives way to a boundary alone |
| `Refinement` | `Spec => ImplementsMailbox` |

All rest on `Inductive`: `Init => IInv` and `IInv /\ [Next]_vars => IInv'`, where `IInv` is
`TypeOK /\ BudgetRespected /\ ClosedIsEmpty /\ LockDiscipline /\ WakeupPending`. The last two are
what makes it inductive. `LockDiscipline` says that whoever is in the middle of an eviction holds
the lock. `WakeupPending` says more than `NoLostWakeup`: whenever a sender sleeps although its
predicate is true there is a notification still to come, *or* a thread that holds the lock and
will notify when it leaves. The difficult case is a sender of a boundary in a Block mailbox: it evicts
without notifying and could go back to sleep with its eviction unannounced. It cannot, because a boundary
weighs nothing and one eviction makes room for it; that step needs the budgets, the policy
and the weight of a boundary at once.

`BacklogKept` has an invariant for each part, of which only the second is inductive as it stands.

- The weight of the queue is a fold over a sequence. Where an induction is needed, it goes from `LeastNatural` (the
  library's well-founded order on the naturals) over the size of a set, `SubsetInduction`. With it
  `WeightCounted` shows that the fold is the number of units of weight, one for every byte, so
  that appending and removing are statements about cardinalities (`WeightAppend`, `WeightRemoveAt`).
- The latch follows the level because watermarks that differ leave none that is both high and low.
- `TimelineInv` says where the windows of the queued messages stand: none is newer than the window that is open in its
  generation, none in the open window has a later timestamp than the latest, and a sender in the middle of an eviction holds
  the newest message. Outside Block nobody waits, so nobody appends with a window resolved long ago.

`RankKept` counts positions. `RemoveAtKeepsOthers` maps those that hold a kind injectively into those left after another
kind's message has gone; `FirstFinds` says that a search which finds nothing has seen everything, which is why
a keyframe is refused only when nothing weaker is queued; and while one sender evicts, the lock leaves the
others nothing to do but notify and wake (`StepRank`).

The assumptions are those of the module: budgets are natural numbers of which `0` means none, the
percentages are ordered, the owner is none of the other threads, a message's fields are of their types.

### `EdgeDispatchProofs`

For any finite sets of producers and workers, any messages of any rank, both execution modes and any
capacity, batch size and number of lifecycles:

| theorem | says |
|---|---|
| `TypeCorrect` | `Spec => []TypeOK` |
| `WorkSeen` | `Spec => []WorkIsSeen`, in every lifecycle: somebody comes for what is in the transport, and `pending` is what is queued, posted or running, exactly if the node was opened with no task left over in the executor, and else less those left over, modulo its width |
| `WorkedOffInTurn` | `Spec => []InTurn`: one pump, one handler at a time, in the order of acceptance |

They follow from `Invariant`, `Spec => []IInv`. Its parts, in the order in which one needs the other:

- `Carried`, `Phases`, `TasksByMode`: what a thread holds when it is about to hand it over, what a stopped or
  starting graph has left behind, and that only a Concurrent node posts tasks;
- `Covered` is `EdgeCovered` without the thread that is about to post a drain: such a thread has set the latch;
- `PendingExact` relates the counter, whose arithmetic is that of its width, to the places a task can be in, in every
  lifecycle. Lemmas count threads (`ThreadMoves`) and posted handlers (`HandlersMove`) across a step, `InStep` shows
  that every step but the opening of the node moves counter and tasks by the same amount, and `Wraps` that this
  is enough modulo the width. At the opening the counter is set to zero while tasks may be posted; `AtRest` says that
  none is running then, so that what is off is their number, the history variable `leftover`, and stays so. A Serialized
  node posts none (`TasksByMode`) and its counter is exact;
- `IdlePump` says that `dispatch_active_` is set while a pump is posted or at work, so `Enqueue` posts no second;
- `OneDrain` is the same for the latch `scheduled_` and the drain, but weaker, because a closing edge resets the
  latch under a drain that runs: after that there may be a drain that will stop and one that is new, and only one
  thread *takes* messages;
- `Flow` is the invariant of the order. The places a message passes, from the handler back to the transport, are
  each ordered by acceptance and everything further on was accepted earlier. `HandledInOrder` speaks of its last
  place only and is not inductive.

Assumed are that the pending counter is wide enough for `max_pending_tasks` and that there are finitely many
threads. `OnePump`, `SerializedOneAtATime` and `HandledInOrder` are claims about
the first lifecycle: handlers posted before a stop stay in the `io_context` and run after the next
start beside those of the new lifecycle (section 7).

### `InferEngineProofs`

For any number of callers, requests of a pool, loads and jobs:

| theorem | says |
|---|---|
| `OwnAnswers` | `Spec => []OwnAnswer`: one answer at most, of the job's own input, by the model of the pool that lent the request |
| `ReleaseQuiets` | `Spec => []QuietAfterRelease`: every request in one place, and a pool that was waited for is quiet |

They follow from `Invariant`, `Spec => []IInv`. Neither property is inductive, because the engine's members are
read one at a time while the owner changes them. The parts of `IInv`:

- `InPlan`: what the owner still has to do is the rest of a Release, or of a Release and a load, so that one step
  tells what comes after it;
- `EngineOfOneLoad`: the engine names a pool only while the model of the same load is compiled;
- `PoolsInTurn`: a pool lends requests only while the engine names it, or until the owner that has taken it shuts
  it down, and it is filled once, by its own load;
- `Conserved`: a request is in the queue, held by one caller or at work, exactly one of the three, and in a pool
  that was never filled none of them. `AllBackIsQuiet` counts: a queue of `RequestCount` different requests has them all, which is
  why the predicate of `WaitAll` is enough;
- `ModelOfPool` is where `OwnAnswer` is decided. A caller reads the pool and then the model without a lock and may get
  those of two loads. It then finds the pool shut down, and is refused, or without requests for ever; so a caller
  that is lent a request has the model of that pool;
- `JobOfCall` and `JobAtWork`: no two calls, and no two requests before their callbacks, have the same job,
  and nothing has come of it yet;
- `QuietOnceWaited` is the second half of `QuietAfterRelease` with the owner's next step in place of its whole plan.

Assumed are that there is at least one request in a pool and that `NoCaller` is not a caller.

### `StreamSourceProofs`

For any limits on reconnects and any number of starts, packets and failures, whatever the camera does:

| theorem | says |
|---|---|
| `MessagesTruthful` | `Spec => []MessagesTellTheirSource`: types, one generation per connection, numbers without a gap, and the same stream on both kinds of ports |
| `FinishedIsSilent` | `Spec => NothingAfterFinished`: an action property, a source that reports itself finished sends nothing |

They follow from `Invariant`, `Spec => []IInv`. None of the four parts of `MessagesTellTheirSource` is inductive, for
they speak of messages only and not of the thread that makes them. The parts of `IInv`:

- `Apart`: the caller opens, and closes for good, only while there is no reading thread, and a source that is finished
  has left its loop. `JoinReader` before `StopEnds` is what the second needs;
- `Disconnected`, `StampsFit` and `NothingYet` decide `GenerationIsConnection`. The pair of the current generation and
  connection fits the stamps given so far *whenever there is a connection*: between `Renew` and the next success of
  `Open` it does not, and then nothing was sent under the generation, so any connection will do. This holds only because a loop that
  goes on after a failed reconnect (`waitAgain`) finds the puller closed;
- `InFlight`: what is about to be sent comes from the connection the thread has;
- `NumbersRun`: the port of a track ends with the packet that was numbered last, except for one that is on its way, or
  with an earlier generation if the count is at zero. `RunsOn` shows that a stream may go on from there;
- `PortsHold`: between its two sends a message is the last of the mixed port, and what was before it is on the port of
  the track. `TrackSkips` and `TrackGrows` are the two cases of one more message. `TrackOf` is stated by ranks
  rather than by a filter, because a filter is a recursive definition.

### `StreamSessionProofs`

For any number of threads that run the io_context, that start and that stop the session, any number of calls,
connections and packets, with and without jitter buffer and watchdog:

| theorem | says |
|---|---|
| `OneConnectionTended` | `Spec => []ConnectionTended`: without the watchdog one read loop of the active generation, and in the first start somebody who empties the jitter buffer; with or without it no connection once all is at rest after a Stop, which may come at any moment of a Start |
| `DeliveredWell` | `Spec => []Delivery`: a packet reaches the callback at most once; without a watchdog those of a start in the order they were read, or through the jitter buffer, as long as the first connection of the first start lasts, by their stamps |

`OneConnectionTended` follows from `Invariant`, `Spec => []IInv`. The three promises need different things:

- `OneReader`, for the read loop: a generation has one *reader*, which is wider than the loop. It is the thread that
  opens, reads, reconnects or reopens, or the queued handler `read` or `reconnect`, or the wait of the reconnect timer.
  `Ages` says that nothing carries a generation that has not begun, so a Start always begins with one reader. Handlers
  of older generations are readers too, of their own generation, which is why a Stop or a Start in between does no harm.
  It holds without the watchdog only, which is the bound of the theorem: the watchdog starts a second reader while the first is in its callback;
- `DecoderTended` with `HangsUp`, for the jitter buffer: when the decoder timer is not pending, who holds it. `HangsUp`
  is what makes the one step that cancels it harmless: the session is then not connected, because the only thread
  that could report it connected is the one that hangs up. It is an invariant of the first start: later a stale reconnect
  of the generation before may cancel the timer of the new one;
- `ClosedInTheEnd`, for Stop: after a Stop an open connection has a thread that is about to close it, the one that
  stops or one that comes back from Open. The latter finds its generation over, because after a Stop everything
  there is is at most as young as `Newest`.

A thread carries the sequence of its next steps. `Plan` lists the sequences there are, and `Turn` says as much of a step
as the invariant can tell: whether the plan stays that of a reader, who it hands over to, what it does to timers and
connection. `TurnHolds` proves `IInv` preserved by any turn once, and each of the 26 actions is shown to be one.
Of `BetweenCalls` the proof uses only that the caller that starts is at rest itself.

`DeliveredWell` needs more, `OInv`, because `IInv` says who acts and not what is in his hands:

- `Apart`, for "at most once", in every mode: a number that was given out is with one thread, in one of the two halves of
  the jitter buffer or delivered. It holds with the watchdog too, where two readers push into the buffer;
- `Ascending`, for a session without the jitter buffer: what a reader holds is of the generation it reads for and newer
  than all that was delivered of that generation. It stands on `OneReader`, because a second reader of the same generation
  could overtake between reading and the callback;
- `Orderly`, for the jitter buffer. `Released` is its core: stamps delivered ascend, a packet that is popped and not
  yet delivered comes after them, and then either `InStep`, everything buffered is at or above the last stamp
  released, or `RunDry`, nothing is buffered and nobody is left to add to it. The second case is there
  because the code clears the buffer and forgets the last stamp when the connection is lost and after the end of the stream.
  That would break `InStep`, but the reader has ended by then (`OneReader`, `OneLife`) and the buffer stays empty.
  The clearing before the timers are armed is harmless because nothing has been delivered yet.
  `OneDecoder` says that one thread, handler or wait empties the buffer: two could deliver in the other order
  than they popped. `AtFirst` is what makes that true of the first connection.

`Early`, the first connection of the first start, is not there for convenience: after a reconnect the reset forgets the last stamp
while a popped packet of the lost connection may still be on its way to the callback, so across connections the order of the
stamps is not promised by the code.

The lemmas under it are about sequences: `Oldest` finds a packet with the least stamp (`OldestFirst`), removing one keeps the
others, draining keeps numbers distinct and stamps at or above the last one released. `DrainIncoming` is a recursive function of the position;
that such a function exists is `DrainExists`, and its values are bounded, by a least counterexample (`LeastNatural`,
from the well-foundedness of `<` on the naturals).

Assumed is `SessionAssumption`: the kinds of threads are disjoint, the bounds natural numbers, the limit of attempts an integer
(negative for none), the stamps a non-empty set of positive ones.

### `GraphLifecycleProofs`

For every graph, whatever its edges, priorities, executors and shared pools, and for every `Init` or `Start` that
may fail, as long as one thread starts and stops it (`Callers = {k}`):

| theorem | says |
|---|---|
| `PhasesHold` | `Spec => []PhasesAgree`: sources run only on a whole graph, no thread is inside a node without `Init`, nothing is left behind |

It follows from `Invariant`, `Spec => []IInv`. `PhasesAgree` names the ends of the calls and is not inductive;
`IInv` says for every phase what there is of the graph:

- `Items` and `Locals`: what a loop has left to do, and that the vectors handed to `Rollback` hold what the loops
  have done, each filled only after the one before it is complete;
- `Inventory`: which nodes are initialised and started, which executors the graph runs, and whether the edges are open,
  computed from the phase alone;
- `Threads`: a source that produces is started, and a worker blocked in `Send` belongs to an executor that is still
  to be joined. That is why the order executors, then `Deinit`, is safe;
- `SourcesLast`: a started source has every other node started behind it. `SourcesComeLast` shows it from
  `StartPriority` and the two sorts, `OneComesFirst` that of two executors one is stopped first.

The hypothesis of one thread is needed: a `Stop` that overlaps a `Start` breaks the inventory (section 7).

### `RtspServerProofs`

For any number of addresses, connections, requests, access units and lifecycles, any limit of the write queue, of
the sessions and of an address, and every set of transports:

| theorem | says |
|---|---|
| `RegistryStays` | `Spec => []RegistryAgrees`: types, the limit of every write queue, places counted once, and a Stop that has closed what it found |
| `MediaAnnounced` | `Spec => []MediaAsAnswered`: media arrives only between the answer to PLAY and the one that ends it, and once |
| `MediaInLifecycle` | `Spec => MediaOfLifecycle`: an action property, media is queued in the lifecycle of its `Write` only |

They follow from `Invariant`, `Spec => []IInv`. The operations of the io thread are functions on a `World` (registry,
sessions, connections), so there is one lemma per operation (`CloseBothGood`, `EnqueueGood`, `SessionSet`, `ForgetGood`,
...) and an action cites those it is built from. The parts of `IInv`:

- `Sound` (with `QueuesBounded`, `Counted`, `Agrees`) is the registry: a registered session is open, an address counts
  its own, the connection of a closed session is closed, ids from `next` on are unborn. `CloseBothSound` is where a place given
  back twice would show: what it frees is the registered part of what was open;
- `Told` decides `MediaAsAnswered`, which looks at the client's side only and is not inductive. It reads a write queue as
  the client will: every media item in it comes behind a PLAY with no PAUSE or SETUP in between (`Expects`), and a
  session that plays is told so by the end of its queue. `ReceivedTells` takes the first item off, `QueuedTells` and
  `QueuedExpects` add one;
- `MediaOrder` is the "once": media tasks are queued in the order of the writes, and a client has nothing as new as what
  is still to come. It spans `Write` between its two locks, the tasks, the io thread and every queue;
- `Accepts`: there is one accept, pending, queued or being handled, and Stop's barrier is behind it, so that an id is free
  and no accept of one lifecycle is found by the next;
- `Stopping`: the barrier holds what it closes, so a session found by Stop is not destroyed before;
- `Generations`: the generation is odd while the server runs, and media that passed the gate are of this
  lifecycle, or of the one a running Stop ends.

Assumed are only that there is an address and that the limits are natural numbers.

### `RenderSessionProofs`

For every set of configurations, all limits of the two queues and any number of frames, time stamps, starts and pauses:

| theorem | says |
|---|---|
| `NothingLost` | `Spec => []FramesKept`: every frame submitted is accounted for, a track is rendered in order, and a queue exceeds its limit by one frame a pause at most |
| `AlwaysStaffed` | `Spec => []RunningIsStaffed`: what runs has the workers it promises |

The first follows from `Invariant`, `Spec => []Kept`. `FramesKept` counts frames and looks at the verdict "in order";
`Kept` says for each track where the frames stand:

- `Somewhere` is the account, `Ordered` the order: the last frame rendered, then the one in the worker's hand, then the
  queue, with ascending numbers and none above the last one submitted. What may happen to one track is stated on values,
  one lemma each (`Appended`, `Shortened`, `Refused`, `Taken`, `PutBack`, `HandRendered`, `HandDropped`, `HandGone`,
  `Cleared`), and every action is shown to be one of them or to leave the tracks alone. `PutBack` is where a frame put
  at the end of the queue would fail;
- `Fits` is the limit: while a pause lasts, a worker with a frame in its hand finds room for it. A pause may begin
  with the queue full, hence one frame a pause;
- `PrerollLeads` bounds what a new origin drops by the length of the audio queue, from the cardinality of the set of
  positions before which everything is old.

`AlwaysStaffed` needs `Life`: a worker is inside its renderer's Init only while a Start waits or has failed, nobody has
answered that still is, and a worker has a device only while it plays. `CompleteStartup` may run the session
because of the last, and a Start that joins the threads of a session that stopped itself is not mistaken for
a session that runs because of the first.

Assumed is `RenderAssumption`: the limits are positive, the bounds natural numbers.

### What stays with TLC

The modules `AvtpPuller` and `MediaChain` have no proofs.
`RenderSession.NoCallHangs`, the other half of `CallsGetOn`, is a statement about ENABLED.
Liveness (`NothingStranded`, `CallsReturn` and the others under fairness) is out of the prover's reach. The
properties of the data (planes, samples, detections, text of RTSP messages) are computed by recursive operators
over bounded inputs. `StreamsWhole` and `RequestsUnderstood` are of the modules around the RTSP server, which have no proofs.


## 7. Where code and documents disagree

Two are runs in which TLC finds the code's behaviour to violate a sentence of the repository, quoted in `PROJECT.json`.

1. `SourceReopen`: a reconnect whose `Open` fails is not tried again: the loop reads from the puller
   that the failed `Open` has closed, gets `Stopped`, and ends.
2. `PictureFreezes`: `UnifiedClock` answers the last position of the sound for as long as it lives; when the
   device thread has ended on an error, a picture that is later than it waits for good, where media_timing.h:42
   promises that the clock goes on by the steady clock.

Found by TLC with the constants in brackets, and not kept as runs:

3. transport.h:302: `FitsLocked` tests the number of items before the size of the message, so a
   message that can never fit is not recognised when the queue is also full, and its sender waits
   for good, against the comment at 303 (QueueTransport, a message larger than `MaxBytes`, Block).
4. executor.h:72: handlers left in the io_context by a stop run after the next start. A pump among
   them makes a second pump, and a Serialized node is entered twice, against docs/media-flow-design.md:714
   (EdgeDispatch, `InTurn` without its guard on the first lifecycle).
5. graph.h:1204: `WaitForQuiescence` looks at all nodes and then at all edges; a message
   that moves in between is seen by neither look, against the comment at 1191 (EdgeDispatch). The graph then
   flushes the encoder while its worker is inside it, against media_nodes.cpp:894: packets leave in the wrong
   order, or a graceful stop reports success with frames left in the codec (MediaChain, `OutputInOrder` and
   `CompleteIsDrained` without `early`).
6. graph.h:1250: `Rollback` joins the workers before it closes the edges on which they may wait, against 946
   (GraphLifecycle, a source that fails to start after another began).
7. graph.h:1116: `Stop` joins a source that waits on an edge which is closed only later; with two
   adjacent stages on one thread nobody drains it, against 1103 (GraphLifecycle, one pool of one thread).
8. media_nodes.cpp:731: a decoder that is reopened within a generation, because the stream's description became
   known, is fed without waiting for a keyframe, against 509 (MediaChain, `Configured = {"other"}`).
9. stream_session.cpp:336: the watchdog closes the puller and schedules a reconnect; the blocked read then answers
   Stopped, and its handler (428) ends the reconnect, against 239 (StreamSession with the watchdog on).
10. render_session.cpp:632: a frame that is in the worker's hand with its raw stamp when the common origin is set
    keeps it, against 445. 149: a `Start` after a session that stopped itself takes back the stop before it joins
    the old threads, and hangs, against 163 (RenderSession).
11. ethernet_capture.cpp:396: with a limit on reads `ReadPacket` answers success without a packet after the capture
    thread has died; the puller reports NoData for good and never reconnects, against the header's `@return` and
    avtp_puller.cpp:661 (AvtpPuller).

Met on the way, by component:

* *Transport, edge, graph.* A policy that evicts and then still refuses the message reports
  `DroppedNewest` although the queue has changed (types.h:134), and `Port::Send` answers false for it; a sender that
  slept across a close and a reopen puts its message in the new queue (transport.h:316); a publisher starts after
  its encoder although the comment says before (media_nodes.cpp:1142); a handler of a Concurrent node left over by a
  stop lowers the new `pending_tasks_`, which wraps below zero and leaves the node full until the next start
  (`PendingExact` says so); a control message the drain has taken off the edge is dropped when the
  node's queue is full and nothing in it can give way (graph.h:766); `Stop` accepts a graph that another thread is
  still starting, which then sets `Running` over `Stopped` (1058); Flush runs in the caller's thread and may wait in
  `Send` past the deadline of a graceful stop (1091).
* *Source.* A stop during the wait before a reconnect ends the thread without `finished_` (media_nodes.cpp:204,
  221), so a graceful stop runs into its deadline.
* *Chain and publisher.* An end of stream of a new generation that brought no packets labels the old tail with the new
  generation (658, 981); a tail packet that is refused, or a flush that fails, swallows the end of stream (978); two
  video streams share one sequence number, so that the unselected one looks like a gap; packets refused by the
  start-up queue (1218, 1267) leave holes before the first keyframe; with no configured tracks the second track is refused;
  the end of one track ahead of the first packet of another is forgotten with the change of generation (1200); a
  graceful stop without an end of stream drops what the interleaver holds; the muxer's reconnect waits for
  a keyframe only if the packet that failed is video (ffmpeg_mux_protocol.cpp:200).
* *Encoder data.* Packed NV12 and NV21 without plane description lose the last chroma byte of an odd row
  (ffmpeg_encoder.cpp:1219); a gap in the sound is closed up, since only the first frame sets the count of time.
* *Session.* A `Start` that overlaps a `Stop` between its generation check and `running_` (130-148) marks the stopped
  session running, without connection, reader or timer. A reconnect of an older generation that is past its gate while the
  session is stopped, started and loses its connection again calls `expires_after` (448) and so cancels the wait of the new
  generation; its own handler then finds its generation over, and the running session stays without a connection for good. It
  takes a limit of at least two attempts or none, the default. TLC finds both when the premise `NobodyLate` of `NoDeadAir` is
  dropped, and either when it is weakened to the other. A stale reconnect, end or error may act on the new generation between its gate and its
  first write; the watchdog fired while the reader is in the callback leads to two read loops; an old packet is
  pushed into the jitter buffer after Stop and Start (its header, 181-185, says not); an end of stream clears the
  jitter buffer and with it the tail; `reorder_buffer_` has no bound; `SetJitterBufferConfig` swaps the buffer of a
  running session.
* *RTSP.* The answer to TEARDOWN is lost when another write is in progress; requests pipelined behind a failed
  authentication are still processed; an idle timer whose handler was already queued closes a session that has just
  been touched (rtsp_session.cpp:1173); a session accepted while `Stop` runs is left over until the next one.
* *RTSP credentials.* `DecodeBase64` (rtsp_session.cpp:64-111) refuses every text that ends in two `=`, since it looks at
  the third digit before it looks for padding: a client whose `user:password` has a length of 3n + 1 bytes gets 401 for
  good, against docs/publisher-protocol-design.md:1422. `RightPasswordLetIn` is therefore checked for the other lengths
  only (`TwoPads`). A right answer that is pipelined behind the request that renewed the nonce is refused without
  `stale=true` (1423 of that document).
* *RTSP tracks and group.* A SETUP answered 461 after `PrepareTrackState` has already ended the stream of the track; without
  `interleaved` every track gets the channels 0-1, so that the reports about the second are filed under the first; the first
  report block of a track counts whatever it is about; a datagram received for a stream is filed under the one a
  SETUP has put in its place; a second H.264 track would share the sequence space of the group; one receive that
  fails ends the reports of a transport, or of the group, for good.
* *Render and playback.* `running_` is set although the window was closed during the start; a frame put back is
  normalised twice; a put-back may exceed the queue's limit by one; frames in hand at a stop are counted nowhere;
  sound without a stamp passes the gate. `PlayedPtsUs` reads the padding before it locks the timeline: the position is up
  to a buffer ahead or behind, and a reading that is ahead prunes the timeline, so that later exact ones are ahead too; on silence it answers the
  last position asked for, not the end of the sound; during the first silence it answers the first stamp where the
  header promises none; a position un-pauses a paused clock; queued sound plays on during a pause; after repeated
  stamps the normaliser's output may run backwards (0, 0, 0, 33 becomes 0, 33, 66, 33).
* *AVTP.* A `RequestStop` before the capture exists is forgotten (ethernet_capture.cpp:323); a probe with unlimited
  reads may wait for good (excluded by `AvtpAssumption`); the first unit after `Open` may lack its beginning, if the
  format is configured or named in the packet's header; a talker that leaves `format_subtype` at 0 is taken for MJPEG
  when a probe meets it in the middle of a unit (avtp_puller.cpp:123, 933); a loss of
  a multiple of 256 packets is not noticed; two streams without a filter cut each other's units.
* *Inference.* `initialized_`, `request_pool_` and `compiled_model_` are unsynchronised (the documents leave it to the
  caller); a caller that took the pool of a load whose requests could not be made waits for good (`Orphaned`); a
  callback that calls `Release` or `InferAsync` waits for itself (forbidden in the documents, 272-277). The
  postprocessor guesses the layout of an output from its shape: fewer candidates than attributes are misread, and
  an output of 84 attributes is taken to have no objectness; a dynamic shape keeps the configured size.


## 8. What is left out

Counters that nothing reads back (metrics), logging, wording and formats. Time outside PlaybackTiming: deadlines and
intervals are the choice between "expired" and "not yet". Memory: no allocation fails. In
EdgeDispatch the bytes and span of the dispatch queue; in GraphLifecycle the messages themselves. In
StreamSession the estimate of the delay, which is floating point. In RtspServer its liveness (a `Stop` returns), which
holds but takes too long beside the rest; around it SDP, RTP packetisation and the byte layouts of RTP and RTCP. In
Detections and PlaybackTiming rounding. In InferEngine spurious wake-ups.
`LegacyQueueTransport` (transport.h) is not reachable from any factory; PlaybackClock, MediaClock and
AvSyncController are created by tests alone. `include/common/queue/cameron` is vendored. Whole parts that are not
modelled, and why, are listed in `PROJECT.json`; libraries (FFmpeg, Asio, OpenVINO, WASAPI, OpenGL, Npcap) are external.


## 9. Plan

Done: the core with its proofs, the source, the chain with its data, the sink, the session, the AVTP puller, the
RTSP server, the preview with its time, the inference engine with its data.

Proofs are done for the transport and its abstract mailbox, the edge with its node, the graph's lifecycle,
the source, the session, the RTSP server, the preview and the inference engine.

Next, in this order: the units of the AVTP puller; an abstract edge, an unordered channel
that drains, which EdgeDispatch implements; the liveness of `RtspServerProtocol::Stop` on a smaller instance; two
owners of an engine.
