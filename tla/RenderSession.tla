----------------------------- MODULE RenderSession -----------------------------
(***************************************************************************)
(* RenderSession of src/render/render_session.cpp: the preview that plays  *)
(* decoded frames.                                                         *)
(*                                                                         *)
(* Four kinds of threads meet under mutex_: the owner (Init, Start, Stop), *)
(* the caller of SubmitFrame, the user interface (Pause, Resume, closing   *)
(* the window) and two workers, video and audio, each of which owns its    *)
(* renderer from Init to Shutdown.  A critical section is one step.  The   *)
(* workers wait on queue_cv_ with a timeout, so a worker may look at its   *)
(* queue at any moment and nothing depends on a notification.              *)
(*                                                                         *)
(* Time stamps keep their raw value: subtracting the origin is left out,   *)
(* what it drops is not.  What the clock and the scheduler decide of a     *)
(* frame - render, drop, wait - is left open.                              *)
(***************************************************************************)
EXTENDS Integers, Sequences, FiniteSets

CONSTANTS
  Configs,         \* [audio, keepLatest, audioRequired]: enable_audio, a full video queue sheds its
                   \* oldest frame, fail_if_device_unavailable
  MaxVideoQueue, MaxAudioQueue,
  MaxFrames,       \* bound: frames submitted to a track
  MaxStamp,        \* bound: time stamps
  MaxStarts,       \* bound: calls of Start
  MaxPauses        \* bound: calls of Pause

ASSUME RenderAssumption ==
  /\ Configs \subseteq [audio : BOOLEAN, keepLatest : BOOLEAN, audioRequired : BOOLEAN]
  /\ {MaxVideoQueue, MaxAudioQueue} \subseteq Nat \ {0}
  /\ {MaxFrames, MaxStamp, MaxStarts, MaxPauses} \subseteq Nat

VARIABLES
  config,   \* config_
  owner,    \* where the call of Init, Start or Stop is, and the calls of Start so far
  flags,    \* running_, stop_requested_, paused_, startup_done_, startup_success_
  window,   \* the user has closed the window; calls of Pause so far
  timeline, \* first video time stamp, media_pts_origin_us_, video_render_start_announced_
  worker,   \* per track: where its thread is, the frame in its hand, what its renderer's Init said
  queue,    \* video_queue_, audio_queue_
  stats,    \* per track: submitted, rendered and dropped frames
  played    \* history, per track: the last frame rendered, whether all were in order, and the
            \* frames that went with a stop

vars == <<config, owner, flags, window, timeline, worker, queue, stats, played>>

Tracks == {"video", "audio"}
NoStamp == -1
NoWorker == [at |-> "none", hand |-> <<>>, answered |-> FALSE, available |-> FALSE]
Enabled(t) == t = "video" \/ config.audio

\* IsValidConfig and a first Init have gone well.
Init ==
  /\ config \in Configs
  /\ owner = [at |-> "idle", starts |-> 0]
  /\ flags = [running |-> FALSE, stop |-> FALSE, paused |-> FALSE, done |-> FALSE, success |-> FALSE]
  /\ window = [closed |-> FALSE, pauses |-> 0]
  /\ timeline = [origin |-> NoStamp, announced |-> FALSE]
  /\ worker = [t \in Tracks |-> NoWorker]
  /\ queue = [t \in Tracks |-> <<>>]
  /\ stats = [t \in Tracks |-> [submitted |-> 0, rendered |-> 0, dropped |-> 0]]
  /\ played = [t \in Tracks |-> [last |-> 0, ordered |-> TRUE, gone |-> 0]]

-----------------------------------------------------------------------------
(* The owner: Start, Stop, and Init again, under lifecycle_mutex_ *)

Exited(t) == worker[t].at \in {"none", "exited"}
OwnerAt(a) == owner.at = a
OwnerGoes(a) == owner' = [owner EXCEPT !.at = a]

\* Start of a session that runs returns; else the flags of the last life are reset first ...
StartBegins ==
  /\ OwnerAt("idle") /\ ~flags.running /\ owner.starts < MaxStarts
  /\ owner' = [at |-> "start", starts |-> owner.starts + 1]
  /\ flags' = [flags EXCEPT !.stop = FALSE, !.paused = FALSE, !.done = FALSE, !.success = FALSE]
  /\ worker' = [t \in Tracks |-> [worker[t] EXCEPT !.answered = ~Enabled(t), !.available = FALSE]]
  /\ UNCHANGED <<config, window, timeline, queue, stats, played>>

\* ... and then the threads of the last life are joined and new ones created.
StartCreates ==
  /\ OwnerAt("start") /\ \A t \in Tracks : Exited(t)
  /\ OwnerGoes("wait")
  /\ worker' = [t \in Tracks |-> [worker[t] EXCEPT !.at = IF Enabled(t) THEN "init" ELSE "none"]]
  /\ UNCHANGED <<config, flags, window, timeline, queue, stats, played>>

\* std::thread throws, for the first worker or the second.
StartThrows ==
  /\ OwnerAt("start") /\ \A t \in Tracks : Exited(t)
  /\ OwnerGoes("failed")
  /\ flags' = [flags EXCEPT !.stop = TRUE, !.done = TRUE, !.success = FALSE]
  /\ \E first \in {"none"} \cup (IF config.audio THEN {"init"} ELSE {}) :
       worker' = [worker EXCEPT !["video"].at = first, !["audio"].at = "none"]
  /\ UNCHANGED <<config, window, timeline, queue, stats, played>>

\* startup_cv_: both workers have answered.
StartAnswered ==
  /\ OwnerAt("wait") /\ flags.done
  /\ OwnerGoes(IF flags.success THEN "idle" ELSE "failed")
  /\ flags' = [flags EXCEPT !.stop = @ \/ ~flags.success]
  /\ UNCHANGED <<config, window, timeline, worker, queue, stats, played>>

StartFails ==
  /\ OwnerAt("failed") /\ \A t \in Tracks : Exited(t)
  /\ OwnerGoes("idle")
  /\ worker' = [t \in Tracks |-> [worker[t] EXCEPT !.at = "none"]]
  /\ UNCHANGED <<config, flags, window, timeline, queue, stats, played>>

\* Stop, or Init, which begins with it.
StopBegins ==
  /\ OwnerAt("idle") /\ owner.starts > 0
  /\ \/ OwnerGoes("stop")
     \/ OwnerGoes("init")
  /\ flags' = [flags EXCEPT !.stop = TRUE, !.paused = FALSE]
  /\ UNCHANGED <<config, window, timeline, worker, queue, stats, played>>

Joined == (OwnerAt("stop") \/ OwnerAt("init")) /\ \A t \in Tracks : Exited(t)

\* The workers have been joined; a stop forgets the origin but not that the picture had started.
StopEnds ==
  /\ Joined
  /\ OwnerGoes("idle")
  /\ flags' = IF OwnerAt("init")
              THEN [f \in DOMAIN flags |-> FALSE]
              ELSE [flags EXCEPT !.running = FALSE, !.done = TRUE]
  /\ worker' = [t \in Tracks |-> NoWorker]
  /\ queue' = [t \in Tracks |-> <<>>]
  /\ IF OwnerAt("init")
     THEN /\ timeline' = [origin |-> NoStamp, announced |-> FALSE]
          /\ stats' = [t \in Tracks |-> [submitted |-> 0, rendered |-> 0, dropped |-> 0]]
          /\ played' = [t \in Tracks |-> [last |-> 0, ordered |-> TRUE, gone |-> 0]]
     ELSE /\ timeline' = [timeline EXCEPT !.origin = NoStamp]
          /\ played' = [t \in Tracks |-> [played[t] EXCEPT !.gone = @ + Len(queue[t])]]
          /\ UNCHANGED stats
  /\ UNCHANGED <<config, window>>

-----------------------------------------------------------------------------
(* Pause, Resume, the window *)

Pause ==
  /\ flags.running /\ ~flags.paused /\ window.pauses < MaxPauses
  /\ flags' = [flags EXCEPT !.paused = TRUE]
  /\ window' = [window EXCEPT !.pauses = @ + 1]
  /\ UNCHANGED <<config, owner, timeline, worker, queue, stats, played>>

Resume ==
  /\ flags.running /\ flags.paused
  /\ flags' = [flags EXCEPT !.paused = FALSE]
  /\ UNCHANGED <<config, owner, window, timeline, worker, queue, stats, played>>

UserCloses ==
  /\ worker["video"].at \in {"loop", "sync", "render"} /\ ~window.closed
  /\ window' = [window EXCEPT !.closed = TRUE]
  /\ UNCHANGED <<config, owner, flags, timeline, worker, queue, stats, played>>

-----------------------------------------------------------------------------
(* SubmitFrame *)

Count(t, what, n) == [stats EXCEPT ![t][what] = @ + n]
Stamps == {NoStamp} \cup 0 .. MaxStamp
Limit(t) == IF t = "video" THEN MaxVideoQueue ELSE MaxAudioQueue

Room(t) == Len(queue[t]) < Limit(t)

\* A full queue sheds its oldest frame; that of the video the new one, unless the latest is kept.
Queued(t, f) ==
  IF Room(t) THEN Append(queue[t], f)
  ELSE IF t = "audio" \/ config.keepLatest THEN Append(Tail(queue[t]), f) ELSE queue[t]
Shed(t) == IF Room(t) THEN 0 ELSE 1
Frame(t, stamp) == [n |-> stats[t].submitted + 1, stamp |-> stamp]

\* RebaseQueuedFramesLocked for an origin: the audio of before it that leads the queue goes.
Preroll(o) ==
  LET old(f) == f.stamp # NoStamp /\ f.stamp < o
      q == queue["audio"]
  IN  Cardinality({i \in 1 .. Len(q) : \A j \in 1 .. i : old(q[j])})

Accepts(t) == flags.running /\ ~flags.stop /\ Enabled(t) /\ stats[t].submitted < MaxFrames

\* The first video frame with a time stamp sets the origin, for the audio that is queued too.
SubmitFirstVideo ==
  /\ Accepts("video") /\ timeline.origin = NoStamp
  /\ \E o \in 0 .. MaxStamp :
       /\ timeline' = [timeline EXCEPT !.origin = o]
       /\ queue' = [video |-> Queued("video", Frame("video", o)),
                    audio |-> SubSeq(queue["audio"], Preroll(o) + 1, Len(queue["audio"]))]
       /\ stats' = [video |-> [stats["video"] EXCEPT !.submitted = @ + 1, !.dropped = @ + Shed("video")],
                    audio |-> [stats["audio"] EXCEPT !.dropped = @ + Preroll(o)]]
  /\ UNCHANGED <<config, owner, flags, window, worker, played>>

SubmitVideo ==
  /\ Accepts("video")
  /\ \E s \in IF timeline.origin = NoStamp THEN {NoStamp} ELSE Stamps :
       queue' = [queue EXCEPT !["video"] = Queued("video", Frame("video", s))]
  /\ stats' = [stats EXCEPT !["video"].submitted = @ + 1, !["video"].dropped = @ + Shed("video")]
  /\ UNCHANGED <<config, owner, flags, window, timeline, worker, played>>

\* Audio without a device, or of before the origin, is dropped; before there is an origin it is
\* queued as it is.
SubmitAudio ==
  /\ Accepts("audio")
  /\ \E s \in Stamps :
       LET early == s # NoStamp /\ timeline.origin # NoStamp /\ s < timeline.origin
           taken == worker["audio"].available /\ ~early
       IN  /\ queue' = IF taken THEN [queue EXCEPT !["audio"] = Queued("audio", Frame("audio", s))]
                       ELSE queue
           /\ stats' = [stats EXCEPT !["audio"].submitted = @ + 1,
                                     !["audio"].dropped = @ + IF taken THEN Shed("audio") ELSE 1]
  /\ UNCHANGED <<config, owner, flags, window, timeline, worker, played>>

-----------------------------------------------------------------------------
(* The workers *)

At(t, a) == worker[t].at = a
Goes(t, a) == worker' = [worker EXCEPT ![t].at = a]
\* The thread shuts its renderer down and ends.
Ends(t) ==
  /\ worker' = [worker EXCEPT ![t].at = "exited", ![t].hand = <<>>, ![t].available = FALSE]
  /\ window' = IF t = "video" THEN [window EXCEPT !.closed = FALSE] ELSE window
Frees(t, a) == worker' = [worker EXCEPT ![t].at = a, ![t].hand = <<>>]

\* CompleteStartupLocked: when both have answered; audio may be missing if it is not required.
CompleteStartup(answers) ==
  IF flags.done \/ \E t \in Tracks : ~answers[t].answered THEN flags
  ELSE LET ok == /\ answers["video"].available
                 /\ config.audio /\ config.audioRequired => answers["audio"].available
       IN  [flags EXCEPT !.done = TRUE, !.success = ok, !.running = ok, !.stop = @ \/ ~ok]

\* The renderer's Init, in the worker's thread.
InitRenderer(t) ==
  /\ At(t, "init")
  /\ \E ok \in BOOLEAN :
       LET answers == [worker EXCEPT ![t] = [@ EXCEPT !.answered = TRUE, !.available = ok,
                                                      !.at = IF ok THEN "loop" ELSE "exited"]]
       IN  worker' = answers /\ flags' = CompleteStartup(answers)
  /\ UNCHANGED <<config, owner, window, timeline, queue, stats, played>>

\* The next round of the loop.  The predicate of the wait asks for an origin, but the wait times out and
\* what follows only asks for a frame.
Take(t) ==
  /\ At(t, "loop") /\ ~flags.stop /\ ~flags.paused /\ queue[t] # <<>>
  /\ worker' = [worker EXCEPT ![t].at = "sync", ![t].hand = <<Head(queue[t])>>]
  /\ queue' = [queue EXCEPT ![t] = Tail(@)]
  /\ UNCHANGED <<config, owner, flags, window, timeline, stats, played>>

LeaveLoop(t) ==
  /\ At(t, "loop") /\ flags.stop
  /\ Ends(t)
  /\ UNCHANGED <<config, owner, flags, timeline, queue, stats, played>>

\* PollEvents and ShouldClose, at the end of a round of the video worker.
Poll ==
  /\ At("video", "loop") /\ window.closed /\ (flags.running \/ ~flags.stop)
  /\ flags' = [flags EXCEPT !.stop = TRUE, !.running = FALSE]
  /\ UNCHANGED <<config, owner, window, timeline, worker, queue, stats, played>>

\* The schedule says render: the first picture opens the gate of the sound.
SyncVideo ==
  /\ At("video", "sync")
  /\ Goes("video", "render")
  /\ timeline' = [timeline EXCEPT !.announced = TRUE]
  /\ UNCHANGED <<config, owner, flags, window, queue, stats, played>>

SyncDrops ==
  /\ At("video", "sync")
  /\ Frees("video", "loop")
  /\ stats' = Count("video", "dropped", 1)
  /\ UNCHANGED <<config, owner, flags, window, timeline, queue, played>>

\* Sound waits for the picture and for its time; without a time stamp it waits for neither.
SyncAudio ==
  /\ At("audio", "sync")
  /\ \/ worker["audio"].hand[1].stamp = NoStamp
     \/ ~flags.stop /\ timeline.announced
  /\ Goes("audio", "render")
  /\ UNCHANGED <<config, owner, flags, window, timeline, queue, stats, played>>

\* Sound without a time stamp does not wait.
Waits(t) == At(t, "sync") /\ (t = "audio" => worker[t].hand[1].stamp # NoStamp)

\* Defect: the frame goes to the end of the queue.
RequeueAtEnd(t) ==
  /\ Waits(t) /\ flags.paused /\ ~flags.stop
  /\ Frees(t, "loop")
  /\ queue' = [queue EXCEPT ![t] = @ \o worker[t].hand]
  /\ UNCHANGED <<config, owner, flags, window, timeline, stats, played>>

\* A pause met while waiting puts the frame back in front, whatever the room.
Requeue(t) ==
  /\ Waits(t) /\ flags.paused /\ ~flags.stop
  /\ Frees(t, "loop")
  /\ queue' = [queue EXCEPT ![t] = worker[t].hand \o @]
  /\ UNCHANGED <<config, owner, flags, window, timeline, stats, played>>

\* Defect: a frame that waits for its time waits on after a stop.
SyncStopsDeaf(t) == FALSE /\ UNCHANGED vars

\* A stop met while waiting ends the worker with the frame in its hand.
SyncStops(t) ==
  /\ Waits(t) /\ flags.stop
  /\ Ends(t)
  /\ played' = [played EXCEPT ![t].gone = @ + 1]
  /\ UNCHANGED <<config, owner, flags, timeline, queue, stats>>

\* Render, or its failure, which stops the session.
Render(t) ==
  /\ At(t, "render")
  /\ Frees(t, "loop")
  /\ LET n == worker[t].hand[1].n
     IN  \/ /\ stats' = Count(t, "rendered", 1)
            /\ played' = [played EXCEPT ![t].last = n, ![t].ordered = @ /\ played[t].last < n]
            /\ UNCHANGED flags
         \/ /\ flags' = [flags EXCEPT !.stop = TRUE, !.running = FALSE]
            /\ played' = [played EXCEPT ![t].gone = @ + 1]
            /\ UNCHANGED stats
  /\ UNCHANGED <<config, owner, window, timeline, queue>>

-----------------------------------------------------------------------------
OwnerStep == StartCreates \/ StartThrows \/ StartAnswered \/ StartFails \/ StopEnds

VideoStep ==
  \/ InitRenderer("video") \/ Take("video") \/ LeaveLoop("video") \/ Poll \/ SyncVideo \/ SyncDrops
  \/ Requeue("video") \/ SyncStops("video") \/ Render("video")

AudioStep ==
  \/ InitRenderer("audio") \/ Take("audio") \/ LeaveLoop("audio") \/ SyncAudio
  \/ Requeue("audio") \/ SyncStops("audio") \/ Render("audio")

Next ==
  \/ StartBegins \/ StopBegins \/ OwnerStep \/ VideoStep \/ AudioStep
  \/ Pause \/ Resume \/ UserCloses
  \/ SubmitFirstVideo \/ SubmitVideo \/ SubmitAudio

Spec == Init /\ [][Next]_vars

-----------------------------------------------------------------------------
(* Properties *)

Frames == [n : 1 .. MaxFrames, stamp : Stamps]

\* Types, and the limits of the queues: a pause may put one frame back into a full one.
TypeOK ==
  /\ owner \in [at : {"idle", "start", "wait", "failed", "stop", "init"}, starts : 0 .. MaxStarts]
  /\ flags \in [running : BOOLEAN, stop : BOOLEAN, paused : BOOLEAN, done : BOOLEAN,
                success : BOOLEAN]
  /\ timeline.origin \in Stamps
  /\ \A t \in Tracks :
       /\ worker[t].at \in {"none", "init", "loop", "sync", "render", "exited"}
       /\ worker[t].hand # <<>> <=> worker[t].at \in {"sync", "render"}
       /\ queue[t] \in Seq(Frames) /\ worker[t].hand \in Seq(Frames)
       /\ Len(queue[t]) <= Limit(t) + window.pauses

\* Pausing, falling behind, a missing device and a full queue lose no frame silently: every frame
\* submitted is rendered, counted as dropped, still on its way, or went with a stop
\* (render_session.cpp:218-291, 830-838, 945-959).
FramesAccountedFor ==
  \A t \in Tracks :
    stats[t].submitted = stats[t].rendered + stats[t].dropped + played[t].gone
                           + Len(queue[t]) + Len(worker[t].hand)

\* A track is rendered in the order of SubmitFrame, however often it is paused and resumed.
RenderedInOrder == \A t \in Tracks : played[t].ordered

\* Nothing a track is given is lost or overtaken on its way.
FramesKept == TypeOK /\ FramesAccountedFor /\ RenderedInOrder

\* A session that runs and is not asked to stop has its workers in their loops: both have answered,
\* and a missing audio worker is one the configuration can do without.
RunningIsStaffed ==
  flags.running /\ ~flags.stop =>
    \A t \in Tracks : Enabled(t) =>
      \/ worker[t].at \in {"loop", "sync", "render"}
      \/ t = "audio" /\ ~config.audioRequired /\ ~worker[t].available

\* Once Start has its new threads, and in Stop and Init, the owner never waits for threads that all
\* wait themselves, whatever the renderers answer, wherever the workers are and whatever the user
\* does (render_session.cpp:136-216, 293-321).  Not so for a Start that still joins the threads of
\* a session that stopped by itself: it has taken back the stop they were to see.
NoCallHangs ==
  owner.at \notin {"idle", "start"} => ENABLED (OwnerStep \/ VideoStep \/ AudioStep)

\* What Start has answered is so, and it does answer.
CallsGetOn == RunningIsStaffed /\ NoCallHangs

=============================================================================
