----------------------------- MODULE PlaybackTiming -----------------------------
(***************************************************************************)
(* Sound as the master of the picture: the PCM queue and the timeline of   *)
(* the sound device (render/audio), the clock that follows it              *)
(* (UnifiedClock of mediaflow/media_timing.cpp), and what RenderSession    *)
(* makes of the clock: when sound is handed to the device, and when a      *)
(* picture, its time stamp put right by VideoPtsNormalizer, is shown,      *)
(* dropped or kept waiting.                                                *)
(*                                                                         *)
(* One unit of time is one frame of the device; rounding is left out.      *)
(* Three threads - the device thread of the renderer, the audio worker and *)
(* the video worker of the session - and the device itself take steps; the *)
(* padding of the device, the queue and the timeline are read one after  *)
(* the other, as in the code.  A timed wait may end at any moment.  The    *)
(* session's own queues, its start and its stop are in RenderSession.      *)
(***************************************************************************)
EXTENDS Integers, FiniteSets, SequencesExt

CONSTANTS
  Buffer,      \* buffer_frame_count_: frames the device holds
  Quantum,     \* frames of a silence the fill policy asks for, sample_rate / 100
  Capacity,    \* capacity_chunks_
  Lead,        \* buffer_duration_ms and playback_buffer_ms together
  Early, Late, \* early_threshold_us, late_threshold_us
  MaxLag,      \* max_video_lag_us, 0 for none
  FrameTime,   \* duration of a picture
  MaxJump,     \* max_jump_ms
  Chunks,      \* sound that comes: [n : frames, gap : time missing before it, stamped : BOOLEAN]
  Stamps,      \* time stamps of the pictures
  MaxTime, MaxPosition, MaxChunks, MaxPictures, MaxPauses   \* bounds

VARIABLES
  time,     \* ticks and calls of Pause so far, and whether the session is paused
  source,   \* the sound that comes: the time it has got to, chunks so far, and the frame put back
  pcm,      \* AudioPcmQueue::queue_: [n, pts] each
  device,   \* what was ever given to the device, frame by frame its time stamp, and padding
  writer,   \* the device thread: where it is, active_chunk, frames asked for, device_segments
  ledger,   \* device_timeline_, device_written_frames_, last_played_pts_us_
  feeder,   \* the audio worker: where it is, the frame in its hand, whether it has rendered any, the
            \* padding read; history: frames heard then, and whether none was released since
  clock,    \* UnifiedClock: the system position, running_ and paused_, and the audio position
  picture   \* the video worker: the frame in its hand, the one put back, the normaliser, whether the
            \* first was shown

vars == <<time, source, pcm, device, writer, ledger, feeder, clock, picture>>

NoStamp == -1
Silence == [n |-> 0, pts |-> NoStamp]
Lesser(a, b) == IF a < b THEN a ELSE b
Greater(a, b) == IF a > b THEN a ELSE b
Later(pts, n) == IF pts = NoStamp THEN NoStamp ELSE pts + n

\* The session has started: the device's buffer is filled with silence that no timeline knows of, and
\* the clock runs from 0, where SetSystemPositionUs puts it for the first picture.
Init ==
  /\ time = [ticks |-> 0, pauses |-> 0, paused |-> FALSE]
  /\ source = [at |-> 0, n |-> 0, back |-> Silence]
  /\ pcm = <<>>
  /\ device = [tape |-> [i \in 1 .. Buffer |-> NoStamp], padding |-> Buffer]
  /\ writer = [at |-> "sleep", active |-> Silence, want |-> 0, segments |-> <<>>]
  /\ ledger = [segments |-> <<>>, written |-> 0, last |-> NoStamp]
  /\ feeder = [at |-> "idle", hand |-> Silence, rendered |-> FALSE, padding |-> 0, heard |-> 0, fresh |-> TRUE]
  /\ clock = [position |-> 0, running |-> TRUE, paused |-> FALSE, audio |-> NoStamp]
  /\ picture = [hand |-> NoStamp, back |-> NoStamp, known |-> FALSE, input |-> 0, output |-> 0, announced |-> FALSE, n |-> 0]

-----------------------------------------------------------------------------
(* The device, and time. *)

Heard == Len(device.tape) - device.padding

\* The device plays a frame; SystemPositionUsLocked moves on with the steady clock, to a bound above
\* all time stamps.  Time is only bounded while the device is given frames.
Tick ==
  /\ writer.at = "ended" \/ time.ticks < MaxTime
  /\ time' = IF writer.at = "ended" THEN time ELSE [time EXCEPT !.ticks = @ + 1]
  /\ device' = [device EXCEPT !.padding = Greater(@ - 1, 0)]
  /\ clock' = IF clock.running /\ ~clock.paused THEN [clock EXCEPT !.position = Lesser(@ + 1, MaxPosition)]
              ELSE clock
  /\ UNCHANGED <<source, pcm, writer, ledger, feeder, picture>>

-----------------------------------------------------------------------------
(* The device thread: FillWasapiBuffer. *)

FramesOf(chunks) == FoldLeft(LAMBDA sum, c : sum + c.n, 0, chunks)

\* AudioBufferFillPolicy::Plan over the padding and what is queued.
Plan(available) ==
  LET sound == Lesser(available, writer.active.n + FramesOf(pcm))
  IN  IF sound > 0 THEN [want |-> sound, silent |-> FALSE]
      ELSE [want |-> Lesser(available, Quantum), silent |-> TRUE]

PlanFill ==
  /\ writer.at = "sleep" /\ device.padding < Buffer
  /\ LET plan == Plan(Buffer - device.padding)
     IN  writer' = [writer EXCEPT !.at = IF plan.silent THEN "silence" ELSE "copy", !.want = plan.want]
  /\ UNCHANGED <<time, source, pcm, device, ledger, feeder, clock, picture>>

\* The copying loop: a chunk gives what is still missing, and keeps the rest.
Pour(p, chunk) ==
  LET n == Lesser(p.missing, chunk.n)
      rest == [n |-> chunk.n - n, pts |-> Later(chunk.pts, n)]
  IN  IF p.missing = 0 THEN [p EXCEPT !.queue = Append(@, chunk)]
      ELSE [missing |-> p.missing - n,
            segments |-> IF n = 0 THEN p.segments ELSE Append(p.segments, [n |-> n, pts |-> chunk.pts]),
            active |-> IF rest.n = 0 THEN Silence ELSE rest,
            queue |-> p.queue]

\* From the chunk in hand, those queued, and silence where they were shed since the plan.
Poured ==
  LET p == FoldLeft(Pour, [missing |-> writer.want, segments |-> <<>>, active |-> Silence, queue |-> <<>>],
                    <<writer.active>> \o IF writer.at = "copy" THEN pcm ELSE <<>>)
  IN  IF p.missing = 0 THEN p ELSE [p EXCEPT !.segments = Append(@, [n |-> p.missing, pts |-> NoStamp])]

Frames(s) == [i \in 1 .. s.n |-> Later(s.pts, i - 1)]

\* FillWasapiBuffer up to ReleaseBuffer: the device has the frames, the timeline does not know of them.
Release ==
  /\ writer.at \in {"copy", "silence"}
  /\ device' = [tape |-> FoldLeft(LAMBDA tape, s : tape \o Frames(s), device.tape, Poured.segments),
                padding |-> device.padding + writer.want]
  /\ writer' = [at |-> "record", active |-> Poured.active, want |-> 0, segments |-> Poured.segments]
  /\ pcm' = IF writer.at = "copy" THEN Poured.queue ELSE pcm
  /\ feeder' = [feeder EXCEPT !.fresh = @ /\ feeder.at # "reading"]
  /\ UNCHANGED <<time, source, ledger, clock, picture>>

\* Defect: silence lengthens the segment before it, whatever that is.
RecordedOntoSound(t, s) ==
  LET end == t.written + s.n
      joins == s.pts = NoStamp /\ t.segments # <<>>
  IN  [t EXCEPT !.written = end,
                !.segments = IF joins THEN Front(@) \o <<[Last(@) EXCEPT !.to = end]>>
                             ELSE Append(@, [from |-> t.written, to |-> end, pts |-> s.pts])]

\* RecordDeviceFrames: silence that follows silence lengthens it.
Recorded(t, s) ==
  LET end == t.written + s.n
      joins == s.pts = NoStamp /\ t.segments # <<>> /\ Last(t.segments).pts = NoStamp
  IN  [t EXCEPT !.written = end,
                !.segments = IF joins THEN Front(@) \o <<[Last(@) EXCEPT !.to = end]>>
                             ELSE Append(@, [from |-> t.written, to |-> end, pts |-> s.pts])]

\* RecordDeviceMediaFrames, RecordDeviceSilenceFrames, one lock each.
Record ==
  /\ writer.at = "record"
  /\ ledger' = Recorded(ledger, Head(writer.segments))
  /\ writer' = [writer EXCEPT !.segments = Tail(@), !.at = IF Len(writer.segments) = 1 THEN "sleep" ELSE @]
  /\ UNCHANGED <<time, source, pcm, device, feeder, clock, picture>>

\* GetBuffer or ReleaseBuffer fails: the thread ends, and nobody is told.
WriterEnds ==
  /\ writer.at \in {"copy", "silence"}
  /\ writer' = [at |-> "ended", active |-> Silence, want |-> 0, segments |-> <<>>]
  /\ UNCHANGED <<time, source, pcm, device, ledger, feeder, clock, picture>>

-----------------------------------------------------------------------------
(* Where the sound is: PlayedPtsUs, and the clock that is told.            *)

Played(written, padding) == Greater(written - padding, 0)

\* The segments behind the position go, all but the last.
Pruned(segments, played) ==
  LET passed == {i \in 2 .. Len(segments) : segments[i].to <= played}
  IN  SubSeq(segments, 1 + Cardinality(passed), Len(segments))

Position(t, played) ==
  LET ahead == SelectSeq(t.segments, LAMBDA s : played < s.to)
  IN  IF ahead = <<>> \/ Head(ahead).pts = NoStamp THEN t.last
      ELSE Head(ahead).pts + Greater(played - Head(ahead).from, 0)

\* UpdateAudioPosition, in the one generation of the session; a clock that was paused runs.
UpdateAudioPosition(c, pts) == [position |-> pts, running |-> TRUE, paused |-> FALSE, audio |-> pts]

\* RefreshAudioClockPosition asks the device for its padding, once a frame of sound has been rendered ...
ReadPadding ==
  /\ feeder.at \in {"idle", "refresh"} /\ feeder.rendered
  /\ feeder' = [feeder EXCEPT !.at = "reading", !.padding = device.padding, !.heard = Heard,
                              !.fresh = writer.at # "record"]
  /\ UNCHANGED <<time, source, pcm, device, writer, ledger, clock, picture>>

\* ... and then, under the timeline's lock, where that is in the sound.
ReadTimeline ==
  /\ feeder.at = "reading"
  /\ LET played == Played(ledger.written, feeder.padding)
         pts == Position(ledger, played)
     IN  /\ ledger' = [ledger EXCEPT !.segments = Pruned(@, played), !.last = pts]
         /\ clock' = IF pts = NoStamp THEN clock ELSE UpdateAudioPosition(clock, pts)
  /\ feeder' = [feeder EXCEPT !.at = IF feeder.hand.n = 0 THEN "idle" ELSE "wait",
                              !.padding = 0, !.heard = 0, !.fresh = TRUE]
  /\ UNCHANGED <<time, source, pcm, device, writer, picture>>

-----------------------------------------------------------------------------
(* The audio worker.                                                       *)

\* The loop refreshes the clock before it looks at it.
Looks == IF feeder.rendered THEN "refresh" ELSE "wait"

\* What comes next: the frame that was put back, or a new one.
Coming ==
  IF source.back.n > 0 THEN {[sound |-> source.back, source |-> [source EXCEPT !.back = Silence]]}
  ELSE {[sound |-> [n |-> c.n, pts |-> IF c.stamped THEN source.at + c.gap ELSE NoStamp],
         source |-> [source EXCEPT !.at = @ + c.gap + c.n, !.n = @ + 1]] : c \in Chunks}

TakeSound ==
  /\ feeder.at = "idle" /\ ~time.paused /\ (source.n < MaxChunks \/ source.back.n > 0)
  /\ \E c \in Coming :
       /\ source' = c.source
       /\ feeder' = [feeder EXCEPT !.hand = c.sound, !.at = IF c.sound.pts = NoStamp THEN "wait" ELSE Looks]
  /\ UNCHANGED <<time, pcm, device, writer, ledger, clock, picture>>

AllowedLead == IF clock.audio = NoStamp THEN 0 ELSE Lead

\* PrepareAudioFrameForRender: the first picture has been shown and the time of the sound has nearly
\* come; sound without a time stamp does not wait.
SoundInTime ==
  \/ feeder.hand.pts = NoStamp
  \/ picture.announced /\ feeder.hand.pts <= clock.position + AllowedLead

SoundWaits ==
  /\ feeder.at = "wait" /\ ~SoundInTime /\ ~time.paused /\ feeder.rendered
  /\ feeder' = [feeder EXCEPT !.at = "refresh"]
  /\ UNCHANGED <<time, source, pcm, device, writer, ledger, clock, picture>>

\* A pause ends the wait: the frame goes back to the head of the session's queue.
PutSoundBack ==
  /\ feeder.at = "wait" /\ ~SoundInTime /\ time.paused
  /\ feeder' = [feeder EXCEPT !.at = "idle", !.hand = Silence]
  /\ source' = [source EXCEPT !.back = feeder.hand]
  /\ UNCHANGED <<time, pcm, device, writer, ledger, clock, picture>>

\* AudioPcmQueue::Enqueue: a full queue sheds its oldest chunk.
Enqueued(q, c) == Append(IF Len(q) >= Capacity THEN Tail(q) ELSE q, c)

RenderSound ==
  /\ feeder.at = "wait" /\ SoundInTime
  /\ pcm' = Enqueued(pcm, feeder.hand)
  /\ feeder' = [feeder EXCEPT !.at = "refresh", !.hand = Silence, !.rendered = TRUE]
  /\ UNCHANGED <<time, source, device, writer, ledger, clock, picture>>

-----------------------------------------------------------------------------
(* The video worker.                                                       *)

\* VideoPtsNormalizer::Normalize
Normalize(pts) ==
  LET expected == picture.output + FrameTime
      jump == MaxJump > 0 /\ (pts - expected > MaxJump \/ expected - pts > MaxJump)
  IN  IF ~picture.known THEN Greater(pts, 0)
      ELSE IF pts <= 0 \/ pts <= picture.input \/ jump THEN expected ELSE pts

\* A picture that was put back comes with the time stamp it was given, and is normalised again.
TakePicture ==
  /\ picture.hand = NoStamp /\ ~time.paused /\ (picture.n < MaxPictures \/ picture.back # NoStamp)
  /\ \E pts \in IF picture.back = NoStamp THEN Stamps ELSE {picture.back} :
       picture' = [picture EXCEPT !.hand = Normalize(pts), !.known = TRUE, !.input = pts, !.back = NoStamp,
                                  !.output = Normalize(pts), !.n = IF picture.back = NoStamp THEN @ + 1 ELSE @]
  /\ UNCHANGED <<time, source, pcm, device, writer, ledger, feeder, clock>>

\* Snapshot: the sound's position, as it was last told, or the system's.
Snapshot == IF clock.audio = NoStamp THEN clock.position ELSE clock.audio

\* Defect: the picture is measured against the system clock.
DecideBySystem(pts) ==
  LET delta == pts - clock.position
  IN  IF delta < -Late THEN "drop" ELSE IF delta > Early THEN "wait" ELSE "render"

\* VideoPtsScheduler::Decide of a picture that is no keyframe, as the session calls it.
Decide(pts) ==
  LET delta == pts - Snapshot
  IN  IF (MaxLag > 0 /\ delta < -MaxLag) \/ delta < -Late THEN "drop"
      ELSE IF delta > Early THEN "wait" ELSE "render"

ShowPicture ==
  /\ picture.hand # NoStamp /\ Decide(picture.hand) = "render"
  /\ picture' = [picture EXCEPT !.hand = NoStamp, !.announced = TRUE]
  /\ UNCHANGED <<time, source, pcm, device, writer, ledger, feeder, clock>>

DropPicture ==
  /\ picture.hand # NoStamp /\ Decide(picture.hand) = "drop"
  /\ picture' = [picture EXCEPT !.hand = NoStamp]
  /\ UNCHANGED <<time, source, pcm, device, writer, ledger, feeder, clock>>

PutPictureBack ==
  /\ picture.hand # NoStamp /\ Decide(picture.hand) = "wait" /\ time.paused
  /\ picture' = [picture EXCEPT !.hand = NoStamp, !.back = picture.hand]
  /\ UNCHANGED <<time, source, pcm, device, writer, ledger, feeder, clock>>

-----------------------------------------------------------------------------
(* Pause and Resume of the session, with the clock's.                      *)

Pause ==
  /\ ~time.paused /\ time.pauses < MaxPauses
  /\ time' = [time EXCEPT !.paused = TRUE, !.pauses = @ + 1]
  /\ clock' = [clock EXCEPT !.paused = clock.running \/ @]
  /\ UNCHANGED <<source, pcm, device, writer, ledger, feeder, picture>>

Resume ==
  /\ time.paused
  /\ time' = [time EXCEPT !.paused = FALSE]
  /\ clock' = [clock EXCEPT !.paused = FALSE]
  /\ UNCHANGED <<source, pcm, device, writer, ledger, feeder, picture>>

-----------------------------------------------------------------------------
DeviceThread == PlanFill \/ Release \/ Record \/ WriterEnds
AudioWorker == ReadPadding \/ ReadTimeline \/ TakeSound \/ SoundWaits \/ PutSoundBack \/ RenderSound
VideoWorker == TakePicture \/ ShowPicture \/ DropPicture \/ PutPictureBack

Next == Tick \/ DeviceThread \/ AudioWorker \/ VideoWorker \/ Pause \/ Resume

Spec == Init /\ [][Next]_vars

\* The device plays, and the threads, which only wait with a timeout, run.
Fairness == WF_vars(Tick) /\ WF_vars(DeviceThread) /\ WF_vars(AudioWorker) /\ WF_vars(VideoWorker)
FairSpec == Spec /\ Fairness

-----------------------------------------------------------------------------
(* Properties *)

Given == {device.tape[i] : i \in 1 .. Len(device.tape)} \ {NoStamp}

\* Where the clock is told the sound is: a frame the device has been given, so never further ahead
\* than its buffer; when the device was given nothing while it was asked, exactly the frame it had
\* come to; and, sound all around, never more than two buffers behind, whatever the device thread
\* had released and not recorded (audio_pcm_queue.cpp:121-191, wasapi_audio_renderer.cpp:376-499).
MasterTellsTheSound ==
  [][ReadTimeline /\ clock'.audio # NoStamp =>
       LET asked == feeder.heard + 1
           sound(i) == i \in Buffer + 1 .. Len(device.tape) /\ device.tape[i] # NoStamp
       IN  /\ clock'.audio \in Given
           /\ feeder.fresh /\ sound(asked) /\ Head(ledger.segments).from < asked - Buffer
              => clock'.audio = device.tape[asked]
           /\ feeder.padding > 0 /\ (\A i \in asked - Buffer .. Len(device.tape) : sound(i))
              => clock'.audio >= device.tape[asked - Buffer]
    ]_vars

\* Lip synchronisation, once sound is the master: a picture is shown at most the early threshold
\* before sound that is in the device already, and only dropped when sound later than its time and
\* the late threshold is (render_session.cpp:883-965, media_timing.cpp:211-262).
PicturesFollowTheSound ==
  [][/\ ShowPicture /\ clock.audio # NoStamp => \E s \in Given : picture.hand <= s + Early
     /\ DropPicture /\ clock.audio # NoStamp =>
          \E s \in Given : picture.hand + Lesser(Late, IF MaxLag > 0 THEN MaxLag ELSE Late) < s
    ]_vars

\* While the position of the sound cannot be had - its device is gone - the clock goes on from the
\* last one by the steady clock (media_timing.h:41-44), so that no picture waits for good.  The code
\* keeps the last position for the time (media_timing.cpp:133-141), and the picture freezes.
PicturesGoOn == writer.at = "ended" /\ picture.hand # NoStamp ~> picture.hand = NoStamp

=============================================================================
