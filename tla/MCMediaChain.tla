---------------------------- MODULE MCMediaChain ----------------------------
(***************************************************************************)
(* The instance of MediaChain that TLC checks, and, beside it, the data    *)
(* the chain carries: small pictures and sounds, each handed to the        *)
(* functions of EncoderInput and FramePlanes while the chain stands still. *)
(***************************************************************************)
EXTENDS MediaChain

Data == INSTANCE EncoderInput

\* No stream is configured: the router takes the first one it sees.
FirstSeen == -1

VARIABLE sample   \* the picture or sound that is tried, none while the chain moves

Nothing == [kind |-> "none"]
TriedFrames ==
  UNION {{Data!Decoded(f, w, h), Data!Untold(f, w, h), Data!Padded(f, w, h)} :
           f \in Data!Formats, w \in 1 .. 4, h \in 1 .. 4}
Pictures == {[kind |-> "picture", frame |-> f] : f \in TriedFrames}
\* Frames of up to 3 samples into a codec that takes 2 at a time, whose clock is the sampling
\* rate, finer or coarser.
Sounds ==
  {[kind |-> "sound", lengths |-> l, start |-> s, size |-> 2, rate |-> r, ticks |-> t] :
     l \in UNION {[1 .. n -> 1 .. 3] : n \in 1 .. 3}, s \in {-1, 0, 5}, r \in {3, 4}, t \in {2, 3, 10}}

Layouts ==
  {[kind |-> "layout", planar |-> p, channels |-> c, samples |-> n] :
     p \in BOOLEAN, c \in 1 .. 3, n \in 1 .. 3}
\* Up to 3 frames, some of them without a stamp, through time bases that do not divide each other.
Stamps ==
  {[kind |-> "stamps", stamps |-> s, source |-> a, decoder |-> b, encoder |-> c] :
     s \in UNION {[1 .. n -> {-1, 0, 4, 7}] : n \in 1 .. 3},
     a \in {Data!Base(1, 9), Data!Base(1, 2)}, b \in {Data!Base(1, 9), Data!Base(1, 4)},
     c \in {Data!Base(1, 10), Data!Base(1, 3), Data!Base(2, 5)}}

MCInit == Init /\ sample \in {Nothing} \cup Pictures \cup Sounds \cup Layouts \cup Stamps
MCNext == sample = Nothing /\ Next /\ UNCHANGED sample
MCSpec == MCInit /\ [][MCNext]_<<vars, sample>> /\ Fairness

\* Whoever takes a decoded frame, the preview (frame_converter.cpp), the detector
\* (openvino_preprocessor.cpp) or the encoder in whatever format it needs
\* (ffmpeg_encoder.cpp:792-1244), finds every sample where the decoder has put it
\* (ffmpeg_decoder.cpp:360-385), with and without the description of the planes, for odd sizes
\* and padded rows.
PixelsInPlace ==
  sample.kind = "picture" =>
    /\ Data!ShownAsDecoded(sample.frame)
    /\ Data!InferredAsDecoded(sample.frame)
    /\ \A format \in Data!Formats, backend \in BOOLEAN : Data!EncodedAsDecoded(sample.frame, {format}, backend)

\* The queue in front of an encoder of fixed frame size loses and repeats no sample, its own
\* count of time stays with the samples (ffmpeg_encoder.cpp:496-600), and no channel is mistaken
\* for another where a frame is packed and unpacked (ffmpeg_frame_buffer.cpp:90-117).
SamplesKept ==
  /\ sample.kind = "sound" =>
       Data!SoundKept(sample.lengths, sample.start, sample.size, sample.rate, sample.ticks)
  /\ sample.kind = "layout" => Data!ChannelsKept(sample.planar, sample.channels, sample.samples)

\* What the encoder stamps on a frame is the time the source gave its packet, to half a tick of
\* every time base in between, and a frame that comes without a time follows those that were
\* encoded before it (ffmpeg_decoder.cpp:192-262, ffmpeg_encoder.cpp:1312-1323).
TimesKept ==
  sample.kind = "stamps" =>
    Data!StampsKept(sample.stamps, sample.source, sample.decoder, Data!Base(1, 12), sample.encoder)

=============================================================================
