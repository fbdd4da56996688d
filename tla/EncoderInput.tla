------------------------------ MODULE EncoderInput ------------------------------
(***************************************************************************)
(* What FFmpegEncoder (src/media/encoder/ffmpeg_encoder.cpp) makes of the  *)
(* frames it is given before libavcodec sees them: the pixel format it     *)
(* picks, the copy of a picture into it, and the queue that cuts sound     *)
(* into packets of the codec's size and stamps them.                       *)
(***************************************************************************)
EXTENDS FramePlanes

-----------------------------------------------------------------------------
(* Video.                                                                  *)

\* FindVideoEncoder: the format of the encoder for an input format, given what the codec
\* supports; "none" when there is none.  Only I420 has a substitute.
EncoderFormat(input, supported) ==
  CASE input \in supported -> input
    [] input \notin supported /\ input = "I420" /\ "NV12" \in supported -> "NV12"
    [] OTHER -> "none"

\* Rows of a plane of the picture handed to the codec: << >> for a plane that does not fit.
CopyPlane(f, offset, stride, rowBytes, rows) ==
  IF rows <= 0 \/ rowBytes <= 0 \/ stride < rowBytes \/ offset + stride * (rows - 1) + rowBytes > f.size
    THEN << >>
    ELSE [x \in (0 .. rows - 1) \X (0 .. rowBytes - 1) |-> Byte(f, offset + x[1] * stride + x[2])]

InterleaveChroma(f, u, v, w, h) ==
  IF u.stride < w \/ v.stride < w \/ u.offset + u.stride * (h - 1) + w > f.size
     \/ v.offset + v.stride * (h - 1) + w > f.size
    THEN << >>
    ELSE [x \in (0 .. h - 1) \X (0 .. 2 * w - 1) |->
            LET plane == IF x[2] % 2 = 0 THEN u ELSE v
            IN  Byte(f, plane.offset + x[1] * plane.stride + (x[2] \div 2))]

\* CopyPackedFrameToAVFrame for each layout of the source; dst is the encoder's format.
CopyI420(f, dst) ==
  LET y == [stride |-> Told(Stride(f, 0), f.width), offset |-> PlaneOffset(f, 0)]
      w == Half(f.width)  h == Half(f.height)
      u == [stride |-> Told(Stride(f, 1), w),
            offset |-> Told(PlaneOffset(f, 1), y.offset + y.stride * f.height)]
      v == [stride |-> Told(Stride(f, 2), w), offset |-> Told(PlaneOffset(f, 2), u.offset + u.stride * h)]
      luma == CopyPlane(f, y.offset, y.stride, f.width, f.height)
  IN  IF dst = "NV12" THEN <<luma, InterleaveChroma(f, u, v, w, h)>>
      ELSE <<luma, CopyPlane(f, u.offset, u.stride, w, h), CopyPlane(f, v.offset, v.stride, w, h)>>
CopyNv(f) ==
  LET stride == Told(Stride(f, 0), f.width)
  IN  <<CopyPlane(f, PlaneOffset(f, 0), stride, f.width, f.height),
        CopyPlane(f, Told(PlaneOffset(f, 1), PlaneOffset(f, 0) + stride * f.height),
                  Told(Stride(f, 1), f.width), f.width, Half(f.height))>>
CopySingle(f) ==
  LET n == RowBytes(f.format, f.width, 0)
  IN  <<CopyPlane(f, PlaneOffset(f, 0), Told(Stride(f, 0), n), n, f.height)>>
CopyPacked(f, dst) ==
  CASE f.format = "I420" -> CopyI420(f, dst)
    [] f.format \in Nv -> CopyNv(f)
    [] OTHER -> CopySingle(f)

\* CopyAVFrameToAVFrame: the decoder's own frame, plane by plane, instead of its packed copy.
CopyBackend(f, dst) ==
  LET plane(p) == [x \in (0 .. Rows(f.format, f.height, p) - 1) \X (0 .. RowBytes(f.format, f.width, p) - 1) |->
                     Sample(f.format, p, x[1], x[2])]
      uv == [x \in (0 .. Half(f.height) - 1) \X (0 .. 2 * Half(f.width) - 1) |->
               Sample("I420", 1 + (x[2] % 2), x[1], x[2] \div 2)]
  IN  IF dst = f.format THEN [p \in 1 .. PlaneCount(dst) |-> plane(p - 1)] ELSE <<plane(0), uv>>

\* Encode refuses a frame whose size or format is not the configured one, so that f has them.
BuildInputFrame(f, dst, backend) == IF backend THEN CopyBackend(f, dst) ELSE CopyPacked(f, dst)

\* Every byte of the codec's picture is the sample that belongs there.  Not claimed for a packed
\* NV12 or NV21 picture of odd width: the copy takes the width for the bytes of a chroma row.
EncodedAsDecoded(f, supported, backend) ==
  LET dst == EncoderFormat(f.format, supported)
      planes == BuildInputFrame(f, dst, backend)
  IN  dst # "none" /\ (backend \/ f.format \notin Nv \/ f.width % 2 = 0) =>
        /\ Len(planes) = PlaneCount(dst)
        /\ \A p \in 0 .. PlaneCount(dst) - 1 :
             planes[p + 1] = [x \in (0 .. Rows(dst, f.height, p) - 1) \X (0 .. RowBytes(dst, f.width, p) - 1) |->
                                Sample(dst, p, x[1], x[2])]

-----------------------------------------------------------------------------
(* Audio.  An encoder of fixed frame size keeps the samples that do not    *)
(* fill a frame in audio_fifo_ and counts the time stamps itself, from the *)
(* stamp of the first frame on.                                            *)

\* av_rescale_q, for n >= 0: to the nearest tick, halves away from zero.
RescaleQ(n, from, to) ==
  LET divisor == from.den * to.num
  IN  (2 * n * from.num * to.den + divisor) \div (2 * divisor)
Base(n, d) == [num |-> n, den |-> d]
Rescale(samples, rate, ticks) == RescaleQ(samples, Base(1, rate), Base(1, ticks))

NoStamp == -1
EmptyFifo == [samples |-> <<>>, next |-> NoStamp, packets |-> <<>>]

\* The frame of n samples that is handed to the codec.
EncoderFrame(fifo, n) ==
  [pts |-> IF fifo.next < 0 THEN 0 ELSE fifo.next, samples |-> SubSeq(fifo.samples, 1, n)]

\* send_fifo_frame, for a codec of the given rate whose time base is 1 / ticks.
SendFifoFrame(fifo, n, rate, ticks) ==
  LET frame == EncoderFrame(fifo, n)
  IN  [samples |-> SubSeq(fifo.samples, n + 1, Len(fifo.samples)),
       next |-> frame.pts + Rescale(n, rate, ticks),
       packets |-> Append(fifo.packets, frame)]

\* Mutation: what does not fill a frame is left behind when the next one comes.
DropsRemainder(fifo, frame, size, rate, ticks) ==
  LET first == [fifo EXCEPT !.samples = frame.samples, !.next = IF @ < 0 THEN frame.pts ELSE @]
  IN  FoldLeft(LAMBDA q, i : SendFifoFrame(q, size, rate, ticks), first,
               [i \in 1 .. Len(first.samples) \div size |-> i])

\* EncodeAudioFrame of a frame.
EncodeAudioFrame(fifo, frame, size, rate, ticks) ==
  LET filled == [fifo EXCEPT !.samples = @ \o frame.samples,
                             !.next = IF @ < 0 THEN (IF frame.pts >= 0 THEN frame.pts ELSE 0) ELSE @]
  IN  FoldLeft(LAMBDA q, i : SendFifoFrame(q, size, rate, ticks), filled,
               [i \in 1 .. Len(filled.samples) \div size |-> i])
\* EncodeAudioFrame of nullptr: the rest, however short.
FlushAudio(fifo, rate, ticks) ==
  IF fifo.samples = <<>> THEN fifo ELSE SendFifoFrame(fifo, Len(fifo.samples), rate, ticks)

\* CopyAudioFrameToPacked: the buffer of n samples of every channel, one channel after the other
\* or interleaved, each sample <<channel, index>> in one cell.
PackedSound(planar, channels, n) ==
  IF planar THEN [i \in 1 .. channels * n |-> <<(i - 1) \div n, (i - 1) % n>>]
  ELSE [i \in 1 .. channels * n |-> <<(i - 1) % channels, (i - 1) \div channels>>]
\* The planes DecodePacket tells of: where each begins and how long it is.
SoundPlanes(planar, channels, n) ==
  [p \in 0 .. (IF planar THEN channels ELSE 1) - 1 |->
     [offset |-> IF planar THEN p * n ELSE 0, size |-> IF planar THEN n ELSE channels * n]]
\* CopyPackedAudioFrameToAVFrame: avcodec_fill_audio_frame goes by the format alone.
FilledSound(buffer, planar, channels, n) ==
  [c \in 0 .. channels - 1 |-> [i \in 0 .. n - 1 |->
     IF planar THEN buffer[c * n + i + 1] ELSE buffer[i * channels + c + 1]]]
\* Both descriptions of a packed frame find every sample of every channel.
ChannelsKept(planar, channels, n) ==
  LET buffer == PackedSound(planar, channels, n)
      planes == SoundPlanes(planar, channels, n)
  IN  /\ FilledSound(buffer, planar, channels, n)
           = [c \in 0 .. channels - 1 |-> [i \in 0 .. n - 1 |-> <<c, i>>]]
      /\ FlattenSeq([p \in 1 .. Cardinality(DOMAIN planes) |->
           SubSeq(buffer, planes[p - 1].offset + 1, planes[p - 1].offset + planes[p - 1].size)]) = buffer
      /\ planar => \A p \in DOMAIN planes, i \in 1 .. n : buffer[planes[p].offset + i] = <<p, i - 1>>

\* Frames of the given lengths, the first of which is stamped start.
Sound(lengths, start) ==
  LET before(i) == FoldLeft(+, 0, SubSeq(lengths, 1, i - 1))
  IN  [i \in DOMAIN lengths |->
         [pts |-> start, samples |-> [k \in 1 .. lengths[i] |-> before(i) + k]]]
EncodeAll(frames, size, rate, ticks) ==
  FlushAudio(FoldLeft(LAMBDA q, f : EncodeAudioFrame(q, f, size, rate, ticks), EmptyFifo, frames),
             rate, ticks)

\* Every sample leaves once and in turn, in packets of the codec's size but for the last one,
\* and a packet's stamp is the time of its first sample, to half a tick a packet.
SoundKept(lengths, start, size, rate, ticks) ==
  LET packets == EncodeAll(Sound(lengths, start), size, rate, ticks).packets
      before(i) == FoldLeft(LAMBDA n, p : n + Len(p.samples), 0, SubSeq(packets, 1, i - 1))
      total == FoldLeft(+, 0, lengths)
  IN  /\ FlattenSeq([i \in DOMAIN packets |-> packets[i].samples]) = [k \in 1 .. total |-> k]
      /\ \A i \in DOMAIN packets :
           /\ i < Len(packets) => Len(packets[i].samples) = size
           /\ LET error == (packets[i].pts - (IF start < 0 THEN 0 ELSE start)) * rate - before(i) * ticks
              IN  2 * (IF error < 0 THEN -error ELSE error) <= (i - 1) * rate

-----------------------------------------------------------------------------
(* Time stamps, from a packet in the time base of its source to a packet   *)
(* in that of the encoder.  unit stands for the microsecond.               *)

\* FFmpegDecoder::Decode and, once the frame is out, TimestampToUs.
FrameStamp(pts, source, decoder, unit) ==
  IF pts = NoStamp THEN NoStamp
  ELSE RescaleQ(IF source = decoder THEN pts ELSE RescaleQ(pts, source, decoder), decoder, unit)

\* Mutation: the count goes on by itself and not from the last stamp.
CountsFrames(next, stamp, unit, encoder) ==
  IF stamp = NoStamp THEN [pts |-> next, next |-> next + 1]
  ELSE [pts |-> RescaleQ(stamp, unit, encoder), next |-> next + 1]
\* FFmpegEncoder::ResolveFramePts: a frame without a stamp follows all that were stamped before.
ResolveFramePts(next, stamp, unit, encoder) ==
  IF stamp = NoStamp THEN [pts |-> next, next |-> next + 1]
  ELSE LET pts == RescaleQ(stamp, unit, encoder)
       IN  [pts |-> pts, next |-> IF next > pts + 1 THEN next ELSE pts + 1]

EncodedStamps(stamps, source, decoder, unit, encoder) ==
  FoldLeft(LAMBDA acc, s :
             LET r == ResolveFramePts(acc.next, FrameStamp(s, source, decoder, unit), unit, encoder)
             IN  [next |-> r.next, pts |-> Append(acc.pts, r.pts)],
           [next |-> 0, pts |-> <<>>], stamps).pts

\* A stamp is off by at most half a tick of each base it has gone through, and one that is made
\* up never falls on or before one that left earlier.
StampsKept(stamps, source, decoder, unit, encoder) ==
  LET pts == EncodedStamps(stamps, source, decoder, unit, encoder)
      common == source.den * decoder.den * unit.den * encoder.den
      ticks(base) == base.num * (common \div base.den)
      far(a, b) == IF a < b THEN b - a ELSE a - b
  IN  \A i \in DOMAIN stamps :
        IF stamps[i] = NoStamp THEN \A j \in 1 .. i - 1 : pts[j] < pts[i]
        ELSE 2 * far(pts[i] * ticks(encoder), stamps[i] * ticks(source))
               <= ticks(decoder) + ticks(unit) + ticks(encoder)

=============================================================================
