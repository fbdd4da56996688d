------------------------------ MODULE FramePlanes ------------------------------
(***************************************************************************)
(* Where the bytes of a picture are.  FFmpegDecoder packs a decoded        *)
(* picture into one buffer (FFmpegFrameBuffer) and describes its planes in *)
(* VideoFrameMeta; FrameConverter and OpenVinoYoloPreprocessor compute     *)
(* addresses from that description, or from their own idea of the packed   *)
(* layout when a frame carries none.                                       *)
(*                                                                         *)
(* A byte is not a number but the sample it holds: <<component, row,       *)
(* column>>.  Colour arithmetic is left out: a converted pixel is the      *)
(* triple of samples it is computed from.  Counting starts at 0.           *)
(***************************************************************************)
EXTENDS Integers, FiniteSetsExt, SequencesExt

Formats == {"NV12", "NV21", "I420", "BGR24", "RGB24", "GRAY8"}
Nv == {"NV12", "NV21"}
Packed == {"BGR24", "RGB24"}

Half(n) == (n + 1) \div 2
PlaneCount(format) == CASE format \in Nv -> 2 [] format = "I420" -> 3 [] OTHER -> 1
Rows(format, h, p) == IF p = 0 THEN h ELSE Half(h)
\* av_image_fill_linesizes with alignment 1.
RowBytes(format, w, p) ==
  CASE format \in Packed -> 3 * w
    [] p = 0 -> w
    [] format \in Nv -> 2 * Half(w)
    [] OTHER -> Half(w)

\* The sample that FFmpeg keeps in byte c of row r of a plane.
Sample(format, p, r, c) ==
  CASE format = "GRAY8" -> <<"L", r, c>>
    [] format = "RGB24" -> <<<<"R", "G", "B">>[1 + (c % 3)], r, c \div 3>>
    [] format = "BGR24" -> <<<<"B", "G", "R">>[1 + (c % 3)], r, c \div 3>>
    [] p = 0 -> <<"Y", r, c>>
    [] format = "I420" -> <<<<"U", "V">>[p], r, c>>
    [] format = "NV12" -> <<<<"U", "V">>[1 + (c % 2)], r, c \div 2>>
    [] OTHER -> <<<<"V", "U">>[1 + (c % 2)], r, c \div 2>>

-----------------------------------------------------------------------------
(* The producer.  A frame says how its buffer is laid out (layout, what is *)
(* really in memory) and what its VideoFrameMeta tells (told).             *)

NoInfo == [offset |-> 0, stride |-> 0]
\* Planes of the given strides, one after the other.
Stacked(format, h, stride) ==
  [p \in 0 .. PlaneCount(format) - 1 |->
     [offset |-> MapThenSumSet(LAMBDA q : stride[q] * Rows(format, h, q), 0 .. p - 1),
      stride |-> stride[p]]]
FrameOf(format, w, h, layout, told) ==
  [format |-> format, width |-> w, height |-> h, layout |-> layout, told |-> told,
   size |-> LET p == PlaneCount(format) - 1
            IN  layout[p].offset + layout[p].stride * Rows(format, h, p)]

\* CopyVideoFrameToPacked, and the meta data DecodePacket fills in.
Decoded(format, w, h) ==
  LET layout == Stacked(format, h, [p \in 0 .. 2 |-> RowBytes(format, w, p)])
  IN  FrameOf(format, w, h, layout, layout)
\* The same buffer from a source that tells nothing of its planes.
Untold(format, w, h) == [Decoded(format, w, h) EXCEPT !.told = [p \in DOMAIN @ |-> NoInfo]]
\* A buffer whose rows are padded.
Padded(format, w, h) ==
  LET layout == Stacked(format, h, [p \in 0 .. 2 |-> RowBytes(format, w, p) + 2])
  IN  FrameOf(format, w, h, layout, layout)

\* The sample at an address of the buffer: padding and what lies outside have none.
None == <<"none", 0, 0>>
Byte(f, address) ==
  LET in == {p \in DOMAIN f.layout :
               f.layout[p].offset <= address
               /\ address < f.layout[p].offset + f.layout[p].stride * Rows(f.format, f.height, p)}
  IN  IF address < 0 \/ in = {} THEN None
      ELSE LET p == CHOOSE q \in in : TRUE
               d == address - f.layout[p].offset
               r == d \div f.layout[p].stride
               c == d % f.layout[p].stride
           IN  IF c < RowBytes(f.format, f.width, p) THEN Sample(f.format, p, r, c) ELSE None

PlaneOffset(f, p) == IF p \in DOMAIN f.told THEN f.told[p].offset ELSE 0
Stride(f, p) == IF p \in DOMAIN f.told THEN f.told[p].stride ELSE 0
\* 0 stands for a plane nobody described.
Told(value, fallback) == IF value > 0 THEN value ELSE fallback

-----------------------------------------------------------------------------
(* FrameConverter::ConvertToRgba.  A plane is where it begins and how far  *)
(* its rows are apart; Refused when it does not fit the buffer.            *)

Refused == [offset |-> -1, stride |-> 0]

\* Mutation: the chroma of a picture of odd height has one row less.
ChromaRowsRoundedDown(h) == h \div 2
ChromaRows(h) == (h + 1) \div 2

ResolvePlane(f, p, fallback, rowBytes, rows) ==
  LET stride == Told(Stride(f, p), rowBytes)
      offset == Told(PlaneOffset(f, p), IF p = 0 THEN 0 ELSE fallback)
  IN  IF stride < rowBytes \/ rows <= 0 \/ rowBytes <= 0 \/ offset + stride * (rows - 1) + rowBytes > f.size
        THEN Refused
        ELSE [offset |-> offset, stride |-> stride]

At(f, plane, r, c) == Byte(f, plane.offset + r * plane.stride + c)
Pixels(f) == (0 .. f.height - 1) \X (0 .. f.width - 1)

ConvertPackedRgb(f) ==
  LET plane == ResolvePlane(f, 0, 0, 3 * f.width, f.height)
  IN  IF plane = Refused THEN << >>
      ELSE [x \in Pixels(f) |->
              LET c == [k \in 0 .. 2 |-> At(f, plane, x[1], 3 * x[2] + k)]
              IN  IF f.format = "BGR24" THEN <<c[2], c[1], c[0]>> ELSE <<c[0], c[1], c[2]>>]
ConvertGray(f) ==
  LET plane == ResolvePlane(f, 0, 0, f.width, f.height)
  IN  IF plane = Refused THEN << >>
      ELSE [x \in Pixels(f) |-> [k \in 1 .. 3 |-> At(f, plane, x[1], x[2])]]
ConvertNv(f) ==
  LET y == ResolvePlane(f, 0, 0, f.width, f.height)
      uv == ResolvePlane(f, 1, y.stride * f.height, 2 * Half(f.width), ChromaRows(f.height))
  IN  IF Refused \in {y, uv} THEN << >>
      ELSE [x \in Pixels(f) |->
              LET c == [k \in {0, 1} |-> At(f, uv, x[1] \div 2, 2 * (x[2] \div 2) + k)]
                  first == IF f.format = "NV21" THEN 1 ELSE 0
              IN  <<At(f, y, x[1], x[2]), c[first], c[1 - first]>>]
ConvertI420(f) ==
  LET y == ResolvePlane(f, 0, 0, f.width, f.height)
      u == ResolvePlane(f, 1, y.stride * f.height, Half(f.width), ChromaRows(f.height))
      v == ResolvePlane(f, 2, y.stride * f.height + u.stride * ChromaRows(f.height), Half(f.width),
                        ChromaRows(f.height))
  IN  IF Refused \in {y, u, v} THEN << >>
      ELSE [x \in Pixels(f) |->
              <<At(f, y, x[1], x[2]), At(f, u, x[1] \div 2, x[2] \div 2),
                At(f, v, x[1] \div 2, x[2] \div 2)>>]
ConvertToRgba(f) ==
  CASE f.format \in Packed -> ConvertPackedRgb(f)
    [] f.format = "GRAY8" -> ConvertGray(f)
    [] f.format \in Nv -> ConvertNv(f)
    [] OTHER -> ConvertI420(f)

-----------------------------------------------------------------------------
(* OpenVinoYoloPreprocessor::Process: tensors over the buffer, a row of    *)
(* samples after the other.  << >> for a frame it refuses.                 *)

\* MakePlaneBuffer shares the buffer when the rows touch, and copies them together when not.
MakePlaneBuffer(f, offset, rows, rowBytes, stride) ==
  IF stride < rowBytes \/ offset >= f.size \/ offset + (rows - 1) * stride + rowBytes > f.size
    THEN << >>
    ELSE IF stride = rowBytes
           THEN [i \in 1 .. rows * rowBytes |-> Byte(f, offset + i - 1)]
           ELSE [i \in 1 .. rows * rowBytes |->
                   Byte(f, offset + ((i - 1) \div rowBytes) * stride + ((i - 1) % rowBytes))]

Even(f) == f.width % 2 = 0 /\ f.height % 2 = 0
PackNv12(f) ==
  LET yStride == Told(Stride(f, 0), f.width)
  IN  <<MakePlaneBuffer(f, PlaneOffset(f, 0), f.height, f.width, yStride),
        MakePlaneBuffer(f, Told(PlaneOffset(f, 1), yStride * f.height), f.height \div 2, f.width,
                        Told(Stride(f, 1), f.width))>>
PackI420(f) ==
  LET h == f.height \div 2
      w == f.width \div 2
      yStride == Told(Stride(f, 0), f.width)
      uStride == Told(Stride(f, 1), w)
      u == Told(PlaneOffset(f, 1), yStride * f.height)
  IN  <<MakePlaneBuffer(f, PlaneOffset(f, 0), f.height, f.width, yStride),
        MakePlaneBuffer(f, u, h, w, uStride),
        MakePlaneBuffer(f, Told(PlaneOffset(f, 2), u + uStride * h), h, w, Told(Stride(f, 2), w))>>
Preprocess(f) ==
  CASE Even(f) /\ f.format = "NV12" -> PackNv12(f)
    [] Even(f) /\ f.format = "I420" -> PackI420(f)
    [] OTHER -> << >>

-----------------------------------------------------------------------------
(* What they promise.                                                      *)

\* The samples a pixel of the picture is made of.
Truth(f, r, c) ==
  CASE f.format = "GRAY8" -> [k \in 1 .. 3 |-> <<"L", r, c>>]
    [] f.format \in Packed -> <<<<"R", r, c>>, <<"G", r, c>>, <<"B", r, c>>>>
    [] OTHER -> <<<<"Y", r, c>>, <<"U", r \div 2, c \div 2>>, <<"V", r \div 2, c \div 2>>>>

\* Every pixel shown is the pixel decoded.
ShownAsDecoded(f) ==
  DOMAIN ConvertToRgba(f) = Pixels(f) /\ \A x \in Pixels(f) : ConvertToRgba(f)[x] = Truth(f, x[1], x[2])

\* Every tensor holds its plane without gaps, all of it.
InferredAsDecoded(f) ==
  LET tensors == Preprocess(f)
  IN  Even(f) /\ f.format \in {"NV12", "I420"} =>
        \A p \in 0 .. PlaneCount(f.format) - 1 :
          LET n == RowBytes(f.format, f.width, p)
          IN  tensors[p + 1] = [i \in 1 .. Rows(f.format, f.height, p) * n |->
                                  Sample(f.format, p, (i - 1) \div n, (i - 1) % n)]

=============================================================================
