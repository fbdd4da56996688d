------------------------------- MODULE Detections -------------------------------
(***************************************************************************)
(* The way from a picture to detected objects around the engine:           *)
(* InferenceSession and YoloModel agree on the size of the model's input,  *)
(* the planes find their ports (openvino_engine.cpp), and                  *)
(* YoloPostprocessor reads the network's output, drops what overlaps and   *)
(* moves the boxes back into the picture.                                  *)
(*                                                                         *)
(* Coordinates are whole numbers, scores whole numbers of hundredths;      *)
(* rounding is left out.  A tensor is its shape and its memory, a function *)
(* of the address.                                                         *)
(***************************************************************************)
EXTENDS Integers, FiniteSets, SequencesExt

CONSTANTS
  Coco,       \* attributes of an output without objectness for the usual 80 classes, 84
  Widest      \* most attributes an output is taken to have, 256


Least(a, b) == IF a < b THEN a ELSE b
Most(a, b) == IF a > b THEN a ELSE b
Clamp(x, limit) == Least(Most(x, 0), limit)
Abs(x) == IF x < 0 THEN -x ELSE x

-----------------------------------------------------------------------------
(* The size of the input.                                                  *)

Channels == {1, 3, 4}
\* Width and height an input tensor asks for; 0 for one that is not told (a dynamic dimension).
ResolveImageInputSize(dims) ==
  LET told(w, h) == [w |-> IF w > 0 THEN w ELSE 0, h |-> IF w > 0 /\ h > 0 THEN h ELSE 0]
      n == Len(dims)
  IN  CASE n < 2 -> told(0, 0)
        [] n = 4 /\ dims[2] \in Channels -> told(dims[4], dims[3])
        [] n = 4 /\ dims[2] \notin Channels /\ dims[4] \in Channels -> told(dims[3], dims[2])
        [] OTHER -> told(dims[n], dims[n - 1])
\* InferenceSession::Initialize and YoloModel::UpdateModelMeta: what is not told stays.
UpdateModelMeta(meta, dims) ==
  LET told == ResolveImageInputSize(dims)
  IN  [w |-> IF told.w > 0 THEN told.w ELSE meta.w, h |-> IF told.h > 0 THEN told.h ELSE meta.h]
\* BuildTensorMeta: a picture is stretched to the input, without a border.
TensorMeta(src, meta) == [src |-> src, input |-> meta]

-----------------------------------------------------------------------------
(* The planes of a picture and the ports of a model.                       *)

\* FindInputTensor: the tensor of a frame, a set of names, for the i-th port of total.
FindInputTensor(frame, names, i, total) ==
  LET planes == CASE total = 2 -> <<"y", "uv">> [] total = 3 -> <<"y", "u", "v">> [] OTHER -> <<>>
  IN  CASE names \cap frame # {} -> CHOOSE n \in names : n \in frame
        [] names \cap frame = {} /\ i \in DOMAIN planes /\ planes[i] \in frame -> planes[i]
        [] names \cap frame = {} /\ total = 1 /\ Cardinality(frame) = 1 -> CHOOSE n \in frame : TRUE
        [] OTHER -> "missing"
\* BindInputs: a port for which there is no tensor is an exception.
Refusal == <<>>
BindInputs(frame, ports) ==
  LET bound == [i \in DOMAIN ports |-> FindInputTensor(frame, ports[i], i, Len(ports))]
  IN  IF \E i \in DOMAIN bound : bound[i] = "missing" THEN Refusal ELSE bound

-----------------------------------------------------------------------------
(* The output of the network.                                              *)

NoShape == [count |-> 0, attrs |-> 0, transposed |-> FALSE]
ResolveYoloShape(dims) ==
  LET shape(a, b) ==
        IF a <= 0 \/ b <= 0 THEN NoShape
        ELSE IF a <= Widest /\ b > a THEN [count |-> b, attrs |-> a, transposed |-> TRUE]
        ELSE [count |-> a, attrs |-> b, transposed |-> FALSE]
  IN  CASE Len(dims) = 3 -> shape(dims[2], dims[3])
        [] Len(dims) = 2 -> shape(dims[1], dims[2])
        [] OTHER -> NoShape
YoloValue(data, i, attr, s) == data[IF s.transposed THEN attr * s.count + i ELSE i * s.attrs + attr]
HasObjectness(attrs) == attrs # Coco /\ attrs >= 6

Area(b) == Most(0, b.x2 - b.x1) * Most(0, b.y2 - b.y1)
\* IoU(a, b) > threshold, in hundredths.
Overlap(a, b, threshold) ==
  LET inter == Most(0, Least(a.x2, b.x2) - Most(a.x1, b.x1))
                 * Most(0, Least(a.y2, b.y2) - Most(a.y1, b.y1))
      union == Area(a) + Area(b) - inter
  IN  union > 0 /\ 100 * inter > threshold * union

\* The best class of candidate i and its score, the first of those that tie; class -1 for none.
BestClass(data, i, s, begin) ==
  FoldLeft(LAMBDA best, c :
             LET score == YoloValue(data, i, c, s)
             IN  IF score > best.score THEN [class |-> c - begin, score |-> score] ELSE best,
           [class |-> -1, score |-> 0], [k \in 1 .. s.attrs - begin |-> begin + k - 1])
Candidate(data, i, s, meta) ==
  LET objectness == IF HasObjectness(s.attrs) THEN YoloValue(data, i, 4, s) ELSE 100
      best == BestClass(data, i, s, IF HasObjectness(s.attrs) THEN 5 ELSE 4)
      v(k) == YoloValue(data, i, k, s)
      w == Abs(v(2)) \div 2
      h == Abs(v(3)) \div 2
  IN  [class |-> best.class, score |-> (objectness * best.score) \div 100,
       x1 |-> Clamp(v(0) - w, meta.input.w), y1 |-> Clamp(v(1) - h, meta.input.h),
       x2 |-> Clamp(v(0) + w, meta.input.w), y2 |-> Clamp(v(1) + h, meta.input.h)]
Decode(tensor, conf, meta) ==
  LET s == ResolveYoloShape(tensor.dims)
      seen == [i \in 1 .. s.count |-> Candidate(tensor.data, i - 1, s, meta)]
  IN  IF s.attrs < 5 THEN <<>>
      ELSE SelectSeq(seen, LAMBDA b : b.class >= 0 /\ b.score >= conf /\ Area(b) > 0)

\* Mutation: the candidates are taken in the order of the network.
AsDecoded(boxes) == {boxes}
\* The orders std::sort may leave the candidates in.
SortedByConfidence(boxes) ==
  {[i \in DOMAIN p |-> boxes[p[i]]] :
     p \in {q \in SetToSeqs(DOMAIN boxes) :
              \A i \in 1 .. Len(q) - 1 : boxes[q[i]].score >= boxes[q[i + 1]].score}}
\* What is kept of candidates in that order.
Kept(boxes, threshold) ==
  FoldLeft(LAMBDA acc, i :
             IF i \in acc.removed THEN acc
             ELSE [kept |-> Append(acc.kept, boxes[i]),
                   removed |-> acc.removed \cup
                     {j \in i + 1 .. Len(boxes) :
                        boxes[j].class = boxes[i].class /\ Overlap(boxes[i], boxes[j], threshold)}],
           [kept |-> <<>>, removed |-> {}], [i \in DOMAIN boxes |-> i]).kept

\* restoreBox: the way back of BuildTensorMeta's scale.
RestoreBox(b, meta) ==
  LET x(v) == Clamp((v * meta.src.w) \div meta.input.w, meta.src.w)
      y(v) == Clamp((v * meta.src.h) \div meta.input.h, meta.src.h)
  IN  [b EXCEPT !.x1 = x(@), !.x2 = x(@), !.y1 = y(@), !.y2 = y(@)]
\* The objects Process may report.
Process(tensor, conf, threshold, meta) ==
  {LET kept == Kept(boxes, threshold) IN [i \in DOMAIN kept |-> RestoreBox(kept[i], meta)] :
     boxes \in SortedByConfidence(Decode(tensor, conf, meta))}

-----------------------------------------------------------------------------
(* What they promise, said of the objects a network has seen: each a box   *)
(* in the picture, a class and a score.                                    *)

Cells(o) == (o.x1 .. o.x2 - 1) \X (o.y1 .. o.y2 - 1)
SamePlace(a, b, threshold) ==
  /\ a.class = b.class
  /\ 100 * Cardinality(Cells(a) \cap Cells(b)) > threshold * Cardinality(Cells(a) \cup Cells(b))

\* What such a network writes: rows of a count that its layout is recognized by, most of them
\* empty.  head is 4 or 5, the attributes before the first class.
Emitted(objects, classes, head, count, transposed, meta) ==
  LET attrs == head + classes
      row(i) == IF i > Len(objects) THEN [k \in 0 .. attrs - 1 |-> 0]
                ELSE LET o == objects[i]
                         x(v) == (v * meta.input.w) \div meta.src.w
                         y(v) == (v * meta.input.h) \div meta.src.h
                     IN  [k \in 0 .. attrs - 1 |->
                            CASE k = 0 -> x(o.x1 + o.x2) \div 2
                              [] k = 1 -> y(o.y1 + o.y2) \div 2
                              [] k = 2 -> x(o.x2 - o.x1)
                              [] k = 3 -> y(o.y2 - o.y1)
                              [] k = 4 /\ head = 5 -> o.score
                              [] OTHER -> IF k - head = o.class THEN (IF head = 5 THEN 100 ELSE o.score)
                                          ELSE o.score \div 3]
      size == count * attrs
      rows == [i \in 1 .. count |-> row(i)]
  IN  [dims |-> IF transposed THEN <<1, attrs, count>> ELSE <<1, count, attrs>>,
       data |-> [a \in 0 .. size - 1 |->
                   IF transposed THEN rows[1 + (a % count)][a \div count] ELSE rows[1 + (a \div attrs)][a % attrs]]]

\* What is reported are objects seen, where they were seen; no two of them are at one place; and
\* whatever was seen clearly enough is reported, or something seen at least as clearly in its place.
ReportedAsSeen(objects, reported, conf, threshold) ==
  LET clear == {i \in DOMAIN objects : objects[i].score >= conf}
  IN  /\ \A r \in DOMAIN reported : \E i \in clear : reported[r] = objects[i]
      /\ \A r, q \in DOMAIN reported : r # q => ~SamePlace(reported[r], reported[q], threshold)
      /\ \A i \in clear : \E r \in DOMAIN reported :
           \/ reported[r] = objects[i]
           \/ /\ reported[r].score >= objects[i].score
              /\ SamePlace(reported[r], objects[i], threshold)

=============================================================================
