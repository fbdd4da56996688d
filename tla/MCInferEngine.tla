----------------------------- MODULE MCInferEngine -----------------------------
(***************************************************************************)
(* The instance of InferEngine that TLC checks, and, beside it, the data   *)
(* around the engine: networks with a few objects in view, shapes of       *)
(* inputs and ports of models, each handed to the functions of Detections  *)
(* while the engine stands still.                                          *)
(***************************************************************************)
EXTENDS InferEngine

Post == INSTANCE Detections WITH Coco <- 84, Widest <- 256

VARIABLE sample   \* what is tried, nothing while the engine runs

Nothing == [kind |-> "none"]

\* Objects on a picture of 8 by 4, two of one class one on the other, beside and inside each other.
Seen(x1, y1, x2, y2, class, score) ==
  [x1 |-> x1, y1 |-> y1, x2 |-> x2, y2 |-> y2, class |-> class, score |-> score]
Things == {Seen(0, 0, 4, 4, 0, 90), Seen(0, 0, 4, 2, 0, 60), Seen(2, 0, 6, 4, 0, 70),
           Seen(0, 0, 4, 4, 1, 90), Seen(4, 0, 8, 4, 1, 60), Seen(4, 2, 8, 4, 1, 20)}
Sizes == {Post!TensorMeta([w |-> 8, h |-> 4], [w |-> w, h |-> h]) : w \in {4, 8, 16}, h \in {4, 8}}
Networks ==
  {[kind |-> "network", objects |-> o, head |-> p[1], classes |-> p[2], count |-> p[3],
    transposed |-> p[4], meta |-> m] :
     o \in UNION {[1 .. n -> Things] : n \in 0 .. 3}, m \in Sizes,
     p \in {<<5, 2, 7, FALSE>>, <<5, 3, 9, TRUE>>}}
  \cup {[kind |-> "network", objects |-> o, head |-> 4, classes |-> 80, count |-> 85,
         transposed |-> t, meta |-> m] :
          o \in {<<Seen(4, 0, 8, 4, 79, 90), Seen(2, 0, 6, 4, 79, 60)>>}, t \in BOOLEAN, m \in Sizes}
\* The usual layouts of an input of 6 by 5, told or dynamic, and what the configuration says.
Inputs ==
  {[kind |-> "input", dims |-> d, told |-> t] :
     <<d, t>> \in {<<<<1, 3, 5, 6>>, TRUE>>, <<<<1, 5, 6, 3>>, TRUE>>, <<<<3, 5, 6>>, TRUE>>,
                   <<<<1, 1, 5, 6>>, TRUE>>, <<<<1, 3, -1, -1>>, FALSE>>, <<<<1, -1, -1, 3>>, FALSE>>,
                   <<<<1, -1, -1, 1>>, FALSE>>, <<<<>>, FALSE>>}}
\* The tensors of an NV12 and an I420 picture, and models whose ports are named after them or not.
PlanesOf(format) == IF format = "NV12" THEN <<"y", "uv">> ELSE <<"y", "u", "v">>
Bindings ==
  {[kind |-> "ports", frame |-> f, model |-> m, named |-> n] :
     f \in {"NV12", "I420"}, m \in {"NV12", "I420"}, n \in BOOLEAN}

MCInit == Init /\ sample \in {Nothing} \cup Networks \cup Inputs \cup Bindings
MCNext == sample = Nothing /\ Next /\ UNCHANGED sample
MCSpec == MCInit /\ [][MCNext]_<<vars, sample>> /\ Fairness

Limits == [conf |-> 25, nms |-> 45]
NetworkReported ==
  sample.kind = "network" =>
    LET t == Post!Emitted(sample.objects, sample.classes, sample.head, sample.count,
                          sample.transposed, sample.meta)
    IN  \A reported \in Post!Process(t, Limits.conf, Limits.nms, sample.meta) :
          Post!ReportedAsSeen(sample.objects, reported, Limits.conf, Limits.nms)
InputSizeTaken ==
  sample.kind = "input" =>
    Post!UpdateModelMeta([w |-> 9, h |-> 7], sample.dims)
      = IF sample.told THEN [w |-> 6, h |-> 5] ELSE [w |-> 9, h |-> 7]
PlanesFindPorts ==
  sample.kind = "ports" =>
    LET planes == PlanesOf(sample.model)
        ports == [i \in DOMAIN planes |-> IF sample.named THEN {planes[i]} ELSE {"image"}]
        tensors == {PlanesOf(sample.frame)[i] : i \in DOMAIN PlanesOf(sample.frame)}
    IN  Post!BindInputs(tensors, ports)
          = IF sample.frame = sample.model THEN planes ELSE Post!Refusal

\* What the session reports are the objects the network has seen, where they are in the picture,
\* each once, whatever the layout of the output and the size of the input
\* (openvino_postprocessor.cpp:24-80, 122-273); every plane of a picture reaches the port made for
\* it and a picture of another format reaches none (openvino_engine.cpp:353-429); and pictures are
\* scaled to the size the loaded model asks for (session.cpp:19-67).
DetectionsTrue == NetworkReported /\ InputSizeTaken /\ PlanesFindPorts

=============================================================================
