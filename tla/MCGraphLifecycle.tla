-------------------------- MODULE MCGraphLifecycle --------------------------
(* Small instances of GraphLifecycle: two sources, an encoder, a publisher. *)
EXTENDS GraphLifecycle, TLC

CONSTANTS a, b, cam, mic, enc, pub, io, work, net

TwoSources == <<cam, mic, enc, pub>>
TwoSourcesEdges == {<<cam, enc>>, <<mic, enc>>, <<enc, pub>>}

Priorities == [n \in {cam, mic, enc, pub} |->
                 CASE n = pub -> 10 [] n = enc -> 0 [] OTHER -> 100]

\* The pools of media-flow-design.md:221.
PoolPerStage == [n \in {cam, mic, enc, pub} |->
                   CASE n = pub -> net [] n = enc -> work [] OTHER -> io]
OneThread == [x \in {io, work, net} |-> 1]

=============================================================================
