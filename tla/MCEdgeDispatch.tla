--------------------------- MODULE MCEdgeDispatch ---------------------------
(* Small instances of EdgeDispatch.                                        *)
EXTENDS EdgeDispatch, TLC

CONSTANTS m1, m2, m3

\* Plain messages only; an audio, a video and a keyframe.
PlainKind == [m \in Messages |-> "other"]
MediaKind == [m \in Messages |-> CASE m = m1 -> "audio" [] m = m2 -> "video"
                                   [] OTHER -> "keyframe"]
\* Three messages in one lifecycle, or two in one and the next.
FewerAfterRestart == <<3, 2>>

ThreadSymmetry == Permutations(Producers) \cup Permutations(Workers)

=============================================================================
