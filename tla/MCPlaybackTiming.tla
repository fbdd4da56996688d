--------------------------- MODULE MCPlaybackTiming ---------------------------
(* PlaybackTiming by itself, under its fairness: sound that comes, and ends. *)
EXTENDS PlaybackTiming

\* Three frames of sound, or two after a gap.
TwoChunks == {[n |-> 3, gap |-> 0, stamped |-> TRUE], [n |-> 2, gap |-> 1, stamped |-> TRUE]}

=============================================================================
