---------------------------- MODULE MCRenderSession ----------------------------
(***************************************************************************)
(* Small instances: of RenderSession, its queues and its life, and of      *)
(* PlaybackTiming, the time its frames keep while it runs.  A behaviour is *)
(* of the one or of the other (playing).                                   *)
(***************************************************************************)
EXTENDS RenderSession

CONSTANTS Buffer, Quantum, Capacity, Lead, Early, Late, MaxLag, FrameTime, MaxJump, Chunks, Pictures,
          MaxTime, MaxPosition, MaxChunks, MaxPictures

VARIABLES playing,   \* the behaviour is one of PlaybackTiming
          time, source, pcm, device, writer, ledger, feeder, clock, picture

Playback == INSTANCE PlaybackTiming WITH Stamps <- Pictures
playbackVars == <<time, source, pcm, device, writer, ledger, feeder, clock, picture>>

Previews == {[audio |-> TRUE, keepLatest |-> TRUE, audioRequired |-> FALSE],
             [audio |-> TRUE, keepLatest |-> FALSE, audioRequired |-> TRUE],
             [audio |-> FALSE, keepLatest |-> TRUE, audioRequired |-> FALSE]}

\* Three frames of sound, two after a gap, and one that came without a time stamp.
MCChunks == {[n |-> 3, gap |-> 0, stamped |-> TRUE], [n |-> 2, gap |-> 1, stamped |-> TRUE],
             [n |-> 1, gap |-> 0, stamped |-> FALSE]}

MCInit ==
  /\ Init /\ Playback!Init /\ playing \in BOOLEAN
  /\ playing => config = CHOOSE c \in Configs : TRUE
MCNext ==
  \/ ~playing /\ Next /\ UNCHANGED <<playing, playbackVars>>
  \/ playing /\ Playback!Next /\ UNCHANGED <<playing, vars>>
MCSpec == MCInit /\ [][MCNext]_<<playing, vars, playbackVars>>

\* The properties of PlaybackTiming, stated and explained there.
MasterTellsTheSound == Playback!MasterTellsTheSound
PicturesFollowTheSound == Playback!PicturesFollowTheSound

=============================================================================
