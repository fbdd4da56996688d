-------------------------- MODULE MCQueueTransport --------------------------
(* Small instances of QueueTransport.                                      *)
EXTENDS QueueTransport, TLC

CONSTANTS p1, p2, c1

Msg(k, b, t, g) == [kind |-> k, bytes |-> b, ts |-> t, dur |-> 1, gen |-> g]
Eos(g) == Msg("control", 0, NoTimestamp, g)

\* Messages of one byte and two, and the end of the stream.
FittingMessages ==
  {Msg("video", 1, NoTimestamp, 1), Msg("video", 2, NoTimestamp, 1), Eos(1)}

\* A mixed audio/video edge whose time line may run backwards (0 or 1 after 2) and
\* whose connection may be renewed.
MixedMessages ==
  {Msg("audio", 1, 0, 1), Msg("audio", 1, 2, 1), Msg("video", 1, 1, 1),
   Msg("keyframe", 2, 2, 1), Msg("video", 1, 1, 2), Eos(1)}

AllMessages == FittingMessages \cup MixedMessages

\* The time line and the generations matter to the dropping policies, the second
\* sender to the one that waits: each policy gets the traffic that exercises it.
Traffic == IF policy = "Block" THEN FittingMessages ELSE MixedMessages

Carries(S) ==
  /\ \A i \in DOMAIN queue' : queue'[i].msg \in S
  /\ \A p \in Producers : call'[p] # NoCall => call'[p].msg \in S

MCNext ==
  /\ Next
  /\ Carries(Traffic)
  /\ policy # "Block" => pc'[p2] = "idle"

MCSpec == Init /\ [][MCNext]_vars /\ Fairness

=============================================================================
