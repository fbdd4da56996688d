------------------------------ MODULE Mailbox ------------------------------
(***************************************************************************)
(* What a queued edge of the media graph promises its two ends, without    *)
(* saying how: ITransport<T> of include/mediaflow/core/transport.h, as the *)
(* graph and the nodes rely on it.  Messages leave in the order in which   *)
(* they were accepted; under back-pressure a media message may be shed,    *)
(* from anywhere in the box, but never a control boundary such as the end  *)
(* of a stream; nothing enters a closed mailbox, and opening or closing    *)
(* one empties it.                                                         *)
(***************************************************************************)
EXTENDS Naturals, Sequences, SequencesExt

CONSTANTS
  Messages,
  Boundaries,    \* the messages that mark an end of stream
  Capacity       \* number of messages the box may hold; 0 for no limit

VARIABLES box, open

Init == box = <<>> /\ open = TRUE

Put == /\ open
       /\ Capacity > 0 => Len(box) < Capacity
       /\ \E m \in Messages : box' = Append(box, m)
       /\ UNCHANGED open

Take == box # <<>> /\ box' = Tail(box) /\ UNCHANGED open

Shed == /\ \E i \in DOMAIN box : box[i] \notin Boundaries /\ box' = RemoveAt(box, i)
        /\ UNCHANGED open

Reset == box' = <<>> /\ open' \in BOOLEAN

Next == Put \/ Take \/ Shed \/ Reset

Spec == Init /\ [][Next]_<<box, open>>

=============================================================================
