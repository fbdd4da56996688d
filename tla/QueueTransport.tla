--------------------------- MODULE QueueTransport ---------------------------
(***************************************************************************)
(* The bounded mailbox behind every queued MediaFlow edge:                 *)
(* QueueTransport<T> of include/mediaflow/core/transport.h.                *)
(*                                                                         *)
(* Producers call Send, consumers call TryReceive, and the owner of the    *)
(* edge (the Graph) calls Open, Close and InterruptBlockedSenders.  Every  *)
(* operation is a critical section under mutex_ followed, once the mutex   *)
(* is released, by space_cv_.notify_all(); the two are separate steps      *)
(* here, so a thread may be preempted between them.  The loops that evict  *)
(* queued messages to make room run one eviction per step, with the mutex  *)
(* held throughout.                                                        *)
(*                                                                         *)
(* A definition marked "Defect" is a variant of the one after it, with a   *)
(* mistake that one of the properties is there to rule out.                *)
(***************************************************************************)
EXTENDS Integers, Sequences, SequencesExt, FiniteSets

CONSTANTS
  Producers,      \* threads that call Send
  Consumers,      \* threads that call TryReceive
  Controller,     \* the thread that opens, closes and interrupts the channel
  NoThread,       \* the holder of a free mutex
  Messages,       \* what may be sent: records [kind, bytes, ts, dur, gen]
  Generations,    \* connection generations of the messages
  Policies,       \* BackpressurePolicy values an edge may be built with
  MaxItems, MaxBytes, MaxSpan,    \* QueueBudget; 0 disables a dimension
  HighPercent, LowPercent,        \* watermarks of the budget
  MaxEpoch,       \* bound: time windows opened per generation
  MaxInterrupts   \* bound: calls of InterruptBlockedSenders

NoTimestamp == -1                       \* kNoQueueTimestamp
Kinds == {"audio", "video", "keyframe", "control", "other"}
Actors == Producers \cup Consumers \cup {Controller}

\* QueueItemTraits of the media messages: an end-of-stream message costs no
\* bytes and has no timestamp.
ASSUME MessagesAssumption ==
  /\ Messages \subseteq [kind : Kinds, bytes : Nat, ts : Nat \cup {NoTimestamp},
                         dur : Nat, gen : Generations]
  /\ \A m \in Messages : m.kind = "control" => m.bytes = 0 /\ m.ts = NoTimestamp
\* QueueBudget::IsValid, and NormalizeBudget's promise that a dimension is on.
ASSUME BudgetAssumption ==
  /\ Policies \subseteq {"Block", "DropNewest", "DropOldest", "PreferVideoKeyframes"}
  /\ MaxItems \in Nat /\ MaxBytes \in Nat /\ MaxSpan \in Nat
  /\ MaxItems + MaxBytes + MaxSpan > 0
  /\ HighPercent \in 0..100 /\ LowPercent \in 0..HighPercent
  /\ MaxEpoch \in Nat /\ MaxInterrupts \in Nat
ASSUME ActorsAssumption ==
  /\ Producers \cap Consumers = {}
  /\ Controller \notin Producers \cup Consumers
  /\ NoThread \notin Actors

VARIABLES
  policy,      \* policy_, fixed at construction
  queue,       \* queue_: entries [msg, win], oldest first
  bytes,       \* bytes_
  latest,      \* latest_timestamp_by_generation_, NoTimestamp when absent
  epoch,       \* time_window_epoch_by_generation_
  high,        \* high_watermark_active_
  closed,      \* closed_
  interrupts,  \* send_interruption_epoch_
  mutex,       \* holder of mutex_ across an eviction loop
  pc,          \* idle, evict (in the loop), wait (on space_cv_), notify
  call,        \* a producer's Send: the message, its window, the captured epoch
  woken,       \* waiters that notify_all, or a spurious wake-up, has released
  result,      \* MailboxPushResult of the Send that is about to return
  evicted      \* history: messages the current Send has evicted

channel == <<queue, bytes, high>>
windows == <<latest, epoch>>
control == <<closed, interrupts>>
threads == <<mutex, pc, call, woken>>
history == <<result, evicted>>
vars == <<policy, channel, windows, control, threads, history>>

NoCall == <<>>
Calls == [msg : Messages, win : Generations \X Nat, seen : Nat]
Results == {"None", "Accepted", "DroppedNewest", "DroppedOldest",
            "Interrupted", "Closed"}

-----------------------------------------------------------------------------
(* What a message costs and whether it fits                                *)

IsControl(m) == m.kind = "control"
IsAudio(m) == m.kind = "audio"
IsKeyframe(m) == m.kind = "keyframe"
IsVideo(m) == m.kind \in {"video", "keyframe"}

EndTimestamp(m) == IF m.ts = NoTimestamp THEN m.ts ELSE m.ts + m.dur

Entry(m, w) == [msg |-> m, win |-> w]

\* The distances from the start of one message to the end of another of the
\* same time window.  Messages of different windows are never measured together.
Spans(q) ==
  {EndTimestamp(q[p[2]].msg) - q[p[1]].msg.ts :
     p \in {r \in (DOMAIN q) \X (DOMAIN q) :
              /\ q[r[1]].win = q[r[2]].win
              /\ q[r[1]].msg.ts # NoTimestamp /\ q[r[2]].msg.ts # NoTimestamp}}

SpanExceeds(q, limit) == \E d \in Spans(q) : d > limit

\* Defect: room for one item too many.
LimitReasonOffByOne(q, b, m, w) ==
  IF MaxItems > 0 /\ Len(q) > MaxItems THEN "Items"
  ELSE IF MaxBytes > 0 /\ m.bytes > MaxBytes THEN "Oversized"
  ELSE IF MaxBytes > 0 /\ b > MaxBytes - m.bytes THEN "Bytes"
  ELSE IF MaxSpan > 0 /\ SpanExceeds(Append(q, Entry(m, w)), MaxSpan) THEN "Span"
  ELSE "None"

\* FitsLocked: the first budget that m exceeds on top of q, which holds b bytes.
LimitReason(q, b, m, w) ==
  IF MaxItems > 0 /\ Len(q) >= MaxItems THEN "Items"
  ELSE IF MaxBytes > 0 /\ m.bytes > MaxBytes THEN "Oversized"
  ELSE IF MaxBytes > 0 /\ b > MaxBytes - m.bytes THEN "Bytes"
  ELSE IF MaxSpan > 0 /\ SpanExceeds(Append(q, Entry(m, w)), MaxSpan)
       THEN IF q = <<>> THEN "Oversized" ELSE "Span"
  ELSE "None"

Fits(m, w) == LimitReason(queue, bytes, m, w) = "None"

\* ResolveTimeWindowLocked: a timestamp that runs backwards opens a new window.
Regresses(m) ==
  m.ts # NoTimestamp /\ latest[m.gen] # NoTimestamp /\ m.ts < latest[m.gen]

\* Defect: a timestamp that runs backwards stays in its window.
WindowOfGeneration(m) == <<m.gen, epoch[m.gen]>>

WindowOf(m) == <<m.gen, IF Regresses(m) THEN epoch[m.gen] + 1 ELSE epoch[m.gen]>>

ResolveTimeWindow(m) ==
  /\ Regresses(m) => epoch[m.gen] < MaxEpoch
  /\ epoch' = [epoch EXCEPT ![m.gen] = WindowOf(m)[2]]
  /\ latest' = IF m.ts = NoTimestamp THEN latest
               ELSE [latest EXCEPT ![m.gen] = m.ts]

-----------------------------------------------------------------------------
(* Watermarks, and the three ways the queue changes                        *)

Reaches(v, limit) == v > 0 /\ limit > 0 /\ v * 100 >= limit * HighPercent
Exceeds(v, limit) == limit > 0 /\ v * 100 > limit * LowPercent

AtOrAboveHigh(q, b) ==
  \/ Reaches(Len(q), MaxItems) \/ Reaches(b, MaxBytes)
  \/ \E d \in Spans(q) : Reaches(d, MaxSpan)
AtOrBelowLow(q, b) ==
  /\ ~Exceeds(Len(q), MaxItems) /\ ~Exceeds(b, MaxBytes)
  /\ \A d \in Spans(q) : ~Exceeds(d, MaxSpan)

UpdateWatermark ==
  high' = IF high THEN ~AtOrBelowLow(queue', bytes') ELSE AtOrAboveHigh(queue', bytes')

AppendLocked(m, w) ==
  /\ queue' = Append(queue, Entry(m, w))
  /\ bytes' = bytes + m.bytes
  /\ UpdateWatermark

\* Defect: they are taken off twice, without the check against underflow.
EraseLockedTwice(i) ==
  /\ queue' = RemoveAt(queue, i)
  /\ bytes' = bytes - 2 * queue[i].msg.bytes
  /\ UpdateWatermark

EraseLocked(i) ==
  /\ queue' = RemoveAt(queue, i)
  /\ bytes' = IF queue[i].msg.bytes > bytes THEN 0 ELSE bytes - queue[i].msg.bytes
  /\ UpdateWatermark

ClearCurrentLocked ==
  /\ queue' = <<>>
  /\ bytes' = 0
  /\ latest' = [g \in Generations |-> NoTimestamp]
  /\ epoch' = [g \in Generations |-> 0]
  /\ UpdateWatermark

-----------------------------------------------------------------------------
(* Which queued message gives way to m                                     *)

\* The position of the oldest message of the given kinds, if there is one.
First(kinds) ==
  {i \in DOMAIN queue : /\ queue[i].msg.kind \in kinds
                        /\ \A j \in 1..(i - 1) : queue[j].msg.kind \notin kinds}

\* Defect: the oldest message gives way, also the end of a stream.
OldestVictim == First(Kinds)

\* FindNonControlLocked
NonControlVictim == First(Kinds \ {"control"})

\* Defect: everything that is not video counts as audio.
PriorityVictimNotVideo(m) ==
  LET audio == First({"audio", "control"})
  IN  IF IsControl(m) THEN NonControlVictim
      ELSE IF ~IsVideo(m) THEN {}
      ELSE IF audio # {} THEN audio
      ELSE IF IsKeyframe(m) THEN First({"video"})
      ELSE {}

\* MakeRoomByPriorityLocked: audio gives way to video, then a plain video frame
\* to a keyframe; only a control message may take any media's place.
PriorityVictim(m) ==
  LET audio == First({"audio"})
  IN  IF IsControl(m) THEN NonControlVictim
      ELSE IF ~IsVideo(m) THEN {}
      ELSE IF audio # {} THEN audio
      ELSE IF IsKeyframe(m) THEN First({"video"})
      ELSE {}

Victim(m) ==
  IF policy = "PreferVideoKeyframes" THEN PriorityVictim(m) ELSE NonControlVictim

\* Whether Send tries to make room for m at all.
MayEvict(m, reason) ==
  /\ reason # "Oversized"
  /\ \/ policy = "DropOldest"
     \/ policy = "PreferVideoKeyframes" /\ ~IsAudio(m)
     \/ policy \in {"Block", "DropNewest"} /\ IsControl(m)

-----------------------------------------------------------------------------
Init ==
  /\ policy \in Policies
  /\ queue = <<>> /\ bytes = 0 /\ high = FALSE
  /\ latest = [g \in Generations |-> NoTimestamp]
  /\ epoch = [g \in Generations |-> 0]
  /\ closed = FALSE /\ interrupts = 0
  /\ mutex = NoThread
  /\ pc = [a \in Actors |-> "idle"]
  /\ call = [p \in Producers |-> NoCall]
  /\ woken = {}
  /\ result = [p \in Producers |-> "None"]
  /\ evicted = [p \in Producers |-> 0]

\* The critical section ends and Send goes on to notify_all with result r.
Finish(p, r) ==
  /\ pc' = [pc EXCEPT ![p] = "notify"]
  /\ call' = [call EXCEPT ![p] = NoCall]
  /\ result' = [result EXCEPT ![p] = r]
  /\ mutex' = NoThread

Remember(p, m, w) ==
  call' = [call EXCEPT ![p] = [msg |-> m, win |-> w, seen |-> interrupts]]

\* space_cv_.wait: capture the interruption epoch, release the mutex, sleep.
Sleep(p, m, w) ==
  /\ pc' = [pc EXCEPT ![p] = "wait"]
  /\ Remember(p, m, w)
  /\ mutex' = NoThread

SendClosed(p, m) ==
  /\ closed
  /\ Finish(p, "Closed")
  /\ UNCHANGED <<channel, windows>>

SendOpen(p, m) ==
  LET w == WindowOf(m)
      reason == LimitReason(queue, bytes, m, w)
  IN
  /\ ~closed
  /\ ResolveTimeWindow(m)
  /\ \/ /\ reason = "None"
        /\ AppendLocked(m, w)
        /\ Finish(p, "Accepted")
     \/ /\ reason # "None" /\ MayEvict(m, reason)
        /\ pc' = [pc EXCEPT ![p] = "evict"]
        /\ Remember(p, m, w)
        /\ mutex' = p
        /\ UNCHANGED <<channel, result>>
     \/ /\ reason # "None" /\ ~MayEvict(m, reason)
        /\ policy = "Block" /\ reason # "Oversized"
        /\ Sleep(p, m, w)
        /\ UNCHANGED <<channel, result>>
     \/ /\ reason # "None" /\ ~MayEvict(m, reason)
        /\ policy # "Block" \/ reason = "Oversized"
        /\ Finish(p, "DroppedNewest")
        /\ UNCHANGED channel

\* Send(value), up to the end of its critical section or its first wait.
Send(p) ==
  /\ pc[p] = "idle" /\ mutex = NoThread
  /\ \E m \in Messages : SendClosed(p, m) \/ SendOpen(p, m)
  /\ UNCHANGED <<policy, control, woken, evicted>>

\* One turn of MakeRoomByDroppingOldestLocked / MakeRoomByPriorityLocked.
EvictOne(p) ==
  /\ pc[p] = "evict"
  /\ ~Fits(call[p].msg, call[p].win)
  /\ policy = "DropNewest" => evicted[p] = 0
  /\ \E i \in Victim(call[p].msg) : EraseLocked(i)
  /\ evicted' = [evicted EXCEPT ![p] = @ + 1]
  /\ UNCHANGED <<policy, windows, control, threads, result>>

\* The loop ends with room for the message.
EvictDone(p) ==
  /\ pc[p] = "evict"
  /\ Fits(call[p].msg, call[p].win)
  /\ AppendLocked(call[p].msg, call[p].win)
  /\ Finish(p, "DroppedOldest")
  /\ UNCHANGED <<policy, windows, control, woken, evicted>>

\* The loop ends without room: a Block sender waits, any other is refused.
EvictFailed(p) ==
  /\ pc[p] = "evict"
  /\ ~Fits(call[p].msg, call[p].win)
  /\ Victim(call[p].msg) = {} \/ (policy = "DropNewest" /\ evicted[p] > 0)
  /\ \/ /\ policy = "Block"
        /\ Sleep(p, call[p].msg, call[p].win)
        /\ UNCHANGED result
     \/ /\ policy # "Block"
        /\ Finish(p, "DroppedNewest")
  /\ UNCHANGED <<policy, channel, windows, control, woken, evicted>>

\* The predicate of space_cv_.wait.
WaitOver(p) ==
  \/ closed
  \/ interrupts # call[p].seen
  \/ Fits(call[p].msg, call[p].win)

\* Defect: the predicate of the wait ignores interruptions.
WaitCheckDeaf(p) ==
  /\ pc[p] = "wait" /\ p \in woken /\ mutex = NoThread
  /\ woken' = woken \ {p}
  /\ \/ /\ closed
        /\ Finish(p, "Closed")
        /\ UNCHANGED channel
     \/ /\ ~closed /\ Fits(call[p].msg, call[p].win)
        /\ AppendLocked(call[p].msg, call[p].win)
        /\ Finish(p, "Accepted")
     \/ /\ ~closed /\ ~Fits(call[p].msg, call[p].win)
        /\ UNCHANGED <<channel, mutex, pc, call, result>>
  /\ UNCHANGED <<policy, windows, control, evicted>>

\* A woken sender re-acquires the mutex and tests the predicate.
WaitCheck(p) ==
  /\ pc[p] = "wait" /\ p \in woken /\ mutex = NoThread
  /\ woken' = woken \ {p}
  /\ \/ /\ closed
        /\ Finish(p, "Closed")
        /\ UNCHANGED channel
     \/ /\ ~closed /\ interrupts # call[p].seen
        /\ Finish(p, "Interrupted")
        /\ UNCHANGED channel
     \/ /\ ~closed /\ interrupts = call[p].seen
        /\ Fits(call[p].msg, call[p].win)
        /\ AppendLocked(call[p].msg, call[p].win)
        /\ Finish(p, "Accepted")
     \/ /\ ~WaitOver(p)
        /\ UNCHANGED <<channel, mutex, pc, call, result>>
  /\ UNCHANGED <<policy, windows, control, evicted>>

\* Defect: a consumer frees a slot and tells nobody.
TryReceiveSilent(c) ==
  /\ pc[c] = "idle" /\ mutex = NoThread
  /\ queue # <<>> /\ EraseLocked(1)
  /\ UNCHANGED <<policy, windows, control, threads, history>>

TryReceive(c) ==
  /\ pc[c] = "idle" /\ mutex = NoThread
  /\ \/ queue # <<>> /\ EraseLocked(1)
     \/ queue = <<>> /\ UNCHANGED channel
  /\ pc' = [pc EXCEPT ![c] = "notify"]
  /\ UNCHANGED <<policy, windows, control, mutex, call, woken, history>>

ControllerStep ==
  /\ pc[Controller] = "idle" /\ mutex = NoThread
  /\ pc' = [pc EXCEPT ![Controller] = "notify"]
  /\ UNCHANGED <<policy, mutex, call, woken, result, evicted>>

Open ==
  /\ ControllerStep
  /\ ClearCurrentLocked
  /\ closed' = FALSE
  /\ UNCHANGED interrupts

Close ==
  /\ ControllerStep
  /\ ClearCurrentLocked
  /\ closed' = TRUE
  /\ UNCHANGED interrupts

InterruptBlockedSenders ==
  /\ interrupts < MaxInterrupts
  /\ ControllerStep
  /\ interrupts' = interrupts + 1
  /\ UNCHANGED <<channel, windows, closed>>

\* space_cv_.notify_all() outside the mutex; the operation then returns.
Notify(a) ==
  /\ pc[a] = "notify"
  /\ woken' = woken \cup {p \in Producers : pc[p] = "wait"}
  /\ pc' = [pc EXCEPT ![a] = "idle"]
  /\ result' = [p \in Producers |-> IF p = a THEN "None" ELSE result[p]]
  /\ evicted' = [p \in Producers |-> IF p = a THEN 0 ELSE evicted[p]]
  /\ UNCHANGED <<policy, channel, windows, control, mutex, call>>

\* A condition variable may wake a waiter without a notification.
SpuriousWake(p) ==
  /\ pc[p] = "wait" /\ p \notin woken
  /\ woken' = woken \cup {p}
  /\ UNCHANGED <<policy, channel, windows, control, mutex, pc, call, history>>

Next ==
  \/ \E p \in Producers : \/ Send(p) \/ EvictOne(p) \/ EvictDone(p) \/ EvictFailed(p)
                          \/ WaitCheck(p) \/ SpuriousWake(p)
  \/ \E c \in Consumers : TryReceive(c)
  \/ Open \/ Close \/ InterruptBlockedSenders
  \/ \E a \in Actors : Notify(a)

Spec == Init /\ [][Next]_vars

\* Threads that are past their critical section run on; a woken sender gets the
\* mutex eventually although others may take it in between.  Nobody has to
\* send, receive, close or interrupt, and no wake-up is spurious by necessity.
Fairness ==
  /\ \A a \in Actors : WF_vars(Notify(a))
  /\ \A p \in Producers : /\ WF_vars(EvictOne(p) \/ EvictDone(p) \/ EvictFailed(p))
                          /\ SF_vars(WaitCheck(p))

FairSpec == Spec /\ Fairness

-----------------------------------------------------------------------------
(* Properties                                                              *)

\* Every variable holds a value of its kind.
TypeOK ==
  /\ policy \in Policies
  /\ queue \in Seq([msg : Messages, win : Generations \X Nat])
  /\ bytes \in Nat /\ high \in BOOLEAN
  /\ latest \in [Generations -> Nat \cup {NoTimestamp}]
  /\ epoch \in [Generations -> Nat]
  /\ closed \in BOOLEAN /\ interrupts \in Nat
  /\ mutex \in Producers \cup {NoThread}
  /\ pc \in [Actors -> {"idle", "evict", "wait", "notify"}]
  /\ call \in [Producers -> Calls \cup {NoCall}]
  /\ woken \subseteq Producers
  /\ result \in [Producers -> Results]
  /\ evicted \in [Producers -> Nat]

\* No dimension of the budget is ever exceeded, whatever mix of evictions,
\* waits, clears and concurrent senders led to the queue.
BudgetRespected ==
  /\ MaxItems > 0 => Len(queue) <= MaxItems
  /\ MaxBytes > 0 => bytes <= MaxBytes
  /\ MaxSpan > 0 => ~SpanExceeds(queue, MaxSpan)

\* bytes_, which is maintained incrementally and reset by Open and Close, is
\* what the queued messages weigh.
BytesAccounted == bytes = FoldSeq(LAMBDA e, sum : e.msg.bytes + sum, 0, queue)

\* A closed channel holds nothing, although senders may be about to append.
ClosedIsEmpty == closed => queue = <<>>

\* A sender does not sleep on a predicate that came true unless somebody is
\* still going to call notify_all, or holds the mutex and has to let go of it.
NoLostWakeup ==
  \A p \in Producers :
    (pc[p] = "wait" /\ p \notin woken /\ WaitOver(p)) =>
      mutex # NoThread \/ \E a \in Actors : pc[a] = "notify"

\* The high-water flag follows the occupancy with hysteresis through every
\* append, eviction, receive and clear (for watermarks that differ).
WatermarkAgrees ==
  LowPercent < HighPercent =>
    IF high THEN ~AtOrBelowLow(queue, bytes) ELSE ~AtOrAboveHigh(queue, bytes)

\* In one time window queued messages are in timestamp order, so a span is the
\* age of a backlog; a reconnect or a timestamp reset never mixes two time
\* lines.  (A Block sender resolves its window before it waits: no promise.)
TimelineOrdered ==
  policy # "Block" =>
    \A i, j \in DOMAIN queue :
      (/\ i < j /\ queue[i].win = queue[j].win
       /\ queue[i].msg.ts # NoTimestamp /\ queue[j].msg.ts # NoTimestamp) =>
         queue[i].msg.ts <= queue[j].msg.ts

\* What the channel says of its backlog is true: its weight, its level and its age.
BacklogDescribed == BytesAccounted /\ WatermarkAgrees /\ TimelineOrdered

Queued(kinds, q) == {i \in DOMAIN q : q[i].msg.kind \in kinds}

\* Eviction goes by rank.  Under no policy does it take a control boundary, and
\* under PreferVideoKeyframes only a boundary takes a keyframe's place, and a
\* keyframe is refused only when nothing weaker is queued.
RankRespected ==
  [][\A p \in Producers : pc[p] = "evict" =>
       /\ Cardinality(Queued({"control"}, queue')) >= Cardinality(Queued({"control"}, queue))
       /\ policy = "PreferVideoKeyframes" =>
            /\ ~IsControl(call[p].msg) =>
                 Cardinality(Queued({"keyframe"}, queue')) >= Cardinality(Queued({"keyframe"}, queue))
            /\ (IsKeyframe(call[p].msg) /\ result'[p] = "DroppedNewest") =>
                 Queued({"audio", "video"}, queue) = {}]_vars

\* The inductive strengthening of NoLostWakeup.  One thread at a time is in an
\* eviction loop, on an open channel; on a Block edge it sends a control message,
\* for which a single eviction makes room, so it never goes back to sleep with
\* an eviction that nobody was told about.
LockDiscipline ==
  /\ \A p \in Producers :
       /\ pc[p] = "evict" <=> mutex = p
       /\ pc[p] \in {"evict", "wait"} => call[p] \in Calls
       /\ pc[p] \notin {"evict", "notify"} => evicted[p] = 0
       /\ pc[p] = "evict" => ~closed
       /\ pc[p] = "evict" /\ policy = "Block" => IsControl(call[p].msg)
       /\ (pc[p] = "evict" /\ policy = "Block" /\ evicted[p] > 0) =>
            Fits(call[p].msg, call[p].win)
  /\ \A a \in Actors \ Producers : pc[a] \in {"idle", "notify"}

WakeupPending ==
  \A p \in Producers :
    (pc[p] = "wait" /\ p \notin woken /\ WaitOver(p)) =>
      \/ \E a \in Actors : pc[a] = "notify"
      \/ \E q \in Producers : pc[q] = "evict" /\ evicted[q] > 0

IInv == TypeOK /\ BudgetRespected /\ ClosedIsEmpty /\ LockDiscipline /\ WakeupPending

\* InterruptBlockedSenders gets every sender that was waiting out of Send,
\* although the channel stays open and full.
InterruptReleases ==
  \A p \in Producers :
    (pc[p] = "wait" /\ interrupts # call[p].seen) ~> (pc[p] # "wait")

\* Close gets every waiting sender out of Send, unless the channel is opened again.
CloseReleases ==
  \A p \in Producers : (pc[p] = "wait" /\ closed) ~> (pc[p] # "wait" \/ ~closed)

\* A sender that waits gets out of Send: nobody has to receive for it.
WaitersReleased == InterruptReleases /\ CloseReleases

\* QueueTransport keeps the promises of a mailbox: first in, first out, control
\* boundaries never shed, nothing enters a closed channel.
Contents(q) == [i \in DOMAIN q |-> q[i].msg]
Box == INSTANCE Mailbox WITH
         box <- Contents(queue), open <- ~closed, Capacity <- MaxItems,
         Boundaries <- {m \in Messages : IsControl(m)}
ImplementsMailbox == Box!Spec

=============================================================================
