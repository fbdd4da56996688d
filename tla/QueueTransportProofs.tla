------------------------ MODULE QueueTransportProofs ------------------------
(***************************************************************************)
(* Machine-checked proofs about QueueTransport for every set of producers, *)
(* consumers and messages, every budget and every back-pressure policy.    *)
(***************************************************************************)
EXTENDS QueueTransport, SequenceTheorems, FiniteSetTheorems, WellFoundedInduction, TLAPS

Entries == [msg : Messages, win : Generations \X Nat]

-----------------------------------------------------------------------------
(* Facts about the operators of the model                                  *)

\* Removing one element keeps the others, in order.
LEMMA RemoveAtProperties ==
  ASSUME NEW S, NEW q \in Seq(S), NEW i \in DOMAIN q
  PROVE  /\ RemoveAt(q, i) \in Seq(S)
         /\ Len(RemoveAt(q, i)) = Len(q) - 1
         /\ \A j \in 1..(Len(q) - 1) :
              RemoveAt(q, i)[j] = q[IF j < i THEN j ELSE j + 1]
<1> DEFINE before == SubSeq(q, 1, i - 1)
           after == SubSeq(q, i + 1, Len(q))
<1>1. i \in 1..Len(q) /\ Len(q) \in Nat /\ \A j \in 1..Len(q) : q[j] \in S
  OBVIOUS
<1>2. /\ before \in Seq(S) /\ Len(before) = i - 1
      /\ \A j \in 1..(i - 1) : before[j] = q[j]
  BY <1>1, SubSeqProperties
<1>3. /\ after \in Seq(S) /\ Len(after) = Len(q) - i
      /\ \A j \in 1..(Len(q) - i) : after[j] = q[j + i]
  BY <1>1, SubSeqProperties
<1> HIDE DEF before, after
<1>4. \A j \in 1..(Len(q) - 1) :
        (before \o after)[j] = q[IF j < i THEN j ELSE j + 1]
  <2> TAKE j \in 1..(Len(q) - 1)
  <2>1. CASE j < i
    BY <1>1, <1>2, <1>3, <2>1
  <2>2. CASE ~(j < i)
    <3>1. j - (i - 1) \in 1..(Len(q) - i) /\ j - (i - 1) + i = j + 1
      BY <1>1, <2>2
    <3>2. (before \o after)[j] = after[j - Len(before)]
      BY <1>1, <1>2, <1>3, <2>2, ConcatProperties
    <3>3. after[j - (i - 1)] = q[j + 1]
      BY <1>3, <3>1
    <3> QED  BY <1>2, <2>2, <3>2, <3>3
  <2> QED  BY <2>1, <2>2
<1>5. before \o after \in Seq(S) /\ Len(before \o after) = Len(q) - 1
  BY <1>1, <1>2, <1>3
<1>6. RemoveAt(q, i) = before \o after
  BY DEF RemoveAt, before, after
<1> QED  BY <1>4, <1>5, <1>6

\* Taking a message out lengthens no span.
LEMMA RemoveAtSpans ==
  ASSUME NEW q \in Seq(Entries), NEW i \in DOMAIN q
  PROVE  Spans(RemoveAt(q, i)) \subseteq Spans(q)
<1> DEFINE r == RemoveAt(q, i)
           at(j) == IF j < i THEN j ELSE j + 1
<1>1. /\ r \in Seq(Entries) /\ Len(r) = Len(q) - 1
      /\ \A j \in DOMAIN r : at(j) \in DOMAIN q /\ r[j] = q[at(j)]
  <2>1. /\ r \in Seq(Entries) /\ Len(r) = Len(q) - 1
        /\ \A j \in 1..(Len(q) - 1) : r[j] = q[at(j)]
    BY RemoveAtProperties
  <2> HIDE DEF r
  <2>2. DOMAIN r = 1..(Len(q) - 1) /\ DOMAIN q = 1..Len(q) /\ Len(q) \in Nat
    BY <2>1
  <2> QED  BY <2>1, <2>2
<1> HIDE DEF r
<1>2. SUFFICES ASSUME NEW j \in DOMAIN r, NEW k \in DOMAIN r,
                      r[j].win = r[k].win,
                      r[j].msg.ts # NoTimestamp, r[k].msg.ts # NoTimestamp
               PROVE  EndTimestamp(r[k].msg) - r[j].msg.ts \in Spans(q)
  BY DEF Spans, r
<1>3. <<at(j), at(k)>> \in (DOMAIN q) \X (DOMAIN q)
  BY <1>1
<1>4. r[j] = q[at(j)] /\ r[k] = q[at(k)]
  BY <1>1
<1> HIDE DEF at
<1> QED  BY <1>2, <1>3, <1>4 DEF Spans

\* A message without a timestamp adds no span.
LEMMA UntimedAppendSpans ==
  ASSUME NEW q \in Seq(Entries), NEW e \in Entries, e.msg.ts = NoTimestamp
  PROVE  Spans(Append(q, e)) = Spans(q)
<1> DEFINE r == Append(q, e)
<1>1. /\ DOMAIN r = 1..(Len(q) + 1) /\ DOMAIN q = 1..Len(q)
      /\ r[Len(q) + 1] = e
      /\ \A j \in DOMAIN q : j \in DOMAIN r /\ r[j] = q[j]
      /\ \A j \in DOMAIN r : j \in DOMAIN q \/ j = Len(q) + 1
  OBVIOUS
<1> HIDE DEF r
<1>2. Spans(r) \subseteq Spans(q)
  BY <1>1 DEF Spans
<1>3. Spans(q) \subseteq Spans(r)
  BY <1>1 DEF Spans
<1> QED  BY <1>2, <1>3 DEF r

LEMMA MessageTypes ==
  ASSUME NEW m \in Messages
  PROVE  /\ m.bytes \in Nat /\ m.ts \in Nat \cup {NoTimestamp}
         /\ m.gen \in Generations /\ m.kind \in Kinds
         /\ m.kind = "control" => m.bytes = 0 /\ m.ts = NoTimestamp
  BY MessagesAssumption

\* What a message that fits may count on.
LEMMA FitsBudget ==
  ASSUME TypeOK, NEW m \in Messages, NEW w \in Generations \X Nat, Fits(m, w)
  PROVE  LET q == Append(queue, Entry(m, w)) IN
           /\ MaxItems > 0 => Len(q) <= MaxItems
           /\ MaxBytes > 0 => bytes + m.bytes <= MaxBytes
           /\ MaxSpan > 0 => ~SpanExceeds(q, MaxSpan)
<1>1. queue \in Seq(Entries) /\ bytes \in Nat /\ Entry(m, w) \in Entries
  BY DEF TypeOK, Entries, Entry
<1>2. m.bytes \in Nat /\ MaxItems \in Nat /\ MaxBytes \in Nat
  BY MessageTypes, BudgetAssumption
<1>3. Len(Append(queue, Entry(m, w))) = Len(queue) + 1 /\ Len(queue) \in Nat
  BY <1>1
<1> QED  BY <1>1, <1>2, <1>3 DEF Fits, LimitReason

\* A control message fits whenever one item slot is free.
LEMMA ControlFits ==
  ASSUME NEW q \in Seq(Entries), NEW b \in Nat,
         MaxItems > 0 => Len(q) < MaxItems,
         MaxBytes > 0 => b <= MaxBytes,
         MaxSpan > 0 => ~SpanExceeds(q, MaxSpan),
         NEW m \in Messages, NEW w \in Generations \X Nat, IsControl(m)
  PROVE  LimitReason(q, b, m, w) = "None"
<1>1. Entry(m, w) \in Entries /\ Entry(m, w).msg = m
  BY DEF Entries, Entry
<1>2. m.bytes = 0 /\ m.ts = NoTimestamp
  BY MessageTypes DEF IsControl
<1>3. Spans(Append(q, Entry(m, w))) = Spans(q)
  BY <1>1, <1>2, UntimedAppendSpans
<1>4. ~(MaxSpan > 0 /\ SpanExceeds(Append(q, Entry(m, w)), MaxSpan))
  BY <1>3 DEF SpanExceeds
<1>5. ~(MaxItems > 0 /\ Len(q) >= MaxItems)
  BY BudgetAssumption
<1>6. ~(MaxBytes > 0 /\ m.bytes > MaxBytes) /\ ~(MaxBytes > 0 /\ b > MaxBytes - m.bytes)
  BY <1>2, BudgetAssumption
<1> QED  BY <1>4, <1>5, <1>6 DEF LimitReason

-----------------------------------------------------------------------------
(* What the three ways of changing the queue preserve                      *)

LEMMA WatermarkBoolean == UpdateWatermark => high' \in BOOLEAN
  BY DEF UpdateWatermark, AtOrBelowLow, AtOrAboveHigh, Reaches

LEMMA AppendPreserves ==
  ASSUME TypeOK, NEW m \in Messages, NEW w \in Generations \X Nat,
         Fits(m, w), AppendLocked(m, w)
  PROVE  /\ queue' \in Seq(Entries) /\ bytes' \in Nat /\ high' \in BOOLEAN
         /\ BudgetRespected'
<1>1. queue \in Seq(Entries) /\ bytes \in Nat /\ Entry(m, w) \in Entries /\ m.bytes \in Nat
  BY MessageTypes DEF TypeOK, Entries, Entry
<1>2. high' \in BOOLEAN
  BY WatermarkBoolean DEF AppendLocked
<1>3. BudgetRespected'
  BY FitsBudget DEF AppendLocked, BudgetRespected
<1> QED  BY <1>1, <1>2, <1>3 DEF AppendLocked

LEMMA ErasePreserves ==
  ASSUME TypeOK, BudgetRespected, NEW i \in DOMAIN queue, EraseLocked(i)
  PROVE  /\ queue' \in Seq(Entries) /\ bytes' \in Nat /\ high' \in BOOLEAN
         /\ Len(queue') = Len(queue) - 1
         /\ BudgetRespected'
<1>1. queue \in Seq(Entries) /\ bytes \in Nat /\ queue[i].msg \in Messages
  <2>1. queue \in Seq(Entries) /\ bytes \in Nat
    BY DEF TypeOK, Entries
  <2>2. queue[i] \in Entries
    BY <2>1
  <2> QED  BY <2>1, <2>2 DEF Entries
<1>2. queue[i].msg.bytes \in Nat /\ MaxItems \in Nat /\ MaxBytes \in Nat
  BY <1>1, MessageTypes, BudgetAssumption
<1>3. bytes' \in Nat /\ bytes' <= bytes
  BY <1>1, <1>2 DEF EraseLocked
<1>4. queue' \in Seq(Entries) /\ Len(queue') = Len(queue) - 1 /\ Len(queue) \in Nat
  BY <1>1, RemoveAtProperties DEF EraseLocked
<1>5. Spans(queue') \subseteq Spans(queue)
  BY <1>1, RemoveAtSpans DEF EraseLocked
<1>6. high' \in BOOLEAN
  BY WatermarkBoolean DEF EraseLocked
<1>7. BudgetRespected'
  BY <1>1, <1>2, <1>3, <1>4, <1>5 DEF BudgetRespected, SpanExceeds
<1> QED  BY <1>3, <1>4, <1>6, <1>7

LEMMA ClearPreserves ==
  ASSUME TypeOK, ClearCurrentLocked
  PROVE  /\ queue' = <<>> /\ queue' \in Seq(Entries) /\ bytes' \in Nat /\ high' \in BOOLEAN
         /\ latest' \in [Generations -> Nat \cup {NoTimestamp}]
         /\ epoch' \in [Generations -> Nat]
         /\ BudgetRespected'
<1>1. queue' = <<>> /\ bytes' = 0 /\ queue' \in Seq(Entries)
  BY DEF ClearCurrentLocked
<1>2. Spans(queue') = {} /\ Len(queue') = 0
  BY <1>1 DEF Spans
<1>3. BudgetRespected'
  BY <1>1, <1>2, BudgetAssumption DEF BudgetRespected, SpanExceeds
<1> QED  BY <1>1, <1>3, WatermarkBoolean DEF ClearCurrentLocked

LEMMA ResolvePreserves ==
  ASSUME TypeOK, NEW m \in Messages
  PROVE  /\ WindowOf(m) \in Generations \X Nat
         /\ ResolveTimeWindow(m) => /\ latest' \in [Generations -> Nat \cup {NoTimestamp}]
                                    /\ epoch' \in [Generations -> Nat]
<1>1. m.gen \in Generations /\ m.ts \in Nat \cup {NoTimestamp}
  BY MessageTypes
<1>2. epoch[m.gen] \in Nat
  BY <1>1 DEF TypeOK
<1>3. WindowOf(m) \in Generations \X Nat /\ WindowOf(m)[2] \in Nat
  BY <1>1, <1>2 DEF WindowOf
<1> QED  BY <1>1, <1>3 DEF ResolveTimeWindow, TypeOK

-----------------------------------------------------------------------------
(* The inductive invariant: one lemma per operation                        *)

LEMMA ActorFacts ==
  /\ \A p \in Producers : p \in Actors /\ p # Controller /\ p \notin Consumers /\ p # NoThread
  /\ \A c \in Consumers : c \in Actors /\ c # Controller /\ c \notin Producers
  /\ Controller \in Actors /\ Controller \notin Producers
  BY ActorsAssumption DEF Actors

\* An operation about to notify covers every sender that sleeps.
LEMMA NotifierCovers ==
  ASSUME NEW a \in Actors, pc'[a] = "notify"
  PROVE  WakeupPending'
  BY DEF WakeupPending

LEMMA InitIInv == Init => IInv
<1> SUFFICES ASSUME Init PROVE IInv
  OBVIOUS
<1>1. TypeOK
  <2>1. queue \in Seq([msg : Messages, win : Generations \X Nat])
    BY DEF Init
  <2>2. /\ latest \in [Generations -> Nat \cup {NoTimestamp}]
        /\ epoch \in [Generations -> Nat]
        /\ pc \in [Actors -> {"idle", "evict", "wait", "notify"}]
        /\ call \in [Producers -> Calls \cup {NoCall}]
        /\ result \in [Producers -> Results]
        /\ evicted \in [Producers -> Nat]
    BY DEF Init, Results
  <2> QED  BY <2>1, <2>2 DEF Init, TypeOK
<1>2. BudgetRespected
  <2>1. Spans(queue) = {} /\ Len(queue) = 0
    BY DEF Init, Spans
  <2> QED  BY <2>1, BudgetAssumption DEF Init, BudgetRespected, SpanExceeds
<1>3. LockDiscipline /\ WakeupPending
  BY ActorFacts DEF Init, LockDiscipline, WakeupPending
<1> QED  BY <1>1, <1>2, <1>3 DEF IInv, ClosedIsEmpty, Init

LEMMA SendPreserves ==
  ASSUME IInv, NEW p \in Producers, Send(p)
  PROVE  IInv'
<1> USE ActorFacts
<1> PICK m \in Messages : SendClosed(p, m) \/ SendOpen(p, m)
  BY DEF Send
<1>0. /\ TypeOK /\ BudgetRespected /\ ClosedIsEmpty /\ LockDiscipline /\ WakeupPending
      /\ pc[p] = "idle" /\ mutex = NoThread /\ evicted[p] = 0
      /\ \A q \in Producers : pc[q] # "evict"
      /\ UNCHANGED <<policy, closed, interrupts, woken, evicted>>
  BY DEF IInv, Send, control, LockDiscipline
<1>1. CASE SendClosed(p, m)
  <2>1. UNCHANGED <<queue, bytes, high, latest, epoch>> /\ Finish(p, "Closed")
    BY <1>1 DEF SendClosed, channel, windows
  <2>2. TypeOK'
    BY <1>0, <2>1 DEF TypeOK, Finish, Results
  <2>3. BudgetRespected' /\ ClosedIsEmpty'
    BY <1>0, <2>1 DEF BudgetRespected, ClosedIsEmpty
  <2>4. LockDiscipline'
    BY <1>0, <2>1 DEF LockDiscipline, Finish, TypeOK
  <2>5. WakeupPending'
    BY <1>0, <2>1, NotifierCovers DEF Finish, TypeOK
  <2> QED  BY <2>2, <2>3, <2>4, <2>5 DEF IInv
<1>2. CASE SendOpen(p, m)
  <2> DEFINE w == WindowOf(m)
             reason == LimitReason(queue, bytes, m, w)
  <2>1. /\ ~closed /\ w \in Generations \X Nat
        /\ latest' \in [Generations -> Nat \cup {NoTimestamp}]
        /\ epoch' \in [Generations -> Nat]
    BY <1>0, <1>2, ResolvePreserves DEF SendOpen
  <2> HIDE DEF w
  <2>2. CASE reason = "None" /\ AppendLocked(m, w) /\ Finish(p, "Accepted")
    <3>1. /\ queue' \in Seq(Entries) /\ bytes' \in Nat /\ high' \in BOOLEAN
          /\ BudgetRespected'
      BY <1>0, <2>1, <2>2, AppendPreserves DEF Fits
    <3>2. TypeOK'
      BY <1>0, <2>1, <2>2, <3>1 DEF TypeOK, Finish, Results, Entries
    <3>3. LockDiscipline'
      BY <1>0, <2>2 DEF LockDiscipline, Finish, TypeOK
    <3>4. WakeupPending'
      BY <1>0, <2>2, NotifierCovers DEF Finish, TypeOK
    <3> QED  BY <1>0, <2>1, <3>1, <3>2, <3>3, <3>4 DEF IInv, ClosedIsEmpty
  <2>3. CASE /\ reason # "None" /\ MayEvict(m, reason)
             /\ pc' = [pc EXCEPT ![p] = "evict"]
             /\ Remember(p, m, w) /\ mutex' = p
             /\ UNCHANGED <<channel, result>>
    <3>1. UNCHANGED <<queue, bytes, high, result>>
      BY <2>3 DEF channel
    <3>2. TypeOK'
      BY <1>0, <2>1, <2>3, <3>1 DEF TypeOK, Remember, Calls
    <3>3. BudgetRespected' /\ ClosedIsEmpty'
      BY <1>0, <3>1 DEF BudgetRespected, ClosedIsEmpty
    <3>4. LockDiscipline'
      <4>1. call'[p] \in Calls /\ call'[p].msg = m
        BY <1>0, <2>1, <2>3 DEF TypeOK, Remember, Calls
      <4>2. policy = "Block" => IsControl(m)
        BY <2>3 DEF MayEvict
      <4> QED  BY <1>0, <2>1, <2>3, <4>1, <4>2 DEF LockDiscipline, TypeOK, Remember
    <3>5. WakeupPending'
      <4> SUFFICES ASSUME NEW q \in Producers,
                          pc'[q] = "wait", q \notin woken', WaitOver(q)'
                   PROVE  \E a \in Actors : pc'[a] = "notify"
        BY DEF WakeupPending
      <4>1. q # p /\ pc[q] = "wait" /\ q \notin woken /\ call'[q] = call[q]
        BY <1>0, <2>3 DEF TypeOK, Remember
      <4>2. WaitOver(q)
        BY <1>0, <3>1, <4>1 DEF WaitOver, Fits, LimitReason
      <4>3. PICK a \in Actors : pc[a] = "notify"
        BY <1>0, <4>1, <4>2 DEF WakeupPending
      <4> QED  BY <1>0, <2>3, <4>3 DEF TypeOK
    <3> QED  BY <3>2, <3>3, <3>4, <3>5 DEF IInv
  <2>4. CASE /\ reason # "None" /\ ~MayEvict(m, reason)
             /\ policy = "Block" /\ reason # "Oversized"
             /\ Sleep(p, m, w)
             /\ UNCHANGED <<channel, result>>
    <3>1. UNCHANGED <<queue, bytes, high, result>>
      BY <2>4 DEF channel
    <3>2. TypeOK'
      BY <1>0, <2>1, <2>4, <3>1 DEF TypeOK, Remember, Sleep, Calls
    <3>3. BudgetRespected' /\ ClosedIsEmpty'
      BY <1>0, <3>1 DEF BudgetRespected, ClosedIsEmpty
    <3>4. LockDiscipline'
      <4>1. call'[p] \in Calls
        BY <1>0, <2>1, <2>4 DEF TypeOK, Sleep, Remember, Calls
      <4> QED  BY <1>0, <2>1, <2>4, <4>1 DEF LockDiscipline, TypeOK, Sleep, Remember
    <3>5. WakeupPending'
      <4> SUFFICES ASSUME NEW q \in Producers,
                          pc'[q] = "wait", q \notin woken', WaitOver(q)'
                   PROVE  \E a \in Actors : pc'[a] = "notify"
        BY DEF WakeupPending
      <4>1. CASE q = p
        <5>1. call'[p].msg = m /\ call'[p].win = w /\ call'[p].seen = interrupts
          BY <1>0, <2>4 DEF TypeOK, Sleep, Remember
        <5> QED  BY <1>0, <2>1, <2>4, <3>1, <4>1, <5>1 DEF WaitOver, Fits, LimitReason
      <4>2. CASE q # p
        <5>1. pc[q] = "wait" /\ q \notin woken /\ call'[q] = call[q]
          BY <1>0, <2>4, <4>2 DEF TypeOK, Sleep, Remember
        <5>2. WaitOver(q)
          BY <1>0, <3>1, <5>1 DEF WaitOver, Fits, LimitReason
        <5>3. PICK a \in Actors : pc[a] = "notify"
          BY <1>0, <5>1, <5>2 DEF WakeupPending
        <5> QED  BY <1>0, <2>4, <5>3 DEF TypeOK, Sleep
      <4> QED  BY <4>1, <4>2
    <3> QED  BY <3>2, <3>3, <3>4, <3>5 DEF IInv
  <2>5. CASE Finish(p, "DroppedNewest") /\ UNCHANGED channel
    <3>1. UNCHANGED <<queue, bytes, high>>
      BY <2>5 DEF channel
    <3>2. TypeOK'
      BY <1>0, <2>1, <2>5, <3>1 DEF TypeOK, Finish, Results
    <3>3. BudgetRespected' /\ ClosedIsEmpty'
      BY <1>0, <3>1 DEF BudgetRespected, ClosedIsEmpty
    <3>4. LockDiscipline'
      BY <1>0, <2>5 DEF LockDiscipline, Finish, TypeOK
    <3>5. WakeupPending'
      BY <1>0, <2>5, NotifierCovers DEF Finish, TypeOK
    <3> QED  BY <3>2, <3>3, <3>4, <3>5 DEF IInv
  <2> QED  BY <1>2, <2>2, <2>3, <2>4, <2>5 DEF SendOpen, w
<1> QED  BY <1>1, <1>2

\* What holds while p is in the eviction loop.
LEMMA EvictFacts ==
  ASSUME IInv, NEW p \in Producers, pc[p] = "evict"
  PROVE  /\ mutex = p /\ ~closed
         /\ call[p].msg \in Messages /\ call[p].win \in Generations \X Nat
         /\ \A q \in Producers : pc[q] = "evict" => q = p
  BY ActorFacts DEF IInv, LockDiscipline, Calls

LEMMA EvictOnePreserves ==
  ASSUME IInv, NEW p \in Producers, EvictOne(p)
  PROVE  IInv'
<1> USE ActorFacts
<1>0. /\ TypeOK /\ BudgetRespected /\ LockDiscipline
      /\ pc[p] = "evict" /\ pc' = pc /\ mutex' = mutex /\ call' = call /\ woken' = woken
      /\ policy' = policy /\ closed' = closed /\ interrupts' = interrupts
      /\ latest' = latest /\ epoch' = epoch /\ result' = result
      /\ evicted' = [evicted EXCEPT ![p] = @ + 1]
  BY DEF IInv, EvictOne, windows, control, threads
<1>1. /\ mutex = p /\ ~closed
      /\ call[p].msg \in Messages /\ call[p].win \in Generations \X Nat
      /\ \A q \in Producers : pc[q] = "evict" => q = p
  BY <1>0, EvictFacts
<1>2. PICK i \in Victim(call[p].msg) : EraseLocked(i)
  BY DEF EvictOne
<1>3. i \in DOMAIN queue
  BY DEF Victim, PriorityVictim, NonControlVictim, First
<1>4. /\ queue' \in Seq(Entries) /\ bytes' \in Nat /\ high' \in BOOLEAN
      /\ Len(queue') = Len(queue) - 1 /\ BudgetRespected'
  BY <1>0, <1>2, <1>3, ErasePreserves
<1>5. evicted'[p] = evicted[p] + 1 /\ evicted[p] \in Nat
  BY <1>0 DEF TypeOK
<1>6. TypeOK'
  BY <1>0, <1>4, <1>5 DEF TypeOK, Entries
<1>7. IsControl(call[p].msg) => Fits(call[p].msg, call[p].win)'
  <2>1. MaxItems > 0 => Len(queue') < MaxItems
    <3>1. Len(queue) \in Nat /\ MaxItems \in Nat
      BY <1>0, BudgetAssumption DEF TypeOK
    <3> QED  BY <1>0, <1>4, <3>1 DEF BudgetRespected
  <2> QED  BY <1>0, <1>1, <1>4, <2>1, ControlFits DEF Fits, BudgetRespected
<1>8. LockDiscipline'
  BY <1>0, <1>1, <1>5, <1>7 DEF LockDiscipline, TypeOK
<1>9. WakeupPending'
  BY <1>0, <1>5 DEF WakeupPending
<1> QED  BY <1>0, <1>1, <1>4, <1>6, <1>8, <1>9 DEF IInv, ClosedIsEmpty

LEMMA EvictDonePreserves ==
  ASSUME IInv, NEW p \in Producers, EvictDone(p)
  PROVE  IInv'
<1> USE ActorFacts
<1>0. /\ TypeOK /\ BudgetRespected /\ LockDiscipline
      /\ pc[p] = "evict" /\ Finish(p, "DroppedOldest")
      /\ Fits(call[p].msg, call[p].win) /\ AppendLocked(call[p].msg, call[p].win)
      /\ UNCHANGED <<policy, latest, epoch, closed, interrupts, woken, evicted>>
  BY DEF IInv, EvictDone, windows, control
<1>1. /\ mutex = p /\ ~closed
      /\ call[p].msg \in Messages /\ call[p].win \in Generations \X Nat
      /\ \A q \in Producers : pc[q] = "evict" => q = p
  BY <1>0, EvictFacts
<1>2. /\ queue' \in Seq(Entries) /\ bytes' \in Nat /\ high' \in BOOLEAN
      /\ BudgetRespected'
  BY <1>0, <1>1, AppendPreserves
<1>3. TypeOK'
  BY <1>0, <1>2 DEF TypeOK, Finish, Results, Entries
<1>4. LockDiscipline'
  BY <1>0, <1>1 DEF LockDiscipline, Finish, TypeOK
<1>5. WakeupPending'
  BY <1>0, NotifierCovers DEF Finish, TypeOK
<1> QED  BY <1>0, <1>1, <1>2, <1>3, <1>4, <1>5 DEF IInv, ClosedIsEmpty

LEMMA EvictFailedPreserves ==
  ASSUME IInv, NEW p \in Producers, EvictFailed(p)
  PROVE  IInv'
<1> USE ActorFacts
<1>0. /\ TypeOK /\ BudgetRespected /\ ClosedIsEmpty /\ LockDiscipline /\ WakeupPending
      /\ pc[p] = "evict" /\ ~Fits(call[p].msg, call[p].win)
      /\ UNCHANGED <<policy, queue, bytes, high, latest, epoch, closed, interrupts,
                     woken, evicted>>
  BY DEF IInv, EvictFailed, channel, windows, control
<1>1. /\ mutex = p /\ ~closed
      /\ call[p].msg \in Messages /\ call[p].win \in Generations \X Nat
      /\ \A q \in Producers : pc[q] = "evict" => q = p
  BY <1>0, EvictFacts
<1>2. BudgetRespected' /\ ClosedIsEmpty'
  BY <1>0 DEF BudgetRespected, ClosedIsEmpty
<1>3. CASE policy = "Block" /\ Sleep(p, call[p].msg, call[p].win) /\ UNCHANGED result
  <2>1. /\ call'[p] \in Calls /\ call'[p].msg = call[p].msg /\ call'[p].win = call[p].win
        /\ call'[p].seen = interrupts
    BY <1>0, <1>1, <1>3 DEF TypeOK, Sleep, Remember, Calls
  <2>2. TypeOK'
    BY <1>0, <1>3, <2>1 DEF TypeOK, Sleep, Remember
  <2>3. evicted[p] = 0
    BY <1>0, <1>3 DEF LockDiscipline, TypeOK
  <2>4. LockDiscipline'
    BY <1>0, <1>1, <1>3, <2>1, <2>3 DEF LockDiscipline, TypeOK, Sleep, Remember
  <2>5. WakeupPending'
    <3> SUFFICES ASSUME NEW q \in Producers,
                        pc'[q] = "wait", q \notin woken', WaitOver(q)'
                 PROVE  \E a \in Actors : pc'[a] = "notify"
      BY DEF WakeupPending
    <3>1. q # p
      BY <1>0, <1>1, <2>1 DEF WaitOver, Fits
    <3>2. pc[q] = "wait" /\ q \notin woken /\ call'[q] = call[q]
      BY <1>0, <1>3, <3>1 DEF TypeOK, Sleep, Remember
    <3>3. WaitOver(q)
      BY <1>0, <3>2 DEF WaitOver, Fits
    <3>4. PICK a \in Actors : pc[a] = "notify"
      BY <1>0, <1>1, <2>3, <3>2, <3>3 DEF WakeupPending
    <3> QED  BY <1>0, <1>3, <3>4 DEF TypeOK, Sleep
  <2> QED  BY <1>2, <2>2, <2>4, <2>5 DEF IInv
<1>4. CASE policy # "Block" /\ Finish(p, "DroppedNewest")
  <2>1. TypeOK'
    BY <1>0, <1>4 DEF TypeOK, Finish, Results
  <2>2. LockDiscipline'
    BY <1>0, <1>1, <1>4 DEF LockDiscipline, Finish, TypeOK
  <2>3. WakeupPending'
    BY <1>0, <1>4, NotifierCovers DEF Finish, TypeOK
  <2> QED  BY <1>2, <2>1, <2>2, <2>3 DEF IInv
<1> QED  BY <1>3, <1>4 DEF EvictFailed

LEMMA WaitCheckPreserves ==
  ASSUME IInv, NEW p \in Producers, WaitCheck(p)
  PROVE  IInv'
<1> USE ActorFacts
<1>0. /\ TypeOK /\ BudgetRespected /\ ClosedIsEmpty /\ LockDiscipline /\ WakeupPending
      /\ pc[p] = "wait" /\ p \in woken /\ mutex = NoThread
      /\ call[p] \in Calls /\ woken' = woken \ {p}
      /\ \A q \in Producers : pc[q] # "evict"
      /\ UNCHANGED <<policy, latest, epoch, closed, interrupts, evicted>>
  BY DEF IInv, WaitCheck, windows, control, LockDiscipline
<1>1. CASE \E r \in {"Closed", "Interrupted"} : Finish(p, r) /\ UNCHANGED channel
  <2>1. UNCHANGED <<queue, bytes, high>>
    BY <1>1 DEF channel
  <2>2. TypeOK'
    BY <1>0, <1>1, <2>1 DEF TypeOK, Finish, Results
  <2>3. BudgetRespected' /\ ClosedIsEmpty'
    BY <1>0, <2>1 DEF BudgetRespected, ClosedIsEmpty
  <2>4. LockDiscipline'
    BY <1>0, <1>1 DEF LockDiscipline, Finish, TypeOK
  <2>5. WakeupPending'
    BY <1>0, <1>1, NotifierCovers DEF Finish, TypeOK
  <2> QED  BY <2>2, <2>3, <2>4, <2>5 DEF IInv
<1>2. CASE /\ ~closed /\ Fits(call[p].msg, call[p].win)
           /\ AppendLocked(call[p].msg, call[p].win) /\ Finish(p, "Accepted")
  <2>1. /\ queue' \in Seq(Entries) /\ bytes' \in Nat /\ high' \in BOOLEAN
        /\ BudgetRespected'
    BY <1>0, <1>2, AppendPreserves DEF Calls
  <2>2. TypeOK'
    BY <1>0, <1>2, <2>1 DEF TypeOK, Finish, Results, Entries
  <2>3. LockDiscipline'
    BY <1>0, <1>2 DEF LockDiscipline, Finish, TypeOK
  <2>4. WakeupPending'
    BY <1>0, <1>2, NotifierCovers DEF Finish, TypeOK
  <2> QED  BY <1>0, <1>2, <2>1, <2>2, <2>3, <2>4 DEF IInv, ClosedIsEmpty
<1>3. CASE ~WaitOver(p) /\ UNCHANGED <<channel, mutex, pc, call, result>>
  <2>1. UNCHANGED <<queue, bytes, high, mutex, pc, call, result>>
    BY <1>3 DEF channel
  <2>2. TypeOK'
    BY <1>0, <2>1 DEF TypeOK
  <2>3. BudgetRespected' /\ ClosedIsEmpty'
    BY <1>0, <2>1 DEF BudgetRespected, ClosedIsEmpty
  <2>4. LockDiscipline'
    BY <1>0, <2>1 DEF LockDiscipline, Fits
  <2>5. WakeupPending'
    BY <1>0, <1>3, <2>1 DEF WakeupPending, WaitOver, Fits
  <2> QED  BY <2>2, <2>3, <2>4, <2>5 DEF IInv
<1> QED  BY <1>1, <1>2, <1>3 DEF WaitCheck

LEMMA TryReceivePreserves ==
  ASSUME IInv, NEW c \in Consumers, TryReceive(c)
  PROVE  IInv'
<1> USE ActorFacts
<1>0. /\ TypeOK /\ BudgetRespected /\ ClosedIsEmpty /\ LockDiscipline
      /\ mutex = NoThread /\ pc' = [pc EXCEPT ![c] = "notify"]
      /\ \A q \in Producers : pc[q] # "evict"
      /\ UNCHANGED <<policy, latest, epoch, closed, interrupts, mutex, call, woken,
                     result, evicted>>
  BY DEF IInv, TryReceive, windows, control, history, LockDiscipline
<1>1. /\ queue' \in Seq(Entries) /\ bytes' \in Nat /\ high' \in BOOLEAN
      /\ BudgetRespected' /\ ClosedIsEmpty'
  <2>1. CASE queue # <<>> /\ EraseLocked(1)
    <3>1. 1 \in DOMAIN queue
      BY <1>0, <2>1 DEF TypeOK
    <3> QED  BY <1>0, <2>1, <3>1, ErasePreserves DEF ClosedIsEmpty
  <2>2. CASE UNCHANGED channel
    <3>1. UNCHANGED <<queue, bytes, high>>
      BY <2>2 DEF channel
    <3> QED  BY <1>0, <3>1 DEF TypeOK, BudgetRespected, ClosedIsEmpty, Entries
  <2> QED  BY <2>1, <2>2 DEF TryReceive
<1>2. TypeOK'
  BY <1>0, <1>1 DEF TypeOK, Entries
<1>3. LockDiscipline'
  BY <1>0 DEF LockDiscipline, TypeOK
<1>4. WakeupPending'
  BY <1>0, NotifierCovers DEF TypeOK
<1> QED  BY <1>1, <1>2, <1>3, <1>4 DEF IInv

LEMMA ControllerPreserves ==
  ASSUME IInv, Open \/ Close \/ InterruptBlockedSenders
  PROVE  IInv'
<1> USE ActorFacts
<1>0. /\ TypeOK /\ BudgetRespected /\ ClosedIsEmpty /\ LockDiscipline
      /\ mutex = NoThread /\ pc' = [pc EXCEPT ![Controller] = "notify"]
      /\ \A q \in Producers : pc[q] # "evict"
      /\ UNCHANGED <<policy, mutex, call, woken, result, evicted>>
  BY DEF IInv, Open, Close, InterruptBlockedSenders, ControllerStep, LockDiscipline
<1>1. /\ queue' \in Seq(Entries) /\ bytes' \in Nat /\ high' \in BOOLEAN
      /\ latest' \in [Generations -> Nat \cup {NoTimestamp}]
      /\ epoch' \in [Generations -> Nat]
      /\ BudgetRespected' /\ ClosedIsEmpty'
      /\ closed' \in BOOLEAN /\ interrupts' \in Nat
  <2>1. CASE Open
    BY <1>0, <2>1, ClearPreserves DEF Open, ClosedIsEmpty, TypeOK
  <2>2. CASE Close
    BY <1>0, <2>2, ClearPreserves DEF Close, ClosedIsEmpty, TypeOK
  <2>3. CASE InterruptBlockedSenders
    <3>1. UNCHANGED <<queue, bytes, high, latest, epoch, closed>>
      BY <2>3 DEF InterruptBlockedSenders, channel, windows
    <3> QED  BY <1>0, <2>3, <3>1
             DEF InterruptBlockedSenders, TypeOK, BudgetRespected, ClosedIsEmpty, Entries
  <2> QED  BY <2>1, <2>2, <2>3
<1>2. TypeOK'
  BY <1>0, <1>1 DEF TypeOK, Entries
<1>3. LockDiscipline'
  BY <1>0 DEF LockDiscipline, TypeOK
<1>4. WakeupPending'
  BY <1>0, NotifierCovers DEF TypeOK
<1> QED  BY <1>1, <1>2, <1>3, <1>4 DEF IInv

LEMMA NotifyPreserves ==
  ASSUME IInv, NEW a \in Actors, Notify(a)
  PROVE  IInv'
<1> USE ActorFacts
<1>0. /\ TypeOK /\ BudgetRespected /\ ClosedIsEmpty /\ LockDiscipline
      /\ pc[a] = "notify" /\ pc' = [pc EXCEPT ![a] = "idle"]
      /\ woken' = woken \cup {p \in Producers : pc[p] = "wait"}
      /\ UNCHANGED <<policy, queue, bytes, high, latest, epoch, closed, interrupts,
                     mutex, call>>
      /\ result' = [p \in Producers |-> IF p = a THEN "None" ELSE result[p]]
      /\ evicted' = [p \in Producers |-> IF p = a THEN 0 ELSE evicted[p]]
      BY DEF IInv, Notify, channel, windows, control
<1>1. TypeOK'
  BY <1>0 DEF TypeOK, Results
<1>2. BudgetRespected' /\ ClosedIsEmpty'
  BY <1>0 DEF BudgetRespected, ClosedIsEmpty
<1>3. LockDiscipline'
  BY <1>0 DEF LockDiscipline, TypeOK, Fits
<1>4. WakeupPending'
  BY <1>0 DEF WakeupPending, TypeOK
<1> QED  BY <1>1, <1>2, <1>3, <1>4 DEF IInv

LEMMA SpuriousWakePreserves ==
  ASSUME IInv, NEW p \in Producers, SpuriousWake(p)
  PROVE  IInv'
<1>0. /\ TypeOK /\ BudgetRespected /\ ClosedIsEmpty /\ LockDiscipline /\ WakeupPending
      /\ woken' = woken \cup {p}
      /\ UNCHANGED <<policy, queue, bytes, high, latest, epoch, closed, interrupts,
                     mutex, pc, call, result, evicted>>
  BY DEF IInv, SpuriousWake, channel, windows, control, history
<1>1. TypeOK'
  BY <1>0 DEF TypeOK
<1>2. BudgetRespected' /\ ClosedIsEmpty'
  BY <1>0 DEF BudgetRespected, ClosedIsEmpty
<1>3. LockDiscipline'
  BY <1>0 DEF LockDiscipline, Fits
<1>4. WakeupPending'
  BY <1>0 DEF WakeupPending, WaitOver, Fits
<1> QED  BY <1>1, <1>2, <1>3, <1>4 DEF IInv

LEMMA StutterPreserves == IInv /\ UNCHANGED vars => IInv'
<1> SUFFICES ASSUME IInv, UNCHANGED vars PROVE IInv'
  OBVIOUS
<1>1. UNCHANGED <<policy, queue, bytes, high, latest, epoch, closed, interrupts,
                  mutex, pc, call, woken, result, evicted>>
  BY DEF vars, channel, windows, control, threads, history
<1> QED  BY <1>1 DEF IInv, TypeOK, BudgetRespected, ClosedIsEmpty, LockDiscipline,
                     WakeupPending, WaitOver, Fits

LEMMA NextIInv == IInv /\ [Next]_vars => IInv'
  BY SendPreserves, EvictOnePreserves, EvictDonePreserves, EvictFailedPreserves,
     WaitCheckPreserves, SpuriousWakePreserves, TryReceivePreserves,
     ControllerPreserves, NotifyPreserves, StutterPreserves DEF Next

-----------------------------------------------------------------------------
(* The theorems                                                            *)

\* The inductive invariant holds of every reachable state.
THEOREM Inductive == Spec => []IInv
  BY InitIInv, NextIInv, PTL DEF Spec

\* Every variable of the channel keeps its type, for all constants.
THEOREM TypeCorrect == Spec => []TypeOK
<1>1. IInv => TypeOK
  BY DEF IInv
<1> QED  BY <1>1, Inductive, PTL

\* QueueTransport never exceeds max_items, max_bytes or max_span_us, for every
\* policy, budget and number of threads.
THEOREM Budget == Spec => []BudgetRespected
<1>1. IInv => BudgetRespected
  BY DEF IInv
<1> QED  BY <1>1, Inductive, PTL

\* Close and Open leave nothing of an earlier lifecycle in a closed channel.
THEOREM Closed == Spec => []ClosedIsEmpty
<1>1. IInv => ClosedIsEmpty
  BY DEF IInv
<1> QED  BY <1>1, Inductive, PTL

\* No sender sleeps through the change it waits for: the wait on space_cv_ loses
\* no wake-up, although evictions are followed by no notification of their own.
THEOREM WakeupsKept == Spec => []NoLostWakeup
<1>1. IInv => NoLostWakeup
  <2> SUFFICES ASSUME IInv, NEW p \in Producers,
                      pc[p] = "wait", p \notin woken, WaitOver(p)
               PROVE  mutex # NoThread \/ \E a \in Actors : pc[a] = "notify"
    BY DEF NoLostWakeup
  <2> QED  BY ActorFacts DEF IInv, WakeupPending, LockDiscipline
<1> QED  BY <1>1, Inductive, PTL

-----------------------------------------------------------------------------
(* QueueTransport implements the mailbox                                   *)

LEMMA ContentsSeq ==
  ASSUME NEW q \in Seq(Entries)
  PROVE  /\ Contents(q) \in Seq(Messages)
         /\ Len(Contents(q)) = Len(q)
         /\ \A i \in 1..Len(q) : Contents(q)[i] = q[i].msg
<1>1. \A i \in 1..Len(q) : q[i].msg \in Messages
  <2>1. \A i \in 1..Len(q) : q[i] \in Entries
    OBVIOUS
  <2> QED  BY <2>1 DEF Entries
<1>2. Contents(q) = [i \in 1..Len(q) |-> q[i].msg] /\ Len(q) \in Nat
  BY DEF Contents
<1>3. Contents(q) \in Seq(Messages)
  BY <1>1, <1>2, IsASeq
<1> QED  BY <1>2, <1>3

LEMMA ContentsAppend ==
  ASSUME NEW q \in Seq(Entries), NEW e \in Entries
  PROVE  Contents(Append(q, e)) = Append(Contents(q), e.msg)
<1> DEFINE a == Contents(Append(q, e))
           b == Append(Contents(q), e.msg)
<1>1. e.msg \in Messages /\ Append(q, e) \in Seq(Entries) /\ Len(Append(q, e)) = Len(q) + 1
  BY DEF Entries
<1>2. /\ a \in Seq(Messages) /\ Len(a) = Len(q) + 1
      /\ \A i \in 1..(Len(q) + 1) : a[i] = Append(q, e)[i].msg
  BY <1>1, ContentsSeq
<1>3. b \in Seq(Messages) /\ Len(b) = Len(q) + 1
  BY <1>1, ContentsSeq
<1>4. \A i \in 1..Len(q) : Append(q, e)[i] = q[i] /\ b[i] = Contents(q)[i] /\ Contents(q)[i] = q[i].msg
  BY <1>1, ContentsSeq
<1>5. Append(q, e)[Len(q) + 1] = e /\ b[Len(q) + 1] = e.msg
  BY <1>1, ContentsSeq
<1>6. \A i \in 1..(Len(q) + 1) : i \in 1..Len(q) \/ i = Len(q) + 1
  OBVIOUS
<1> HIDE DEF a, b
<1>7. \A i \in 1..Len(a) : a[i] = b[i]
  BY <1>2, <1>4, <1>5, <1>6
<1> QED  BY <1>2, <1>3, <1>7, SeqEqual DEF a, b

LEMMA ContentsRemoveAt ==
  ASSUME NEW q \in Seq(Entries), NEW i \in DOMAIN q
  PROVE  Contents(RemoveAt(q, i)) = RemoveAt(Contents(q), i)
<1> DEFINE a == Contents(RemoveAt(q, i))
           b == RemoveAt(Contents(q), i)
           at(j) == IF j < i THEN j ELSE j + 1
<1>1. /\ RemoveAt(q, i) \in Seq(Entries) /\ Len(RemoveAt(q, i)) = Len(q) - 1
      /\ \A j \in 1..(Len(q) - 1) : RemoveAt(q, i)[j] = q[at(j)]
  BY RemoveAtProperties
<1>2. /\ a \in Seq(Messages) /\ Len(a) = Len(q) - 1
      /\ \A j \in 1..(Len(q) - 1) : a[j] = q[at(j)].msg
  BY <1>1, ContentsSeq
<1>3. /\ Contents(q) \in Seq(Messages) /\ Len(Contents(q)) = Len(q) /\ i \in DOMAIN Contents(q)
      /\ \A j \in 1..Len(q) : Contents(q)[j] = q[j].msg
  BY ContentsSeq
<1>4. /\ b \in Seq(Messages) /\ Len(b) = Len(q) - 1
      /\ \A j \in 1..(Len(q) - 1) : b[j] = Contents(q)[at(j)]
  BY <1>3, RemoveAtProperties
<1>5. \A j \in 1..(Len(q) - 1) : at(j) \in 1..Len(q)
  OBVIOUS
<1> HIDE DEF a, b, at
<1>6. \A j \in 1..Len(a) : a[j] = b[j]
  BY <1>2, <1>3, <1>4, <1>5
<1> QED  BY <1>2, <1>4, <1>6, SeqEqual DEF a, b

LEMMA ContentsTail ==
  ASSUME NEW q \in Seq(Entries), q # <<>>
  PROVE  Contents(q) # <<>> /\ Contents(RemoveAt(q, 1)) = Tail(Contents(q))
<1>1. /\ Contents(q) \in Seq(Messages) /\ Len(Contents(q)) = Len(q) /\ Len(q) > 0
      /\ 1 \in DOMAIN q
  BY ContentsSeq, EmptySeq
<1>2. RemoveAt(Contents(q), 1) = Tail(Contents(q))
  <2>1. Contents(q) # <<>> /\ 1 \in DOMAIN Contents(q)
    BY <1>1
  <2> DEFINE s == Contents(q)
  <2>2. /\ RemoveAt(s, 1) \in Seq(Messages) /\ Len(RemoveAt(s, 1)) = Len(s) - 1
        /\ \A j \in 1..(Len(s) - 1) : RemoveAt(s, 1)[j] = s[IF j < 1 THEN j ELSE j + 1]
    BY <1>1, <2>1, RemoveAtProperties
  <2>3. /\ Tail(s) \in Seq(Messages) /\ Len(Tail(s)) = Len(s) - 1
        /\ \A j \in 1..(Len(s) - 1) : Tail(s)[j] = s[j + 1]
    BY <1>1, <2>1, HeadTailProperties
  <2> HIDE DEF s
  <2>4. \A j \in 1..Len(RemoveAt(s, 1)) : RemoveAt(s, 1)[j] = Tail(s)[j]
    BY <2>2, <2>3
  <2> QED  BY <2>2, <2>3, <2>4, SeqEqual DEF s
<1> QED  BY <1>1, <1>2, ContentsRemoveAt

\* Appending a message that fits to an open channel is the mailbox's Put.
LEMMA AppendPuts ==
  ASSUME TypeOK, NEW m \in Messages, NEW w \in Generations \X Nat,
         Fits(m, w), AppendLocked(m, w), ~closed, closed' = closed
  PROVE  Box!Put
<1>1. queue \in Seq(Entries) /\ Entry(m, w) \in Entries /\ Entry(m, w).msg = m
  BY DEF TypeOK, Entries, Entry
<1>2. Contents(queue)' = Append(Contents(queue), m)
  BY <1>1, ContentsAppend DEF AppendLocked
<1>3. MaxItems > 0 => Len(Contents(queue)) < MaxItems
  BY <1>1, ContentsSeq, BudgetAssumption DEF Fits, LimitReason
<1> QED  BY <1>2, <1>3 DEF Box!Put

\* A step that leaves the queue and the channel's state alone is a stutter.
LEMMA Unseen ==
  ASSUME queue' = queue, closed' = closed
  PROVE  UNCHANGED <<Contents(queue), ~closed>>
  BY DEF Contents

LEMMA ClearResets ==
  ASSUME ClearCurrentLocked, closed' \in BOOLEAN
  PROVE  Box!Reset
<1>1. Contents(queue)' = <<>>
  BY DEF ClearCurrentLocked, Contents
<1> QED  BY <1>1 DEF Box!Reset

LEMMA StepRefines ==
  ASSUME IInv, [Next]_vars
  PROVE  [Box!Next]_<<Contents(queue), ~closed>>
<1> DEFINE Goal == [Box!Next]_<<Contents(queue), ~closed>>
<1>0. TypeOK /\ LockDiscipline
  BY DEF IInv
<1>1. ASSUME NEW p \in Producers, Send(p)  PROVE Goal
  <2>1. closed' = closed
    BY <1>1 DEF Send, control
  <2>2. PICK m \in Messages : SendClosed(p, m) \/ SendOpen(p, m)
    BY <1>1 DEF Send
  <2>3. CASE queue' = queue
    BY <2>1, <2>3, Unseen
  <2>4. CASE ~closed /\ Fits(m, WindowOf(m)) /\ AppendLocked(m, WindowOf(m))
    BY <1>0, <2>1, <2>4, AppendPuts, ResolvePreserves DEF Box!Next
  <2> QED  BY <2>2, <2>3, <2>4 DEF SendClosed, SendOpen, channel, Fits
<1>2. ASSUME NEW p \in Producers, EvictOne(p)  PROVE Goal
  <2>1. PICK i \in Victim(call[p].msg) : EraseLocked(i)
    BY <1>2 DEF EvictOne
  <2>2. i \in DOMAIN queue /\ ~IsControl(queue[i].msg)
    BY DEF Victim, PriorityVictim, NonControlVictim, First, IsControl
  <2>3. queue \in Seq(Entries) /\ closed' = closed
    BY <1>0, <1>2 DEF TypeOK, Entries, EvictOne, control
  <2>4. /\ i \in DOMAIN Contents(queue) /\ Contents(queue)[i] = queue[i].msg
        /\ Contents(queue)' = RemoveAt(Contents(queue), i)
    <3>1. Contents(RemoveAt(queue, i)) = RemoveAt(Contents(queue), i)
      BY <2>2, <2>3, ContentsRemoveAt
    <3>2. Contents(queue)' = RemoveAt(Contents(queue), i)
      BY <2>1, <3>1 DEF EraseLocked
    <3> QED  BY <2>2, <3>2 DEF Contents
  <2>5. Box!Shed
    BY <2>2, <2>3, <2>4 DEF Box!Shed, Box!RemoveAt, RemoveAt
  <2> QED  BY <2>5 DEF Box!Next
<1>3. ASSUME NEW p \in Producers, EvictDone(p)  PROVE Goal
  <2>1. /\ Fits(call[p].msg, call[p].win) /\ AppendLocked(call[p].msg, call[p].win)
        /\ pc[p] = "evict" /\ closed' = closed
    BY <1>3 DEF EvictDone, control
  <2> QED  BY <1>0, <2>1, EvictFacts, AppendPuts DEF Box!Next
<1>4. ASSUME NEW p \in Producers, EvictFailed(p)  PROVE Goal
  BY <1>4, Unseen DEF EvictFailed, channel, control
<1>5. ASSUME NEW p \in Producers, WaitCheck(p)  PROVE Goal
  <2>1. closed' = closed /\ call[p] \in Calls
    BY <1>0, <1>5 DEF WaitCheck, control, LockDiscipline
  <2>2. CASE queue' = queue
    BY <2>1, <2>2, Unseen
  <2>3. CASE /\ ~closed /\ Fits(call[p].msg, call[p].win)
             /\ AppendLocked(call[p].msg, call[p].win)
    <3>1. call[p].msg \in Messages /\ call[p].win \in Generations \X Nat
      BY <2>1 DEF Calls
    <3> QED  BY <1>0, <2>1, <2>3, <3>1, AppendPuts DEF Box!Next
  <2> QED  BY <1>5, <2>2, <2>3 DEF WaitCheck, channel
<1>6. ASSUME NEW c \in Consumers, TryReceive(c)  PROVE Goal
  <2>1. closed' = closed /\ queue \in Seq(Entries)
    BY <1>0, <1>6 DEF TryReceive, control, TypeOK, Entries
  <2>2. CASE queue' = queue
    BY <2>1, <2>2, Unseen
  <2>3. CASE queue # <<>> /\ EraseLocked(1)
    <3>1. Contents(queue) # <<>> /\ Contents(queue)' = Tail(Contents(queue))
      BY <2>1, <2>3, ContentsTail DEF EraseLocked
    <3> QED  BY <2>1, <3>1 DEF Box!Next, Box!Take
  <2> QED  BY <1>6, <2>2, <2>3 DEF TryReceive, channel
<1>7. CASE Open \/ Close
  <2>1. ClearCurrentLocked /\ closed' \in BOOLEAN
    BY <1>7 DEF Open, Close
  <2> QED  BY <2>1, ClearResets DEF Box!Next
<1>8. CASE InterruptBlockedSenders
  BY <1>8, Unseen DEF InterruptBlockedSenders, channel
<1>9. ASSUME NEW a \in Actors, Notify(a)  PROVE Goal
  BY <1>9, Unseen DEF Notify, channel, control
<1>10. ASSUME NEW p \in Producers, SpuriousWake(p)  PROVE Goal
  BY <1>10, Unseen DEF SpuriousWake, channel, control
<1>11. CASE UNCHANGED vars
  BY <1>11, Unseen DEF vars, channel, control
<1> QED  BY <1>1, <1>2, <1>3, <1>4, <1>5, <1>6, <1>7, <1>8, <1>9, <1>10, <1>11 DEF Next

\* QueueTransport, with its budgets, evictions, waits and time windows, is a
\* mailbox: first in first out, no control boundary shed, nothing accepted when
\* closed - for every policy, budget and number of threads.
THEOREM Refinement == Spec => ImplementsMailbox
<1>1. Init => Box!Init
  BY DEF Init, Box!Init, Contents
<1> QED  BY <1>1, InitIInv, NextIInv, StepRefines, PTL DEF Spec, ImplementsMailbox, Box!Spec

-----------------------------------------------------------------------------
(* Eviction goes by rank: how many messages of a kind an eviction leaves    *)

\* A non-empty set of naturals has a least element.
LEMMA LeastNatural ==
  ASSUME NEW T \in SUBSET Nat, T # {}
  PROVE  \E x \in T : \A y \in T : x <= y
<1> DEFINE R == {ss \in Nat \X Nat : ss[1] < ss[2]}
<1>1. IsWellFoundedOn(R, Nat)
  BY NatLessThanWellFounded DEF OpToRel
<1>2. \A m, n \in Nat : m < n => <<m, n>> \in R
  OBVIOUS
<1> HIDE DEF R
<1>3. PICK x \in T : \A y \in T : ~(<<y, x>> \in R)
  BY <1>1, WFMin
<1>4. \A y \in T : x <= y
  <2> SUFFICES ASSUME NEW y \in T  PROVE  x <= y
    OBVIOUS
  <2>1. ~(<<y, x>> \in R) /\ x \in Nat /\ y \in Nat
    BY <1>3
  <2>2. ~(y < x)
    BY <1>2, <2>1
  <2> QED  BY <2>1, <2>2
<1> QED  BY <1>4

\* The positions of some kinds of messages are finitely many.
LEMMA QueuedFinite ==
  ASSUME NEW q \in Seq(Entries), NEW kinds
  PROVE  /\ IsFiniteSet(Queued(kinds, q)) /\ Cardinality(Queued(kinds, q)) \in Nat
         /\ Queued(kinds, q) \subseteq 1..Len(q)
<1>1. DOMAIN q = 1..Len(q) /\ Len(q) \in Nat
  OBVIOUS
<1>2. Queued(kinds, q) \subseteq 1..Len(q)
  BY <1>1 DEF Queued
<1>3. IsFiniteSet(1..Len(q))
  BY <1>1, FS_Interval
<1>4. IsFiniteSet(Queued(kinds, q))
  BY <1>2, <1>3, FS_Subset
<1> QED  BY <1>2, <1>4, FS_CardinalityType

\* Taking out a message of another kind leaves as many of these kinds queued.
LEMMA RemoveAtKeepsOthers ==
  ASSUME NEW q \in Seq(Entries), NEW i \in DOMAIN q, NEW kinds, q[i].msg.kind \notin kinds
  PROVE  Cardinality(Queued(kinds, RemoveAt(q, i))) >= Cardinality(Queued(kinds, q))
<1> PICK r : r = RemoveAt(q, i)
  OBVIOUS
<1> DEFINE A == Queued(kinds, q)
           B == Queued(kinds, r)
           f == [j \in A |-> IF j < i THEN j ELSE j - 1]
<1>1. /\ r \in Seq(Entries) /\ Len(r) = Len(q) - 1
      /\ \A j \in 1..(Len(q) - 1) : r[j] = q[IF j < i THEN j ELSE j + 1]
  BY RemoveAtProperties
<1>2. /\ DOMAIN q = 1..Len(q) /\ DOMAIN r = 1..(Len(q) - 1) /\ Len(q) \in Nat /\ i \in 1..Len(q)
  BY <1>1
<1>3. \A j \in A : j \in 1..Len(q) /\ q[j].msg.kind \in kinds /\ j # i
  BY <1>2 DEF Queued
<1>4. ASSUME NEW j \in A  PROVE  f[j] \in B
  <2>1. CASE j < i
    <3>1. j \in 1..(Len(q) - 1) /\ r[j] = q[j] /\ f[j] = j
      BY <1>1, <1>2, <1>3, <2>1
    <3> QED  BY <1>2, <1>3, <3>1 DEF Queued
  <2>2. CASE ~(j < i)
    <3>1. PICK k : k = j - 1
      OBVIOUS
    <3>2. k \in 1..(Len(q) - 1) /\ ~(k < i) /\ k + 1 = j /\ f[j] = k
      BY <1>2, <1>3, <2>2, <3>1
    <3>3. r[k] = q[j]
      BY <1>1, <3>2
    <3> QED  BY <1>2, <1>3, <3>2, <3>3 DEF Queued
  <2> QED  BY <2>1, <2>2
<1>5. ASSUME NEW j \in A, NEW k \in A, f[j] = f[k]  PROVE  j = k
  BY <1>2, <1>3, <1>5
<1>6. f \in Injection(A, B)
  BY <1>4, <1>5 DEF Injection, IsInjective
<1> HIDE DEF f
<1>7. Cardinality(A) <= Cardinality(B)
  BY <1>1, <1>6, QueuedFinite, FS_Injection
<1>8. Cardinality(A) \in Nat /\ Cardinality(B) \in Nat
  BY <1>1, QueuedFinite
<1> QED  BY <1>7, <1>8

\* A message that is appended takes nobody's place.
LEMMA AppendKeepsAll ==
  ASSUME NEW q \in Seq(Entries), NEW e \in Entries, NEW kinds
  PROVE  Cardinality(Queued(kinds, Append(q, e))) >= Cardinality(Queued(kinds, q))
<1> PICK r : r = Append(q, e)
  OBVIOUS
<1>1. r \in Seq(Entries) /\ \A j \in DOMAIN q : j \in DOMAIN r /\ r[j] = q[j]
  OBVIOUS
<1>2. Queued(kinds, q) \in SUBSET Queued(kinds, r)
  BY <1>1 DEF Queued
<1>3. IsFiniteSet(Queued(kinds, r)) /\ Cardinality(Queued(kinds, r)) \in Nat
  BY <1>1, QueuedFinite
<1>4. Cardinality(Queued(kinds, q)) <= Cardinality(Queued(kinds, r)) /\ Cardinality(Queued(kinds, q)) \in Nat
  BY <1>2, <1>3, FS_Subset, QueuedFinite
<1> QED  BY <1>3, <1>4

\* Where nothing of these kinds comes first, nothing of them is queued.
LEMMA FirstFinds ==
  ASSUME queue \in Seq(Entries), NEW kinds, First(kinds) = {}
  PROVE  Queued(kinds, queue) = {}
<1> SUFFICES ASSUME Queued(kinds, queue) # {}  PROVE  FALSE
  OBVIOUS
<1>1. DOMAIN queue = 1..Len(queue) /\ Len(queue) \in Nat
  OBVIOUS
<1>2. Queued(kinds, queue) \in SUBSET Nat
  BY <1>1 DEF Queued
<1>3. PICK i \in Queued(kinds, queue) : \A j \in Queued(kinds, queue) : i <= j
  BY <1>2, LeastNatural
<1>4. i \in DOMAIN queue /\ queue[i].msg.kind \in kinds
  BY DEF Queued
<1>5. \A j \in 1..(i - 1) : queue[j].msg.kind \notin kinds
  <2> SUFFICES ASSUME NEW j \in 1..(i - 1), queue[j].msg.kind \in kinds  PROVE  FALSE
    OBVIOUS
  <2>1. j \in Queued(kinds, queue) /\ j < i /\ i \in Nat /\ j \in Nat
    BY <1>1, <1>4 DEF Queued
  <2> QED  BY <1>3, <2>1
<1> QED  BY <1>4, <1>5 DEF First

\* Who gives way: never a boundary, no keyframe to another medium, and nothing
\* weaker than a keyframe is queued when a keyframe finds no victim.
LEMMA VictimRank ==
  ASSUME queue \in Seq(Entries), NEW m \in Messages
  PROVE  /\ \A i \in Victim(m) : i \in DOMAIN queue /\ queue[i].msg.kind \notin {"control"}
         /\ policy = "PreferVideoKeyframes" =>
              /\ ~IsControl(m) => \A i \in Victim(m) : queue[i].msg.kind \notin {"keyframe"}
              /\ IsKeyframe(m) /\ Victim(m) = {} => Queued({"audio", "video"}, queue) = {}
<1>1. \A kinds : \A i \in First(kinds) : i \in DOMAIN queue /\ queue[i].msg.kind \in kinds
  BY DEF First
<1>2. \A i \in Victim(m) : i \in DOMAIN queue /\ queue[i].msg.kind \notin {"control"}
  <2> SUFFICES ASSUME NEW i \in Victim(m)
               PROVE  i \in DOMAIN queue /\ queue[i].msg.kind \notin {"control"}
    OBVIOUS
  <2>1. PICK kinds \in {Kinds \ {"control"}, {"audio"}, {"video"}} : i \in First(kinds)
    BY DEF Victim, PriorityVictim, NonControlVictim
  <2> QED  BY <1>1, <2>1
<1>3. ASSUME policy = "PreferVideoKeyframes", ~IsControl(m), NEW i \in Victim(m)
      PROVE  queue[i].msg.kind \notin {"keyframe"}
  <2>1. PICK kinds \in {{"audio"}, {"video"}} : i \in First(kinds)
    BY <1>3 DEF Victim, PriorityVictim
  <2> QED  BY <1>1, <2>1
<1>4. ASSUME policy = "PreferVideoKeyframes", IsKeyframe(m), Victim(m) = {}
      PROVE  Queued({"audio", "video"}, queue) = {}
  <2>1. IsVideo(m) /\ ~IsControl(m)
    BY <1>4 DEF IsKeyframe, IsVideo, IsControl
  <2>2. First({"audio"}) = {} /\ First({"video"}) = {}
    BY <1>4, <2>1 DEF Victim, PriorityVictim
  <2>3. Queued({"audio"}, queue) = {} /\ Queued({"video"}, queue) = {}
    BY <2>2, FirstFinds
  <2> QED  BY <2>3 DEF Queued
<1> QED  BY <1>2, <1>3, <1>4

\* A sender has its answer only once its critical section is over.
ResultAtReturn == \A p \in Producers : pc[p] # "notify" => result[p] = "None"

LEMMA ResultAtReturnStep ==
  ASSUME IInv, ResultAtReturn, [Next]_vars
  PROVE  ResultAtReturn'
<1> USE ActorFacts
<1>0. TypeOK /\ LockDiscipline
  BY DEF IInv
<1>1. ASSUME NEW p \in Producers, NEW r, Finish(p, r)  PROVE  ResultAtReturn'
  BY <1>0, <1>1 DEF Finish, TypeOK, ResultAtReturn
<1>2. ASSUME NEW p \in Producers, pc[p] # "notify", result' = result,
             NEW s, pc' = [pc EXCEPT ![p] = s]
      PROVE  ResultAtReturn'
  BY <1>0, <1>2 DEF TypeOK, ResultAtReturn
<1>3. ASSUME UNCHANGED <<pc, result>>  PROVE  ResultAtReturn'
  BY <1>3 DEF ResultAtReturn
<1>4. ASSUME NEW p \in Producers, Send(p)  PROVE  ResultAtReturn'
  <2>1. PICK m \in Messages : SendClosed(p, m) \/ SendOpen(p, m)
    BY <1>4 DEF Send
  <2>2. pc[p] # "notify"
    BY <1>4 DEF Send
  <2>3. CASE SendClosed(p, m)
    BY <1>1, <2>3 DEF SendClosed
  <2>4. CASE SendOpen(p, m)
    <3>1. \/ Finish(p, "Accepted") \/ Finish(p, "DroppedNewest")
          \/ result' = result /\ pc' = [pc EXCEPT ![p] = "evict"]
          \/ result' = result /\ pc' = [pc EXCEPT ![p] = "wait"]
      BY <2>4 DEF SendOpen, Sleep
    <3> QED  BY <1>1, <1>2, <2>2, <3>1
  <2> QED  BY <2>1, <2>3, <2>4
<1>5. ASSUME NEW p \in Producers, EvictOne(p) \/ SpuriousWake(p)  PROVE  ResultAtReturn'
  BY <1>3, <1>5 DEF EvictOne, SpuriousWake, threads, history
<1>6. ASSUME NEW p \in Producers, EvictDone(p)  PROVE  ResultAtReturn'
  BY <1>1, <1>6 DEF EvictDone
<1>7. ASSUME NEW p \in Producers, EvictFailed(p)  PROVE  ResultAtReturn'
  <2>1. pc[p] # "notify"
    BY <1>7 DEF EvictFailed
  <2>2. \/ Finish(p, "DroppedNewest")
        \/ result' = result /\ pc' = [pc EXCEPT ![p] = "wait"]
    BY <1>7 DEF EvictFailed, Sleep
  <2> QED  BY <1>1, <1>2, <2>1, <2>2
<1>8. ASSUME NEW p \in Producers, WaitCheck(p)  PROVE  ResultAtReturn'
  <2>1. \/ Finish(p, "Closed") \/ Finish(p, "Interrupted") \/ Finish(p, "Accepted")
        \/ UNCHANGED <<pc, result>>
    BY <1>8 DEF WaitCheck
  <2> QED  BY <1>1, <1>3, <2>1
<1>9. ASSUME NEW a \in Actors \ Producers, result' = result, pc' = [pc EXCEPT ![a] = "notify"]
      PROVE  ResultAtReturn'
  BY <1>0, <1>9 DEF TypeOK, ResultAtReturn
<1>10. ASSUME NEW c \in Consumers, TryReceive(c)  PROVE  ResultAtReturn'
  BY <1>9, <1>10 DEF TryReceive, history
<1>11. ASSUME Open \/ Close \/ InterruptBlockedSenders  PROVE  ResultAtReturn'
  BY <1>9, <1>11 DEF Open, Close, InterruptBlockedSenders, ControllerStep
<1>12. ASSUME NEW a \in Actors, Notify(a)  PROVE  ResultAtReturn'
  BY <1>0, <1>12 DEF Notify, TypeOK, ResultAtReturn
<1>13. ASSUME UNCHANGED vars  PROVE  ResultAtReturn'
  BY <1>3, <1>13 DEF vars, threads, history
<1> QED  BY <1>4, <1>5, <1>6, <1>7, <1>8, <1>10, <1>11, <1>12, <1>13 DEF Next

\* What RankRespected asks of the step of one evicting sender.
RankOf(p) ==
  /\ Cardinality(Queued({"control"}, queue')) >= Cardinality(Queued({"control"}, queue))
  /\ policy = "PreferVideoKeyframes" =>
       /\ ~IsControl(call[p].msg) =>
            Cardinality(Queued({"keyframe"}, queue')) >= Cardinality(Queued({"keyframe"}, queue))
       /\ (IsKeyframe(call[p].msg) /\ result'[p] = "DroppedNewest") =>
            Queued({"audio", "video"}, queue) = {}

LEMMA QueueKept ==
  ASSUME IInv, NEW p \in Producers, queue' = queue,
         result'[p] = "DroppedNewest" => EvictFailed(p)
  PROVE  RankOf(p)
<1>1. queue \in Seq(Entries) /\ TypeOK
  BY DEF IInv, TypeOK, Entries
<1>2. \A kinds : Cardinality(Queued(kinds, queue')) >= Cardinality(Queued(kinds, queue))
  BY <1>1, QueuedFinite
<1>3. ASSUME policy = "PreferVideoKeyframes", IsKeyframe(call[p].msg), EvictFailed(p)
      PROVE  Queued({"audio", "video"}, queue) = {}
  <2>1. Victim(call[p].msg) = {} /\ pc[p] = "evict"
    BY <1>3 DEF EvictFailed
  <2>2. call[p].msg \in Messages
    BY <2>1, EvictFacts
  <2> QED  BY <1>1, <1>3, <2>1, <2>2, VictimRank
<1> QED  BY <1>2, <1>3 DEF RankOf

LEMMA EvictOneRank ==
  ASSUME IInv, NEW p \in Producers, EvictOne(p), result[p] = "None"
  PROVE  RankOf(p)
<1>1. queue \in Seq(Entries)
  BY DEF IInv, TypeOK, Entries
<1>2. pc[p] = "evict" /\ result' = result
  BY DEF EvictOne
<1>3. call[p].msg \in Messages
  BY <1>2, EvictFacts
<1>4. PICK i \in Victim(call[p].msg) : EraseLocked(i)
  BY DEF EvictOne
<1>5. /\ i \in DOMAIN queue /\ queue[i].msg.kind \notin {"control"}
      /\ policy = "PreferVideoKeyframes" /\ ~IsControl(call[p].msg) =>
           queue[i].msg.kind \notin {"keyframe"}
  BY <1>1, <1>3, VictimRank
<1>6. queue' = RemoveAt(queue, i)
  BY <1>4 DEF EraseLocked
<1>7. \A kinds : queue[i].msg.kind \notin kinds =>
        Cardinality(Queued(kinds, queue')) >= Cardinality(Queued(kinds, queue))
  BY <1>1, <1>5, <1>6, RemoveAtKeepsOthers
<1> QED  BY <1>2, <1>5, <1>7 DEF RankOf

LEMMA EvictDoneRank ==
  ASSUME IInv, NEW p \in Producers, EvictDone(p)
  PROVE  RankOf(p)
<1>1. queue \in Seq(Entries) /\ TypeOK
  BY DEF IInv, TypeOK, Entries
<1>2. pc[p] = "evict" /\ result'[p] = "DroppedOldest"
  BY <1>1 DEF EvictDone, Finish, TypeOK
<1>3. call[p].msg \in Messages /\ call[p].win \in Generations \X Nat
  BY <1>2, EvictFacts
<1>4. PICK e : e = Entry(call[p].msg, call[p].win)
  OBVIOUS
<1>5. e \in Entries /\ queue' = Append(queue, e)
  BY <1>3, <1>4 DEF EvictDone, AppendLocked, Entry, Entries
<1>6. \A kinds : Cardinality(Queued(kinds, queue')) >= Cardinality(Queued(kinds, queue))
  BY <1>1, <1>5, AppendKeepsAll
<1> QED  BY <1>2, <1>6 DEF RankOf

\* While one sender evicts, another actor can only notify or be woken.
LEMMA StepRank ==
  ASSUME IInv, ResultAtReturn, [Next]_vars, NEW p \in Producers, pc[p] = "evict"
  PROVE  RankOf(p)
<1>0. TypeOK /\ mutex = p /\ mutex # NoThread /\ result[p] = "None"
      /\ \A q \in Producers : pc[q] = "evict" => q = p
  BY EvictFacts, ActorFacts DEF IInv, ResultAtReturn
<1>1. ASSUME UNCHANGED <<queue, result>>  PROVE  RankOf(p)
  BY <1>0, <1>1, QueueKept
<1>2. ASSUME NEW q \in Producers, EvictOne(q)  PROVE  RankOf(p)
  BY <1>0, <1>2, EvictOneRank DEF EvictOne
<1>3. ASSUME NEW q \in Producers, EvictDone(q)  PROVE  RankOf(p)
  BY <1>0, <1>3, EvictDoneRank DEF EvictDone
<1>4. ASSUME NEW q \in Producers, EvictFailed(q)  PROVE  RankOf(p)
  BY <1>0, <1>4, QueueKept DEF EvictFailed, channel
<1>5. ASSUME NEW q \in Producers, SpuriousWake(q)  PROVE  RankOf(p)
  BY <1>1, <1>5 DEF SpuriousWake, channel, history
<1>6. ASSUME NEW a \in Actors, Notify(a)  PROVE  RankOf(p)
  <2>1. queue' = queue /\ result'[p] = "None"
    BY <1>0, <1>6 DEF Notify, channel
  <2> QED  BY <2>1, QueueKept
<1>7. ASSUME UNCHANGED vars  PROVE  RankOf(p)
  BY <1>1, <1>7 DEF vars, channel, history
<1>8. ASSUME NEW q \in Producers, Send(q) \/ WaitCheck(q)  PROVE  FALSE
  BY <1>0, <1>8 DEF Send, WaitCheck
<1>9. ASSUME NEW c \in Consumers, TryReceive(c)  PROVE  FALSE
  BY <1>0, <1>9 DEF TryReceive
<1>10. ~Open /\ ~Close /\ ~InterruptBlockedSenders
  BY <1>0 DEF Open, Close, InterruptBlockedSenders, ControllerStep
<1> QED  BY <1>2, <1>3, <1>4, <1>5, <1>6, <1>7, <1>8, <1>9, <1>10 DEF Next

\* Eviction goes by rank.
THEOREM RankKept == Spec => RankRespected
<1>1. Init => ResultAtReturn
  BY DEF Init, ResultAtReturn
<1>2. IInv /\ ResultAtReturn /\ [Next]_vars =>
        \A p \in Producers : pc[p] = "evict" => RankOf(p)
  BY StepRank
<1>3. Spec => []ResultAtReturn
  BY <1>1, Inductive, ResultAtReturnStep, PTL DEF Spec
<1>4. IInv /\ ResultAtReturn /\ [Next]_vars =>
        [\A p \in Producers : pc[p] = "evict" =>
           /\ Cardinality(Queued({"control"}, queue')) >= Cardinality(Queued({"control"}, queue))
           /\ policy = "PreferVideoKeyframes" =>
                /\ ~IsControl(call[p].msg) =>
                     Cardinality(Queued({"keyframe"}, queue'))
                       >= Cardinality(Queued({"keyframe"}, queue))
                /\ (IsKeyframe(call[p].msg) /\ result'[p] = "DroppedNewest") =>
                     Queued({"audio", "video"}, queue) = {}]_vars
  BY <1>2 DEF RankOf
<1> QED  BY <1>3, <1>4, Inductive, PTL DEF Spec, RankRespected

-----------------------------------------------------------------------------
(* bytes_ is the weight of the queue: a fold over a sequence, counted        *)

Pick(s) == CHOOSE x \in s : TRUE

\* Finite sets are reached from the empty one by adding one element at a time.
LEMMA SubsetInduction ==
  ASSUME NEW D, IsFiniteSet(D), NEW G \in SUBSET (SUBSET D), {} \in G,
         \A s \in SUBSET D : s # {} /\ s \ {Pick(s)} \in G => s \in G
  PROVE  \A s \in SUBSET D : s \in G
<1> DEFINE Bad == (SUBSET D) \ G
           sizes == {Cardinality(s) : s \in Bad}
<1> SUFFICES ASSUME Bad # {}  PROVE  FALSE
  OBVIOUS
<1>1. \A s \in SUBSET D : IsFiniteSet(s) /\ Cardinality(s) \in Nat
  BY FS_Subset, FS_CardinalityType
<1>2. PICK n \in sizes : \A k \in sizes : n <= k
  <2>1. sizes \in SUBSET Nat /\ sizes # {}
    BY <1>1
  <2> HIDE DEF sizes
  <2> QED  BY <2>1, LeastNatural
<1>3. PICK s \in Bad : n = Cardinality(s)
  BY <1>2
<1>4. s \in SUBSET D /\ s # {} /\ Pick(s) \in s
  BY <1>3 DEF Pick
<1>5. s \ {Pick(s)} \in Bad
  BY <1>3, <1>4
<1>6. Cardinality(s \ {Pick(s)}) = n - 1 /\ n \in Nat
  BY <1>1, <1>3, <1>4, FS_RemoveElement
<1>7. n <= Cardinality(s \ {Pick(s)})
  BY <1>2, <1>5
<1> QED  BY <1>6, <1>7

\* One unit for every byte of the messages at the positions s.
Units(q, s) == {u \in s \X Nat : 1 <= u[2] /\ u[2] <= q[u[1]].msg.bytes}

WeightOf(q) == FoldSeq(LAMBDA e, sum : e.msg.bytes + sum, 0, q)

LEMMA UnitsStep ==
  ASSUME NEW q \in Seq(Entries), NEW s \in SUBSET (DOMAIN q), NEW x \in s,
         IsFiniteSet(Units(q, s \ {x}))
  PROVE  /\ IsFiniteSet(Units(q, s))
         /\ Cardinality(Units(q, s)) = q[x].msg.bytes + Cardinality(Units(q, s \ {x}))
<1>1. PICK w \in Nat : w = q[x].msg.bytes
  <2>1. q[x] \in Entries
    OBVIOUS
  <2> QED  BY <2>1, MessageTypes DEF Entries
<1> DEFINE A == Units(q, s \ {x})
           B == {x} \X (1..w)
<1>2. Units(q, s) = A \cup B
  BY <1>1 DEF Units
<1>3. A \cap B = {}
  BY DEF Units
<1>4. IsFiniteSet(B) /\ Cardinality(B) = w
  <2>1. IsFiniteSet({x}) /\ Cardinality({x}) = 1
    BY FS_Singleton
  <2>2. IsFiniteSet(1..w) /\ Cardinality(1..w) = w
    BY FS_Interval
  <2>3. IsFiniteSet(B) /\ Cardinality(B) = 1 * w
    BY <2>1, <2>2, FS_Product
  <2> QED  BY <2>3
<1> HIDE DEF A, B
<1>5. /\ IsFiniteSet(A \cup B)
      /\ Cardinality(A \cup B) = Cardinality(A) + Cardinality(B) - Cardinality(A \cap B)
  BY <1>4, FS_Union DEF A
<1>6. Cardinality(A \cap B) = 0 /\ Cardinality(A) \in Nat
  BY <1>3, FS_EmptySet, FS_CardinalityType DEF A
<1> QED  BY <1>1, <1>2, <1>4, <1>5, <1>6 DEF A

LEMMA UnitsFinite ==
  ASSUME NEW q \in Seq(Entries)
  PROVE  \A s \in SUBSET (DOMAIN q) : IsFiniteSet(Units(q, s))
<1> DEFINE G == {s \in SUBSET (DOMAIN q) : IsFiniteSet(Units(q, s))}
<1>1. IsFiniteSet(DOMAIN q)
  <2>1. DOMAIN q = 1..Len(q) /\ Len(q) \in Nat
    OBVIOUS
  <2> QED  BY <2>1, FS_Interval
<1>2. {} \in G
  BY FS_EmptySet DEF Units
<1>3. \A s \in SUBSET (DOMAIN q) : s # {} /\ s \ {Pick(s)} \in G => s \in G
  BY UnitsStep DEF Pick
<1>4. G \in SUBSET (SUBSET (DOMAIN q))
  OBVIOUS
<1> HIDE DEF G
<1>5. \A s \in SUBSET (DOMAIN q) : s \in G
  BY <1>1, <1>2, <1>3, <1>4, SubsetInduction
<1> QED  BY <1>5 DEF G

\* The fold counts them.
LEMMA WeightCounted ==
  ASSUME NEW q \in Seq(Entries)
  PROVE  WeightOf(q) = Cardinality(Units(q, DOMAIN q))
<1> DEFINE D == DOMAIN q
           IsIter(f) == f = [s \in SUBSET D |->
              IF s = {} THEN 0 ELSE q[Pick(s)].msg.bytes + f[s \ {Pick(s)}]]
<1>1. WeightOf(q) = (CHOOSE f : IsIter(f))[D]
  BY DEF WeightOf, FoldSeq, FoldFunction, FoldFunctionOnSet, MapThenFoldSet, Pick
<1>2. \A s \in SUBSET D : s # {} => Pick(s) \in s
  BY DEF Pick
<1>3. IsIter([s \in SUBSET D |-> Cardinality(Units(q, s))])
  <2>1. Cardinality(Units(q, {})) = 0
    BY FS_EmptySet DEF Units
  <2>2. ASSUME NEW s \in SUBSET D, s # {}
        PROVE  Cardinality(Units(q, s))
                 = q[Pick(s)].msg.bytes + Cardinality(Units(q, s \ {Pick(s)}))
    <3>1. PICK x \in s : x = Pick(s)
      BY <1>2, <2>2
    <3> QED  BY <3>1, UnitsStep, UnitsFinite
  <2> QED  BY <2>1, <2>2
<1>4. PICK f : f = CHOOSE g : IsIter(g)
  OBVIOUS
<1>5. IsIter(f)
  BY <1>3, <1>4
<1> DEFINE G == {s \in SUBSET D : f[s] = Cardinality(Units(q, s))}
<1>6. \A s \in SUBSET D : s \in G
  <2>1. IsFiniteSet(D)
    <3>1. DOMAIN q = 1..Len(q) /\ Len(q) \in Nat
      OBVIOUS
    <3> QED  BY <3>1, FS_Interval
  <2>2. {} \in G
    BY <1>5, FS_EmptySet DEF Units
  <2>3. \A s \in SUBSET D : s # {} /\ s \ {Pick(s)} \in G => s \in G
    <3> SUFFICES ASSUME NEW s \in SUBSET D, s # {}, s \ {Pick(s)} \in G
                 PROVE  f[s] = Cardinality(Units(q, s))
      OBVIOUS
    <3>1. f[s] = q[Pick(s)].msg.bytes + f[s \ {Pick(s)}]
      BY <1>5
    <3>2. f[s \ {Pick(s)}] = Cardinality(Units(q, s \ {Pick(s)}))
      OBVIOUS
    <3> QED  BY <1>2, <3>1, <3>2, UnitsStep, UnitsFinite
  <2>4. G \in SUBSET (SUBSET D)
    OBVIOUS
  <2> HIDE DEF G
  <2> QED  BY <2>1, <2>2, <2>3, <2>4, SubsetInduction
<1> QED  BY <1>1, <1>4, <1>6

\* What bytes_ has to follow.
LEMMA WeightEmpty == WeightOf(<<>>) = 0
<1>1. <<>> \in Seq(Entries) /\ Units(<<>>, DOMAIN <<>>) = {}
  BY DEF Units
<1> QED  BY <1>1, WeightCounted, FS_EmptySet

LEMMA WeightAppend ==
  ASSUME NEW q \in Seq(Entries), NEW e \in Entries
  PROVE  WeightOf(Append(q, e)) = WeightOf(q) + e.msg.bytes
<1>1. PICK r : r = Append(q, e)
  OBVIOUS
<1>2. PICK n : n = Len(q) + 1
  OBVIOUS
<1>3. /\ r \in Seq(Entries) /\ DOMAIN r = 1..n /\ DOMAIN q = 1..(n - 1) /\ n \in Nat /\ n > 0
      /\ r[n] = e /\ \A j \in DOMAIN q : r[j] = q[j]
  BY <1>1, <1>2
<1>4. (DOMAIN r) \ {n} = DOMAIN q /\ n \in DOMAIN r
  BY <1>3
<1>5. Units(r, (DOMAIN r) \ {n}) = Units(q, DOMAIN q)
  BY <1>3, <1>4 DEF Units
<1>6. /\ IsFiniteSet(Units(r, (DOMAIN r) \ {n}))
      /\ Cardinality(Units(q, DOMAIN q)) \in Nat
  BY <1>3, <1>5, UnitsFinite, FS_CardinalityType
<1>7. Cardinality(Units(r, DOMAIN r)) = r[n].msg.bytes + Cardinality(Units(q, DOMAIN q))
  <2>1. PICK s : s = DOMAIN r
    OBVIOUS
  <2> QED  BY <1>3, <1>4, <1>5, <1>6, <2>1, UnitsStep
<1>8. e.msg.bytes \in Nat
  BY MessageTypes DEF Entries
<1>9. WeightOf(r) = WeightOf(q) + e.msg.bytes
  <2>1. /\ WeightOf(r) = Cardinality(Units(r, DOMAIN r))
        /\ WeightOf(q) = Cardinality(Units(q, DOMAIN q))
    BY <1>3, WeightCounted
  <2> QED  BY <1>3, <1>6, <1>7, <1>8, <2>1
<1> QED  BY <1>1, <1>9

LEMMA WeightRemoveAt ==
  ASSUME NEW q \in Seq(Entries), NEW i \in DOMAIN q
  PROVE  /\ WeightOf(q) = q[i].msg.bytes + WeightOf(RemoveAt(q, i))
         /\ WeightOf(RemoveAt(q, i)) \in Nat
<1> PICK r : r = RemoveAt(q, i)
  OBVIOUS
<1> DEFINE A == Units(q, (DOMAIN q) \ {i})
           B == Units(r, DOMAIN r)
           f == [u \in A |-> <<IF u[1] < i THEN u[1] ELSE u[1] - 1, u[2]>>]
<1>1. /\ r \in Seq(Entries) /\ Len(r) = Len(q) - 1
      /\ \A j \in 1..(Len(q) - 1) : r[j] = q[IF j < i THEN j ELSE j + 1]
  BY RemoveAtProperties
<1>2. /\ DOMAIN q = 1..Len(q) /\ DOMAIN r = 1..(Len(q) - 1) /\ Len(q) \in Nat /\ i \in 1..Len(q)
  BY <1>1
<1>3. \A u \in A : /\ u = <<u[1], u[2]>> /\ u[1] \in 1..Len(q) /\ u[1] # i
                   /\ u[2] \in Nat /\ 1 <= u[2] /\ u[2] <= q[u[1]].msg.bytes
  BY <1>2 DEF Units
<1>4. \A j \in 1..Len(q) : j # i =>
        /\ (IF j < i THEN j ELSE j - 1) \in 1..(Len(q) - 1)
        /\ r[IF j < i THEN j ELSE j - 1] = q[j]
  <2> SUFFICES ASSUME NEW j \in 1..Len(q), j # i
               PROVE  /\ (IF j < i THEN j ELSE j - 1) \in 1..(Len(q) - 1)
                      /\ r[IF j < i THEN j ELSE j - 1] = q[j]
    OBVIOUS
  <2>1. PICK k : k = IF j < i THEN j ELSE j - 1
    OBVIOUS
  <2>2. k \in 1..(Len(q) - 1) /\ (IF k < i THEN k ELSE k + 1) = j
    BY <1>2, <2>1
  <2> QED  BY <1>1, <2>1, <2>2
<1>5. ASSUME NEW u \in A  PROVE  f[u] \in B
  <2>1. PICK k \in 1..(Len(q) - 1) : f[u] = <<k, u[2]>> /\ r[k] = q[u[1]]
    BY <1>3, <1>4
  <2> QED  BY <1>2, <1>3, <2>1 DEF Units
<1>6. ASSUME NEW u \in A, NEW v \in A, f[u] = f[v]  PROVE  u = v
  <2>1. /\ u = <<u[1], u[2]>> /\ u[1] \in 1..Len(q) /\ u[1] # i
        /\ v = <<v[1], v[2]>> /\ v[1] \in 1..Len(q) /\ v[1] # i
    BY <1>3
  <2>2. /\ f[u] = <<IF u[1] < i THEN u[1] ELSE u[1] - 1, u[2]>>
        /\ f[v] = <<IF v[1] < i THEN v[1] ELSE v[1] - 1, v[2]>>
    OBVIOUS
  <2>3. PICK j, k : j = u[1] /\ k = v[1]
    OBVIOUS
  <2> HIDE DEF f, A
  <2>4. (IF j < i THEN j ELSE j - 1) = (IF k < i THEN k ELSE k - 1) /\ u[2] = v[2]
    <3>1. PICK jj, kk : jj = (IF j < i THEN j ELSE j - 1) /\ kk = (IF k < i THEN k ELSE k - 1)
      OBVIOUS
    <3>2. <<jj, u[2]>> = <<kk, v[2]>>
      BY <1>6, <2>2, <2>3, <3>1
    <3> QED  BY <3>1, <3>2
  <2>5. j = k
    BY <1>2, <2>1, <2>3, <2>4
  <2> QED  BY <2>1, <2>3, <2>4, <2>5
<1>7. ASSUME NEW v \in B  PROVE  \E u \in A : f[u] = v
  <2>1. /\ v = <<v[1], v[2]>> /\ v[1] \in 1..(Len(q) - 1)
        /\ v[2] \in Nat /\ 1 <= v[2] /\ v[2] <= r[v[1]].msg.bytes
    BY <1>2 DEF Units
  <2>2. PICK j : j = IF v[1] < i THEN v[1] ELSE v[1] + 1
    OBVIOUS
  <2>3. j \in (DOMAIN q) \ {i} /\ r[v[1]] = q[j] /\ (IF j < i THEN j ELSE j - 1) = v[1]
    BY <1>1, <1>2, <2>1, <2>2
  <2>4. <<j, v[2]>> \in A
    BY <2>1, <2>3 DEF Units
  <2>5. f[<<j, v[2]>>] = v
    BY <2>1, <2>3, <2>4
  <2> QED  BY <2>4, <2>5
<1>8. f \in Bijection(A, B)
  BY <1>5, <1>6, <1>7 DEF Bijection, Injection, IsInjective, Surjection
<1> HIDE DEF f
<1>9. IsFiniteSet(A)
  BY UnitsFinite
<1>10. IsFiniteSet(B) /\ Cardinality(B) = Cardinality(A) /\ Cardinality(B) \in Nat
  BY <1>8, <1>9, FS_Bijection, FS_CardinalityType DEF ExistsBijection
<1>11. Cardinality(Units(q, DOMAIN q)) = q[i].msg.bytes + Cardinality(A)
  BY <1>9, UnitsStep
<1>12. WeightOf(q) = q[i].msg.bytes + Cardinality(A) /\ WeightOf(r) = Cardinality(B)
  BY <1>1, <1>11, WeightCounted
<1> QED  BY <1>10, <1>12

-----------------------------------------------------------------------------
(* The level of the watermark                                              *)

\* Every change of the queue is one of three, each with its watermark.
ChannelStep ==
  \/ UNCHANGED <<queue, bytes, high>>
  \/ \E m \in Messages, w \in Generations \X Nat : AppendLocked(m, w)
  \/ \E i \in DOMAIN queue : EraseLocked(i)
  \/ queue' = <<>> /\ bytes' = 0 /\ UpdateWatermark

LEMMA ChannelSteps ==
  ASSUME IInv, [Next]_vars
  PROVE  ChannelStep
<1>0. TypeOK /\ queue \in Seq(Entries)
  BY DEF IInv, TypeOK, Entries
<1>1. ASSUME UNCHANGED channel  PROVE  ChannelStep
  BY <1>1 DEF channel, ChannelStep
<1>2. ASSUME NEW p \in Producers, Send(p)  PROVE  ChannelStep
  <2>1. PICK m \in Messages : SendClosed(p, m) \/ SendOpen(p, m)
    BY <1>2 DEF Send
  <2>2. CASE SendClosed(p, m)
    BY <1>1, <2>2 DEF SendClosed
  <2>3. CASE SendOpen(p, m)
    <3>1. WindowOf(m) \in Generations \X Nat
      BY <1>0, <2>3, ResolvePreserves DEF SendOpen
    <3>2. AppendLocked(m, WindowOf(m)) \/ UNCHANGED channel
      BY <2>3 DEF SendOpen
    <3> QED  BY <1>1, <3>1, <3>2 DEF ChannelStep
  <2> QED  BY <2>1, <2>2, <2>3
<1>3. ASSUME NEW p \in Producers, EvictOne(p)  PROVE  ChannelStep
  <2>1. PICK i \in Victim(call[p].msg) : EraseLocked(i)
    BY <1>3 DEF EvictOne
  <2>2. i \in DOMAIN queue
    BY DEF Victim, PriorityVictim, NonControlVictim, First
  <2> QED  BY <2>1, <2>2 DEF ChannelStep
<1>4. ASSUME NEW p \in Producers, EvictDone(p)  PROVE  ChannelStep
  <2>1. call[p].msg \in Messages /\ call[p].win \in Generations \X Nat
    BY <1>4, EvictFacts DEF EvictDone
  <2> QED  BY <1>4, <2>1 DEF EvictDone, ChannelStep
<1>5. ASSUME NEW p \in Producers, EvictFailed(p) \/ SpuriousWake(p)  PROVE  ChannelStep
  BY <1>1, <1>5 DEF EvictFailed, SpuriousWake
<1>6. ASSUME NEW p \in Producers, WaitCheck(p)  PROVE  ChannelStep
  <2>1. call[p].msg \in Messages /\ call[p].win \in Generations \X Nat
    BY <1>6 DEF IInv, LockDiscipline, WaitCheck, Calls
  <2>2. AppendLocked(call[p].msg, call[p].win) \/ UNCHANGED channel
    BY <1>6 DEF WaitCheck
  <2> QED  BY <1>1, <2>1, <2>2 DEF ChannelStep
<1>7. ASSUME NEW c \in Consumers, TryReceive(c)  PROVE  ChannelStep
  <2>1. queue # <<>> => 1 \in DOMAIN queue
    BY <1>0
  <2>2. (queue # <<>> /\ EraseLocked(1)) \/ UNCHANGED channel
    BY <1>7 DEF TryReceive
  <2> QED  BY <1>1, <2>1, <2>2 DEF ChannelStep
<1>8. ASSUME Open \/ Close \/ InterruptBlockedSenders  PROVE  ChannelStep
  BY <1>1, <1>8 DEF Open, Close, InterruptBlockedSenders, ClearCurrentLocked, ChannelStep
<1>9. ASSUME NEW a \in Actors, Notify(a)  PROVE  ChannelStep
  BY <1>1, <1>9 DEF Notify
<1>10. ASSUME UNCHANGED vars  PROVE  ChannelStep
  BY <1>1, <1>10 DEF vars
<1> QED  BY <1>2, <1>3, <1>4, <1>5, <1>6, <1>7, <1>8, <1>9, <1>10 DEF Next

\* bytes_ is the weight of what is queued.
Weighed == bytes = WeightOf(queue)

LEMMA BytesStep ==
  ASSUME IInv, Weighed, ChannelStep
  PROVE  Weighed'
<1>1. queue \in Seq(Entries) /\ bytes \in Nat /\ bytes = WeightOf(queue)
  BY DEF IInv, TypeOK, Entries, Weighed
<1>2. SUFFICES bytes' = WeightOf(queue')
  BY DEF Weighed
<1>3. CASE UNCHANGED <<queue, bytes, high>>
  BY <1>1, <1>3
<1>4. ASSUME NEW m \in Messages, NEW w \in Generations \X Nat, AppendLocked(m, w)
      PROVE  bytes' = WeightOf(queue')
  <2>1. PICK e \in Entries : e = Entry(m, w)
    BY DEF Entry, Entries
  <2>2. queue' = Append(queue, e) /\ bytes' = bytes + e.msg.bytes
    BY <1>4, <2>1 DEF AppendLocked, Entry
  <2> QED  BY <1>1, <2>2, WeightAppend
<1>5. ASSUME NEW i \in DOMAIN queue, EraseLocked(i)
      PROVE  bytes' = WeightOf(queue')
  <2>1. PICK r : r = queue'
    OBVIOUS
  <2>2. /\ WeightOf(queue) = queue[i].msg.bytes + WeightOf(r) /\ WeightOf(r) \in Nat
    BY <1>1, <1>5, <2>1, WeightRemoveAt DEF EraseLocked
  <2>3. queue[i].msg.bytes \in Nat
    <3>1. queue[i] \in Entries
      BY <1>1
    <3> QED  BY <3>1, MessageTypes DEF Entries
  <2>4. bytes' = IF queue[i].msg.bytes > bytes THEN 0 ELSE bytes - queue[i].msg.bytes
    BY <1>5 DEF EraseLocked
  <2> QED  BY <1>1, <2>1, <2>2, <2>3, <2>4
<1>6. CASE queue' = <<>> /\ bytes' = 0
  BY <1>6, WeightEmpty
<1> QED  BY <1>3, <1>4, <1>5, <1>6 DEF ChannelStep

\* Watermarks that differ leave no occupancy that is both high and low.
LEMMA LevelsApart ==
  ASSUME LowPercent < HighPercent, NEW q, NEW b, Len(q) \in Nat, b \in Nat,
         Spans(q) \subseteq Int, AtOrAboveHigh(q, b)
  PROVE  ~AtOrBelowLow(q, b)
<1>1. HighPercent \in Nat /\ LowPercent \in Nat
      /\ MaxItems \in Nat /\ MaxBytes \in Nat /\ MaxSpan \in Nat
  BY BudgetAssumption
<1>2. ASSUME NEW v \in Int, NEW limit \in Nat, Reaches(v, limit)  PROVE  Exceeds(v, limit)
  <2>1. v * 100 >= limit * HighPercent /\ limit > 0
    BY <1>2 DEF Reaches
  <2>2. limit * HighPercent > limit * LowPercent
    <3>1. PICK d \in Nat : HighPercent = LowPercent + d /\ d > 0
      BY <1>1
    <3>2. limit * (LowPercent + d) = limit * LowPercent + limit * d
      BY <1>1, <3>1
    <3>3. limit * d > 0
      BY <2>1, <3>1
    <3>4. limit * LowPercent \in Int /\ limit * d \in Int
      BY <1>1, <3>1
    <3> QED  BY <3>1, <3>2, <3>3, <3>4
  <2>3. limit * HighPercent \in Int /\ limit * LowPercent \in Int /\ v * 100 \in Int
    BY <1>1
  <2> QED  BY <2>1, <2>2, <2>3 DEF Exceeds
<1> QED  BY <1>1, <1>2 DEF AtOrAboveHigh, AtOrBelowLow

LEMMA SpansInt == ASSUME NEW q \in Seq(Entries)  PROVE  Spans(q) \subseteq Int
<1> SUFFICES ASSUME NEW j \in DOMAIN q, NEW k \in DOMAIN q
             PROVE  EndTimestamp(q[k].msg) - q[j].msg.ts \in Int
  BY DEF Spans
<1>1. q[j].msg \in Messages /\ q[k].msg \in Messages
  <2>1. q[j] \in Entries /\ q[k] \in Entries
    OBVIOUS
  <2> QED  BY <2>1 DEF Entries
<1>2. \A m \in Messages : m.ts \in Int /\ m.dur \in Int
  BY MessagesAssumption DEF NoTimestamp
<1> QED  BY <1>1, <1>2 DEF EndTimestamp

LEMMA WatermarkStep ==
  ASSUME IInv, IInv', WatermarkAgrees, ChannelStep
  PROVE  WatermarkAgrees'
<1> SUFFICES ASSUME LowPercent < HighPercent
             PROVE  IF high' THEN ~AtOrBelowLow(queue', bytes') ELSE ~AtOrAboveHigh(queue', bytes')
  BY DEF WatermarkAgrees
<1>1. CASE UNCHANGED <<queue, bytes, high>>
  BY <1>1 DEF WatermarkAgrees
<1>2. CASE UpdateWatermark
  <2>1. PICK q, b : q = queue' /\ b = bytes'
    OBVIOUS
  <2>2. q \in Seq(Entries) /\ b \in Nat
    BY <2>1 DEF IInv, TypeOK, Entries
  <2>3. AtOrAboveHigh(q, b) => ~AtOrBelowLow(q, b)
    BY <2>2, LevelsApart, SpansInt
  <2>4. high' = IF high THEN ~AtOrBelowLow(q, b) ELSE AtOrAboveHigh(q, b)
    BY <1>2, <2>1 DEF UpdateWatermark
  <2> QED  BY <2>1, <2>3, <2>4
<1> QED  BY <1>1, <1>2 DEF ChannelStep, AppendLocked, EraseLocked

LEMMA BacklogInit == Init => Weighed /\ WatermarkAgrees
<1> SUFFICES ASSUME Init  PROVE  Weighed /\ WatermarkAgrees
  OBVIOUS
<1>1. queue = <<>> /\ bytes = 0 /\ high = FALSE
  BY DEF Init
<1>2. Weighed
  BY <1>1, WeightEmpty DEF Weighed
<1>3. Spans(<<>>) = {}
  BY DEF Spans
<1>4. ~AtOrAboveHigh(queue, bytes)
  BY <1>1, <1>3 DEF AtOrAboveHigh, Reaches
<1> QED  BY <1>1, <1>2, <1>4 DEF WatermarkAgrees

-----------------------------------------------------------------------------
(* Time windows                                                            *)

\* No message of a window is newer than the latest timestamp of the window that
\* is open, and no window is newer than that one.
Behind(e, now, newest) ==
  LET g == e.msg.gen IN
  /\ e.win[1] = g /\ e.win[2] <= now[g]
  /\ (e.win[2] = now[g] /\ e.msg.ts # NoTimestamp) =>
       newest[g] # NoTimestamp /\ e.msg.ts <= newest[g]

\* A message in the hands of an evicting sender is the newest of its generation.
Newest(m, w, now, newest) ==
  /\ w = <<m.gen, now[m.gen]>>
  /\ m.ts # NoTimestamp => newest[m.gen] = m.ts

\* Two entries of one window are in timestamp order.
InTurn(a, b) ==
  (a.win = b.win /\ a.msg.ts # NoTimestamp /\ b.msg.ts # NoTimestamp) => a.msg.ts <= b.msg.ts

Ordered(q) == \A i, j \in DOMAIN q : i < j => InTurn(q[i], q[j])

TimelineInv ==
  policy # "Block" =>
    /\ \A p \in Producers : pc[p] # "wait"
    /\ \A i \in DOMAIN queue : Behind(queue[i], epoch, latest)
    /\ \A p \in Producers : pc[p] = "evict" => Newest(call[p].msg, call[p].win, epoch, latest)
    /\ Ordered(queue)

LEMMA OrderedAppend ==
  ASSUME NEW q \in Seq(Entries), NEW e, Ordered(q), \A i \in DOMAIN q : InTurn(q[i], e)
  PROVE  Ordered(Append(q, e))
<1>1. PICK r : r = Append(q, e)
  OBVIOUS
<1>2. /\ DOMAIN r = 1..(Len(q) + 1) /\ DOMAIN q = 1..Len(q) /\ Len(q) \in Nat
      /\ r[Len(q) + 1] = e /\ \A j \in DOMAIN q : r[j] = q[j]
  BY <1>1
<1>3. ASSUME NEW i \in DOMAIN r, NEW j \in DOMAIN r, i < j  PROVE  InTurn(r[i], r[j])
  <2>1. i \in DOMAIN q /\ r[i] = q[i] /\ (j \in DOMAIN q \/ r[j] = e)
    BY <1>2, <1>3
  <2> QED  BY <1>2, <1>3, <2>1 DEF Ordered
<1> QED  BY <1>1, <1>3 DEF Ordered

\* What is left of a queue after a removal was in it before, in that order.
LEMMA RemoveAtOrder ==
  ASSUME NEW q \in Seq(Entries), NEW i \in DOMAIN q
  PROVE  \A j, k \in DOMAIN RemoveAt(q, i) : \E jj, kk \in DOMAIN q :
           /\ RemoveAt(q, i)[j] = q[jj] /\ RemoveAt(q, i)[k] = q[kk]
           /\ j < k => jj < kk
<1> PICK r : r = RemoveAt(q, i)
  OBVIOUS
<1>1. /\ r \in Seq(Entries) /\ Len(r) = Len(q) - 1
      /\ \A j \in 1..(Len(q) - 1) : r[j] = q[IF j < i THEN j ELSE j + 1]
  BY RemoveAtProperties
<1>2. /\ DOMAIN q = 1..Len(q) /\ DOMAIN r = 1..(Len(q) - 1) /\ Len(q) \in Nat /\ i \in 1..Len(q)
  BY <1>1
<1>3. SUFFICES ASSUME NEW j \in DOMAIN r, NEW k \in DOMAIN r
               PROVE  \E jj, kk \in DOMAIN q :
                        r[j] = q[jj] /\ r[k] = q[kk] /\ (j < k => jj < kk)
  OBVIOUS
<1>4. PICK jj, kk : jj = (IF j < i THEN j ELSE j + 1) /\ kk = (IF k < i THEN k ELSE k + 1)
  OBVIOUS
<1>5. jj \in DOMAIN q /\ kk \in DOMAIN q /\ (j < k => jj < kk)
  BY <1>2, <1>4
<1>6. r[j] = q[jj] /\ r[k] = q[kk]
  BY <1>1, <1>2, <1>4
<1> QED  BY <1>5, <1>6

\* Resolving the window of m leaves every entry behind, and m the newest.
LEMMA ResolveKeeps ==
  ASSUME TypeOK, NEW m \in Messages, ResolveTimeWindow(m)
  PROVE  /\ \A e \in Entries : Behind(e, epoch, latest) => Behind(e, epoch', latest') /\ InTurn(e, Entry(m, WindowOf(m)))
         /\ Newest(m, WindowOf(m), epoch', latest')
<1>1. PICK g \in Generations : g = m.gen
  BY MessageTypes
<1>2. PICK w : w = WindowOf(m)
  OBVIOUS
<1>3. /\ w = <<g, w[2]>> /\ w[2] = IF Regresses(m) THEN epoch[g] + 1 ELSE epoch[g]
      /\ epoch' = [epoch EXCEPT ![g] = w[2]]
      /\ latest' = IF m.ts = NoTimestamp THEN latest ELSE [latest EXCEPT ![g] = m.ts]
  BY <1>1, <1>2 DEF ResolveTimeWindow, WindowOf
<1>4. /\ epoch \in [Generations -> Nat] /\ latest \in [Generations -> Nat \cup {NoTimestamp}]
      /\ m.ts \in Nat \cup {NoTimestamp}
  BY MessageTypes DEF TypeOK
<1>5. epoch'[g] = w[2] /\ (m.ts # NoTimestamp => latest'[g] = m.ts)
  BY <1>3, <1>4
<1>6. \A h \in Generations : h # g => epoch'[h] = epoch[h] /\ latest'[h] = latest[h]
  BY <1>3, <1>4
<1>7. ASSUME NEW e \in Entries, Behind(e, epoch, latest)
      PROVE  Behind(e, epoch', latest') /\ InTurn(e, Entry(m, w))
  <2>1. PICK h \in Generations : h = e.msg.gen
    BY MessageTypes DEF Entries
  <2>2. e.msg.ts \in Nat \cup {NoTimestamp} /\ e.win \in Generations \X Nat
    BY MessageTypes DEF Entries
  <2>3. /\ e.win[1] = h /\ e.win[2] <= epoch[h]
        /\ (e.win[2] = epoch[h] /\ e.msg.ts # NoTimestamp) =>
             latest[h] # NoTimestamp /\ e.msg.ts <= latest[h]
    BY <1>7, <2>1 DEF Behind
  <2>4. SUFFICES /\ e.win[2] <= epoch'[h]
                 /\ (e.win[2] = epoch'[h] /\ e.msg.ts # NoTimestamp) =>
                      latest'[h] # NoTimestamp /\ e.msg.ts <= latest'[h]
                 /\ (e.win = w /\ e.msg.ts # NoTimestamp /\ m.ts # NoTimestamp) => e.msg.ts <= m.ts
    BY <2>1, <2>3 DEF Behind, InTurn, Entry
  <2>5. CASE h # g
    BY <1>3, <1>6, <2>3, <2>5
  <2>6. CASE h = g /\ Regresses(m)
    <3>1. epoch'[h] = epoch[h] + 1 /\ epoch[h] \in Nat /\ w[2] = epoch[h] + 1
      BY <1>3, <1>4, <1>5, <2>6
    <3> QED  BY <2>2, <2>3, <3>1
  <2>7. CASE h = g /\ ~Regresses(m)
    <3>1. epoch'[h] = epoch[h] /\ w[2] = epoch[h]
      BY <1>3, <1>5, <2>7
    <3>2. m.ts = NoTimestamp \/ latest[h] = NoTimestamp \/ latest[h] <= m.ts
      BY <1>1, <1>4, <2>7 DEF Regresses, NoTimestamp
    <3>3. latest'[h] = IF m.ts = NoTimestamp THEN latest[h] ELSE m.ts
      BY <1>3, <1>4, <2>7
    <3>4. latest[h] \in Nat \cup {NoTimestamp}
      BY <1>4
    <3> QED  BY <1>4, <2>2, <2>3, <3>1, <3>2, <3>3, <3>4 DEF NoTimestamp
  <2> QED  BY <2>5, <2>6, <2>7
<1>8. Newest(m, w, epoch', latest')
  BY <1>1, <1>3, <1>5 DEF Newest
<1> QED  BY <1>2, <1>7, <1>8

LEMMA TimelineKept ==
  ASSUME IInv, TimelineInv, policy' = policy, latest' = latest, epoch' = epoch,
         policy # "Block" =>
           /\ \A p \in Producers : pc'[p] = "wait" => pc[p] = "wait"
           /\ \A p \in Producers : pc'[p] = "evict" =>
                pc[p] = "evict" /\ call'[p].msg = call[p].msg /\ call'[p].win = call[p].win
           /\ \/ queue' = queue
              \/ \E i \in DOMAIN queue : queue' = RemoveAt(queue, i)
  PROVE  TimelineInv'
<1> SUFFICES ASSUME policy # "Block"
             PROVE  /\ \A p \in Producers : pc'[p] # "wait"
                    /\ \A i \in DOMAIN queue' : Behind(queue'[i], epoch', latest')
                    /\ \A p \in Producers : pc'[p] = "evict" => Newest(call'[p].msg, call'[p].win, epoch', latest')
                    /\ Ordered(queue')
  BY DEF TimelineInv
<1>1. /\ queue \in Seq(Entries) /\ Ordered(queue)
      /\ \A i \in DOMAIN queue : Behind(queue[i], epoch, latest)
      /\ \A p \in Producers : pc[p] # "wait"
      /\ \A p \in Producers : pc[p] = "evict" => Newest(call[p].msg, call[p].win, epoch, latest)
  BY DEF IInv, TypeOK, Entries, TimelineInv
<1>2. \A p \in Producers : pc'[p] # "wait"
  BY <1>1
<1>3. \A p \in Producers : pc'[p] = "evict" => Newest(call'[p].msg, call'[p].win, epoch', latest')
  BY <1>1 DEF Newest
<1>4. PICK r : r = queue'
  OBVIOUS
<1>5. \A j, k \in DOMAIN r : \E jj, kk \in DOMAIN queue :
        r[j] = queue[jj] /\ r[k] = queue[kk] /\ (j < k => jj < kk)
  BY <1>1, <1>4, RemoveAtOrder
<1>6. Ordered(r)
  BY <1>1, <1>5 DEF Ordered
<1>7. \A e : Behind(e, epoch, latest) => Behind(e, epoch', latest')
  BY DEF Behind
<1>8. \A i \in DOMAIN r : Behind(r[i], epoch', latest')
  BY <1>1, <1>5, <1>7
<1> QED  BY <1>2, <1>3, <1>4, <1>6, <1>8

LEMMA TimelineSend ==
  ASSUME IInv, TimelineInv, NEW p \in Producers, Send(p)
  PROVE  TimelineInv'
<1> USE ActorFacts
<1>0. /\ TypeOK /\ queue \in Seq(Entries) /\ pc[p] = "idle" /\ policy' = policy
      /\ \A q \in Producers : pc[q] # "evict"
  BY DEF IInv, TypeOK, Entries, Send, LockDiscipline
<1>1. PICK m \in Messages : SendClosed(p, m) \/ SendOpen(p, m)
  BY DEF Send
<1>2. CASE SendClosed(p, m)
  BY <1>0, <1>2, TimelineKept DEF SendClosed, Finish, TypeOK, channel, windows
<1>3. CASE SendOpen(p, m)
  <2> SUFFICES ASSUME policy # "Block"
               PROVE  /\ \A q \in Producers : pc'[q] # "wait"
                      /\ \A i \in DOMAIN queue' : Behind(queue'[i], epoch', latest')
                      /\ \A q \in Producers : pc'[q] = "evict" => Newest(call'[q].msg, call'[q].win, epoch', latest')
                      /\ Ordered(queue')
    BY <1>0 DEF TimelineInv
  <2>1. PICK w : w = WindowOf(m)
    OBVIOUS
  <2>2. /\ \A e \in Entries : Behind(e, epoch, latest) => Behind(e, epoch', latest') /\ InTurn(e, Entry(m, w))
        /\ Newest(m, w, epoch', latest') /\ w \in Generations \X Nat
    BY <1>0, <1>3, <2>1, ResolveKeeps, ResolvePreserves DEF SendOpen
  <2>3. /\ Ordered(queue) /\ \A i \in DOMAIN queue : Behind(queue[i], epoch, latest) /\ queue[i] \in Entries
        /\ \A q \in Producers : pc[q] # "wait"
    BY <1>0 DEF TimelineInv
  <2>4. CASE UNCHANGED channel /\ pc' = [pc EXCEPT ![p] = "evict"] /\ Remember(p, m, w)
    <3>1. queue' = queue /\ call'[p].msg = m /\ call'[p].win = w
      BY <1>0, <2>4 DEF channel, Remember, TypeOK
    <3>2. \A q \in Producers : pc'[q] # "wait" /\ (pc'[q] = "evict" => q = p)
      BY <1>0, <2>3, <2>4 DEF TypeOK
    <3> QED  BY <2>2, <2>3, <3>1, <3>2
  <2>5. CASE UNCHANGED channel /\ Finish(p, "DroppedNewest")
    <3>1. queue' = queue /\ \A q \in Producers : pc'[q] # "wait" /\ pc'[q] # "evict"
      BY <1>0, <2>3, <2>5 DEF channel, Finish, TypeOK
    <3> QED  BY <2>2, <2>3, <3>1
  <2>6. CASE AppendLocked(m, w) /\ Finish(p, "Accepted")
    <3>1. \A q \in Producers : pc'[q] # "wait" /\ pc'[q] # "evict"
      BY <1>0, <2>3, <2>6 DEF Finish, TypeOK
    <3>2. PICK e \in Entries : e = Entry(m, w)
      BY <2>2 DEF Entry, Entries
    <3>3. PICK r : r = Append(queue, e)
      OBVIOUS
    <3>4. Ordered(r)
      BY <1>0, <2>2, <2>3, <3>2, <3>3, OrderedAppend
    <3>5. Behind(e, epoch', latest')
      <4>1. epoch'[m.gen] \in Nat /\ (m.ts # NoTimestamp => m.ts \in Nat)
        BY <1>0, <1>3, ResolvePreserves, MessageTypes DEF SendOpen
      <4> QED  BY <2>2, <3>2, <4>1 DEF Behind, Newest, Entry, NoTimestamp
    <3>6. \A i \in DOMAIN r : r[i] = e \/ \E j \in DOMAIN queue : r[i] = queue[j]
      BY <1>0, <3>3
    <3>7. \A i \in DOMAIN r : Behind(r[i], epoch', latest')
      BY <2>2, <2>3, <3>5, <3>6
    <3>8. queue' = r
      BY <2>6, <3>2, <3>3 DEF AppendLocked
    <3> QED  BY <3>1, <3>4, <3>7, <3>8
  <2> QED  BY <1>3, <2>1, <2>4, <2>5, <2>6 DEF SendOpen
<1> QED  BY <1>1, <1>2, <1>3

LEMMA TimelineEvictDone ==
  ASSUME IInv, TimelineInv, NEW p \in Producers, EvictDone(p)
  PROVE  TimelineInv'
<1> USE ActorFacts
<1> SUFFICES ASSUME policy # "Block"
             PROVE  /\ \A q \in Producers : pc'[q] # "wait"
                    /\ \A i \in DOMAIN queue' : Behind(queue'[i], epoch', latest')
                    /\ \A q \in Producers : pc'[q] = "evict" => Newest(call'[q].msg, call'[q].win, epoch', latest')
                    /\ Ordered(queue')
  BY DEF TimelineInv, EvictDone
<1>0. /\ TypeOK /\ queue \in Seq(Entries) /\ pc[p] = "evict" /\ epoch' = epoch /\ latest' = latest
      /\ \A q \in Producers : pc[q] # "wait" /\ (pc[q] = "evict" => q = p)
      /\ Ordered(queue) /\ \A i \in DOMAIN queue : Behind(queue[i], epoch, latest)
  BY EvictFacts DEF IInv, TypeOK, Entries, EvictDone, TimelineInv, windows
<1>1. PICK m, w : m = call[p].msg /\ w = call[p].win
  OBVIOUS
<1>2. m \in Messages /\ w \in Generations \X Nat /\ Newest(m, w, epoch, latest)
  BY <1>0, <1>1, EvictFacts DEF TimelineInv
<1>3. PICK e \in Entries : e = Entry(m, w)
  BY <1>2 DEF Entry, Entries
<1>4. PICK r : r = Append(queue, e)
  OBVIOUS
<1>5. ASSUME NEW a \in Entries, Behind(a, epoch, latest)  PROVE  InTurn(a, e)
  BY <1>2, <1>3, <1>5 DEF Behind, Newest, InTurn, Entry
<1>6. \A i \in DOMAIN queue : queue[i] \in Entries
  BY <1>0
<1>7. Ordered(r)
  BY <1>0, <1>4, <1>5, <1>6, OrderedAppend
<1>8. Behind(e, epoch, latest)
  <2>1. m.ts # NoTimestamp => m.ts <= m.ts
    BY <1>2, MessageTypes DEF NoTimestamp
  <2>2. epoch[m.gen] <= epoch[m.gen]
    BY <1>0, <1>2, MessageTypes DEF TypeOK
  <2> QED  BY <1>2, <1>3, <2>1, <2>2 DEF Behind, Newest, Entry
<1>9. \A i \in DOMAIN r : r[i] = e \/ \E j \in DOMAIN queue : r[i] = queue[j]
  BY <1>0, <1>4
<1>10. \A a : Behind(a, epoch, latest) => Behind(a, epoch', latest')
  BY <1>0 DEF Behind
<1>11. \A i \in DOMAIN r : Behind(r[i], epoch', latest')
  BY <1>0, <1>8, <1>9, <1>10
<1>12. queue' = r
  BY <1>1, <1>3, <1>4 DEF EvictDone, AppendLocked
<1>13. \A q \in Producers : pc'[q] # "wait" /\ pc'[q] # "evict"
  BY <1>0 DEF EvictDone, Finish, TypeOK
<1> QED  BY <1>7, <1>11, <1>12, <1>13

LEMMA TimelineStep ==
  ASSUME IInv, TimelineInv, [Next]_vars
  PROVE  TimelineInv'
<1> USE ActorFacts
<1>0. TypeOK /\ queue \in Seq(Entries)
  BY DEF IInv, TypeOK, Entries
<1>1. ASSUME NEW p \in Producers, EvictOne(p)  PROVE  TimelineInv'
  <2>1. PICK i \in Victim(call[p].msg) : EraseLocked(i)
    BY <1>1 DEF EvictOne
  <2>2. i \in DOMAIN queue /\ queue' = RemoveAt(queue, i)
    BY <2>1 DEF Victim, PriorityVictim, NonControlVictim, First, EraseLocked
  <2> QED  BY <1>1, <2>2, TimelineKept DEF EvictOne, windows, threads
<1>2. ASSUME NEW p \in Producers, EvictFailed(p)  PROVE  TimelineInv'
  <2>1. UNCHANGED <<policy, queue, latest, epoch>>
    BY <1>2 DEF EvictFailed, channel, windows
  <2>2. policy # "Block" => Finish(p, "DroppedNewest")
    BY <1>2 DEF EvictFailed
  <2>3. policy # "Block" => \A q \in Producers : pc'[q] # "notify" => q # p /\ pc'[q] = pc[q]
    BY <1>0, <2>2 DEF Finish, TypeOK
  <2>4. policy # "Block" => \A q \in Producers : q # p => call'[q] = call[q]
    BY <1>0, <2>2 DEF Finish, TypeOK
  <2> QED  BY <2>1, <2>3, <2>4, TimelineKept
<1>3. ASSUME NEW p \in Producers, WaitCheck(p)  PROVE  TimelineInv'
  <2>1. pc[p] = "wait" /\ policy' = policy
    BY <1>3 DEF WaitCheck
  <2> QED  BY <2>1 DEF TimelineInv
<1>4. ASSUME NEW p \in Producers, SpuriousWake(p)  PROVE  TimelineInv'
  BY <1>4, TimelineKept DEF SpuriousWake, channel, windows
<1>5. ASSUME NEW c \in Consumers, TryReceive(c)  PROVE  TimelineInv'
  <2>1. UNCHANGED <<policy, latest, epoch, call>>
    BY <1>5 DEF TryReceive, windows
  <2>2. queue' = queue \/ \E i \in DOMAIN queue : queue' = RemoveAt(queue, i)
    <3>1. queue # <<>> => 1 \in DOMAIN queue
      BY <1>0
    <3> QED  BY <1>5, <3>1 DEF TryReceive, EraseLocked, channel
  <2>3. \A q \in Producers : pc'[q] = pc[q]
    BY <1>0, <1>5 DEF TryReceive, TypeOK
  <2> QED  BY <2>1, <2>2, <2>3, TimelineKept
<1>6. ASSUME Open \/ Close  PROVE  TimelineInv'
  <2>1. queue' = <<>> /\ mutex = NoThread /\ policy' = policy /\ call' = call
        /\ pc' = [pc EXCEPT ![Controller] = "notify"]
    BY <1>6 DEF Open, Close, ClearCurrentLocked, ControllerStep
  <2>2. \A q \in Producers : pc'[q] = pc[q] /\ pc[q] # "evict"
    BY <1>0, <2>1 DEF TypeOK, IInv, LockDiscipline
  <2>3. Ordered(<<>>) /\ DOMAIN (<<>>) = {}
    BY DEF Ordered
  <2> QED  BY <2>1, <2>2, <2>3 DEF TimelineInv
<1>7. ASSUME InterruptBlockedSenders  PROVE  TimelineInv'
  <2>1. UNCHANGED <<policy, queue, latest, epoch, call>>
    BY <1>7 DEF InterruptBlockedSenders, ControllerStep, channel, windows
  <2>2. \A q \in Producers : pc'[q] = pc[q]
    BY <1>0, <1>7 DEF InterruptBlockedSenders, ControllerStep, TypeOK
  <2> QED  BY <2>1, <2>2, TimelineKept
<1>8. ASSUME NEW a \in Actors, Notify(a)  PROVE  TimelineInv'
  <2>1. UNCHANGED <<policy, queue, latest, epoch, call>>
    BY <1>8 DEF Notify, channel, windows
  <2>2. \A q \in Producers : pc'[q] = pc[q] \/ pc'[q] = "idle"
    BY <1>0, <1>8 DEF Notify, TypeOK
  <2> QED  BY <2>1, <2>2, TimelineKept
<1>9. ASSUME UNCHANGED vars  PROVE  TimelineInv'
  BY <1>9, TimelineKept DEF vars, channel, windows, threads
<1> QED  BY <1>1, <1>2, <1>3, <1>4, <1>5, <1>6, <1>7, <1>8, <1>9,
            TimelineSend, TimelineEvictDone DEF Next

\* What the channel says of its backlog is true.
THEOREM BacklogKept == Spec => []BacklogDescribed
<1>1. Init => TimelineInv
  BY ActorFacts DEF Init, TimelineInv, Ordered
<1>2. Spec => []TimelineInv
  BY <1>1, TimelineStep, Inductive, PTL DEF Spec
<1>3. Spec => []Weighed
  BY BacklogInit, ChannelSteps, BytesStep, Inductive, PTL DEF Spec
<1>4. Spec => []WatermarkAgrees
  BY BacklogInit, ChannelSteps, WatermarkStep, Inductive, PTL DEF Spec
<1>5. Weighed => BytesAccounted
  BY DEF Weighed, WeightOf, BytesAccounted
<1>6. TimelineInv => TimelineOrdered
  BY DEF TimelineInv, TimelineOrdered, Ordered, InTurn
<1> QED  BY <1>2, <1>3, <1>4, <1>5, <1>6, PTL DEF BacklogDescribed

=============================================================================
