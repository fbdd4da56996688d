------------------------- MODULE StreamSourceProofs -------------------------
(***************************************************************************)
(* Machine-checked proofs about StreamSource: for every number of          *)
(* lifecycles, packets and failures and every limit on reconnects, whatever*)
(* the camera does and however the caller and the reading thread interleave.*)
(***************************************************************************)
EXTENDS StreamSource, FiniteSetTheorems, TLAPS

-----------------------------------------------------------------------------
(* The inductive invariant                                                 *)

Silent == {"none", "nodata", "fatal", "retry", "stopped"}

Types ==
  /\ stopRequested \in BOOLEAN /\ finished \in BOOLEAN
  /\ connected \in BOOLEAN /\ interrupted \in BOOLEAN
  /\ generation \in Nat /\ cur \in Nat /\ count \in Nat /\ link \in Nat /\ attempts \in Nat
  /\ lifecycles \in Nat /\ packets \in Nat /\ failures \in Nat
  /\ limit \in Limits /\ (limit >= 0 => count <= limit)
  /\ pc \in [caller : CallerPlaces, reader : ReaderPlaces]
  /\ call \in {"none", "Start", "StopProduction", "Stop", "Deinit"}
  /\ seqNo \in [Tracks -> Nat]
  /\ message \in Messages \cup [kind : Silent]
  /\ sent \in [Ports -> Seq(Messages)]

\* No number is higher than the packets the camera has delivered.
Delivered ==
  /\ packets <= MaxPackets
  /\ \A t \in Tracks : seqNo[t] <= packets

\* Where the two threads are with regard to each other.  The caller opens, and closes for
\* good, while there is no reading thread; a thread of a finished source has left its loop.
Opening == {"check", "dial", "dialing", "recheck", "refused", "opened", "waitAgain"}
Alone == {"idle", "check", "dial", "dialing", "recheck", "refused", "opened", "close", "down"}
Apart ==
  /\ pc.caller \in Alone => pc.reader = "none"
  /\ pc.caller \in Opening => ~finished
  /\ finished => pc.reader \in {"none", "gone"}

\* There is no connection from its loss to the success of the next attempt.
Disconnected ==
  /\ pc.caller \in {"idle", "check", "dial", "dialing", "refused", "down"} => ~connected
  /\ pc.reader \in {"wait", "renew", "check", "dial", "dialing", "refused", "waitAgain"} => ~connected

\* No stamp is from the future, and the pair of the current generation and connection fits
\* the stamps given so far.
StampsFit ==
  /\ cur <= generation
  /\ \A a \in Stamps : a[1] <= cur /\ a[2] <= link
  /\ GenerationIsConnection
  /\ connected => \A a \in Stamps : a[1] = cur <=> a[2] = link

\* Nothing is sent under the current generation before its connection is open.
NothingYet ==
  /\ pc.caller \in Opening => \A a \in Stamps : a[1] < cur
  /\ pc.reader \in Opening =>
       /\ \A a \in Stamps : a[1] < cur
       /\ \A t \in Tracks : seqNo[t] = 0

\* What the reading thread is about to send comes from the connection it has.
Sending == {"mixed", "track", "eosAudio", "eosVideo"}
InFlight ==
  /\ (pc.reader \in Sending \/ (pc.reader = "got" /\ message.kind \in {"packet", "eos"})) =>
       message \in Messages /\ connected /\ message.gen = cur /\ message.link = link
  /\ pc.reader = "track" => message.kind = "packet"
  /\ pc.reader \in {"eosAudio", "eosVideo"} => message.kind = "eos"
  /\ (pc.reader = "got" /\ message.kind = "packet") =>
       message.seq = seqNo[message.track] + 1 /\ message.seq <= packets
  /\ (pc.reader \in {"mixed", "track"} /\ message.kind = "packet") =>
       message.seq = seqNo[message.track]

\* The number of packets of track t that were sent on its port under the current generation.
Numbered(t) ==
  IF pc.reader \in {"mixed", "track"} /\ message.kind = "packet" /\ message.track = t
  THEN seqNo[t] - 1 ELSE seqNo[t]

\* The port of t ends with the packet of that number, or with an earlier generation.
Continues(s, n) ==
  IF n = 0 THEN s # <<>> => s[Len(s)].gen < cur
  ELSE s # <<>> /\ s[Len(s)].gen = cur /\ s[Len(s)].kind = "packet" /\ s[Len(s)].seq = n

Reading == {"test", "read", "got", "mixed", "track", "eosAudio", "eosVideo"}
NumbersRun ==
  \A t \in Tracks :
    (pc.reader \in Reading /\ ~(pc.reader = "eosVideo" /\ t = "audio")) =>
      Continues(sent[t], Numbered(t))

\* A message the mixed port has and the port of t has not yet.
Pending(t) ==
  \/ pc.reader = "track" /\ message.track = t
  \/ pc.reader = "eosAudio"
  \/ pc.reader = "eosVideo" /\ t = "video"

PortsHold ==
  \A t \in Tracks :
    IF Pending(t)
    THEN \E h \in Seq(Messages) : sent["out"] = Append(h, message) /\ TrackOf(h, sent[t], t)
    ELSE TrackOf(sent["out"], sent[t], t)

IInv ==
  /\ Types /\ Delivered /\ Apart /\ Disconnected /\ StampsFit /\ NothingYet
  /\ InFlight /\ NumbersRun /\ NumberedByTrack /\ PortsHold

-----------------------------------------------------------------------------
(* The stream of a track within the mixed stream                           *)

\* How many messages concern a track is a number, for the first n messages of a stream.
LEMMA RankIsCount ==
  ASSUME NEW h, NEW t, NEW n \in Nat
  PROVE  /\ IsFiniteSet({i \in 1 .. n : Concerns(h[i], t)})
         /\ Rank(h, t, n) \in Nat
<1>1. IsFiniteSet(1 .. n)  BY FS_Interval
<1>2. IsFiniteSet({i \in 1 .. n : Concerns(h[i], t)})  BY <1>1, FS_Subset
<1> QED  BY <1>2, FS_CardinalityType DEF Rank

\* A message at the end does not change the ranks of the messages before it.
LEMMA RankBefore ==
  ASSUME NEW h \in Seq(Messages), NEW m \in Messages, NEW t, NEW n \in 0 .. Len(h)
  PROVE  Rank(Append(h, m), t, n) = Rank(h, t, n)
<1>1. \A i \in 1 .. n : Append(h, m)[i] = h[i]  OBVIOUS
<1>2. {i \in 1 .. n : Concerns(Append(h, m)[i], t)} = {i \in 1 .. n : Concerns(h[i], t)}
      BY <1>1
<1> QED  BY <1>2 DEF Rank

\* Only a message that concerns the track raises its rank.
LEMMA RankOfLast ==
  ASSUME NEW h \in Seq(Messages), NEW m \in Messages, NEW t
  PROVE  Rank(Append(h, m), t, Len(h) + 1) =
           IF Concerns(m, t) THEN Rank(h, t, Len(h)) + 1 ELSE Rank(h, t, Len(h))
<1> DEFINE old == {i \in 1 .. Len(h) : Concerns(h[i], t)}
           new == {i \in 1 .. (Len(h) + 1) : Concerns(Append(h, m)[i], t)}
<1>1. Len(h) \in Nat  OBVIOUS
<1>2. Append(h, m)[Len(h) + 1] = m /\ \A i \in 1 .. Len(h) : Append(h, m)[i] = h[i]  OBVIOUS
<1>3. IsFiniteSet(old)  BY <1>1, RankIsCount
<1>4. CASE Concerns(m, t)
      <2>1. new = old \cup {Len(h) + 1}  BY <1>1, <1>2, <1>4
      <2>2. Len(h) + 1 \notin old  BY <1>1
      <2>3. Cardinality(new) = Cardinality(old) + 1  BY <2>1, <2>2, <1>3, FS_AddElement
      <2> QED  BY <2>3, <1>4 DEF Rank
<1>5. CASE ~Concerns(m, t)
      <2>1. new = old  BY <1>1, <1>2, <1>5
      <2> QED  BY <2>1, <1>5 DEF Rank
<1> QED  BY <1>4, <1>5

\* The rank of a message that concerns the track is a place in the stream of the track.
LEMMA RankInRange ==
  ASSUME NEW h \in Seq(Messages), NEW t, NEW i \in 1 .. Len(h), Concerns(h[i], t)
  PROVE  Rank(h, t, i) \in 1 .. Rank(h, t, Len(h))
<1> DEFINE upTo(n) == {j \in 1 .. n : Concerns(h[j], t)}
<1>1. Len(h) \in Nat /\ i \in Nat /\ i \in upTo(i)  OBVIOUS
<1>2. IsFiniteSet(upTo(i)) /\ IsFiniteSet(upTo(Len(h)))  BY <1>1, RankIsCount
<1>3. upTo(i) \subseteq upTo(Len(h))  BY <1>1
<1>4. Cardinality(upTo(i)) <= Cardinality(upTo(Len(h)))  BY <1>2, <1>3, FS_Subset
<1>5. Cardinality(upTo(i)) # 0  BY <1>1, <1>2, FS_EmptySet
<1>6. Rank(h, t, i) \in Nat /\ Rank(h, t, Len(h)) \in Nat  BY <1>1, RankIsCount
<1> QED  BY <1>4, <1>5, <1>6 DEF Rank

\* A message of another track leaves the track where it is.
LEMMA TrackSkips ==
  ASSUME NEW h \in Seq(Messages), NEW s \in Seq(Messages), NEW m \in Messages, NEW t,
         TrackOf(h, s, t), ~Concerns(m, t)
  PROVE  TrackOf(Append(h, m), s, t)
<1> DEFINE g == Append(h, m)
<1>1. g \in Seq(Messages) /\ Len(g) = Len(h) + 1 /\ Len(h) \in Nat  OBVIOUS
<1>2. g[Len(h) + 1] = m /\ \A i \in 1 .. Len(h) : g[i] = h[i]  OBVIOUS
<1>3. \A n \in 0 .. Len(h) : Rank(g, t, n) = Rank(h, t, n)  BY RankBefore
<1>4. Rank(g, t, Len(h) + 1) = Rank(h, t, Len(h))  BY RankOfLast
<1>5. Len(s) = Rank(g, t, Len(g))  BY <1>1, <1>4 DEF TrackOf
<1>6. ASSUME NEW i \in DOMAIN g, Concerns(g[i], t)  PROVE s[Rank(g, t, i)] = g[i]
      <2>1. i \in 1 .. Len(h)  BY <1>1, <1>2, <1>6
      <2>2. s[Rank(h, t, i)] = h[i]  BY <2>1, <1>2, <1>6 DEF TrackOf
      <2> QED  BY <2>1, <2>2, <1>2, <1>3
<1> QED  BY <1>5, <1>6 DEF TrackOf

\* A message that concerns the track goes to the end of both.
LEMMA TrackGrows ==
  ASSUME NEW h \in Seq(Messages), NEW s \in Seq(Messages), NEW m \in Messages, NEW t,
         TrackOf(h, s, t), Concerns(m, t)
  PROVE  TrackOf(Append(h, m), Append(s, m), t)
<1> DEFINE g == Append(h, m)
           r == Append(s, m)
<1>1. g \in Seq(Messages) /\ Len(g) = Len(h) + 1 /\ Len(h) \in Nat  OBVIOUS
<1>2. g[Len(h) + 1] = m /\ \A i \in 1 .. Len(h) : g[i] = h[i]  OBVIOUS
<1>3. \A n \in 0 .. Len(h) : Rank(g, t, n) = Rank(h, t, n)  BY RankBefore
<1>4. Rank(g, t, Len(h) + 1) = Rank(h, t, Len(h)) + 1  BY RankOfLast
<1>5. Len(s) = Rank(h, t, Len(h))  BY DEF TrackOf
<1>6. Len(r) = Len(s) + 1 /\ r[Len(s) + 1] = m /\ \A k \in 1 .. Len(s) : r[k] = s[k]  OBVIOUS
<1>7. ASSUME NEW i \in DOMAIN g, Concerns(g[i], t)  PROVE r[Rank(g, t, i)] = g[i]
      <2>1. CASE i = Len(h) + 1  BY <2>1, <1>2, <1>4, <1>5, <1>6
      <2>2. CASE i \in 1 .. Len(h)
            <3>1. Concerns(h[i], t)  BY <2>2, <1>2, <1>7
            <3>2. s[Rank(h, t, i)] = h[i]  BY <2>2, <3>1 DEF TrackOf
            <3>3. Rank(h, t, i) \in 1 .. Len(s)  BY <2>2, <3>1, <1>5, RankInRange
            <3>4. Rank(g, t, i) = Rank(h, t, i)  BY <2>2, <1>3
            <3> QED  BY <3>2, <3>3, <3>4, <2>2, <1>2, <1>6
      <2>3. i \in 1 .. (Len(h) + 1)  BY <1>1
      <2>4. i = Len(h) + 1 \/ i \in 1 .. Len(h)  BY <2>3, <1>1
      <2> QED  BY <2>1, <2>2, <2>4
<1> QED  BY <1>1, <1>4, <1>5, <1>6, <1>7 DEF TrackOf

-----------------------------------------------------------------------------
(* The steps                                                               *)

\* OpenGeneration for one of the two threads.
Threads == {"caller", "reader"}

\* What a move of one thread does to the places of both.
LEMMA Moves ==
  ASSUME Types, NEW p \in Threads, NEW place, Goto(p, place)
  PROVE  /\ p = "caller" => pc' = [caller |-> place, reader |-> pc.reader]
         /\ p = "reader" => pc' = [caller |-> pc.caller, reader |-> place]
<1>1. pc \in [caller : CallerPlaces, reader : ReaderPlaces]  BY DEF Types
<1>2. CASE p = "caller"  BY <1>1, <1>2 DEF Goto
<1>3. CASE p = "reader"  BY <1>1, <1>3 DEF Goto
<1> QED  BY <1>2, <1>3 DEF Threads

\* A move leads to a place.
LEMMA PlacesTyped ==
  ASSUME Types, NEW p \in Threads, NEW place \in CallerPlaces \cup ReaderPlaces, Goto(p, place),
         p = "caller" => place \in CallerPlaces, p = "reader" => place \in ReaderPlaces
  PROVE  pc' \in [caller : CallerPlaces, reader : ReaderPlaces]
<1>1. pc \in [caller : CallerPlaces, reader : ReaderPlaces]  BY DEF Types
<1>2. CASE p = "caller"  BY <1>1, <1>2, Moves
<1>3. CASE p = "reader"  BY <1>1, <1>3, Moves
<1> QED  BY <1>2, <1>3 DEF Threads

\* The types, under the steps of an attempt to connect.
LEMMA OpeningTypes ==
  ASSUME IInv, NEW p \in Threads, OpenGeneration(p)
  PROVE  Types'
<1> USE DEF IInv, Types
<1>1. CASE OpenCheck(p)
      <2>1. pc' \in [caller : CallerPlaces, reader : ReaderPlaces]
            BY <1>1, PlacesTyped DEF OpenCheck, Threads, CallerPlaces, ReaderPlaces, Proceed, Finish
      <2> QED  BY <2>1, <1>1 DEF OpenCheck, atomics, puller, locals, bounds
<1>2. CASE Dial(p)
      <2>1. pc' \in [caller : CallerPlaces, reader : ReaderPlaces]
            BY <1>2, PlacesTyped DEF Dial, Threads, CallerPlaces, ReaderPlaces, Proceed, Finish
      <2>2. attempts' \in Nat  BY <1>2 DEF Dial
      <2>3. UNCHANGED <<atomics, limit, call, locals, link, sent, bounds>>  BY <1>2 DEF Dial
      <2>4. connected' \in BOOLEAN /\ interrupted' \in BOOLEAN  BY <1>2 DEF Dial
      <2> QED  BY <2>1, <2>2, <2>3, <2>4 DEF atomics, locals, bounds
<1>3. CASE DialSucceeds(p)
      <2>1. pc' \in [caller : CallerPlaces, reader : ReaderPlaces]
            BY <1>3, PlacesTyped DEF DialSucceeds, Threads, CallerPlaces, ReaderPlaces, Proceed, Finish
      <2> QED  BY <2>1, <1>3 DEF DialSucceeds, atomics, locals, bounds
<1>4. CASE DialFails(p)
      <2>1. pc' \in [caller : CallerPlaces, reader : ReaderPlaces]
            BY <1>4, PlacesTyped DEF DialFails, Threads, CallerPlaces, ReaderPlaces, Proceed, Finish
      <2>2. failures' \in Nat  BY <1>4 DEF DialFails
      <2>3. UNCHANGED <<atomics, limit, call, locals, link, attempts, sent, lifecycles, packets>>
            BY <1>4 DEF DialFails
      <2>4. connected' \in BOOLEAN /\ interrupted' \in BOOLEAN  BY <1>4 DEF DialFails
      <2> QED  BY <2>1, <2>2, <2>3, <2>4 DEF atomics, locals
<1>5. CASE OpenRecheck(p)
      <2>1. pc' \in [caller : CallerPlaces, reader : ReaderPlaces]
            BY <1>5, PlacesTyped DEF OpenRecheck, Threads, CallerPlaces, ReaderPlaces, Proceed, Finish
      <2> QED  BY <2>1, <1>5 DEF OpenRecheck, atomics, puller, locals, bounds
<1> QED  BY <1>1, <1>2, <1>3, <1>4, <1>5 DEF OpenGeneration

\* ... of the caller.
LEMMA CallerTypes ==
  ASSUME IInv, Start \/ StartFails \/ StartThread \/ CallerStops
  PROVE  Types'
<1> USE DEF IInv, Types
<1>1. CASE Start
      <2>1. pc' \in [caller : CallerPlaces, reader : ReaderPlaces]
            BY <1>1, PlacesTyped DEF Start, Threads, CallerPlaces, ReaderPlaces, Proceed, Finish
      <2>2. lifecycles' \in Nat /\ generation' \in Nat /\ cur' \in Nat  BY <1>1 DEF Start
      <2>3. stopRequested' \in BOOLEAN /\ finished' \in BOOLEAN /\ call' = "Start"  BY <1>1 DEF Start
      <2>4. UNCHANGED <<puller, limit, count, seqNo, message, link, attempts, sent, packets, failures>>
            BY <1>1 DEF Start
      <2> QED  BY <2>1, <2>2, <2>3, <2>4 DEF puller
<1>2. CASE StartFails
      <2>1. pc' \in [caller : CallerPlaces, reader : ReaderPlaces]
            BY <1>2, PlacesTyped DEF StartFails, Threads, CallerPlaces, ReaderPlaces, Proceed, Finish
      <2> QED  BY <2>1, <1>2 DEF StartFails, puller, locals, bounds
<1>3. CASE StartThread
      <2>1. pc' \in [caller : CallerPlaces, reader : ReaderPlaces]
            BY <1>3 DEF StartThread, CallerPlaces, ReaderPlaces
      <2>2. count' = 0 /\ attempts' = 0 /\ seqNo' \in [Tracks -> Nat]  BY <1>3 DEF StartThread
      <2>3. message' \in [kind : Silent] /\ call' = "none"  BY <1>3 DEF StartThread, NoMessage, Silent
      <2>4. UNCHANGED <<atomics, puller, limit, cur, link, sent, bounds>>  BY <1>3 DEF StartThread
      <2> QED  BY <2>1, <2>2, <2>3, <2>4 DEF atomics, puller, bounds
<1>4. CASE StopBegins
      <2>1. pc' \in [caller : CallerPlaces, reader : ReaderPlaces]
            BY <1>4, PlacesTyped DEF StopBegins, Threads, CallerPlaces, ReaderPlaces, Proceed, Finish
      <2> QED  BY <2>1, <1>4 DEF StopBegins, puller, locals, bounds
<1>5. CASE StopBumps
      <2>1. pc' \in [caller : CallerPlaces, reader : ReaderPlaces]
            BY <1>5, PlacesTyped DEF StopBumps, Threads, CallerPlaces, ReaderPlaces, Proceed, Finish
      <2> QED  BY <2>1, <1>5 DEF StopBumps, puller, locals, bounds
<1>6. CASE RequestStop
      <2>1. pc' \in [caller : CallerPlaces, reader : ReaderPlaces]
            BY <1>6, PlacesTyped DEF RequestStop, Threads, CallerPlaces, ReaderPlaces, Proceed, Finish
      <2> QED  BY <2>1, <1>6 DEF RequestStop, atomics, locals, bounds
<1>7. CASE JoinReader
      <2>1. pc' \in [caller : CallerPlaces, reader : ReaderPlaces]
            BY <1>7 DEF JoinReader, CallerPlaces, ReaderPlaces
      <2> QED  BY <2>1, <1>7 DEF JoinReader, atomics, puller, locals, bounds
<1>8. CASE StopEnds
      <2>1. pc' \in [caller : CallerPlaces, reader : ReaderPlaces]
            BY <1>8, PlacesTyped DEF StopEnds, Threads, CallerPlaces, ReaderPlaces, Proceed, Finish
      <2> QED  BY <2>1, <1>8 DEF StopEnds, locals, bounds
<1> QED  BY <1>1, <1>2, <1>3, <1>4, <1>5, <1>6, <1>7, <1>8 DEF CallerStops

\* ... of the reading thread, until it has what it read.
LEMMA GotTypes ==
  ASSUME IInv, LoopTest \/ ReadStopped \/ ReadAnswered \/ GotStep
  PROVE  Types'
<1> USE DEF IInv, Types, Finish, Proceed, Forget,
              NoMessage, Silent, atomics, puller, locals, bounds
<1>1. CASE LoopTest
      <2>1. pc' \in [caller : CallerPlaces, reader : ReaderPlaces]
            BY <1>1, PlacesTyped DEF LoopTest, Threads, CallerPlaces, ReaderPlaces, Proceed, Finish
      <2> QED  BY <2>1, <1>1 DEF LoopTest
<1>2. CASE ReadStopped
      <2>1. pc' \in [caller : CallerPlaces, reader : ReaderPlaces]
            BY <1>2, PlacesTyped DEF ReadStopped, Threads, CallerPlaces, ReaderPlaces, Proceed, Finish
      <2> QED  BY <2>1, <1>2 DEF ReadStopped
<1>3. CASE ReadAnswered
      <2>1. message' \in Messages \cup [kind : Silent]
            <3>1. ASSUME NEW t \in Tracks, packets < MaxPackets  PROVE Packet(t) \in Messages
                  <4>1. seqNo[t] + 1 \in 1 .. MaxPackets  BY <3>1, SourceAssumption DEF Delivered
                  <4> QED  BY <4>1 DEF Packet, Messages
            <3>2. EndOfStream \in Messages  BY DEF EndOfStream, Messages
            <3> QED  BY <1>3, <3>1, <3>2 DEF ReadAnswered
      <2>2. packets' \in Nat /\ failures' \in Nat  BY <1>3 DEF ReadAnswered
      <2>3. pc' \in [caller : CallerPlaces, reader : ReaderPlaces]
            BY <1>3, PlacesTyped DEF ReadAnswered, Threads, CallerPlaces, ReaderPlaces
      <2>4. UNCHANGED <<atomics, puller, limit, call, cur, count, seqNo, link, attempts, sent, lifecycles>>
            BY <1>3 DEF ReadAnswered
      <2> QED  BY <2>1, <2>2, <2>3, <2>4
<1>4. CASE GotStale
      <2>1. pc' \in [caller : CallerPlaces, reader : ReaderPlaces]
            BY <1>4, PlacesTyped DEF GotStale, Threads, CallerPlaces, ReaderPlaces, Proceed, Finish
      <2> QED  BY <2>1, <1>4 DEF GotStale
<1>5. CASE GotNothing
      <2>1. pc' \in [caller : CallerPlaces, reader : ReaderPlaces]
            BY <1>5, PlacesTyped DEF GotNothing, Threads, CallerPlaces, ReaderPlaces, Proceed, Finish
      <2> QED  BY <2>1, <1>5 DEF GotNothing
<1>6. CASE GotEnd
      <2>1. pc' \in [caller : CallerPlaces, reader : ReaderPlaces]
            BY <1>6, PlacesTyped DEF GotEnd, Threads, CallerPlaces, ReaderPlaces, Proceed, Finish
      <2> QED  BY <2>1, <1>6 DEF GotEnd
<1>7. CASE GotRetry
      <2>1. pc' \in [caller : CallerPlaces, reader : ReaderPlaces]
            BY <1>7, PlacesTyped DEF GotRetry, Threads, CallerPlaces, ReaderPlaces, Proceed, Finish
      <2>2. limit \in Int  BY SourceAssumption
      <2>3. count' \in Nat /\ (limit >= 0 => count' <= limit)  BY <2>2, <1>7 DEF GotRetry, BudgetSpent
      <2>4. finished' \in BOOLEAN /\ connected' \in BOOLEAN /\ interrupted' \in BOOLEAN
            /\ UNCHANGED <<stopRequested, generation>>
            BY <1>7 DEF GotRetry
      <2>5. message' \in [kind : Silent]  BY <1>7 DEF GotRetry
      <2>6. UNCHANGED <<limit, call, cur, seqNo, link, attempts, sent, bounds>>  BY <1>7 DEF GotRetry
      <2> QED  BY <2>1, <2>3, <2>4, <2>5, <2>6
<1>8. CASE GotMessage
      <2>1. pc' \in [caller : CallerPlaces, reader : ReaderPlaces]
            BY <1>8, PlacesTyped DEF GotMessage, Threads, CallerPlaces, ReaderPlaces, Proceed, Finish
      <2> QED  BY <2>1, <1>8 DEF GotMessage, Messages
<1> QED  BY <1>1, <1>2, <1>3, <1>4, <1>5, <1>6, <1>7, <1>8 DEF GotStep

\* ... of the reading thread, as it sends and reconnects.
LEMMA SendingTypes ==
  ASSUME IInv, EmitStep \/ ReaderWaits \/ Renew \/ Reopened \/ ReopenFails
  PROVE  Types'
<1> USE DEF IInv, Types, Finish, Proceed, Forget,
              NoMessage, Silent, atomics, puller, locals, bounds
<1>0. ASSUME NEW port \in Ports, Send(port), message \in Messages  PROVE sent' \in [Ports -> Seq(Messages)]
      BY <1>0 DEF Send
<1>1. CASE EmitMixed
      <2>1. pc' \in [caller : CallerPlaces, reader : ReaderPlaces]
            BY <1>1, PlacesTyped DEF EmitMixed, Threads, CallerPlaces, ReaderPlaces, Proceed, Finish
      <2> QED  BY <2>1, <1>0, <1>1 DEF EmitMixed, InFlight, Sending, Ports
<1>2. CASE EmitTrack
      <2>1. pc' \in [caller : CallerPlaces, reader : ReaderPlaces]
            BY <1>2, PlacesTyped DEF EmitTrack, Threads, CallerPlaces, ReaderPlaces, Proceed, Finish
      <2> QED  BY <2>1, <1>0, <1>2, SourceAssumption DEF EmitTrack, InFlight, Sending, Ports, Messages
<1>3. CASE EmitAudioEnd
      <2>1. pc' \in [caller : CallerPlaces, reader : ReaderPlaces]
            BY <1>3, PlacesTyped DEF EmitAudioEnd, Threads, CallerPlaces, ReaderPlaces, Proceed, Finish
      <2> QED  BY <2>1, <1>0, <1>3 DEF EmitAudioEnd, InFlight, Sending, Ports, Tracks
<1>4. CASE EmitVideoEnd
      <2>1. pc' \in [caller : CallerPlaces, reader : ReaderPlaces]
            BY <1>4, PlacesTyped DEF EmitVideoEnd, Threads, CallerPlaces, ReaderPlaces, Proceed, Finish
      <2> QED  BY <2>1, <1>0, <1>4 DEF EmitVideoEnd, InFlight, Sending, Ports, Tracks
<1>5. CASE ReaderWaits
      <2>1. pc' \in [caller : CallerPlaces, reader : ReaderPlaces]
            BY <1>5, PlacesTyped DEF ReaderWaits, WaitOver, Threads, CallerPlaces, ReaderPlaces, Proceed, Finish
      <2> QED  BY <2>1, <1>5 DEF ReaderWaits, WaitOver
<1>6. CASE Renew
      <2>1. pc' \in [caller : CallerPlaces, reader : ReaderPlaces]
            BY <1>6, PlacesTyped DEF Renew, Threads, CallerPlaces, ReaderPlaces, Proceed, Finish
      <2> QED  BY <2>1, <1>6 DEF Renew
<1>7. CASE Reopened
      <2>1. pc' \in [caller : CallerPlaces, reader : ReaderPlaces]
            BY <1>7, PlacesTyped DEF Reopened, Threads, CallerPlaces, ReaderPlaces, Proceed, Finish
      <2> QED  BY <2>1, <1>7 DEF Reopened
<1>8. CASE ReopenFails
      <2>1. pc' \in [caller : CallerPlaces, reader : ReaderPlaces]
            BY <1>8, PlacesTyped DEF ReopenFails, Threads, CallerPlaces, ReaderPlaces, Proceed, Finish
      <2> QED  BY <2>1, <1>8 DEF ReopenFails
<1> QED  BY <1>1, <1>2, <1>3, <1>4, <1>5, <1>6, <1>7, <1>8 DEF EmitStep

\* How the threads stand to each other, to the connection and to the numbers, under the steps of an attempt to connect, ...
LEMMA OpeningKeepsApart ==
  ASSUME IInv, NEW p \in Threads, OpenGeneration(p)
  PROVE  Apart' /\ Disconnected' /\ Delivered'
<1> USE DEF IInv, Types, Apart, Alone, Opening, Disconnected, Delivered, Threads, Proceed, Finish, Forget,
           atomics, puller, locals, bounds, CallerPlaces, ReaderPlaces
<1>1. CASE OpenCheck(p)  BY <1>1, Moves DEF OpenCheck
<1>2. CASE Dial(p)  BY <1>2, Moves DEF Dial
<1>3. CASE DialSucceeds(p)  BY <1>3, Moves DEF DialSucceeds
<1>4. CASE DialFails(p)  BY <1>4, Moves DEF DialFails
<1>5. CASE OpenRecheck(p)  BY <1>5, Moves DEF OpenRecheck
<1> QED  BY <1>1, <1>2, <1>3, <1>4, <1>5 DEF OpenGeneration

\* ... under those of the caller, ...
LEMMA CallerKeepsApart ==
  ASSUME IInv, Start \/ StartFails \/ StartThread \/ CallerStops
  PROVE  Apart' /\ Disconnected' /\ Delivered'
<1> USE DEF IInv, Types, Apart, Alone, Opening, Disconnected, Delivered, Threads, Proceed, Finish, Forget,
           atomics, puller, locals, bounds, CallerPlaces, ReaderPlaces
<1>1. CASE Start  BY <1>1, Moves DEF Start
<1>2. CASE StartFails  BY <1>2, Moves DEF StartFails
<1>3. CASE StartThread
      <2>1. Delivered'  BY <1>3 DEF StartThread
      <2>2. pc'.caller = "up" /\ pc'.reader = "test" /\ pc.caller = "opened"  BY <1>3 DEF StartThread
      <2>3. UNCHANGED <<finished, connected>>  BY <1>3 DEF StartThread
      <2> QED  BY <2>1, <2>2, <2>3
<1>4. CASE StopBegins  BY <1>4, Moves DEF StopBegins
<1>5. CASE StopBumps  BY <1>5, Moves DEF StopBumps
<1>6. CASE RequestStop  BY <1>6, Moves DEF RequestStop
<1>7. CASE JoinReader  BY <1>7, Moves DEF JoinReader
<1>8. CASE StopEnds  BY <1>8, Moves DEF StopEnds
<1> QED  BY <1>1, <1>2, <1>3, <1>4, <1>5, <1>6, <1>7, <1>8 DEF CallerStops

\* ... under those of a read, ...
LEMMA GotKeepsApart ==
  ASSUME IInv, LoopTest \/ ReadStopped \/ ReadAnswered \/ GotStep
  PROVE  Apart' /\ Disconnected' /\ Delivered'
<1> USE DEF IInv, Types, Apart, Alone, Opening, Disconnected, Delivered, Threads, Proceed, Finish, Forget,
           atomics, puller, locals, bounds, CallerPlaces, ReaderPlaces
<1>1. CASE LoopTest  BY <1>1, Moves DEF LoopTest
<1>2. CASE ReadStopped  BY <1>2, Moves DEF ReadStopped
<1>3. CASE ReadAnswered
      <2>1. Delivered'  BY <1>3, SourceAssumption DEF ReadAnswered
      <2>2. pc'.caller = pc.caller /\ pc'.reader = "got" /\ pc.reader = "read"  BY <1>3, Moves DEF ReadAnswered
      <2>3. UNCHANGED <<finished, connected>>  BY <1>3 DEF ReadAnswered
      <2> QED  BY <2>1, <2>2, <2>3
<1>4. CASE GotStale  BY <1>4, Moves DEF GotStale
<1>5. CASE GotNothing  BY <1>5, Moves DEF GotNothing
<1>6. CASE GotEnd  BY <1>6, Moves DEF GotEnd
<1>7. CASE GotRetry  BY <1>7, Moves DEF GotRetry
<1>8. CASE GotMessage
      <2>1. Delivered'
            <3>1. CASE message.kind = "eos"  BY <3>1, <1>8 DEF GotMessage
            <3>2. CASE message.kind = "packet"
                  <4>1. message.seq <= packets  BY <3>2, <1>8 DEF GotMessage, InFlight
                  <4>2. seqNo' = [seqNo EXCEPT ![message.track] = message.seq]  BY <3>2, <1>8 DEF GotMessage
                  <4> QED  BY <4>1, <4>2, <1>8 DEF GotMessage
            <3> QED  BY <3>1, <3>2, <1>8 DEF GotMessage
      <2>2. pc'.caller = pc.caller /\ pc'.reader = "mixed" /\ pc.reader = "got"  BY <1>8, Moves DEF GotMessage
      <2>3. UNCHANGED <<finished, connected>>  BY <1>8 DEF GotMessage
      <2> QED  BY <2>1, <2>2, <2>3
<1> QED  BY <1>1, <1>2, <1>3, <1>4, <1>5, <1>6, <1>7, <1>8 DEF GotStep

\* ... under those that send and reconnect.
LEMMA SendingKeepsApart ==
  ASSUME IInv, EmitStep \/ ReaderWaits \/ Renew \/ Reopened \/ ReopenFails
  PROVE  Apart' /\ Disconnected' /\ Delivered'
<1> USE DEF IInv, Types, Apart, Alone, Opening, Disconnected, Delivered, Threads, Proceed, Finish, Forget,
           atomics, puller, locals, bounds, CallerPlaces, ReaderPlaces
<1>1. CASE EmitMixed  BY <1>1, Moves DEF EmitMixed
<1>2. CASE EmitTrack  BY <1>2, Moves DEF EmitTrack
<1>3. CASE EmitAudioEnd  BY <1>3, Moves DEF EmitAudioEnd
<1>4. CASE EmitVideoEnd  BY <1>4, Moves DEF EmitVideoEnd
<1>5. CASE ReaderWaits  BY <1>5, Moves DEF ReaderWaits, WaitOver
<1>6. CASE Renew  BY <1>6, Moves DEF Renew
<1>7. CASE Reopened  BY <1>7, Moves DEF Reopened
<1>8. CASE ReopenFails  BY <1>8, Moves DEF ReopenFails
<1> QED  BY <1>1, <1>2, <1>3, <1>4, <1>5, <1>6, <1>7, <1>8 DEF EmitStep

-----------------------------------------------------------------------------
(* The stamps                                                              *)

\* A stamp is a pair of numbers.
LEMMA StampsTyped ==
  ASSUME Types
  PROVE  \A a \in Stamps : a[1] \in Nat /\ a[2] \in Nat
<1> SUFFICES ASSUME NEW p \in Ports, NEW i \in DOMAIN sent[p]
             PROVE  sent[p][i].gen \in Nat /\ sent[p][i].link \in Nat
    BY DEF Stamps
<1>1. sent[p] \in Seq(Messages)  BY DEF Types
<1>2. sent[p][i] \in Messages  BY <1>1
<1> QED  BY <1>2 DEF Messages

\* The last message of a port has a stamp.
LEMMA LastStamped ==
  ASSUME Types, NEW p \in Ports, sent[p] # <<>>
  PROVE  <<sent[p][Len(sent[p])].gen, sent[p][Len(sent[p])].link>> \in Stamps
<1>1. sent[p] \in Seq(Messages)  BY DEF Types
<1>2. Len(sent[p]) \in DOMAIN sent[p]  BY <1>1
<1> QED  BY <1>2 DEF Stamps

\* Where nothing is sent there is no new stamp.
LEMMA NoNewStamp ==
  ASSUME sent' = sent
  PROVE  Stamps' = Stamps /\ (GenerationIsConnection => GenerationIsConnection')
BY DEF Stamps, GenerationIsConnection

\* What is sent adds its own stamp.
LEMMA SendStamps ==
  ASSUME Types, NEW port \in Ports, Send(port), message \in Messages
  PROVE  Stamps' = Stamps \cup {<<message.gen, message.link>>}
<1>1. \A p \in Ports : sent[p] \in Seq(Messages)  BY DEF Types
<1>2. \A p \in Ports : sent'[p] = IF p = port THEN Append(sent[p], message) ELSE sent[p]
      BY DEF Send, Types
<1>3. \A p \in Ports : Len(sent[p]) \in Nat /\ DOMAIN sent[p] = 1 .. Len(sent[p])  BY <1>1
<1>4. DOMAIN sent'[port] = 1 .. (Len(sent[port]) + 1)
      <2>1. sent'[port] = Append(sent[port], message) /\ sent[port] \in Seq(Messages)  BY <1>1, <1>2
      <2> QED  BY <2>1
<1>5. /\ sent'[port][Len(sent[port]) + 1] = message
      /\ \A i \in 1 .. Len(sent[port]) : sent'[port][i] = sent[port][i]
      <2>1. sent'[port] = Append(sent[port], message) /\ sent[port] \in Seq(Messages)  BY <1>1, <1>2
      <2> QED  BY <2>1
<1>7. ASSUME NEW x \in Stamps  PROVE x \in Stamps'
      <2>0. PICK p \in Ports : \E i \in DOMAIN sent[p] : x = <<sent[p][i].gen, sent[p][i].link>>
            BY <1>7 DEF Stamps
      <2>1. PICK i \in DOMAIN sent[p] : x = <<sent[p][i].gen, sent[p][i].link>>  BY <2>0
      <2>2. i \in DOMAIN sent'[p] /\ sent'[p][i] = sent[p][i]
            <3>1. CASE p = port  BY <3>1, <2>1, <1>3, <1>4, <1>5
            <3>2. CASE p # port  BY <3>2, <2>1, <1>2
            <3> QED  BY <3>1, <3>2
      <2> QED  BY <2>1, <2>2 DEF Stamps
<1>8. <<message.gen, message.link>> \in Stamps'
      <2>1. Len(sent[port]) + 1 \in DOMAIN sent'[port]  BY <1>3, <1>4
      <2> QED  BY <2>1, <1>5 DEF Stamps
<1>9. ASSUME NEW x \in Stamps'  PROVE x \in Stamps \/ x = <<message.gen, message.link>>
      <2>0. PICK p \in Ports : \E i \in DOMAIN sent'[p] : x = <<sent'[p][i].gen, sent'[p][i].link>>
            BY <1>9 DEF Stamps
      <2>1. PICK i \in DOMAIN sent'[p] : x = <<sent'[p][i].gen, sent'[p][i].link>>  BY <2>0
      <2>2. CASE p # port  BY <2>2, <2>1, <1>2 DEF Stamps
      <2>3. CASE p = port /\ i = Len(sent[port]) + 1  BY <2>3, <2>1, <1>5
      <2>4. CASE p = port /\ i \in 1 .. Len(sent[port])  BY <2>4, <2>1, <1>3, <1>5 DEF Stamps
      <2>5. p = port => i = Len(sent[port]) + 1 \/ i \in 1 .. Len(sent[port])  BY <2>1, <1>3, <1>4
      <2> QED  BY <2>2, <2>3, <2>4, <2>5
<1> QED  BY <1>7, <1>8, <1>9

\* A message of the connection at hand fits the stamps.
LEMMA SendFits ==
  ASSUME IInv, NEW port \in Ports, Send(port), message \in Messages, connected,
         message.gen = cur, message.link = link, UNCHANGED <<cur, link, connected, generation>>
  PROVE  StampsFit'
<1>1. Stamps' = Stamps \cup {<<cur, link>>}  BY SendStamps DEF IInv
<1>2. \A a \in Stamps : a[1] \in Nat /\ a[2] \in Nat  BY StampsTyped DEF IInv
<1>3. cur \in Nat /\ link \in Nat  BY DEF IInv, Types
<1>4. \A a \in Stamps' : a[1] <= cur' /\ a[2] <= link'  BY <1>1, <1>3 DEF IInv, StampsFit
<1>5. \A a \in Stamps' : a[1] = cur' <=> a[2] = link'  BY <1>1 DEF IInv, StampsFit
<1>6. GenerationIsConnection'  BY <1>1 DEF IInv, StampsFit, GenerationIsConnection
<1> QED  BY <1>4, <1>5, <1>6 DEF IInv, StampsFit

\* The stamps fit, under the steps of an attempt to connect, ...
LEMMA OpeningKeepsStamps ==
  ASSUME IInv, NEW p \in Threads, OpenGeneration(p)
  PROVE  StampsFit' /\ NothingYet'
<1> USE DEF IInv, Types, Opening, Threads, Proceed, Finish, Forget,
           atomics, puller, locals, bounds, CallerPlaces, ReaderPlaces
<1>1. CASE OpenCheck(p)
      <2>1. Stamps' = Stamps /\ GenerationIsConnection'  BY <1>1, NoNewStamp DEF OpenCheck, StampsFit
      <2>2. StampsFit'  BY <2>1, <1>1, StampsTyped DEF OpenCheck, StampsFit, NothingYet, Disconnected
      <2>3. NothingYet'  BY <2>1, <1>1, Moves, StampsTyped DEF OpenCheck, StampsFit, NothingYet, Apart, Alone
      <2> QED  BY <2>2, <2>3
<1>2. CASE Dial(p)
      <2>1. Stamps' = Stamps /\ GenerationIsConnection'  BY <1>2, NoNewStamp DEF Dial, StampsFit
      <2>2. StampsFit'  BY <2>1, <1>2, StampsTyped DEF Dial, StampsFit, NothingYet, Disconnected
      <2>3. NothingYet'  BY <2>1, <1>2, Moves, StampsTyped DEF Dial, StampsFit, NothingYet, Apart, Alone
      <2> QED  BY <2>2, <2>3
<1>3. CASE DialSucceeds(p)
      <2>1. Stamps' = Stamps /\ GenerationIsConnection'  BY <1>3, NoNewStamp DEF DialSucceeds, StampsFit
      <2>2. StampsFit'  BY <2>1, <1>3, StampsTyped DEF DialSucceeds, StampsFit, NothingYet, Disconnected
      <2>3. NothingYet'  BY <2>1, <1>3, Moves, StampsTyped DEF DialSucceeds, StampsFit, NothingYet, Apart, Alone
      <2> QED  BY <2>2, <2>3
<1>4. CASE DialFails(p)
      <2>1. Stamps' = Stamps /\ GenerationIsConnection'  BY <1>4, NoNewStamp DEF DialFails, StampsFit
      <2>2. StampsFit'  BY <2>1, <1>4, StampsTyped DEF DialFails, StampsFit, NothingYet, Disconnected
      <2>3. NothingYet'  BY <2>1, <1>4, Moves, StampsTyped DEF DialFails, StampsFit, NothingYet, Apart, Alone
      <2> QED  BY <2>2, <2>3
<1>5. CASE OpenRecheck(p)
      <2>1. Stamps' = Stamps /\ GenerationIsConnection'  BY <1>5, NoNewStamp DEF OpenRecheck, StampsFit
      <2>2. StampsFit'  BY <2>1, <1>5, StampsTyped DEF OpenRecheck, StampsFit, NothingYet, Disconnected
      <2>3. NothingYet'  BY <2>1, <1>5, Moves, StampsTyped DEF OpenRecheck, StampsFit, NothingYet, Apart, Alone
      <2> QED  BY <2>2, <2>3
<1> QED  BY <1>1, <1>2, <1>3, <1>4, <1>5 DEF OpenGeneration

\* ... under those of the caller, ...
LEMMA CallerKeepsStamps ==
  ASSUME IInv, Start \/ StartFails \/ StartThread \/ CallerStops
  PROVE  StampsFit' /\ NothingYet'
<1> USE DEF IInv, Types, Opening, Threads, Proceed, Finish, Forget,
           atomics, puller, locals, bounds, CallerPlaces, ReaderPlaces
<1>1. CASE Start
      <2>1. Stamps' = Stamps /\ GenerationIsConnection'  BY <1>1, NoNewStamp DEF Start, StampsFit
      <2>2. StampsFit'  BY <2>1, <1>1, StampsTyped DEF Start, StampsFit, NothingYet, Disconnected
      <2>3. NothingYet'  BY <2>1, <1>1, Moves, StampsTyped DEF Start, StampsFit, NothingYet, Apart, Alone
      <2> QED  BY <2>2, <2>3
<1>2. CASE StartFails
      <2>1. Stamps' = Stamps /\ GenerationIsConnection'  BY <1>2, NoNewStamp DEF StartFails, StampsFit
      <2>2. StampsFit'  BY <2>1, <1>2, StampsTyped DEF StartFails, StampsFit, NothingYet, Disconnected
      <2>3. NothingYet'  BY <2>1, <1>2, Moves, StampsTyped DEF StartFails, StampsFit, NothingYet, Apart, Alone
      <2> QED  BY <2>2, <2>3
<1>3. CASE StartThread
      <2>1. Stamps' = Stamps /\ GenerationIsConnection'  BY <1>3, NoNewStamp DEF StartThread, StampsFit
      <2>2. StampsFit'  BY <2>1, <1>3, StampsTyped DEF StartThread, StampsFit, NothingYet, Disconnected
      <2>3. NothingYet'  BY <2>1, <1>3, Moves, StampsTyped DEF StartThread, StampsFit, NothingYet, Apart, Alone
      <2> QED  BY <2>2, <2>3
<1>4. CASE StopBegins
      <2>1. Stamps' = Stamps /\ GenerationIsConnection'  BY <1>4, NoNewStamp DEF StopBegins, StampsFit
      <2>2. StampsFit'  BY <2>1, <1>4, StampsTyped DEF StopBegins, StampsFit, NothingYet, Disconnected
      <2>3. NothingYet'  BY <2>1, <1>4, Moves, StampsTyped DEF StopBegins, StampsFit, NothingYet, Apart, Alone
      <2> QED  BY <2>2, <2>3
<1>5. CASE StopBumps
      <2>1. Stamps' = Stamps /\ GenerationIsConnection'  BY <1>5, NoNewStamp DEF StopBumps, StampsFit
      <2>2. StampsFit'  BY <2>1, <1>5, StampsTyped DEF StopBumps, StampsFit, NothingYet, Disconnected
      <2>3. NothingYet'  BY <2>1, <1>5, Moves, StampsTyped DEF StopBumps, StampsFit, NothingYet, Apart, Alone
      <2> QED  BY <2>2, <2>3
<1>6. CASE RequestStop
      <2>1. Stamps' = Stamps /\ GenerationIsConnection'  BY <1>6, NoNewStamp DEF RequestStop, StampsFit
      <2>2. StampsFit'  BY <2>1, <1>6, StampsTyped DEF RequestStop, StampsFit, NothingYet, Disconnected
      <2>3. NothingYet'  BY <2>1, <1>6, Moves, StampsTyped DEF RequestStop, StampsFit, NothingYet, Apart, Alone
      <2> QED  BY <2>2, <2>3
<1>7. CASE JoinReader
      <2>1. Stamps' = Stamps /\ GenerationIsConnection'  BY <1>7, NoNewStamp DEF JoinReader, StampsFit
      <2>2. StampsFit'  BY <2>1, <1>7, StampsTyped DEF JoinReader, StampsFit, NothingYet, Disconnected
      <2>3. NothingYet'  BY <2>1, <1>7, Moves, StampsTyped DEF JoinReader, StampsFit, NothingYet, Apart, Alone
      <2> QED  BY <2>2, <2>3
<1>8. CASE StopEnds
      <2>1. Stamps' = Stamps /\ GenerationIsConnection'  BY <1>8, NoNewStamp DEF StopEnds, StampsFit
      <2>2. StampsFit'  BY <2>1, <1>8, StampsTyped DEF StopEnds, StampsFit, NothingYet, Disconnected
      <2>3. NothingYet'  BY <2>1, <1>8, Moves, StampsTyped DEF StopEnds, StampsFit, NothingYet, Apart, Alone
      <2> QED  BY <2>2, <2>3
<1> QED  BY <1>1, <1>2, <1>3, <1>4, <1>5, <1>6, <1>7, <1>8 DEF CallerStops

\* ... under those of a read, ...
LEMMA GotKeepsStamps ==
  ASSUME IInv, LoopTest \/ ReadStopped \/ ReadAnswered \/ GotStep
  PROVE  StampsFit' /\ NothingYet'
<1> USE DEF IInv, Types, Opening, Threads, Proceed, Finish, Forget,
           atomics, puller, locals, bounds, CallerPlaces, ReaderPlaces
<1>1. CASE LoopTest
      <2>1. Stamps' = Stamps /\ GenerationIsConnection'  BY <1>1, NoNewStamp DEF LoopTest, StampsFit
      <2>2. StampsFit'  BY <2>1, <1>1, StampsTyped DEF LoopTest, StampsFit, NothingYet, Disconnected
      <2>3. NothingYet'  BY <2>1, <1>1, Moves, StampsTyped DEF LoopTest, StampsFit, NothingYet, Apart, Alone
      <2> QED  BY <2>2, <2>3
<1>2. CASE ReadStopped
      <2>1. Stamps' = Stamps /\ GenerationIsConnection'  BY <1>2, NoNewStamp DEF ReadStopped, StampsFit
      <2>2. StampsFit'  BY <2>1, <1>2, StampsTyped DEF ReadStopped, StampsFit, NothingYet, Disconnected
      <2>3. NothingYet'  BY <2>1, <1>2, Moves, StampsTyped DEF ReadStopped, StampsFit, NothingYet, Apart, Alone
      <2> QED  BY <2>2, <2>3
<1>3. CASE ReadAnswered
      <2>1. Stamps' = Stamps /\ GenerationIsConnection'  BY <1>3, NoNewStamp DEF ReadAnswered, StampsFit
      <2>2. StampsFit'  BY <2>1, <1>3, StampsTyped DEF ReadAnswered, StampsFit, NothingYet, Disconnected
      <2>3. NothingYet'  BY <2>1, <1>3, Moves, StampsTyped DEF ReadAnswered, StampsFit, NothingYet, Apart, Alone
      <2> QED  BY <2>2, <2>3
<1>4. CASE GotStale
      <2>1. Stamps' = Stamps /\ GenerationIsConnection'  BY <1>4, NoNewStamp DEF GotStale, StampsFit
      <2>2. StampsFit'  BY <2>1, <1>4, StampsTyped DEF GotStale, StampsFit, NothingYet, Disconnected
      <2>3. NothingYet'  BY <2>1, <1>4, Moves, StampsTyped DEF GotStale, StampsFit, NothingYet, Apart, Alone
      <2> QED  BY <2>2, <2>3
<1>5. CASE GotNothing
      <2>1. Stamps' = Stamps /\ GenerationIsConnection'  BY <1>5, NoNewStamp DEF GotNothing, StampsFit
      <2>2. StampsFit'  BY <2>1, <1>5, StampsTyped DEF GotNothing, StampsFit, NothingYet, Disconnected
      <2>3. NothingYet'  BY <2>1, <1>5, Moves, StampsTyped DEF GotNothing, StampsFit, NothingYet, Apart, Alone
      <2> QED  BY <2>2, <2>3
<1>6. CASE GotEnd
      <2>1. Stamps' = Stamps /\ GenerationIsConnection'  BY <1>6, NoNewStamp DEF GotEnd, StampsFit
      <2>2. StampsFit'  BY <2>1, <1>6, StampsTyped DEF GotEnd, StampsFit, NothingYet, Disconnected
      <2>3. NothingYet'  BY <2>1, <1>6, Moves, StampsTyped DEF GotEnd, StampsFit, NothingYet, Apart, Alone
      <2> QED  BY <2>2, <2>3
<1>7. CASE GotRetry
      <2>1. Stamps' = Stamps /\ GenerationIsConnection'  BY <1>7, NoNewStamp DEF GotRetry, StampsFit
      <2>2. StampsFit'  BY <2>1, <1>7, StampsTyped DEF GotRetry, StampsFit, NothingYet, Disconnected
      <2>3. NothingYet'  BY <2>1, <1>7, Moves, StampsTyped DEF GotRetry, StampsFit, NothingYet, Apart, Alone
      <2> QED  BY <2>2, <2>3
<1>8. CASE GotMessage
      <2>1. Stamps' = Stamps /\ GenerationIsConnection'  BY <1>8, NoNewStamp DEF GotMessage, StampsFit
      <2>2. StampsFit'  BY <2>1, <1>8, StampsTyped DEF GotMessage, StampsFit, NothingYet, Disconnected
      <2>3. NothingYet'  BY <2>1, <1>8, Moves, StampsTyped DEF GotMessage, StampsFit, NothingYet, Apart, Alone
      <2> QED  BY <2>2, <2>3
<1> QED  BY <1>1, <1>2, <1>3, <1>4, <1>5, <1>6, <1>7, <1>8 DEF GotStep

\* ... under those that send and reconnect.
LEMMA SendingKeepsStamps ==
  ASSUME IInv, EmitStep \/ ReaderWaits \/ Renew \/ Reopened \/ ReopenFails
  PROVE  StampsFit' /\ NothingYet'
<1> USE DEF IInv, Types, Opening, Threads, Proceed, Finish, Forget,
           atomics, puller, locals, bounds, CallerPlaces, ReaderPlaces
<1>1. CASE EmitMixed
      <2>1. message \in Messages /\ connected /\ message.gen = cur /\ message.link = link
            BY <1>1 DEF EmitMixed, InFlight, Sending
      <2>2. "out" \in Ports  BY <2>1, <1>1 DEF EmitMixed, Ports, Tracks, InFlight, Messages
      <2>3. StampsFit'  BY <2>1, <2>2, <1>1, SendFits DEF EmitMixed
      <2>4. pc'.caller = pc.caller /\ pc'.reader \in {"eosAudio", "track"}  BY <1>1, Moves DEF EmitMixed
      <2>5. pc.caller \notin Opening  BY <1>1 DEF EmitMixed, Apart, Alone
      <2> QED  BY <2>3, <2>4, <2>5 DEF NothingYet
<1>2. CASE EmitTrack
      <2>1. message \in Messages /\ connected /\ message.gen = cur /\ message.link = link
            BY <1>2 DEF EmitTrack, InFlight, Sending
      <2>2. message.track \in Ports  BY <2>1, <1>2 DEF EmitTrack, Ports, Tracks, InFlight, Messages
      <2>3. StampsFit'  BY <2>1, <2>2, <1>2, SendFits DEF EmitTrack
      <2>4. pc'.caller = pc.caller /\ pc'.reader \in {"test"}  BY <1>2, Moves DEF EmitTrack
      <2>5. pc.caller \notin Opening  BY <1>2 DEF EmitTrack, Apart, Alone
      <2> QED  BY <2>3, <2>4, <2>5 DEF NothingYet
<1>3. CASE EmitAudioEnd
      <2>1. message \in Messages /\ connected /\ message.gen = cur /\ message.link = link
            BY <1>3 DEF EmitAudioEnd, InFlight, Sending
      <2>2. "audio" \in Ports  BY <2>1, <1>3 DEF EmitAudioEnd, Ports, Tracks, InFlight, Messages
      <2>3. StampsFit'  BY <2>1, <2>2, <1>3, SendFits DEF EmitAudioEnd
      <2>4. pc'.caller = pc.caller /\ pc'.reader \in {"eosVideo"}  BY <1>3, Moves DEF EmitAudioEnd
      <2>5. pc.caller \notin Opening  BY <1>3 DEF EmitAudioEnd, Apart, Alone
      <2> QED  BY <2>3, <2>4, <2>5 DEF NothingYet
<1>4. CASE EmitVideoEnd
      <2>1. message \in Messages /\ connected /\ message.gen = cur /\ message.link = link
            BY <1>4 DEF EmitVideoEnd, InFlight, Sending
      <2>2. "video" \in Ports  BY <2>1, <1>4 DEF EmitVideoEnd, Ports, Tracks, InFlight, Messages
      <2>3. StampsFit'  BY <2>1, <2>2, <1>4, SendFits DEF EmitVideoEnd
      <2>4. pc'.caller = pc.caller /\ pc'.reader \in {"gone"}  BY <1>4, Moves DEF EmitVideoEnd
      <2>5. pc.caller \notin Opening  BY <1>4 DEF EmitVideoEnd, Apart, Alone
      <2> QED  BY <2>3, <2>4, <2>5 DEF NothingYet
<1>5. CASE ReaderWaits
      <2>1. Stamps' = Stamps /\ GenerationIsConnection'  BY <1>5, NoNewStamp DEF ReaderWaits, WaitOver, StampsFit
      <2>2. StampsFit'  BY <2>1, <1>5, StampsTyped DEF ReaderWaits, WaitOver, StampsFit, NothingYet, Disconnected
      <2>3. NothingYet'  BY <2>1, <1>5, Moves, StampsTyped DEF ReaderWaits, WaitOver, StampsFit, NothingYet, Apart, Alone
      <2> QED  BY <2>2, <2>3
<1>6. CASE Renew
      <2>1. Stamps' = Stamps /\ GenerationIsConnection'  BY <1>6, NoNewStamp DEF Renew, StampsFit
      <2>2. StampsFit'  BY <2>1, <1>6, StampsTyped DEF Renew, StampsFit, NothingYet, Disconnected
      <2>3. NothingYet'  BY <2>1, <1>6, Moves, StampsTyped DEF Renew, StampsFit, NothingYet, Apart, Alone
      <2> QED  BY <2>2, <2>3
<1>7. CASE Reopened
      <2>1. Stamps' = Stamps /\ GenerationIsConnection'  BY <1>7, NoNewStamp DEF Reopened, StampsFit
      <2>2. StampsFit'  BY <2>1, <1>7, StampsTyped DEF Reopened, StampsFit, NothingYet, Disconnected
      <2>3. NothingYet'  BY <2>1, <1>7, Moves, StampsTyped DEF Reopened, StampsFit, NothingYet, Apart, Alone
      <2> QED  BY <2>2, <2>3
<1>8. CASE ReopenFails
      <2>1. Stamps' = Stamps /\ GenerationIsConnection'  BY <1>8, NoNewStamp DEF ReopenFails, StampsFit
      <2>2. StampsFit'  BY <2>1, <1>8, StampsTyped DEF ReopenFails, StampsFit, NothingYet, Disconnected
      <2>3. NothingYet'  BY <2>1, <1>8, Moves, StampsTyped DEF ReopenFails, StampsFit, NothingYet, Apart, Alone
      <2> QED  BY <2>2, <2>3
<1> QED  BY <1>1, <1>2, <1>3, <1>4, <1>5, <1>6, <1>7, <1>8 DEF EmitStep

-----------------------------------------------------------------------------
(* What the reading thread has in hand                                     *)

\* A packet that is read is a message, ...
LEMMA PacketTyped ==
  ASSUME Types, Delivered, NEW t \in Tracks, packets < MaxPackets
  PROVE  Packet(t) \in Messages
<1>1. seqNo[t] + 1 \in 1 .. MaxPackets  BY SourceAssumption DEF Types, Delivered
<1> QED  BY <1>1 DEF Packet, Messages, Types

\* ... and so is an end of stream.
LEMMA EndTyped ==
  ASSUME Types
  PROVE  EndOfStream \in Messages
BY DEF EndOfStream, Messages, Types

\* What is in hand comes from the connection at hand, under the steps of an attempt to connect, ...
LEMMA OpeningKeepsFlight ==
  ASSUME IInv, NEW p \in Threads, OpenGeneration(p)
  PROVE  InFlight'
<1> USE DEF IInv, Types, Apart, Alone, InFlight, Sending, Threads, Proceed, Finish, Forget,
           atomics, puller, locals, bounds, CallerPlaces, ReaderPlaces
<1>1. CASE OpenCheck(p)  BY <1>1, Moves DEF OpenCheck
<1>2. CASE Dial(p)  BY <1>2, Moves DEF Dial
<1>3. CASE DialSucceeds(p)  BY <1>3, Moves DEF DialSucceeds
<1>4. CASE DialFails(p)  BY <1>4, Moves DEF DialFails
<1>5. CASE OpenRecheck(p)  BY <1>5, Moves DEF OpenRecheck
<1> QED  BY <1>1, <1>2, <1>3, <1>4, <1>5 DEF OpenGeneration

\* ... under those of the caller, ...
LEMMA CallerKeepsFlight ==
  ASSUME IInv, Start \/ StartFails \/ StartThread \/ CallerStops
  PROVE  InFlight'
<1> USE DEF IInv, Types, Apart, Alone, InFlight, Sending, Threads, Proceed, Finish, Forget,
           atomics, puller, locals, bounds, CallerPlaces, ReaderPlaces
<1>1. CASE Start
      <2> QED  BY <1>1, Moves DEF Start, Apart, Alone
<1>2. CASE StartFails
      <2> QED  BY <1>2, Moves DEF StartFails, Apart, Alone
<1>3. CASE StartThread
      <2> QED  BY <1>3, Moves DEF StartThread, Apart, Alone
<1>4. CASE StopBegins
      <2> QED  BY <1>4, Moves DEF StopBegins, Apart, Alone
<1>5. CASE StopBumps
      <2> QED  BY <1>5, Moves DEF StopBumps, Apart, Alone
<1>6. CASE RequestStop
      <2> QED  BY <1>6, Moves DEF RequestStop, Apart, Alone
<1>7. CASE JoinReader
      <2> QED  BY <1>7, Moves DEF JoinReader, Apart, Alone
<1>8. CASE StopEnds
      <2> QED  BY <1>8, Moves DEF StopEnds, Apart, Alone
<1> QED  BY <1>1, <1>2, <1>3, <1>4, <1>5, <1>6, <1>7, <1>8 DEF CallerStops

\* ... under those of a read, ...
LEMMA GotKeepsFlight ==
  ASSUME IInv, LoopTest \/ ReadStopped \/ ReadAnswered \/ GotStep
  PROVE  InFlight'
<1> USE DEF IInv, Types, Apart, Alone, InFlight, Sending, Threads, Proceed, Finish, Forget,
           atomics, puller, locals, bounds, CallerPlaces, ReaderPlaces
<1>1. CASE LoopTest  BY <1>1, Moves DEF LoopTest
<1>2. CASE ReadStopped  BY <1>2, Moves DEF ReadStopped
<1>3. CASE ReadAnswered
      <2>1. pc'.reader = "got" /\ connected /\ UNCHANGED <<connected, cur, link, seqNo>>
            BY <1>3, Moves DEF ReadAnswered
      <2>2. CASE \E t \in Tracks : packets < MaxPackets /\ packets' = packets + 1 /\ message' = Packet(t)
            <3>1. PICK t \in Tracks : packets < MaxPackets /\ packets' = packets + 1 /\ message' = Packet(t)
                  BY <2>2
            <3>2. message' \in Messages  BY <3>1, PacketTyped
            <3>3. message'.kind = "packet" /\ message'.gen = cur /\ message'.link = link
                  /\ message'.track = t /\ message'.seq = seqNo[t] + 1
                  BY <3>1 DEF Packet
            <3>4. seqNo[t] + 1 <= packets'  BY <3>1 DEF Delivered
            <3> QED  BY <2>1, <3>2, <3>3, <3>4
      <2>3. CASE message' = EndOfStream
            <3>1. message' \in Messages  BY <2>3, EndTyped
            <3>2. message'.kind = "eos" /\ message'.gen = cur /\ message'.link = link
                  BY <2>3 DEF EndOfStream
            <3> QED  BY <2>1, <3>1, <3>2
      <2>4. CASE message'.kind \in {"nodata", "fatal", "retry"}  BY <2>1, <2>4
      <2> QED  BY <2>2, <2>3, <2>4, <1>3 DEF ReadAnswered
<1>4. CASE GotStale  BY <1>4, Moves DEF GotStale
<1>5. CASE GotNothing  BY <1>5, Moves DEF GotNothing
<1>6. CASE GotEnd  BY <1>6, Moves DEF GotEnd
<1>7. CASE GotRetry  BY <1>7, Moves DEF GotRetry
<1>8. CASE GotMessage
      <2>1. pc'.reader = "mixed" /\ UNCHANGED <<message, connected, cur, link>>  BY <1>8, Moves DEF GotMessage
      <2>2. message \in Messages /\ connected /\ message.gen = cur /\ message.link = link
            BY <1>8 DEF GotMessage
      <2>3. message.kind = "packet" => seqNo'[message.track] = message.seq
            BY <2>2, <1>8 DEF GotMessage, Messages
      <2> QED  BY <2>1, <2>2, <2>3
<1> QED  BY <1>1, <1>2, <1>3, <1>4, <1>5, <1>6, <1>7, <1>8 DEF GotStep

\* ... under those that send and reconnect.
LEMMA SendingKeepsFlight ==
  ASSUME IInv, EmitStep \/ ReaderWaits \/ Renew \/ Reopened \/ ReopenFails
  PROVE  InFlight'
<1> USE DEF IInv, Types, Apart, Alone, InFlight, Sending, Threads, Proceed, Finish, Forget,
           atomics, puller, locals, bounds, CallerPlaces, ReaderPlaces
<1>1. CASE EmitMixed
      <2>1. UNCHANGED <<message, connected, cur, link, seqNo>>  BY <1>1 DEF EmitMixed
      <2>2. message \in Messages  BY <1>1 DEF EmitMixed
      <2>3. message.kind = "packet" \/ message.kind = "eos"  BY <2>2 DEF Messages
      <2>4. pc'.reader = IF message.kind = "eos" THEN "eosAudio" ELSE "track"  BY <1>1, Moves DEF EmitMixed
      <2> QED  BY <2>1, <2>3, <2>4, <1>1 DEF EmitMixed
<1>2. CASE EmitTrack  BY <1>2, Moves DEF EmitTrack
<1>3. CASE EmitAudioEnd  BY <1>3, Moves DEF EmitAudioEnd
<1>4. CASE EmitVideoEnd  BY <1>4, Moves DEF EmitVideoEnd
<1>5. CASE ReaderWaits  BY <1>5, Moves DEF ReaderWaits, WaitOver
<1>6. CASE Renew  BY <1>6, Moves DEF Renew
<1>7. CASE Reopened  BY <1>7, Moves DEF Reopened
<1>8. CASE ReopenFails  BY <1>8, Moves DEF ReopenFails
<1> QED  BY <1>1, <1>2, <1>3, <1>4, <1>5, <1>6, <1>7, <1>8 DEF EmitStep

-----------------------------------------------------------------------------
(* The numbers on the port of a track                                      *)

\* NumberedByTrack, of one stream.
Fresh(s, i) == i = 1 \/ s[i - 1].gen < s[i].gen
Runs(s) ==
  \A i \in DOMAIN s :
    /\ Fresh(s, i) \/ (s[i - 1].gen = s[i].gen /\ s[i - 1].kind = "packet")
    /\ s[i].kind = "packet" => s[i].seq = IF Fresh(s, i) THEN 1 ELSE s[i - 1].seq + 1

\* NumberedByTrack says it of each track.
LEMMA NumberedIsRuns == NumberedByTrack <=> \A t \in Tracks : Runs(sent[t])
BY DEF NumberedByTrack, Runs, Fresh

\* A message of the current generation with the next number, or an end of stream, goes on
\* with the stream.
LEMMA RunsOn ==
  ASSUME NEW s \in Seq(Messages), Runs(s), NEW m \in Messages, NEW n \in Nat, Continues(s, n),
         cur \in Nat, m.gen = cur, m.kind = "packet" => m.seq = n + 1
  PROVE  Runs(Append(s, m))
<1> DEFINE r == Append(s, m)
           l == Len(s)
<1>1. r \in Seq(Messages) /\ Len(r) = l + 1 /\ l \in Nat /\ DOMAIN r = 1 .. (l + 1)  OBVIOUS
<1>2. r[l + 1] = m /\ \A i \in 1 .. l : r[i] = s[i]  OBVIOUS
<1>6. \A i \in DOMAIN r : i \in 1 .. l \/ i = l + 1  BY <1>1
<1> HIDE DEF r
<1> DEFINE Right(i) ==
             /\ Fresh(r, i) \/ (r[i - 1].gen = r[i].gen /\ r[i - 1].kind = "packet")
             /\ r[i].kind = "packet" => r[i].seq = IF Fresh(r, i) THEN 1 ELSE r[i - 1].seq + 1
<1>3. ASSUME NEW i \in 1 .. l  PROVE Right(i)
      <2>1. r[i] = s[i] /\ (i # 1 => r[i - 1] = s[i - 1])  BY <1>1, <1>2
      <2>2. Fresh(r, i) <=> Fresh(s, i)  BY <2>1 DEF Fresh
      <2>3. i \in DOMAIN s  OBVIOUS
      <2> QED  BY <2>1, <2>2, <2>3 DEF Runs, Fresh
<1>7. Right(l + 1) => Runs(r)
      <2>1. Runs(r) <=> \A i \in DOMAIN r : Right(i)  BY DEF Runs
      <2> HIDE DEF Right
      <2> QED  BY <2>1, <1>3, <1>6
<1>4. CASE n = 0
      <2>1. Fresh(r, l + 1)
            <3>1. CASE s = <<>>  BY <3>1 DEF Fresh
            <3>2. CASE s # <<>>
                  <4>1. l \in 1 .. l /\ s[l].gen < cur  BY <3>2, <1>4 DEF Continues
                  <4>2. (l + 1) - 1 = l  BY <1>1
                  <4> QED  BY <4>1, <4>2, <1>2 DEF Fresh
            <3> QED  BY <3>1, <3>2
      <2>2. m.kind = "packet" => m.seq = 1  BY <1>4
      <2>3. Right(l + 1)  BY <2>1, <2>2, <1>2
      <2> QED  BY <2>3, <1>7 DEF r
<1>5. CASE n # 0
      <2>1. s # <<>> /\ s[l].gen = cur /\ s[l].kind = "packet" /\ s[l].seq = n  BY <1>5 DEF Continues
      <2>2. l \in 1 .. l /\ (l + 1) - 1 = l /\ l + 1 # 1  BY <2>1
      <2>3. r[l] = s[l]  BY <2>2, <1>2
      <2>4. ~Fresh(r, l + 1)  BY <2>1, <2>2, <2>3, <1>2 DEF Fresh
      <2>5. Right(l + 1)  BY <2>1, <2>2, <2>3, <2>4, <1>2
      <2> QED  BY <2>5, <1>7 DEF r
<1> QED  BY <1>4, <1>5

\* The numbers begin anew where nothing was sent under the current generation.
LEMMA BeginsAnew ==
  ASSUME Types, NEW t \in Tracks, \A a \in Stamps : a[1] < cur
  PROVE  Continues(sent[t], 0)
<1>1. sent[t] # <<>> => <<sent[t][Len(sent[t])].gen, sent[t][Len(sent[t])].link>> \in Stamps
      BY LastStamped DEF Ports
<1> QED  BY <1>1 DEF Continues

\* A step under one generation, that sends nothing and counts nothing, leaves the numbers alone.
LEMMA NumbersStay ==
  ASSUME IInv, UNCHANGED <<sent, cur, seqNo>>,
         pc'.reader \in Reading =>
           \/ pc'.reader = pc.reader /\ message' = message
           \/ pc.reader \in Reading \ Sending /\ pc'.reader \notin Sending
  PROVE  NumbersRun' /\ NumberedByTrack'
<1>1. ASSUME NEW t \in Tracks, pc'.reader \in Reading, ~(pc'.reader = "eosVideo" /\ t = "audio")
      PROVE  Continues(sent[t], Numbered(t))'
      <2>1. CASE pc'.reader = pc.reader /\ message' = message
            <3>1. Continues(sent[t], Numbered(t))  BY <2>1, <1>1 DEF IInv, NumbersRun
            <3>2. Numbered(t)' = Numbered(t)  BY <2>1 DEF Numbered
            <3> QED  BY <3>1, <3>2 DEF Continues
      <2>2. CASE pc.reader \in Reading \ Sending /\ pc'.reader \notin Sending
            <3>1. Continues(sent[t], Numbered(t))  BY <2>2, <1>1 DEF IInv, NumbersRun, Sending
            <3>2. Numbered(t) = seqNo[t] /\ Numbered(t)' = seqNo[t]  BY <2>2 DEF Numbered, Sending
            <3> QED  BY <3>1, <3>2 DEF Continues
      <2> QED  BY <2>1, <2>2, <1>1
<1>2. NumberedByTrack'  BY DEF IInv, NumberedByTrack
<1> QED  BY <1>1, <1>2 DEF NumbersRun

\* Outside the loop's body there is nothing to say of the numbers.
LEMMA NumbersOutside ==
  ASSUME IInv, sent' = sent, pc'.reader \notin Reading
  PROVE  NumbersRun' /\ NumberedByTrack'
<1>1. NumberedByTrack'  BY DEF IInv, NumberedByTrack
<1> QED  BY <1>1 DEF NumbersRun

\* A loop begins on a generation of its own.
LEMMA NumbersBegin ==
  ASSUME IInv, UNCHANGED <<sent, cur>>, \A a \in Stamps : a[1] < cur,
         \A t \in Tracks : seqNo'[t] = 0, pc'.reader \notin Sending
  PROVE  NumbersRun' /\ NumberedByTrack'
<1>1. ASSUME NEW t \in Tracks  PROVE Continues(sent[t], Numbered(t))'
      <2>1. Numbered(t)' = 0  BY DEF Numbered, Sending
      <2>2. Continues(sent[t], 0)  BY BeginsAnew DEF IInv
      <2> QED  BY <2>1, <2>2 DEF Continues
<1>2. NumberedByTrack'  BY DEF IInv, NumberedByTrack
<1> QED  BY <1>1, <1>2 DEF NumbersRun

\* The port of a track gets the next number.
LEMMA NumbersGo ==
  ASSUME IInv, NEW t \in Tracks, Send(t), message \in Messages, message.gen = cur,
         Continues(sent[t], Numbered(t)), Numbered(t) \in Nat,
         message.kind = "packet" => message.seq = Numbered(t) + 1
  PROVE  NumberedByTrack'
<1>1. \A u \in Tracks : sent'[u] = IF u = t THEN Append(sent[t], message) ELSE sent[u]
      BY DEF Send, IInv, Types, Ports
<1>2. \A u \in Tracks : Runs(sent[u])  BY NumberedIsRuns DEF IInv
<1>3. sent[t] \in Seq(Messages) /\ cur \in Nat  BY DEF IInv, Types, Ports
<1>4. Runs(Append(sent[t], message))  BY <1>2, <1>3, RunsOn
<1>5. \A u \in Tracks : Runs(sent'[u])  BY <1>1, <1>2, <1>4
<1> QED  BY <1>5 DEF NumberedByTrack, Runs, Fresh

\* The numbers run, under the steps of an attempt to connect, ...
LEMMA OpeningKeepsNumbers ==
  ASSUME IInv, NEW p \in Threads, OpenGeneration(p)
  PROVE  NumbersRun' /\ NumberedByTrack'
<1> USE DEF Threads, Proceed, Finish, Forget, atomics, puller, locals, bounds
<1>1. CASE OpenCheck(p)
      <2>1. pc'.reader \in Reading =>
              \/ pc'.reader = pc.reader /\ message' = message
              \/ pc.reader \in Reading \ Sending /\ pc'.reader \notin Sending
            BY <1>1, Moves DEF OpenCheck, IInv, Types, Apart, Alone, Reading, Sending, CallerPlaces, ReaderPlaces
      <2> QED  BY <2>1, <1>1, NumbersStay DEF OpenCheck
<1>2. CASE Dial(p)
      <2>1. pc'.reader \in Reading =>
              \/ pc'.reader = pc.reader /\ message' = message
              \/ pc.reader \in Reading \ Sending /\ pc'.reader \notin Sending
            BY <1>2, Moves DEF Dial, IInv, Types, Apart, Alone, Reading, Sending, CallerPlaces, ReaderPlaces
      <2> QED  BY <2>1, <1>2, NumbersStay DEF Dial
<1>3. CASE DialSucceeds(p)
      <2>1. pc'.reader \in Reading =>
              \/ pc'.reader = pc.reader /\ message' = message
              \/ pc.reader \in Reading \ Sending /\ pc'.reader \notin Sending
            BY <1>3, Moves DEF DialSucceeds, IInv, Types, Apart, Alone, Reading, Sending, CallerPlaces, ReaderPlaces
      <2> QED  BY <2>1, <1>3, NumbersStay DEF DialSucceeds
<1>4. CASE DialFails(p)
      <2>1. pc'.reader \in Reading =>
              \/ pc'.reader = pc.reader /\ message' = message
              \/ pc.reader \in Reading \ Sending /\ pc'.reader \notin Sending
            BY <1>4, Moves DEF DialFails, IInv, Types, Apart, Alone, Reading, Sending, CallerPlaces, ReaderPlaces
      <2> QED  BY <2>1, <1>4, NumbersStay DEF DialFails
<1>5. CASE OpenRecheck(p)
      <2>1. pc'.reader \in Reading =>
              \/ pc'.reader = pc.reader /\ message' = message
              \/ pc.reader \in Reading \ Sending /\ pc'.reader \notin Sending
            BY <1>5, Moves DEF OpenRecheck, IInv, Types, Apart, Alone, Reading, Sending, CallerPlaces, ReaderPlaces
      <2> QED  BY <2>1, <1>5, NumbersStay DEF OpenRecheck
<1> QED  BY <1>1, <1>2, <1>3, <1>4, <1>5 DEF OpenGeneration

\* ... under those of the caller, ...
LEMMA CallerKeepsNumbers ==
  ASSUME IInv, Start \/ StartFails \/ StartThread \/ CallerStops
  PROVE  NumbersRun' /\ NumberedByTrack'
<1> USE DEF Threads, Proceed, Finish, Forget, atomics, puller, locals, bounds
<1>1. CASE Start
      <2>1. pc'.reader \notin Reading  BY <1>1, Moves DEF Start, IInv, Types, Apart, Alone, Reading
      <2> QED  BY <2>1, <1>1, NumbersOutside DEF Start
<1>2. CASE StartFails
      <2>1. pc'.reader \in Reading =>
              \/ pc'.reader = pc.reader /\ message' = message
              \/ pc.reader \in Reading \ Sending /\ pc'.reader \notin Sending
            BY <1>2, Moves DEF StartFails, IInv, Types, Apart, Alone, Reading, Sending, CallerPlaces, ReaderPlaces
      <2> QED  BY <2>1, <1>2, NumbersStay DEF StartFails
<1>3. CASE StartThread
      <2>1. pc'.reader = "test" /\ pc.caller \in Opening  BY <1>3 DEF StartThread, Opening
      <2>2. \A a \in Stamps : a[1] < cur  BY <2>1 DEF IInv, NothingYet
      <2>3. \A t \in Tracks : seqNo'[t] = 0  BY <1>3 DEF StartThread
      <2> QED  BY <2>1, <2>2, <2>3, <1>3, NumbersBegin DEF StartThread, Sending
<1>4. CASE StopBegins
      <2>1. pc'.reader \in Reading =>
              \/ pc'.reader = pc.reader /\ message' = message
              \/ pc.reader \in Reading \ Sending /\ pc'.reader \notin Sending
            BY <1>4, Moves DEF StopBegins, IInv, Types, Apart, Alone, Reading, Sending, CallerPlaces, ReaderPlaces
      <2> QED  BY <2>1, <1>4, NumbersStay DEF StopBegins
<1>5. CASE StopBumps
      <2>1. pc'.reader \in Reading =>
              \/ pc'.reader = pc.reader /\ message' = message
              \/ pc.reader \in Reading \ Sending /\ pc'.reader \notin Sending
            BY <1>5, Moves DEF StopBumps, IInv, Types, Apart, Alone, Reading, Sending, CallerPlaces, ReaderPlaces
      <2> QED  BY <2>1, <1>5, NumbersStay DEF StopBumps
<1>6. CASE RequestStop
      <2>1. pc'.reader \in Reading =>
              \/ pc'.reader = pc.reader /\ message' = message
              \/ pc.reader \in Reading \ Sending /\ pc'.reader \notin Sending
            BY <1>6, Moves DEF RequestStop, IInv, Types, Apart, Alone, Reading, Sending, CallerPlaces, ReaderPlaces
      <2> QED  BY <2>1, <1>6, NumbersStay DEF RequestStop
<1>7. CASE JoinReader
      <2>1. pc'.reader \in Reading =>
              \/ pc'.reader = pc.reader /\ message' = message
              \/ pc.reader \in Reading \ Sending /\ pc'.reader \notin Sending
            BY <1>7, Moves DEF JoinReader, IInv, Types, Apart, Alone, Reading, Sending, CallerPlaces, ReaderPlaces
      <2> QED  BY <2>1, <1>7, NumbersStay DEF JoinReader
<1>8. CASE StopEnds
      <2>1. pc'.reader \in Reading =>
              \/ pc'.reader = pc.reader /\ message' = message
              \/ pc.reader \in Reading \ Sending /\ pc'.reader \notin Sending
            BY <1>8, Moves DEF StopEnds, IInv, Types, Apart, Alone, Reading, Sending, CallerPlaces, ReaderPlaces
      <2> QED  BY <2>1, <1>8, NumbersStay DEF StopEnds
<1> QED  BY <1>1, <1>2, <1>3, <1>4, <1>5, <1>6, <1>7, <1>8 DEF CallerStops

\* ... under those of a read, ...
LEMMA GotKeepsNumbers ==
  ASSUME IInv, LoopTest \/ ReadStopped \/ ReadAnswered \/ GotStep
  PROVE  NumbersRun' /\ NumberedByTrack'
<1> USE DEF Threads, Proceed, Finish, Forget, atomics, puller, locals, bounds
<1>1. CASE LoopTest
      <2>1. pc'.reader \in Reading =>
              \/ pc'.reader = pc.reader /\ message' = message
              \/ pc.reader \in Reading \ Sending /\ pc'.reader \notin Sending
            BY <1>1, Moves DEF LoopTest, IInv, Types, Apart, Alone, Reading, Sending, CallerPlaces, ReaderPlaces
      <2> QED  BY <2>1, <1>1, NumbersStay DEF LoopTest
<1>2. CASE ReadStopped
      <2>1. pc'.reader \in Reading =>
              \/ pc'.reader = pc.reader /\ message' = message
              \/ pc.reader \in Reading \ Sending /\ pc'.reader \notin Sending
            BY <1>2, Moves DEF ReadStopped, IInv, Types, Apart, Alone, Reading, Sending, CallerPlaces, ReaderPlaces
      <2> QED  BY <2>1, <1>2, NumbersStay DEF ReadStopped
<1>3. CASE ReadAnswered
      <2>1. pc'.reader \in Reading =>
              \/ pc'.reader = pc.reader /\ message' = message
              \/ pc.reader \in Reading \ Sending /\ pc'.reader \notin Sending
            BY <1>3, Moves DEF ReadAnswered, IInv, Types, Apart, Alone, Reading, Sending, CallerPlaces, ReaderPlaces
      <2> QED  BY <2>1, <1>3, NumbersStay DEF ReadAnswered
<1>4. CASE GotStale
      <2>1. pc'.reader \in Reading =>
              \/ pc'.reader = pc.reader /\ message' = message
              \/ pc.reader \in Reading \ Sending /\ pc'.reader \notin Sending
            BY <1>4, Moves DEF GotStale, IInv, Types, Apart, Alone, Reading, Sending, CallerPlaces, ReaderPlaces
      <2> QED  BY <2>1, <1>4, NumbersStay DEF GotStale
<1>5. CASE GotNothing
      <2>1. pc'.reader \in Reading =>
              \/ pc'.reader = pc.reader /\ message' = message
              \/ pc.reader \in Reading \ Sending /\ pc'.reader \notin Sending
            BY <1>5, Moves DEF GotNothing, IInv, Types, Apart, Alone, Reading, Sending, CallerPlaces, ReaderPlaces
      <2> QED  BY <2>1, <1>5, NumbersStay DEF GotNothing
<1>6. CASE GotEnd
      <2>1. pc'.reader \in Reading =>
              \/ pc'.reader = pc.reader /\ message' = message
              \/ pc.reader \in Reading \ Sending /\ pc'.reader \notin Sending
            BY <1>6, Moves DEF GotEnd, IInv, Types, Apart, Alone, Reading, Sending, CallerPlaces, ReaderPlaces
      <2> QED  BY <2>1, <1>6, NumbersStay DEF GotEnd
<1>7. CASE GotRetry
      <2>1. pc'.reader \in Reading =>
              \/ pc'.reader = pc.reader /\ message' = message
              \/ pc.reader \in Reading \ Sending /\ pc'.reader \notin Sending
            BY <1>7, Moves DEF GotRetry, IInv, Types, Apart, Alone, Reading, Sending, CallerPlaces, ReaderPlaces
      <2> QED  BY <2>1, <1>7, NumbersStay DEF GotRetry
<1>8. CASE GotMessage
      <2>1. pc.reader = "got" /\ pc'.reader = "mixed" /\ UNCHANGED <<message, cur, sent>>
            BY <1>8, Moves DEF GotMessage, IInv
      <2>2. message \in Messages  BY <1>8 DEF GotMessage, IInv, InFlight
      <2>3. ASSUME NEW t \in Tracks  PROVE Continues(sent[t], Numbered(t))'
            <3>1. Continues(sent[t], seqNo[t])  BY <2>1 DEF IInv, NumbersRun, Numbered, Reading
            <3>2. Numbered(t)' = seqNo[t]
                  <4>1. CASE message.kind = "packet" /\ message.track = t
                        <5>1. message.seq = seqNo[t] + 1  BY <4>1, <2>1 DEF IInv, InFlight
                        <5>2. seqNo'[t] = message.seq  BY <4>1, <1>8 DEF GotMessage, IInv, Types
                        <5> QED  BY <5>1, <5>2, <4>1, <2>1 DEF Numbered, IInv, Types
                  <4>2. CASE ~(message.kind = "packet" /\ message.track = t)
                        <5>1. seqNo'[t] = seqNo[t]  BY <4>2, <1>8 DEF GotMessage, IInv, Types
                        <5> QED  BY <5>1, <4>2, <2>1 DEF Numbered
                  <4> QED  BY <4>1, <4>2
            <3> QED  BY <3>1, <3>2, <2>1 DEF Continues
      <2>4. NumberedByTrack'  BY <2>1 DEF IInv, NumberedByTrack
      <2> QED  BY <2>3, <2>4 DEF NumbersRun
<1> QED  BY <1>1, <1>2, <1>3, <1>4, <1>5, <1>6, <1>7, <1>8 DEF GotStep

\* ... under those that send and reconnect.
LEMMA SendingKeepsNumbers ==
  ASSUME IInv, EmitStep \/ ReaderWaits \/ Renew \/ Reopened \/ ReopenFails
  PROVE  NumbersRun' /\ NumberedByTrack'
<1> USE DEF Threads, Proceed, Finish, Forget, atomics, puller, locals, bounds
<1>1. CASE EmitMixed
      <2>1. pc.reader = "mixed" /\ pc'.reader = (IF message.kind = "eos" THEN "eosAudio" ELSE "track")
            /\ UNCHANGED <<message, cur, seqNo>>
            BY <1>1, Moves DEF EmitMixed, IInv
      <2>2. \A t \in Tracks : sent'[t] = sent[t]  BY <1>1 DEF EmitMixed, Send, IInv, Types, Ports, Tracks
      <2>3. ASSUME NEW t \in Tracks  PROVE Continues(sent[t], Numbered(t))'
            <3>1. Continues(sent[t], Numbered(t))  BY <2>1 DEF IInv, NumbersRun, Reading
            <3>2. Numbered(t)' = Numbered(t)  BY <2>1 DEF Numbered
            <3> QED  BY <3>1, <3>2, <2>1, <2>2 DEF Continues
      <2>4. NumberedByTrack'  BY <2>2 DEF IInv, NumberedByTrack
      <2> QED  BY <2>3, <2>4 DEF NumbersRun
<1>2. CASE EmitTrack
      <2>1. pc.reader = "track" /\ pc'.reader = "test" /\ UNCHANGED <<cur, seqNo>>
            BY <1>2, Moves DEF EmitTrack, IInv
      <2>2. message \in Messages /\ message.gen = cur /\ message.kind = "packet"
            BY <2>1 DEF IInv, InFlight, Sending
      <2>3. message.track \in Tracks /\ message.seq = seqNo[message.track] /\ message.seq \in Nat
            /\ message.seq # 0
            BY <2>1, <2>2, SourceAssumption DEF IInv, InFlight, Messages
      <2>4. Numbered(message.track) = seqNo[message.track] - 1  BY <2>1, <2>2 DEF Numbered
      <2>5. \A t \in Tracks : Continues(sent[t], Numbered(t))  BY <2>1 DEF IInv, NumbersRun, Reading
      <2>6. NumberedByTrack'  BY <2>2, <2>3, <2>4, <2>5, <1>2, NumbersGo DEF EmitTrack
      <2>7. ASSUME NEW t \in Tracks  PROVE Continues(sent[t], Numbered(t))'
            <3>1. Numbered(t)' = seqNo[t]  BY <2>1 DEF Numbered
            <3>2. CASE t # message.track
                  <4>1. sent'[t] = sent[t]  BY <3>2, <1>2 DEF EmitTrack, Send, IInv, Types, Ports
                  <4>2. Numbered(t) = seqNo[t]  BY <3>2 DEF Numbered
                  <4> QED  BY <4>1, <4>2, <3>1, <2>1, <2>5 DEF Continues
            <3>3. CASE t = message.track
                  <4>1. sent'[t] = Append(sent[t], message) /\ sent[t] \in Seq(Messages)
                        BY <3>3, <1>2 DEF EmitTrack, Send, IInv, Types, Ports
                  <4>2. sent'[t] # <<>> /\ sent'[t][Len(sent'[t])] = message  BY <4>1
                  <4> QED  BY <4>2, <3>1, <3>3, <2>1, <2>2, <2>3 DEF Continues
            <3> QED  BY <3>2, <3>3
      <2> QED  BY <2>6, <2>7 DEF NumbersRun
<1>3. CASE EmitAudioEnd
      <2>1. pc.reader = "eosAudio" /\ pc'.reader = "eosVideo" /\ UNCHANGED <<cur, seqNo>>
            BY <1>3, Moves DEF EmitAudioEnd, IInv
      <2>2. message \in Messages /\ message.gen = cur /\ message.kind = "eos" /\ "audio" \in Tracks
            BY <2>1 DEF IInv, InFlight, Sending, Tracks
      <2>3. Continues(sent["audio"], Numbered("audio"))  BY <2>1, <2>2 DEF IInv, NumbersRun, Reading
      <2>4. Numbered("audio") \in Nat  BY <2>1, <2>2 DEF Numbered, IInv, Types
      <2>5. NumberedByTrack'  BY <2>2, <2>3, <2>4, <1>3, NumbersGo DEF EmitAudioEnd
      <2>6. Continues(sent["video"], Numbered("video"))'
            <3>1. sent'["video"] = sent["video"]  BY <1>3 DEF EmitAudioEnd, Send, IInv, Types, Ports, Tracks
            <3>2. Continues(sent["video"], Numbered("video"))
                  BY <2>1 DEF IInv, NumbersRun, Reading, Tracks
            <3>3. Numbered("video")' = Numbered("video")  BY <2>1 DEF Numbered
            <3> QED  BY <3>1, <3>2, <3>3, <2>1 DEF Continues
      <2> QED  BY <2>1, <2>5, <2>6 DEF NumbersRun, Tracks
<1>4. CASE EmitVideoEnd
      <2>1. pc.reader = "eosVideo" /\ pc'.reader = "gone" /\ UNCHANGED <<cur, seqNo>>
            BY <1>4, Moves DEF EmitVideoEnd, IInv
      <2>2. message \in Messages /\ message.gen = cur /\ message.kind = "eos" /\ "video" \in Tracks
            BY <2>1 DEF IInv, InFlight, Sending, Tracks
      <2>3. Continues(sent["video"], Numbered("video"))  BY <2>1, <2>2 DEF IInv, NumbersRun, Reading
      <2>4. Numbered("video") \in Nat  BY <2>1, <2>2 DEF Numbered, IInv, Types
      <2>5. NumberedByTrack'  BY <2>2, <2>3, <2>4, <1>4, NumbersGo DEF EmitVideoEnd
      <2> QED  BY <2>1, <2>5 DEF NumbersRun, Reading
<1>5. CASE ReaderWaits
      <2>1. CASE WaitOver("wait", "renew")
            <3>1. pc'.reader \notin Reading  BY <2>1, Moves DEF WaitOver, IInv, Reading
            <3> QED  BY <3>1, <2>1, NumbersOutside DEF WaitOver
      <2>2. CASE WaitOver("waitAgain", "test")
            <3>1. pc'.reader \in {"test", "gone"} /\ pc.reader \in Opening
                  BY <2>2, Moves DEF WaitOver, IInv, Opening
            <3> QED  BY <3>1, <2>2, NumbersBegin DEF WaitOver, Sending, IInv, NothingYet
      <2> QED  BY <2>1, <2>2, <1>5 DEF ReaderWaits
<1>6. CASE Renew
      <2>1. pc'.reader \notin Reading  BY <1>6, Moves DEF Renew, IInv, Types, Apart, Alone, Reading
      <2> QED  BY <2>1, <1>6, NumbersOutside DEF Renew
<1>7. CASE Reopened
      <2>1. pc'.reader = "test" /\ pc.reader \in Opening  BY <1>7, Moves DEF Reopened, Opening, IInv
      <2> QED  BY <2>1, <1>7, NumbersBegin DEF Reopened, Sending, IInv, NothingYet
<1>8. CASE ReopenFails
      <2>1. pc'.reader \in Reading =>
              \/ pc'.reader = pc.reader /\ message' = message
              \/ pc.reader \in Reading \ Sending /\ pc'.reader \notin Sending
            BY <1>8, Moves DEF ReopenFails, IInv, Types, Apart, Alone, Reading, Sending, CallerPlaces, ReaderPlaces
      <2> QED  BY <2>1, <1>8, NumbersStay DEF ReopenFails
<1> QED  BY <1>1, <1>2, <1>3, <1>4, <1>5, <1>6, <1>7, <1>8 DEF EmitStep

-----------------------------------------------------------------------------
(* The two kinds of ports                                                  *)

Owing == {"track", "eosAudio", "eosVideo"}

\* A step that sends nothing leaves the ports alone.
LEMMA PortsStay ==
  ASSUME IInv, sent' = sent,
         \/ pc'.reader = pc.reader /\ message' = message
         \/ pc.reader \notin Owing /\ pc'.reader \notin Owing
  PROVE  PortsHold'
<1>1. ASSUME NEW t \in Tracks
      PROVE  Pending(t)' = Pending(t) /\ (Pending(t) => message' = message)
      <2>1. CASE pc'.reader = pc.reader /\ message' = message  BY <2>1 DEF Pending
      <2>2. CASE pc.reader \notin Owing /\ pc'.reader \notin Owing  BY <2>2 DEF Pending, Owing
      <2> QED  BY <2>1, <2>2
<1>2. PortsHold  BY DEF IInv
<1> QED  BY <1>1, <1>2 DEF PortsHold

\* A port that is owed the message gets it.
LEMMA PortCatchesUp ==
  ASSUME IInv, NEW t \in Tracks, Pending(t), message \in Messages, Concerns(message, t), Send(t)
  PROVE  TrackOf(sent["out"], sent[t], t)'
<1>1. sent'["out"] = sent["out"] /\ sent'[t] = Append(sent[t], message) /\ sent[t] \in Seq(Messages)
      BY DEF Send, IInv, Types, Ports, Tracks
<1>2. PICK h \in Seq(Messages) : sent["out"] = Append(h, message) /\ TrackOf(h, sent[t], t)
      BY DEF IInv, PortsHold
<1>3. TrackOf(Append(h, message), Append(sent[t], message), t)  BY <1>1, <1>2, TrackGrows
<1> QED  BY <1>1, <1>2, <1>3

\* The ports agree, under the steps of an attempt to connect, ...
LEMMA OpeningKeepsPorts ==
  ASSUME IInv, NEW p \in Threads, OpenGeneration(p)
  PROVE  PortsHold'
<1> USE DEF Threads, Proceed, Finish, Forget, atomics, puller, locals, bounds
<1>1. CASE OpenCheck(p)
      <2>1. \/ pc'.reader = pc.reader /\ message' = message
            \/ pc.reader \notin Owing /\ pc'.reader \notin Owing
            BY <1>1, Moves DEF OpenCheck, IInv, Types, Apart, Alone, Owing, CallerPlaces, ReaderPlaces
      <2> QED  BY <2>1, <1>1, PortsStay DEF OpenCheck
<1>2. CASE Dial(p)
      <2>1. \/ pc'.reader = pc.reader /\ message' = message
            \/ pc.reader \notin Owing /\ pc'.reader \notin Owing
            BY <1>2, Moves DEF Dial, IInv, Types, Apart, Alone, Owing, CallerPlaces, ReaderPlaces
      <2> QED  BY <2>1, <1>2, PortsStay DEF Dial
<1>3. CASE DialSucceeds(p)
      <2>1. \/ pc'.reader = pc.reader /\ message' = message
            \/ pc.reader \notin Owing /\ pc'.reader \notin Owing
            BY <1>3, Moves DEF DialSucceeds, IInv, Types, Apart, Alone, Owing, CallerPlaces, ReaderPlaces
      <2> QED  BY <2>1, <1>3, PortsStay DEF DialSucceeds
<1>4. CASE DialFails(p)
      <2>1. \/ pc'.reader = pc.reader /\ message' = message
            \/ pc.reader \notin Owing /\ pc'.reader \notin Owing
            BY <1>4, Moves DEF DialFails, IInv, Types, Apart, Alone, Owing, CallerPlaces, ReaderPlaces
      <2> QED  BY <2>1, <1>4, PortsStay DEF DialFails
<1>5. CASE OpenRecheck(p)
      <2>1. \/ pc'.reader = pc.reader /\ message' = message
            \/ pc.reader \notin Owing /\ pc'.reader \notin Owing
            BY <1>5, Moves DEF OpenRecheck, IInv, Types, Apart, Alone, Owing, CallerPlaces, ReaderPlaces
      <2> QED  BY <2>1, <1>5, PortsStay DEF OpenRecheck
<1> QED  BY <1>1, <1>2, <1>3, <1>4, <1>5 DEF OpenGeneration

\* ... under those of the caller, ...
LEMMA CallerKeepsPorts ==
  ASSUME IInv, Start \/ StartFails \/ StartThread \/ CallerStops
  PROVE  PortsHold'
<1> USE DEF Threads, Proceed, Finish, Forget, atomics, puller, locals, bounds
<1>1. CASE Start
      <2>1. \/ pc'.reader = pc.reader /\ message' = message
            \/ pc.reader \notin Owing /\ pc'.reader \notin Owing
            BY <1>1, Moves DEF Start, IInv, Types, Apart, Alone, Owing, CallerPlaces, ReaderPlaces
      <2> QED  BY <2>1, <1>1, PortsStay DEF Start
<1>2. CASE StartFails
      <2>1. \/ pc'.reader = pc.reader /\ message' = message
            \/ pc.reader \notin Owing /\ pc'.reader \notin Owing
            BY <1>2, Moves DEF StartFails, IInv, Types, Apart, Alone, Owing, CallerPlaces, ReaderPlaces
      <2> QED  BY <2>1, <1>2, PortsStay DEF StartFails
<1>3. CASE StartThread
      <2>1. \/ pc'.reader = pc.reader /\ message' = message
            \/ pc.reader \notin Owing /\ pc'.reader \notin Owing
            BY <1>3, Moves DEF StartThread, IInv, Types, Apart, Alone, Owing, CallerPlaces, ReaderPlaces
      <2> QED  BY <2>1, <1>3, PortsStay DEF StartThread
<1>4. CASE StopBegins
      <2>1. \/ pc'.reader = pc.reader /\ message' = message
            \/ pc.reader \notin Owing /\ pc'.reader \notin Owing
            BY <1>4, Moves DEF StopBegins, IInv, Types, Apart, Alone, Owing, CallerPlaces, ReaderPlaces
      <2> QED  BY <2>1, <1>4, PortsStay DEF StopBegins
<1>5. CASE StopBumps
      <2>1. \/ pc'.reader = pc.reader /\ message' = message
            \/ pc.reader \notin Owing /\ pc'.reader \notin Owing
            BY <1>5, Moves DEF StopBumps, IInv, Types, Apart, Alone, Owing, CallerPlaces, ReaderPlaces
      <2> QED  BY <2>1, <1>5, PortsStay DEF StopBumps
<1>6. CASE RequestStop
      <2>1. \/ pc'.reader = pc.reader /\ message' = message
            \/ pc.reader \notin Owing /\ pc'.reader \notin Owing
            BY <1>6, Moves DEF RequestStop, IInv, Types, Apart, Alone, Owing, CallerPlaces, ReaderPlaces
      <2> QED  BY <2>1, <1>6, PortsStay DEF RequestStop
<1>7. CASE JoinReader
      <2>1. \/ pc'.reader = pc.reader /\ message' = message
            \/ pc.reader \notin Owing /\ pc'.reader \notin Owing
            BY <1>7, Moves DEF JoinReader, IInv, Types, Apart, Alone, Owing, CallerPlaces, ReaderPlaces
      <2> QED  BY <2>1, <1>7, PortsStay DEF JoinReader
<1>8. CASE StopEnds
      <2>1. \/ pc'.reader = pc.reader /\ message' = message
            \/ pc.reader \notin Owing /\ pc'.reader \notin Owing
            BY <1>8, Moves DEF StopEnds, IInv, Types, Apart, Alone, Owing, CallerPlaces, ReaderPlaces
      <2> QED  BY <2>1, <1>8, PortsStay DEF StopEnds
<1> QED  BY <1>1, <1>2, <1>3, <1>4, <1>5, <1>6, <1>7, <1>8 DEF CallerStops

\* ... under those of a read, ...
LEMMA GotKeepsPorts ==
  ASSUME IInv, LoopTest \/ ReadStopped \/ ReadAnswered \/ GotStep
  PROVE  PortsHold'
<1> USE DEF Threads, Proceed, Finish, Forget, atomics, puller, locals, bounds
<1>1. CASE LoopTest
      <2>1. \/ pc'.reader = pc.reader /\ message' = message
            \/ pc.reader \notin Owing /\ pc'.reader \notin Owing
            BY <1>1, Moves DEF LoopTest, IInv, Types, Apart, Alone, Owing, CallerPlaces, ReaderPlaces
      <2> QED  BY <2>1, <1>1, PortsStay DEF LoopTest
<1>2. CASE ReadStopped
      <2>1. \/ pc'.reader = pc.reader /\ message' = message
            \/ pc.reader \notin Owing /\ pc'.reader \notin Owing
            BY <1>2, Moves DEF ReadStopped, IInv, Types, Apart, Alone, Owing, CallerPlaces, ReaderPlaces
      <2> QED  BY <2>1, <1>2, PortsStay DEF ReadStopped
<1>3. CASE ReadAnswered
      <2>1. \/ pc'.reader = pc.reader /\ message' = message
            \/ pc.reader \notin Owing /\ pc'.reader \notin Owing
            BY <1>3, Moves DEF ReadAnswered, IInv, Types, Apart, Alone, Owing, CallerPlaces, ReaderPlaces
      <2> QED  BY <2>1, <1>3, PortsStay DEF ReadAnswered
<1>4. CASE GotStale
      <2>1. \/ pc'.reader = pc.reader /\ message' = message
            \/ pc.reader \notin Owing /\ pc'.reader \notin Owing
            BY <1>4, Moves DEF GotStale, IInv, Types, Apart, Alone, Owing, CallerPlaces, ReaderPlaces
      <2> QED  BY <2>1, <1>4, PortsStay DEF GotStale
<1>5. CASE GotNothing
      <2>1. \/ pc'.reader = pc.reader /\ message' = message
            \/ pc.reader \notin Owing /\ pc'.reader \notin Owing
            BY <1>5, Moves DEF GotNothing, IInv, Types, Apart, Alone, Owing, CallerPlaces, ReaderPlaces
      <2> QED  BY <2>1, <1>5, PortsStay DEF GotNothing
<1>6. CASE GotEnd
      <2>1. \/ pc'.reader = pc.reader /\ message' = message
            \/ pc.reader \notin Owing /\ pc'.reader \notin Owing
            BY <1>6, Moves DEF GotEnd, IInv, Types, Apart, Alone, Owing, CallerPlaces, ReaderPlaces
      <2> QED  BY <2>1, <1>6, PortsStay DEF GotEnd
<1>7. CASE GotRetry
      <2>1. \/ pc'.reader = pc.reader /\ message' = message
            \/ pc.reader \notin Owing /\ pc'.reader \notin Owing
            BY <1>7, Moves DEF GotRetry, IInv, Types, Apart, Alone, Owing, CallerPlaces, ReaderPlaces
      <2> QED  BY <2>1, <1>7, PortsStay DEF GotRetry
<1>8. CASE GotMessage
      <2>1. \/ pc'.reader = pc.reader /\ message' = message
            \/ pc.reader \notin Owing /\ pc'.reader \notin Owing
            BY <1>8, Moves DEF GotMessage, IInv, Types, Apart, Alone, Owing, CallerPlaces, ReaderPlaces
      <2> QED  BY <2>1, <1>8, PortsStay DEF GotMessage
<1> QED  BY <1>1, <1>2, <1>3, <1>4, <1>5, <1>6, <1>7, <1>8 DEF GotStep

\* ... under those that send and reconnect.
LEMMA SendingKeepsPorts ==
  ASSUME IInv, EmitStep \/ ReaderWaits \/ Renew \/ Reopened \/ ReopenFails
  PROVE  PortsHold'
<1> USE DEF Threads, Proceed, Finish, Forget, atomics, puller, locals, bounds
<1>1. CASE EmitMixed
      <2>1. pc.reader = "mixed" /\ pc'.reader = (IF message.kind = "eos" THEN "eosAudio" ELSE "track")
            /\ message' = message
            BY <1>1, Moves DEF EmitMixed, IInv
      <2>2. message \in Messages  BY <2>1 DEF IInv, InFlight, Sending
      <2>3. sent["out"] \in Seq(Messages) /\ sent'["out"] = Append(sent["out"], message)
            /\ \A t \in Tracks : sent'[t] = sent[t] /\ sent[t] \in Seq(Messages)
            BY <1>1 DEF EmitMixed, Send, IInv, Types, Ports, Tracks
      <2>4. ASSUME NEW t \in Tracks
            PROVE  (IF Pending(t)
                    THEN \E h \in Seq(Messages) : sent["out"] = Append(h, message) /\ TrackOf(h, sent[t], t)
                    ELSE TrackOf(sent["out"], sent[t], t))'
            <3>1. TrackOf(sent["out"], sent[t], t)  BY <2>1 DEF IInv, PortsHold, Pending
            <3>2. CASE Pending(t)'  BY <3>1, <3>2, <2>1, <2>3
            <3>3. CASE ~Pending(t)'
                  <4>1. ~Concerns(message, t)
                        BY <3>3, <2>1, <2>2 DEF Pending, Concerns, Messages
                  <4>2. TrackOf(Append(sent["out"], message), sent[t], t)
                        BY <3>1, <4>1, <2>2, <2>3, TrackSkips
                  <4> QED  BY <3>3, <4>2, <2>3
            <3> QED  BY <3>2, <3>3
      <2> QED  BY <2>4 DEF PortsHold
<1>2. CASE EmitTrack
      <2>1. pc.reader = "track" /\ pc'.reader = "test"  BY <1>2, Moves DEF EmitTrack, IInv
      <2>2. message \in Messages /\ message.kind = "packet"  BY <2>1 DEF IInv, InFlight, Sending
      <2>3. message.track \in Tracks  BY <2>2, SourceAssumption DEF Messages
      <2>4. PICK own \in Tracks : own = message.track  BY <2>3
      <2>5. TrackOf(sent["out"], sent[own], own)'
            BY <2>1, <2>2, <2>4, <1>2, PortCatchesUp DEF EmitTrack, Pending, Concerns
      <2>6. ASSUME NEW t \in Tracks, t # own  PROVE TrackOf(sent["out"], sent[t], t)'
            <3>1. TrackOf(sent["out"], sent[t], t)  BY <2>1, <2>4, <2>6 DEF IInv, PortsHold, Pending
            <3>2. sent'["out"] = sent["out"] /\ sent'[t] = sent[t]
                  BY <2>3, <2>4, <2>6, <1>2 DEF EmitTrack, Send, IInv, Types, Ports, Tracks
            <3> QED  BY <3>1, <3>2
      <2>7. \A t \in Tracks : ~Pending(t)'  BY <2>1 DEF Pending
      <2> QED  BY <2>5, <2>6, <2>7 DEF PortsHold
<1>3. CASE EmitAudioEnd
      <2>1. pc.reader = "eosAudio" /\ pc'.reader = "eosVideo" /\ message' = message
            BY <1>3, Moves DEF EmitAudioEnd, IInv
      <2>2. message \in Messages /\ message.kind = "eos" /\ "audio" \in Tracks /\ "video" \in Tracks
            BY <2>1 DEF IInv, InFlight, Sending, Tracks
      <2>3. TrackOf(sent["out"], sent["audio"], "audio")'
            BY <2>1, <2>2, <1>3, PortCatchesUp DEF EmitAudioEnd, Pending, Concerns
      <2>4. sent'["out"] = sent["out"] /\ sent'["video"] = sent["video"]
            BY <1>3 DEF EmitAudioEnd, Send, IInv, Types, Ports, Tracks
      <2>5. PICK h \in Seq(Messages) : sent["out"] = Append(h, message) /\ TrackOf(h, sent["video"], "video")
            BY <2>1, <2>2 DEF IInv, PortsHold, Pending
      <2>6. ~Pending("audio")' /\ Pending("video")'  BY <2>1 DEF Pending
      <2> QED  BY <2>1, <2>3, <2>4, <2>5, <2>6 DEF PortsHold, Tracks
<1>4. CASE EmitVideoEnd
      <2>1. pc.reader = "eosVideo" /\ pc'.reader = "gone"
            BY <1>4, Moves DEF EmitVideoEnd, IInv
      <2>2. message \in Messages /\ message.kind = "eos" /\ "video" \in Tracks /\ "audio" \in Tracks
            BY <2>1 DEF IInv, InFlight, Sending, Tracks
      <2>3. TrackOf(sent["out"], sent["video"], "video")'
            BY <2>1, <2>2, <1>4, PortCatchesUp DEF EmitVideoEnd, Pending, Concerns
      <2>4. sent'["out"] = sent["out"] /\ sent'["audio"] = sent["audio"]
            BY <1>4 DEF EmitVideoEnd, Send, IInv, Types, Ports, Tracks
      <2>5. TrackOf(sent["out"], sent["audio"], "audio")  BY <2>1, <2>2 DEF IInv, PortsHold, Pending
      <2>6. \A u \in Tracks : ~Pending(u)'  BY <2>1 DEF Pending
      <2> QED  BY <2>3, <2>4, <2>5, <2>6 DEF PortsHold, Tracks
<1>5. CASE ReaderWaits
      <2>1. \/ pc'.reader = pc.reader /\ message' = message
            \/ pc.reader \notin Owing /\ pc'.reader \notin Owing
            BY <1>5, Moves DEF ReaderWaits, WaitOver, IInv, Types, Apart, Alone, Owing, CallerPlaces, ReaderPlaces
      <2> QED  BY <2>1, <1>5, PortsStay DEF ReaderWaits, WaitOver
<1>6. CASE Renew
      <2>1. \/ pc'.reader = pc.reader /\ message' = message
            \/ pc.reader \notin Owing /\ pc'.reader \notin Owing
            BY <1>6, Moves DEF Renew, IInv, Types, Apart, Alone, Owing, CallerPlaces, ReaderPlaces
      <2> QED  BY <2>1, <1>6, PortsStay DEF Renew
<1>7. CASE Reopened
      <2>1. \/ pc'.reader = pc.reader /\ message' = message
            \/ pc.reader \notin Owing /\ pc'.reader \notin Owing
            BY <1>7, Moves DEF Reopened, IInv, Types, Apart, Alone, Owing, CallerPlaces, ReaderPlaces
      <2> QED  BY <2>1, <1>7, PortsStay DEF Reopened
<1>8. CASE ReopenFails
      <2>1. \/ pc'.reader = pc.reader /\ message' = message
            \/ pc.reader \notin Owing /\ pc'.reader \notin Owing
            BY <1>8, Moves DEF ReopenFails, IInv, Types, Apart, Alone, Owing, CallerPlaces, ReaderPlaces
      <2> QED  BY <2>1, <1>8, PortsStay DEF ReopenFails
<1> QED  BY <1>1, <1>2, <1>3, <1>4, <1>5, <1>6, <1>7, <1>8 DEF EmitStep

-----------------------------------------------------------------------------
(* The theorems                                                            *)

\* The invariant holds at first, ...
LEMMA InitHolds == Init => IInv
<1> SUFFICES ASSUME Init PROVE IInv  OBVIOUS
<1>1. \A p \in Ports : sent[p] = <<>>  BY DEF Init
<1>2. Stamps = {}  BY <1>1 DEF Stamps
<1>3. Types
      <2>1. limit \in Int  BY SourceAssumption DEF Init
      <2>2. <<>> \in Seq(Messages)  OBVIOUS
      <2>3. sent \in [Ports -> Seq(Messages)]  BY <2>2 DEF Init
      <2>4. pc \in [caller : CallerPlaces, reader : ReaderPlaces]  BY DEF Init, CallerPlaces, ReaderPlaces
      <2>5. message \in [kind : Silent]  BY DEF Init, NoMessage, Silent
      <2> QED  BY <2>1, <2>3, <2>4, <2>5 DEF Init, Types
<1>4. Delivered  BY SourceAssumption DEF Init, Delivered
<1>5. Apart /\ Disconnected  BY DEF Init, Apart, Disconnected, Opening
<1>6. StampsFit /\ NothingYet  BY <1>2 DEF Init, StampsFit, NothingYet, GenerationIsConnection, Opening
<1>7. InFlight  BY DEF Init, InFlight, Sending
<1>8. NumbersRun /\ NumberedByTrack  BY <1>1 DEF Init, NumbersRun, Reading, NumberedByTrack, Ports
<1>9. PortsHold
      <2>1. ASSUME NEW t \in Tracks  PROVE TrackOf(sent["out"], sent[t], t) /\ ~Pending(t)
            <3>1. sent["out"] = <<>> /\ sent[t] = <<>>  BY <1>1 DEF Ports
            <3>2. {i \in 1 .. 0 : Concerns(sent["out"][i], t)} = {}  OBVIOUS
            <3>3. Rank(sent["out"], t, 0) = 0  BY <3>2, FS_EmptySet DEF Rank
            <3>4. ~Pending(t)  BY DEF Init, Pending
            <3> QED  BY <3>1, <3>3, <3>4 DEF TrackOf
      <2> QED  BY <2>1 DEF PortsHold
<1> QED  BY <1>3, <1>4, <1>5, <1>6, <1>7, <1>8, <1>9 DEF IInv

\* ... and every step keeps it.
LEMMA StepHolds == IInv /\ [Next]_vars => IInv'
<1> SUFFICES ASSUME IInv, [Next]_vars PROVE IInv'  OBVIOUS
<1>1. CASE \E p \in Threads : OpenGeneration(p)
      BY <1>1, OpeningTypes, OpeningKeepsApart, OpeningKeepsStamps, OpeningKeepsFlight,
         OpeningKeepsNumbers, OpeningKeepsPorts DEF IInv
<1>2. CASE Start \/ StartFails \/ StartThread \/ CallerStops
      BY <1>2, CallerTypes, CallerKeepsApart, CallerKeepsStamps, CallerKeepsFlight,
         CallerKeepsNumbers, CallerKeepsPorts DEF IInv
<1>3. CASE LoopTest \/ ReadStopped \/ ReadAnswered \/ GotStep
      BY <1>3, GotTypes, GotKeepsApart, GotKeepsStamps, GotKeepsFlight,
         GotKeepsNumbers, GotKeepsPorts DEF IInv
<1>4. CASE EmitStep \/ ReaderWaits \/ Renew \/ Reopened \/ ReopenFails
      BY <1>4, SendingTypes, SendingKeepsApart, SendingKeepsStamps, SendingKeepsFlight,
         SendingKeepsNumbers, SendingKeepsPorts DEF IInv
<1>5. CASE UNCHANGED vars
      <2>1. UNCHANGED <<stopRequested, finished, generation, connected, interrupted, limit, pc, call,
                        cur, count, seqNo, message, link, attempts, sent, lifecycles, packets, failures>>
            BY <1>5 DEF vars, atomics, puller, locals, bounds
      <2>2. Types'  BY <2>1 DEF IInv, Types
      <2>3. Delivered' /\ Apart' /\ Disconnected'
            BY <2>1 DEF IInv, Delivered, Apart, Disconnected
      <2>4. StampsFit' /\ NothingYet'
            BY <2>1, NoNewStamp DEF IInv, StampsFit, NothingYet
      <2>5. InFlight'  BY <2>1 DEF IInv, InFlight
      <2>6. NumbersRun' /\ NumberedByTrack'
            BY <2>1, NumbersStay
      <2>7. PortsHold'  BY <2>1, PortsStay
      <2> QED  BY <2>2, <2>3, <2>4, <2>5, <2>6, <2>7 DEF IInv
<1> QED  BY <1>1, <1>2, <1>3, <1>4, <1>5 DEF Next, CallerStep, ReaderStep, Threads

\* Whatever the camera does and whenever the source is stopped: every variable has its type
\* and a series of failures stays within the limit (ReadLoop).
THEOREM WellTyped == Spec => []TypeOK
<1>1. IInv => TypeOK
      <2> SUFFICES ASSUME IInv PROVE TypeOK  OBVIOUS
      <2>1. {stopRequested, finished, connected, interrupted} \subseteq BOOLEAN  BY DEF IInv, Types
      <2>2. {generation, cur, count, link, attempts, lifecycles, packets, failures} \subseteq Nat
            BY DEF IInv, Types
      <2>3. limit \in Limits /\ (limit >= 0 => count <= limit)  BY DEF IInv, Types
      <2>4. pc.caller \in CallerPlaces /\ pc.reader \in ReaderPlaces
            /\ call \in {"none", "Start", "StopProduction", "Stop", "Deinit"}
            BY DEF IInv, Types
      <2>5. seqNo \in [Tracks -> 0 .. MaxPackets]
            <3>1. \A t \in Tracks : seqNo[t] \in 0 .. MaxPackets
                  BY SourceAssumption DEF IInv, Types, Delivered
            <3> QED  BY <3>1 DEF IInv, Types
      <2>6. message.kind \in Results
            <3>1. CASE message \in Messages  BY <3>1 DEF Messages, Results
            <3>2. CASE message \in [kind : Silent]  BY <3>2 DEF Silent, Results
            <3> QED  BY <3>1, <3>2 DEF IInv, Types
      <2> QED  BY <2>1, <2>2, <2>3, <2>4, <2>5, <2>6 DEF TypeOK, IInv, Types
<1> QED  BY InitHolds, StepHolds, <1>1, PTL DEF Spec

\* What a message says of its connection, of its place in the stream of its track, and on
\* which port it is, is true: through reconnects, stops that race with them, and restarts
\* (ReadLoop, EmitTrackPacket, OpenGeneration).
THEOREM MessagesTruthful == Spec => []MessagesTellTheirSource
<1>1. IInv => GenerationIsConnection /\ NumberedByTrack  BY DEF IInv, StampsFit
<1>2. IInv => PortsAgree  BY DEF IInv, PortsHold, Pending, PortsAgree
<1>3. IInv => GenerationIsConnection /\ NumberedByTrack /\ PortsAgree  BY <1>1, <1>2
<1>4. Spec => [](GenerationIsConnection /\ NumberedByTrack /\ PortsAgree)
      BY InitHolds, StepHolds, <1>3, PTL DEF Spec
<1>5. TypeOK /\ GenerationIsConnection /\ NumberedByTrack /\ PortsAgree => MessagesTellTheirSource
      BY DEF MessagesTellTheirSource
<1> QED  BY WellTyped, <1>4, <1>5, PTL

\* A source that reports itself finished sends nothing until it is started again
\* (IsProductionStopped, on which the drain of GracefulStop relies).
THEOREM FinishedIsSilent == Spec => NothingAfterFinished
<1>1. IInv /\ [Next]_vars => [sent' # sent => ~finished]_vars
      <2> SUFFICES ASSUME IInv, [Next]_vars, sent' # sent, vars' # vars PROVE ~finished  OBVIOUS
      <2>1. Next  OBVIOUS
      <2>2. pc.reader \in Sending
            <3>1. CASE \E p \in Threads : OpenGeneration(p)
                  BY <3>1 DEF OpenGeneration, OpenCheck, Dial, DialSucceeds, DialFails, OpenRecheck
            <3>2. CASE Start \/ StartFails \/ StartThread \/ CallerStops
                  BY <3>2 DEF Start, StartFails, StartThread, CallerStops, StopBegins, StopBumps,
                              RequestStop, JoinReader, StopEnds
            <3>3. CASE LoopTest \/ ReadStopped \/ ReadAnswered \/ GotStep
                  BY <3>3 DEF LoopTest, ReadStopped, ReadAnswered, GotStep, GotStale, GotNothing,
                              GotEnd, GotRetry, GotMessage
            <3>4. CASE EmitStep
                  BY <3>4 DEF EmitStep, EmitMixed, EmitTrack, EmitAudioEnd, EmitVideoEnd, Sending
            <3>5. CASE ReaderWaits \/ Renew \/ Reopened \/ ReopenFails
                  BY <3>5 DEF ReaderWaits, WaitOver, Renew, Reopened, ReopenFails
            <3> QED  BY <2>1, <3>1, <3>2, <3>3, <3>4, <3>5 DEF Next, CallerStep, ReaderStep, Threads
      <2> QED  BY <2>2 DEF IInv, Apart, Sending
<1> QED  BY InitHolds, StepHolds, <1>1, PTL DEF Spec, NothingAfterFinished

\* The inductive invariant.
THEOREM Invariant == Spec => []IInv
BY InitHolds, StepHolds, PTL DEF Spec

=============================================================================
