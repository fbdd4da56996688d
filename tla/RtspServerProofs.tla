-------------------------- MODULE RtspServerProofs --------------------------
(***************************************************************************)
(* Machine-checked proofs about RtspServer: for any number of clients,     *)
(* connections, requests, access units and lifecycles.                     *)
(***************************************************************************)
EXTENDS RtspServer, FiniteSetTheorems, SequenceTheorems, TLAPS

-----------------------------------------------------------------------------
(* The world of the io thread                                              *)

Managers == [sessions : SUBSET Ids, active : [Addresses -> Nat], failures : [Addresses -> Nat],
             next : 1 .. MaxConnections + 1]
Sessions == [state : SessionStates, address : Addresses, playing : BOOLEAN, track : Modes \cup {"none"}]
Conns == [state : {"open", "closing", "closed"}, queue : Seq(Items)]
Worlds == [manager : Managers, session : [Ids -> Sessions], conn : [Ids -> Conns]]

\* The queues are bounded, and empty on a closed connection.
QueuesBounded(w) ==
  \A c \in Ids : /\ Len(w.conn[c].queue) <= MaxQueue
                 /\ w.conn[c].state = "closing" => w.conn[c].queue # <<>>
                 /\ w.conn[c].state = "closed" => w.conn[c].queue = <<>>

\* Every address counts its registered sessions.
From(w, a) == {c \in w.manager.sessions : w.session[c].address = a}
Counted(w) == \A a \in Addresses : w.manager.active[a] = Cardinality(From(w, a))

\* A registered session is open, one that is closed has a closed connection, and the ids from next
\* on are unused.
Agrees(w) ==
  /\ \A c \in w.manager.sessions : w.session[c].state = "open"
  /\ \A c \in Ids : w.session[c].state = "closed" => w.conn[c].state = "closed"
  /\ \A c \in Ids : c >= w.manager.next =>
       w.session[c].state = "unborn" /\ ~w.session[c].playing /\ w.conn[c].state = "closed"

Sound(w) == w \in Worlds /\ QueuesBounded(w) /\ Counted(w) /\ Agrees(w)

-----------------------------------------------------------------------------
(* Closing sessions                                                        *)

LEMMA IdsFinite ==
  /\ IsFiniteSet(Ids)
  /\ \A S \in SUBSET Ids : IsFiniteSet(S) /\ Cardinality(S) \in Nat
<1>1. IsFiniteSet(Ids)
  BY ServerAssumption, FS_Interval DEF Ids
<1> QED BY <1>1, FS_Subset, FS_CardinalityType

ClosedSession(s) == [s EXCEPT !.state = "closed", !.playing = FALSE, !.track = "none"]
OpenOf(w, cs) == {c \in cs : w.session[c].state = "open"}
Freed(w, cs, a) == Cardinality({c \in cs \cap w.manager.sessions : w.session[c].address = a})

LEMMA ClosedSessionIs ==
  ASSUME NEW s \in Sessions
  PROVE  /\ ClosedSession(s) \in Sessions /\ ClosedSession(s).address = s.address
         /\ ClosedSession(s).state = "closed" /\ ~ClosedSession(s).playing
         /\ ClosedSession(s).track = "none"
BY DEF Sessions, ClosedSession, SessionStates

LEMMA CloseConnectionsIs ==
  ASSUME NEW w \in Worlds, NEW cs \in SUBSET Ids
  PROVE  /\ CloseConnections(w, cs) \in Worlds
         /\ CloseConnections(w, cs).manager = w.manager
         /\ CloseConnections(w, cs).session = w.session
         /\ CloseConnections(w, cs).conn =
              [c \in Ids |-> IF c \in cs THEN [state |-> "closed", queue |-> <<>>] ELSE w.conn[c]]
<1> DEFINE f == [c \in Ids |-> IF c \in cs THEN [state |-> "closed", queue |-> <<>>] ELSE w.conn[c]]
<1>1. CloseConnections(w, cs) = [w EXCEPT !.conn = f]
  BY DEF CloseConnections, Worlds
<1>2. [state |-> "closed", queue |-> <<>>] \in Conns
  BY EmptySeq DEF Conns
<1>3. f \in [Ids -> Conns]
  BY <1>2 DEF Worlds
<1> HIDE DEF f
<1>4. [w EXCEPT !.conn = f] \in Worlds /\ [w EXCEPT !.conn = f].conn = f
  BY <1>3 DEF Worlds
<1>5. [w EXCEPT !.conn = f].manager = w.manager /\ [w EXCEPT !.conn = f].session = w.session
  BY DEF Worlds
<1> QED BY <1>1, <1>4, <1>5 DEF f

LEMMA EndSessionsIs ==
  ASSUME NEW w \in Worlds, NEW cs \in SUBSET Ids
  PROVE  /\ EndSessions(w, cs) \in Worlds
         /\ EndSessions(w, cs).manager = w.manager
         /\ EndSessions(w, cs).conn = w.conn
         /\ EndSessions(w, cs).session =
              [c \in Ids |-> IF c \in cs THEN ClosedSession(w.session[c]) ELSE w.session[c]]
<1> DEFINE f == [c \in Ids |-> IF c \in cs THEN ClosedSession(w.session[c]) ELSE w.session[c]]
<1>1. EndSessions(w, cs) = [w EXCEPT !.session = f]
  BY DEF EndSessions, ClosedSession, Worlds
<1>2. \A s \in Sessions : ClosedSession(s) \in Sessions
  BY ClosedSessionIs
<1>3. f \in [Ids -> Sessions]
  BY <1>2 DEF Worlds
<1> HIDE DEF f
<1>4. [w EXCEPT !.session = f] \in Worlds /\ [w EXCEPT !.session = f].session = f
  BY <1>3 DEF Worlds
<1>5. [w EXCEPT !.session = f].manager = w.manager /\ [w EXCEPT !.session = f].conn = w.conn
  BY DEF Worlds
<1> QED BY <1>1, <1>4, <1>5 DEF f

LEMMA UnregisterIs ==
  ASSUME NEW w \in Worlds, NEW cs \in SUBSET Ids
  PROVE  /\ Unregister(w, cs) \in Worlds
         /\ Unregister(w, cs).session = w.session /\ Unregister(w, cs).conn = w.conn
         /\ Unregister(w, cs).manager.sessions = w.manager.sessions \ cs
         /\ Unregister(w, cs).manager.next = w.manager.next
         /\ Unregister(w, cs).manager.failures = w.manager.failures
         /\ \A a \in Addresses : Unregister(w, cs).manager.active[a] =
              IF w.manager.active[a] > Freed(w, cs, a) THEN w.manager.active[a] - Freed(w, cs, a) ELSE 0
<1> DEFINE f == [a \in Addresses |-> IF w.manager.active[a] > Freed(w, cs, a)
                                     THEN w.manager.active[a] - Freed(w, cs, a) ELSE 0]
           m == [w.manager EXCEPT !.sessions = @ \ cs, !.active = f]
<1>1. Unregister(w, cs) = [w EXCEPT !.manager = m]
  BY DEF Unregister, Freed
<1>2. \A a \in Addresses : Freed(w, cs, a) \in Nat
  BY IdsFinite DEF Freed
<1>3. f \in [Addresses -> Nat]
  BY <1>2 DEF Worlds, Managers
<1> HIDE DEF f
<1>4. /\ m \in Managers /\ m.sessions = w.manager.sessions \ cs /\ m.active = f
      /\ m.next = w.manager.next /\ m.failures = w.manager.failures
  BY <1>3 DEF Worlds, Managers
<1> HIDE DEF m
<1>5. [w EXCEPT !.manager = m] \in Worlds /\ [w EXCEPT !.manager = m].manager = m
  BY <1>4 DEF Worlds
<1>6. [w EXCEPT !.manager = m].session = w.session /\ [w EXCEPT !.manager = m].conn = w.conn
  BY DEF Worlds
<1> QED BY <1>1, <1>4, <1>5, <1>6 DEF f

LEMMA CloseBothIs ==
  ASSUME NEW w \in Worlds, NEW cs \in SUBSET Ids
  PROVE  LET v == CloseBoth(w, cs)
             open == OpenOf(w, cs)
         IN  /\ v \in Worlds
             /\ v.session = [c \in Ids |-> IF c \in open THEN ClosedSession(w.session[c]) ELSE w.session[c]]
             /\ v.conn = [c \in Ids |-> IF c \in cs THEN [state |-> "closed", queue |-> <<>>] ELSE w.conn[c]]
             /\ v.manager.sessions = w.manager.sessions \ open
             /\ v.manager.next = w.manager.next
             /\ v.manager.failures = w.manager.failures
             /\ \A a \in Addresses : v.manager.active[a] =
                  IF w.manager.active[a] > Freed(w, open, a) THEN w.manager.active[a] - Freed(w, open, a) ELSE 0
<1> DEFINE open == OpenOf(w, cs)
           w1 == CloseConnections(w, cs)
           w2 == EndSessions(w1, open)
<1>1. open \in SUBSET Ids
  BY DEF OpenOf
<1>2. CloseBoth(w, cs) = Unregister(w2, open)
  BY DEF CloseBoth, OpenOf
<1> HIDE DEF open
<1>3. /\ w1 \in Worlds /\ w1.manager = w.manager /\ w1.session = w.session
      /\ w1.conn = [c \in Ids |-> IF c \in cs THEN [state |-> "closed", queue |-> <<>>] ELSE w.conn[c]]
  BY CloseConnectionsIs
<1> HIDE DEF w1
<1>4. /\ w2 \in Worlds /\ w2.manager = w1.manager /\ w2.conn = w1.conn
      /\ w2.session = [c \in Ids |-> IF c \in open THEN ClosedSession(w1.session[c]) ELSE w1.session[c]]
  BY <1>1, <1>3, EndSessionsIs
<1> HIDE DEF w2
<1>5. /\ Unregister(w2, open) \in Worlds
      /\ Unregister(w2, open).session = w2.session /\ Unregister(w2, open).conn = w2.conn
      /\ Unregister(w2, open).manager.sessions = w2.manager.sessions \ open
      /\ Unregister(w2, open).manager.next = w2.manager.next
      /\ Unregister(w2, open).manager.failures = w2.manager.failures
      /\ \A a \in Addresses : Unregister(w2, open).manager.active[a] =
           IF w2.manager.active[a] > Freed(w2, open, a) THEN w2.manager.active[a] - Freed(w2, open, a) ELSE 0
  BY <1>1, <1>4, UnregisterIs
<1>6. \A c \in Ids : w2.session[c].address = w.session[c].address
  BY <1>3, <1>4, ClosedSessionIs DEF Worlds
<1>7. ASSUME NEW a \in Addresses PROVE Freed(w2, open, a) = Freed(w, open, a)
  <2>1. {c \in open \cap w2.manager.sessions : w2.session[c].address = a}
          = {c \in open \cap w.manager.sessions : w.session[c].address = a}
    BY <1>1, <1>3, <1>4, <1>6
  <2> QED BY <2>1 DEF Freed
<1> QED BY <1>2, <1>3, <1>4, <1>5, <1>7 DEF open

\* Closing some sessions closes all there is to close of them, gives back their places, and leaves
\* the others as they were.
LEMMA CloseBothSound ==
  ASSUME NEW w, Sound(w), NEW cs \in SUBSET Ids
  PROVE  Sound(CloseBoth(w, cs))
<1>1. PICK v : v = CloseBoth(w, cs)
  OBVIOUS
<1>2. PICK open : open = OpenOf(w, cs)
  OBVIOUS
<1>3. w \in Worlds /\ open \in SUBSET Ids
  BY <1>2 DEF Sound, OpenOf
<1>4. /\ v \in Worlds
      /\ v.session = [c \in Ids |-> IF c \in open THEN ClosedSession(w.session[c]) ELSE w.session[c]]
      /\ v.conn = [c \in Ids |-> IF c \in cs THEN [state |-> "closed", queue |-> <<>>] ELSE w.conn[c]]
      /\ v.manager.sessions = w.manager.sessions \ open
      /\ v.manager.next = w.manager.next
      /\ \A a \in Addresses : v.manager.active[a] =
           IF w.manager.active[a] > Freed(w, open, a) THEN w.manager.active[a] - Freed(w, open, a) ELSE 0
  BY <1>1, <1>2, <1>3, CloseBothIs
<1>5. QueuesBounded(v)
  <2>1. MaxQueue \in Nat /\ Len(<<>>) = 0
    BY ServerAssumption, EmptySeq
  <2> QED BY <1>4, <2>1 DEF QueuesBounded, Sound
<1>6. \A c \in Ids : v.session[c].address = w.session[c].address
  BY <1>3, <1>4, ClosedSessionIs DEF Worlds
<1>7. ASSUME NEW a \in Addresses PROVE v.manager.active[a] = Cardinality(From(v, a))
  <2>1. w.manager.sessions \in SUBSET Ids
    BY <1>3 DEF Worlds, Managers
  <2>2. From(w, a) \in SUBSET Ids /\ From(v, a) = From(w, a) \ open
    BY <1>4, <1>6, <2>1 DEF From
  <2>3. From(w, a) \cap open = {c \in open \cap w.manager.sessions : w.session[c].address = a}
    BY DEF From
  <2>4. Cardinality(From(v, a)) = Cardinality(From(w, a)) - Cardinality(From(w, a) \cap open)
    BY <2>2, IdsFinite, FS_Difference
  <2>5. /\ Cardinality(From(w, a)) \in Nat /\ Cardinality(From(v, a)) \in Nat
        /\ Cardinality(From(w, a) \cap open) \in Nat
    BY <2>2, IdsFinite
  <2>6. w.manager.active[a] = Cardinality(From(w, a)) /\ Freed(w, open, a) = Cardinality(From(w, a) \cap open)
    BY <2>3 DEF Sound, Counted, Freed
  <2>7. v.manager.active[a] =
          IF w.manager.active[a] > Freed(w, open, a) THEN w.manager.active[a] - Freed(w, open, a) ELSE 0
    BY <1>4
  <2> QED BY <2>4, <2>5, <2>6, <2>7
<1>8. Agrees(v)
  <2>1. \A c \in open : c \in cs
    BY <1>2 DEF OpenOf
  <2>2. \A c \in v.manager.sessions : v.session[c].state = "open"
    BY <1>3, <1>4 DEF Sound, Agrees, Worlds, Managers
  <2>3. \A c \in Ids : v.session[c].state = "closed" => v.conn[c].state = "closed"
    BY <1>3, <1>4, <2>1, ClosedSessionIs DEF Sound, Agrees, Worlds
  <2>4. \A c \in open : w.session[c].state = "open"
    BY <1>2 DEF OpenOf
  <2>5. \A c \in Ids : c >= v.manager.next =>
          v.session[c].state = "unborn" /\ ~v.session[c].playing /\ v.conn[c].state = "closed"
    BY <1>4, <2>4 DEF Sound, Agrees
  <2> QED BY <2>2, <2>3, <2>5 DEF Agrees
<1> QED BY <1>1, <1>4, <1>5, <1>7, <1>8 DEF Sound, Counted

-----------------------------------------------------------------------------
(* What a client makes of its queue                                        *)

Clients == [answer : {"none", "PLAY", "PAUSE", "SETUP"}, number : 0 .. MaxMedia, announced : BOOLEAN]
Ending == {Reply("PAUSE"), Reply("SETUP")}

\* A client that had received what r says, and then items 1 to i - 1 of its queue, expects media.
Expects(r, q, i) ==
  \/ r.answer = "PLAY" /\ \A k \in 1 .. i - 1 : q[k] \notin Ending
  \/ \E j \in 1 .. i - 1 : q[j] = Reply("PLAY") /\ \A k \in j + 1 .. i - 1 : q[k] \notin Ending

\* All media in a queue are expected when they arrive, and newer than what arrived before.
QueueTells(r, q) ==
  \A i \in 1 .. Len(q) : q[i].kind = "rtp" =>
    /\ Expects(r, q, i) /\ r.number < q[i].number
    /\ \A j \in 1 .. i - 1 : q[j].kind = "rtp" => q[j].number < q[i].number

Plays(w, c) == w.conn[c].state # "closed" /\ w.session[c].playing /\ w.session[c].track = "tcp"
ReadyForMedia(w, r, c) == Plays(w, c) => Expects(r[c], w.conn[c].queue, Len(w.conn[c].queue) + 1)
Told(w, r) == \A c \in Ids : QueueTells(r[c], w.conn[c].queue) /\ ReadyForMedia(w, r, c)

\* Everything the client has received or will is older than access unit n.
Older(r, q, n) == r.number < n /\ \A i \in 1 .. Len(q) : q[i].kind = "rtp" => q[i].number < n
AllOlder(w, r, n) == \A c \in Ids : Older(r[c], w.conn[c].queue, n)

LEMMA NothingQueued ==
  ASSUME NEW r, NEW n
  PROVE  QueueTells(r, <<>>) /\ (r.number < n => Older(r, <<>>, n))
<1>1. Len(<<>>) = 0
  BY EmptySeq
<1> QED BY <1>1 DEF QueueTells, Older

LEMMA QueuedTells ==
  ASSUME NEW r \in Clients, NEW q \in Seq(Items), NEW item \in Items, QueueTells(r, q),
         item.kind = "rtp" => Expects(r, q, Len(q) + 1) /\ Older(r, q, item.number)
  PROVE  QueueTells(r, Append(q, item))
<1> DEFINE p == Append(q, item)
<1>1. /\ Len(q) \in Nat /\ Len(p) = Len(q) + 1 /\ p[Len(q) + 1] = item
      /\ \A i \in 1 .. Len(q) : p[i] = q[i]
  BY AppendProperties, LenProperties
<1> HIDE DEF p
<1>2. ASSUME NEW i \in 1 .. Len(q) + 1, Expects(r, q, i) PROVE Expects(r, p, i)
  BY <1>1, <1>2 DEF Expects
<1>3. ASSUME NEW i \in 1 .. Len(p), p[i].kind = "rtp"
      PROVE  /\ Expects(r, p, i) /\ r.number < p[i].number
             /\ \A j \in 1 .. i - 1 : p[j].kind = "rtp" => p[j].number < p[i].number
  <2>1. CASE i \in 1 .. Len(q)
    <3>1. /\ Expects(r, q, i) /\ r.number < q[i].number
          /\ \A j \in 1 .. i - 1 : q[j].kind = "rtp" => q[j].number < q[i].number
      BY <1>1, <1>3, <2>1 DEF QueueTells
    <3> QED BY <1>1, <1>2, <2>1, <3>1
  <2>2. CASE i = Len(q) + 1
    <3>1. Expects(r, q, i) /\ Older(r, q, item.number)
      BY <1>1, <1>3, <2>2
    <3> QED BY <1>1, <1>2, <2>2, <3>1 DEF Older
  <2> QED BY <1>1, <2>1, <2>2
<1> QED BY <1>3 DEF QueueTells, p

LEMMA QueuedExpects ==
  ASSUME NEW r \in Clients, NEW q \in Seq(Items), NEW item \in Items,
         item = Reply("PLAY") \/ (Expects(r, q, Len(q) + 1) /\ item \notin Ending)
  PROVE  Expects(r, Append(q, item), Len(Append(q, item)) + 1)
<1> DEFINE p == Append(q, item)
<1>1. /\ Len(q) \in Nat /\ Len(p) = Len(q) + 1 /\ p[Len(q) + 1] = item
      /\ \A i \in 1 .. Len(q) : p[i] = q[i]
  BY AppendProperties, LenProperties
<1> HIDE DEF p
<1>2. CASE item = Reply("PLAY")
  BY <1>1, <1>2 DEF Expects, p
<1>3. CASE Expects(r, q, Len(q) + 1) /\ item \notin Ending
  <2>1. CASE r.answer = "PLAY" /\ \A k \in 1 .. Len(q) : q[k] \notin Ending
    BY <1>1, <1>3, <2>1 DEF Expects, p
  <2>2. ASSUME NEW j \in 1 .. Len(q), q[j] = Reply("PLAY"), \A k \in j + 1 .. Len(q) : q[k] \notin Ending
        PROVE  Expects(r, p, Len(p) + 1)
    BY SMTT(40), <1>1, <1>3, <2>2 DEF Expects
  <2> QED BY <1>1, <1>3, <2>1, <2>2 DEF Expects, p
<1> QED BY <1>2, <1>3

\* The client takes the first item.
LEMMA ReceivedTells ==
  ASSUME NEW r \in Clients, NEW q \in Seq(Items), q # <<>>, QueueTells(r, q)
  PROVE  /\ Receive(r, Head(q)) \in Clients /\ QueueTells(Receive(r, Head(q)), Tail(q))
         /\ r.announced => Receive(r, Head(q)).announced
         /\ Expects(r, q, Len(q) + 1) => Expects(Receive(r, Head(q)), Tail(q), Len(Tail(q)) + 1)
         /\ \A n \in Nat : Older(r, q, n) => Older(Receive(r, Head(q)), Tail(q), n)
<1> DEFINE t == Tail(q)
           s == Receive(r, Head(q))
<1>1. /\ Len(q) \in Nat \ {0} /\ Len(t) = Len(q) - 1 /\ Head(q) = q[1]
      /\ \A i \in 1 .. Len(q) - 1 : t[i] = q[i + 1]
      /\ \A i \in 1 .. Len(q) : q[i] \in Items
  BY HeadTailProperties, LenProperties, ElementOfSeq, EmptySeq
<1> HIDE DEF t
<1>2. CASE q[1].kind = "reply"
  <2>1. /\ s \in Clients /\ s.number = r.number /\ s.announced = r.announced
        /\ s.answer = IF q[1].method = "other" THEN r.answer ELSE q[1].method
    BY <1>1, <1>2 DEF Receive, Clients, Items
  <2>2. q[1] = Reply(q[1].method)
    BY <1>1, <1>2 DEF Items, Reply
  <2> HIDE DEF s
  <2>3. ASSUME NEW i \in 1 .. Len(q), Expects(r, q, i + 1) PROVE Expects(s, t, i)
    <3>1. CASE r.answer = "PLAY" /\ \A k \in 1 .. i : q[k] \notin Ending
      <4>1. q[1] \notin Ending
        BY <3>1
      <4>2. s.answer = "PLAY"
        <5>1. q[1].method \in {"PLAY", "PAUSE", "SETUP", "other"}
          BY <1>1, <1>2 DEF Items
        <5> QED BY <2>1, <2>2, <3>1, <4>1, <5>1 DEF Ending
      <4> QED BY <1>1, <3>1, <4>2 DEF Expects
    <3>2. ASSUME NEW j \in 1 .. i, q[j] = Reply("PLAY"), \A k \in j + 1 .. i : q[k] \notin Ending
          PROVE  Expects(s, t, i)
      <4>1. CASE j = 1
        <5>1. s.answer = "PLAY"
          BY <2>1, <2>2, <3>2, <4>1 DEF Reply
        <5> QED BY <1>1, <3>2, <4>1, <5>1 DEF Expects
      <4>2. CASE j > 1
        <5>1. j - 1 \in 1 .. i - 1 /\ t[j - 1] = Reply("PLAY")
          BY <1>1, <3>2, <4>2
        <5>2. \A k \in (j - 1) + 1 .. i - 1 : t[k] \notin Ending
          BY <1>1, <3>2, <4>2
        <5> QED BY <5>1, <5>2 DEF Expects
      <4> QED BY <4>1, <4>2
    <3> QED BY <2>3, <3>1, <3>2 DEF Expects
  <2>4. QueueTells(s, t)
    <3>1. ASSUME NEW i \in 1 .. Len(t), t[i].kind = "rtp"
          PROVE  /\ Expects(s, t, i) /\ s.number < t[i].number
                 /\ \A j \in 1 .. i - 1 : t[j].kind = "rtp" => t[j].number < t[i].number
      <4>1. i + 1 \in 1 .. Len(q) /\ i \in 1 .. Len(q) /\ t[i] = q[i + 1]
        BY <1>1
      <4>2. /\ Expects(r, q, i + 1) /\ r.number < q[i + 1].number
            /\ \A j \in 1 .. i : q[j].kind = "rtp" => q[j].number < q[i + 1].number
        BY <3>1, <4>1 DEF QueueTells
      <4> QED BY <1>1, <2>1, <2>3, <4>1, <4>2
    <3> QED BY <3>1 DEF QueueTells
  <2>5. \A n \in Nat : Older(r, q, n) => Older(s, t, n)
    BY <1>1, <2>1 DEF Older
  <2>6. Expects(r, q, Len(q) + 1) => Expects(s, t, Len(t) + 1)
    BY <1>1, <2>3
  <2> QED BY <2>1, <2>4, <2>5, <2>6 DEF s, t
<1>3. CASE q[1].kind = "rtp"
  <2>1. Expects(r, q, 1) /\ r.number < q[1].number
    BY <1>1, <1>3 DEF QueueTells
  <2>2. r.answer = "PLAY"
    BY <2>1 DEF Expects
  <2>3. q[1].number \in 1 .. MaxMedia
    BY <1>1, <1>3 DEF Items
  <2>4. s \in Clients /\ s.number = q[1].number /\ s.announced = r.announced /\ s.answer = r.answer
    <3>1. (r.announced /\ r.answer = "PLAY" /\ r.number < q[1].number) = r.announced
      BY <2>1, <2>2 DEF Clients
    <3>2. s = [r EXCEPT !.number = q[1].number, !.announced = r.announced]
      BY <1>1, <1>3, <3>1 DEF Receive
    <3>3. q[1].number \in 0 .. MaxMedia /\ r.announced \in BOOLEAN
      BY <2>3, ServerAssumption DEF Clients
    <3> HIDE DEF s
    <3> QED BY <3>2, <3>3 DEF Clients
  <2>5. q[1] # Reply("PLAY")
    BY <1>3 DEF Reply
  <2> HIDE DEF s
  <2>6. ASSUME NEW i \in 1 .. Len(q), Expects(r, q, i + 1) PROVE Expects(s, t, i)
    <3>1. CASE r.answer = "PLAY" /\ \A k \in 1 .. i : q[k] \notin Ending
      BY <1>1, <2>4, <3>1 DEF Expects
    <3>2. ASSUME NEW j \in 1 .. i, q[j] = Reply("PLAY"), \A k \in j + 1 .. i : q[k] \notin Ending
          PROVE  Expects(s, t, i)
      <4>1. j - 1 \in 1 .. i - 1 /\ t[j - 1] = Reply("PLAY")
        BY <1>1, <2>5, <3>2
      <4>2. \A k \in (j - 1) + 1 .. i - 1 : t[k] \notin Ending
        BY <1>1, <3>2, <4>1
      <4> QED BY <4>1, <4>2 DEF Expects
    <3> QED BY <2>6, <3>1, <3>2 DEF Expects
  <2>7. QueueTells(s, t)
    <3>1. ASSUME NEW i \in 1 .. Len(t), t[i].kind = "rtp"
          PROVE  /\ Expects(s, t, i) /\ s.number < t[i].number
                 /\ \A j \in 1 .. i - 1 : t[j].kind = "rtp" => t[j].number < t[i].number
      <4>1. i + 1 \in 1 .. Len(q) /\ i \in 1 .. Len(q) /\ t[i] = q[i + 1] /\ 1 \in 1 .. i
        BY <1>1
      <4>2. /\ Expects(r, q, i + 1)
            /\ \A j \in 1 .. i : q[j].kind = "rtp" => q[j].number < q[i + 1].number
        BY <3>1, <4>1 DEF QueueTells
      <4>3. q[1].number < q[i + 1].number
        BY <1>3, <4>1, <4>2
      <4> QED BY <1>1, <2>4, <2>6, <4>1, <4>2, <4>3
    <3> QED BY <3>1 DEF QueueTells
  <2>8. \A n \in Nat : Older(r, q, n) => Older(s, t, n)
    BY <1>1, <1>3, <2>4 DEF Older
  <2>9. Expects(r, q, Len(q) + 1) => Expects(s, t, Len(t) + 1)
    BY <1>1, <2>6
  <2> QED BY <2>4, <2>7, <2>8, <2>9 DEF s, t
<1> QED BY <1>1, <1>2, <1>3 DEF Items

-----------------------------------------------------------------------------
(* Operations of the io thread on its world                                *)

\* The queue of c is what it was, or gone, or has got an item.
Fed(w, v, cs, item) ==
  \A c \in Ids : LET q == w.conn[c].queue
                     p == v.conn[c].queue
                 IN  p = q \/ p = <<>> \/ (c \in cs /\ p = Append(q, item))

\* Sessions only age.
Ages(w, v) ==
  /\ v.manager.next = w.manager.next
  /\ \A c \in Ids : \/ v.session[c].state = w.session[c].state
                    \/ w.session[c].state = "open" /\ v.session[c].state = "closed"

Received == [Ids -> Clients]
Good(w, r) == Sound(w) /\ Told(w, r)

LEMMA WorldParts ==
  ASSUME NEW w \in Worlds, NEW c \in Ids
  PROVE  /\ w.session[c] \in Sessions /\ w.conn[c] \in Conns /\ w.conn[c].queue \in Seq(Items)
         /\ Len(w.conn[c].queue) \in Nat /\ w.manager \in Managers
BY LenProperties DEF Worlds, Conns

LEMMA CloseBothGood ==
  ASSUME NEW w, NEW r \in Received, Sound(w), NEW cs \in SUBSET Ids,
         \A c \in Ids \ cs : QueueTells(r[c], w.conn[c].queue) /\ ReadyForMedia(w, r, c)
  PROVE  LET v == CloseBoth(w, cs)
         IN  /\ Good(v, r) /\ Ages(w, v)
             /\ \A c \in Ids : v.conn[c].queue = w.conn[c].queue \/ v.conn[c].queue = <<>>
             /\ \A n \in Nat : AllOlder(w, r, n) => AllOlder(v, r, n)
             /\ \A c \in cs : v.session[c].state # "open" /\ v.conn[c].state = "closed"
             /\ \A c \in cs : w.session[c].state \in {"open", "closed"} => v.session[c].state = "closed"
<1>1. PICK v : v = CloseBoth(w, cs)
  OBVIOUS
<1>2. PICK open : open = OpenOf(w, cs)
  OBVIOUS
<1>3. w \in Worlds /\ open \in SUBSET Ids /\ Sound(w) /\ Sound(v)
  BY <1>1, <1>2, CloseBothSound DEF Sound, OpenOf
<1>4. /\ v.session = [c \in Ids |-> IF c \in open THEN ClosedSession(w.session[c]) ELSE w.session[c]]
      /\ v.conn = [c \in Ids |-> IF c \in cs THEN [state |-> "closed", queue |-> <<>>] ELSE w.conn[c]]
      /\ v.manager.next = w.manager.next
  BY <1>1, <1>2, <1>3, CloseBothIs
<1>5. ASSUME NEW c \in Ids PROVE QueueTells(r[c], v.conn[c].queue) /\ ReadyForMedia(v, r, c)
  <2>1. CASE c \in cs
    <3>1. v.conn[c].state = "closed" /\ v.conn[c].queue = <<>>
      BY <1>4, <2>1
    <3> QED BY <3>1, NothingQueued DEF ReadyForMedia, Plays
  <2>2. CASE c \notin cs
    <3>1. v.conn[c] = w.conn[c] /\ v.session[c] = w.session[c]
      BY <1>2, <1>4, <2>2 DEF OpenOf
    <3> QED BY <2>2, <3>1 DEF ReadyForMedia, Plays
  <2> QED BY <2>1, <2>2
<1>6. ASSUME NEW n \in Nat, AllOlder(w, r, n) PROVE AllOlder(v, r, n)
  <2>1. ASSUME NEW c \in Ids PROVE Older(r[c], v.conn[c].queue, n)
    <3>1. Older(r[c], w.conn[c].queue, n)
      BY <1>6 DEF AllOlder
    <3>2. v.conn[c].queue = w.conn[c].queue \/ v.conn[c].queue = <<>>
      BY <1>4
    <3> QED BY <3>1, <3>2, NothingQueued DEF Older
  <2> QED BY <2>1 DEF AllOlder
<1>7. \A c \in Ids : v.session[c].state = IF c \in open THEN "closed" ELSE w.session[c].state
  BY <1>3, <1>4, WorldParts, ClosedSessionIs
<1>8. Ages(w, v)
  BY <1>2, <1>4, <1>7 DEF Ages, OpenOf
<1>9. /\ \A c \in cs : v.session[c].state # "open" /\ v.conn[c].state = "closed"
      /\ \A c \in cs : w.session[c].state \in {"open", "closed"} => v.session[c].state = "closed"
  BY <1>2, <1>4, <1>7 DEF OpenOf
<1>10. Good(v, r)
  BY <1>3, <1>5 DEF Good, Told
<1>11. \A c \in Ids : v.conn[c].queue = w.conn[c].queue \/ v.conn[c].queue = <<>>
  BY <1>4
<1>12. \A n \in Nat : AllOlder(w, r, n) => AllOlder(v, r, n)
  BY <1>6
<1> QED BY <1>1, <1>8, <1>9, <1>10, <1>11, <1>12

\* What is enqueued: media for a client that expects them and has nothing newer, or an answer, PLAY
\* if the session now plays.
MayEnqueue(w, r, c, item) ==
  w.conn[c].state # "closed" =>
    /\ item.kind = "rtp" =>
         Expects(r[c], w.conn[c].queue, Len(w.conn[c].queue) + 1) /\ Older(r[c], w.conn[c].queue, item.number)
    /\ Plays(w, c) =>
         \/ item = Reply("PLAY")
         \/ Expects(r[c], w.conn[c].queue, Len(w.conn[c].queue) + 1) /\ item \notin Ending

LEMMA EnqueueGood ==
  ASSUME NEW w, NEW r \in Received, Sound(w), NEW cs \in SUBSET Ids, NEW item \in Items,
         \A c \in Ids : QueueTells(r[c], w.conn[c].queue),
         \A c \in Ids \ cs : ReadyForMedia(w, r, c),
         \A c \in cs : MayEnqueue(w, r, c, item)
  PROVE  LET v == EnqueueWrite(w, cs, item)
         IN  /\ Good(v, r) /\ Ages(w, v) /\ Fed(w, v, cs, item)
             /\ \A n \in Nat : AllOlder(w, r, n) /\ (item.kind = "rtp" => item.number < n) => AllOlder(v, r, n)
<1>1. PICK alive : alive = {c \in cs : w.conn[c].state # "closed"}
  OBVIOUS
<1>2. PICK slow : slow = {c \in alive : Len(w.conn[c].queue) >= MaxQueue}
  OBVIOUS
<1>3. PICK f : f = [c \in Ids |-> IF c \in alive \ slow
                                  THEN [w.conn[c] EXCEPT !.queue = Append(@, item)] ELSE w.conn[c]]
  OBVIOUS
<1>4. PICK u : u = [w EXCEPT !.conn = f]
  OBVIOUS
<1>5. EnqueueWrite(w, cs, item) = CloseBoth(u, slow)
  BY <1>1, <1>2, <1>3, <1>4 DEF EnqueueWrite
<1>6. w \in Worlds /\ slow \in SUBSET Ids /\ alive \in SUBSET Ids /\ slow \subseteq alive
  BY <1>1, <1>2 DEF Sound
<1>7. \A k \in Conns : LET a == [k EXCEPT !.queue = Append(@, item)]
                       IN  /\ a \in Conns /\ a.state = k.state /\ a.queue = Append(k.queue, item)
                           /\ Len(a.queue) = Len(k.queue) + 1 /\ a.queue # <<>>
  <2>1. ASSUME NEW k \in Conns
        PROVE  /\ Append(k.queue, item) \in Seq(Items) /\ Len(Append(k.queue, item)) = Len(k.queue) + 1
               /\ Append(k.queue, item) # <<>>
    BY AppendProperties, LenProperties, EmptySeq DEF Conns
  <2> QED BY <2>1 DEF Conns
<1>8. /\ u \in Worlds /\ u.manager = w.manager /\ u.session = w.session
      /\ \A c \in Ids : u.conn[c].state = w.conn[c].state
      /\ \A c \in alive \ slow : /\ u.conn[c].queue = Append(w.conn[c].queue, item)
                                 /\ Len(u.conn[c].queue) = Len(w.conn[c].queue) + 1 /\ u.conn[c].queue # <<>>
      /\ \A c \in Ids \ (alive \ slow) : u.conn[c] = w.conn[c]
  <2>1. f \in [Ids -> Conns]
    BY <1>3, <1>6, <1>7, WorldParts
  <2>2. u \in Worlds /\ u.conn = f /\ u.manager = w.manager /\ u.session = w.session
    BY <1>4, <1>6, <2>1 DEF Worlds
  <2>3. ASSUME NEW c \in alive \ slow
        PROVE  /\ u.conn[c].queue = Append(w.conn[c].queue, item) /\ u.conn[c].state = w.conn[c].state
               /\ Len(u.conn[c].queue) = Len(w.conn[c].queue) + 1 /\ u.conn[c].queue # <<>>
    <3>1. u.conn[c] = [w.conn[c] EXCEPT !.queue = Append(@, item)] /\ w.conn[c] \in Conns
      BY <1>3, <1>6, <2>2, WorldParts
    <3> QED BY <1>7, <3>1
  <2>4. \A c \in Ids \ (alive \ slow) : u.conn[c] = w.conn[c]
    BY <1>3, <2>2
  <2> QED BY <2>2, <2>3, <2>4
<1>9. Sound(u)
  <2>1. ASSUME NEW c \in Ids
        PROVE  /\ Len(u.conn[c].queue) <= MaxQueue
               /\ u.conn[c].state = "closing" => u.conn[c].queue # <<>>
               /\ u.conn[c].state = "closed" => u.conn[c].queue = <<>>
    <3>1. CASE c \in alive \ slow
      <4>1. ~(Len(w.conn[c].queue) >= MaxQueue) /\ w.conn[c].state # "closed"
        BY <1>1, <1>2, <3>1
      <4>2. Len(w.conn[c].queue) \in Nat /\ MaxQueue \in Nat
        BY <1>6, WorldParts, ServerAssumption
      <4> QED BY <1>8, <3>1, <4>1, <4>2
    <3>2. CASE c \notin alive \ slow
      BY <1>8, <3>2 DEF Sound, QueuesBounded
    <3> QED BY <3>1, <3>2
  <2>2. Counted(u)
    BY <1>8 DEF Sound, Counted, From
  <2>3. Agrees(u)
    BY <1>8 DEF Sound, Agrees
  <2> QED BY <1>8, <2>1, <2>2, <2>3 DEF Sound, QueuesBounded
<1>10. \A c \in Ids \ slow : QueueTells(r[c], u.conn[c].queue) /\ ReadyForMedia(u, r, c)
  <2>1. ASSUME NEW c \in alive \ slow
        PROVE  QueueTells(r[c], u.conn[c].queue) /\ ReadyForMedia(u, r, c)
    <3>1. c \in cs /\ c \in Ids /\ w.conn[c].state # "closed"
      BY <1>1, <1>6, <2>1
    <3>2. r[c] \in Clients /\ w.conn[c].queue \in Seq(Items) /\ QueueTells(r[c], w.conn[c].queue)
      BY <1>6, <3>1, WorldParts DEF Received
    <3>3. MayEnqueue(w, r, c, item)
      BY <3>1
    <3>4. u.conn[c].queue = Append(w.conn[c].queue, item)
      BY <1>8, <2>1
    <3>5. QueueTells(r[c], u.conn[c].queue)
      BY <3>1, <3>2, <3>3, <3>4, QueuedTells DEF MayEnqueue
    <3>6. ASSUME Plays(u, c) PROVE Expects(r[c], u.conn[c].queue, Len(u.conn[c].queue) + 1)
      <4>1. Plays(w, c)
        BY <1>8, <3>1, <3>6 DEF Plays
      <4> QED BY <3>1, <3>2, <3>3, <3>4, <4>1, QueuedExpects DEF MayEnqueue
    <3> QED BY <3>5, <3>6 DEF ReadyForMedia
  <2>2. ASSUME NEW c \in Ids, c \notin alive
        PROVE  QueueTells(r[c], u.conn[c].queue) /\ ReadyForMedia(u, r, c)
    <3>1. u.conn[c] = w.conn[c] /\ u.session = w.session
      BY <1>8, <2>2
    <3>2. c \in cs => w.conn[c].state = "closed"
      BY <1>1, <2>2
    <3> QED BY <3>1, <3>2 DEF ReadyForMedia, Plays
  <2> QED BY <2>1, <2>2
<1>11. PICK v : v = CloseBoth(u, slow)
  OBVIOUS
<1>12. /\ Good(v, r) /\ Ages(u, v)
       /\ \A c \in Ids : v.conn[c].queue = u.conn[c].queue \/ v.conn[c].queue = <<>>
       /\ \A n \in Nat : AllOlder(u, r, n) => AllOlder(v, r, n)
  BY <1>6, <1>9, <1>10, <1>11, CloseBothGood
<1>13. Ages(w, v)
  BY <1>8, <1>12 DEF Ages
<1>14. Fed(w, v, cs, item)
  BY <1>1, <1>6, <1>8, <1>12 DEF Fed
<1>15. ASSUME NEW n \in Nat, AllOlder(w, r, n), item.kind = "rtp" => item.number < n PROVE AllOlder(u, r, n)
  <2>1. ASSUME NEW c \in alive \ slow PROVE Older(r[c], u.conn[c].queue, n)
    <3>1. /\ w.conn[c].queue \in Seq(Items) /\ u.conn[c].queue = Append(w.conn[c].queue, item)
          /\ Older(r[c], w.conn[c].queue, n)
      BY <1>6, <1>8, <1>15, <2>1, WorldParts DEF AllOlder
    <3> QED BY SMTT(40), <1>15, <3>1, AppendProperties, LenProperties DEF Older
  <2>2. ASSUME NEW c \in Ids \ (alive \ slow) PROVE Older(r[c], u.conn[c].queue, n)
    BY <1>8, <1>15, <2>2 DEF AllOlder
  <2> QED BY <2>1, <2>2 DEF AllOlder
<1>16. \A n \in Nat : AllOlder(w, r, n) /\ (item.kind = "rtp" => item.number < n) => AllOlder(v, r, n)
  BY <1>12, <1>15
<1> QED BY <1>5, <1>11, <1>12, <1>13, <1>14, <1>16

\* RtspConnection closes when what is queued has been written.
LEMMA CloseAfterFlushGood ==
  ASSUME NEW w, NEW r \in Received, Good(w, r), NEW c \in Ids
  PROVE  LET v == CloseAfterFlush(w, c)
         IN  /\ Good(v, r) /\ Ages(w, v)
             /\ \A d \in Ids : v.conn[d].queue = w.conn[d].queue \/ v.conn[d].queue = <<>>
             /\ \A n \in Nat : AllOlder(w, r, n) => AllOlder(v, r, n)
<1>1. PICK v : v = CloseAfterFlush(w, c)
  OBVIOUS
<1>2. w \in Worlds /\ Sound(w) /\ Told(w, r)
  BY DEF Good, Sound
<1>3. CASE w.conn[c].state = "closed"
  <2>1. v = w
    BY <1>1, <1>3 DEF CloseAfterFlush
  <2> QED BY <1>1, <1>2, <2>1 DEF Ages, Good
<1>4. CASE w.conn[c].state # "closed" /\ w.conn[c].queue = <<>>
  <2>1. v = CloseBoth(w, {c})
    BY <1>1, <1>4 DEF CloseAfterFlush
  <2> QED BY <1>1, <1>2, <2>1, CloseBothGood DEF Told
<1>5. CASE w.conn[c].state # "closed" /\ w.conn[c].queue # <<>>
  <2>1. PICK k : k = [w.conn[c] EXCEPT !.state = "closing"]
    OBVIOUS
  <2>2. k \in Conns /\ k.state = "closing" /\ k.queue = w.conn[c].queue
    BY <1>2, <2>1, WorldParts DEF Conns
  <2>3. PICK f : f = [w.conn EXCEPT ![c] = k]
    OBVIOUS
  <2>4. v = [w EXCEPT !.conn = f]
    BY <1>1, <1>2, <1>5, <2>1, <2>3 DEF CloseAfterFlush, Worlds, Conns
  <2>5. f \in [Ids -> Conns] /\ f[c] = k /\ \A d \in Ids \ {c} : f[d] = w.conn[d]
    BY <1>2, <2>2, <2>3 DEF Worlds
  <2>6. v \in Worlds /\ v.conn = f /\ v.manager = w.manager /\ v.session = w.session
    BY <1>2, <2>4, <2>5 DEF Worlds
  <2>7. \A d \in Ids : /\ v.conn[d].queue = w.conn[d].queue
                       /\ v.conn[d].state = "closed" <=> w.conn[d].state = "closed"
                       /\ v.conn[d].state = "closing" => d = c \/ w.conn[d].state = "closing"
    BY <1>5, <2>2, <2>5, <2>6
  <2>8. QueuesBounded(v)
    BY <1>2, <1>5, <2>7 DEF QueuesBounded, Sound
  <2>9. Counted(v) /\ Agrees(v)
    BY <1>2, <2>6, <2>7 DEF Sound, Counted, From, Agrees
  <2>10. Told(v, r)
    BY <1>2, <2>6, <2>7 DEF Told, ReadyForMedia, Plays
  <2>11. \A n \in Nat : AllOlder(w, r, n) => AllOlder(v, r, n)
    BY <2>7 DEF AllOlder
  <2>12. Ages(w, v)
    BY <2>6 DEF Ages
  <2> QED BY <1>1, <2>6, <2>7, <2>8, <2>9, <2>10, <2>11, <2>12 DEF Good, Sound
<1> QED BY <1>3, <1>4, <1>5

\* A session whose track or playing_ is set, of a connection that is alive.
LEMMA SessionSet ==
  ASSUME NEW w, NEW r \in Received, Good(w, r), NEW c \in Ids, w.conn[c].state # "closed",
         NEW s \in Sessions, s.state = w.session[c].state, s.address = w.session[c].address
  PROVE  LET v == [w EXCEPT !.session[c] = s]
         IN  /\ Sound(v) /\ Ages(w, v) /\ v.conn = w.conn /\ v.session[c] = s
             /\ \A d \in Ids : QueueTells(r[d], v.conn[d].queue)
             /\ \A d \in Ids \ {c} : ReadyForMedia(v, r, d)
             /\ (s.playing /\ s.track = "tcp" => w.session[c].playing /\ w.session[c].track = "tcp") =>
                  ReadyForMedia(v, r, c)
             /\ \A n \in Nat : AllOlder(w, r, n) => AllOlder(v, r, n)
<1>1. PICK v : v = [w EXCEPT !.session[c] = s]
  OBVIOUS
<1>2. w \in Worlds /\ Sound(w) /\ Told(w, r)
  BY DEF Good, Sound
<1>3. PICK f : f = [w.session EXCEPT ![c] = s]
  OBVIOUS
<1>4. v = [w EXCEPT !.session = f]
  BY <1>1, <1>2, <1>3 DEF Worlds
<1>5. f \in [Ids -> Sessions] /\ f[c] = s /\ \A d \in Ids \ {c} : f[d] = w.session[d]
  BY <1>2, <1>3 DEF Worlds
<1>6. v \in Worlds /\ v.session = f /\ v.manager = w.manager /\ v.conn = w.conn
  BY <1>2, <1>4, <1>5 DEF Worlds
<1>7. \A d \in Ids : v.session[d].state = w.session[d].state /\ v.session[d].address = w.session[d].address
  BY <1>5, <1>6
<1>8. w.manager.sessions \in SUBSET Ids
  BY <1>2, WorldParts DEF Worlds, Managers
<1>9. QueuesBounded(v)
  BY <1>2, <1>6 DEF QueuesBounded, Sound
<1>10. Counted(v)
  <2>1. \A a \in Addresses : From(v, a) = From(w, a)
    BY <1>6, <1>7, <1>8 DEF From
  <2> QED BY <1>2, <1>6, <2>1 DEF Sound, Counted
<1>11. Agrees(v)
  BY <1>2, <1>5, <1>6, <1>7, <1>8 DEF Sound, Agrees
<1>12. Ages(w, v)
  BY <1>6, <1>7 DEF Ages
<1>13. \A n \in Nat : AllOlder(w, r, n) => AllOlder(v, r, n)
  BY <1>6 DEF AllOlder
<1>14. /\ \A d \in Ids : QueueTells(r[d], v.conn[d].queue)
       /\ \A d \in Ids \ {c} : ReadyForMedia(v, r, d)
       /\ (s.playing /\ s.track = "tcp" => w.session[c].playing /\ w.session[c].track = "tcp") =>
            ReadyForMedia(v, r, c)
  BY <1>2, <1>5, <1>6 DEF Told, ReadyForMedia, Plays
<1> QED BY <1>1, <1>5, <1>6, <1>9, <1>10, <1>11, <1>12, <1>13, <1>14 DEF Sound

\* A session that nothing holds is destroyed.
LEMMA ForgetGood ==
  ASSUME NEW w, NEW r \in Received, Good(w, r), NEW ts
  PROVE  LET v == Forget(w, ts)
         IN  /\ Good(v, r) /\ v.manager = w.manager /\ v.conn = w.conn
             /\ \A c \in Ids : \/ v.session[c].state = w.session[c].state
                               \/ /\ w.session[c].state = "open" /\ v.session[c].state = "lost"
                                  /\ \A i \in 1 .. Len(ts) : c \notin ts[i].to
             /\ \A n \in Nat : AllOlder(w, r, n) => AllOlder(v, r, n)
<1>1. PICK v : v = Forget(w, ts)
  OBVIOUS
<1>2. w \in Worlds /\ Sound(w) /\ Told(w, r)
  BY DEF Good, Sound
<1>3. PICK gone : gone = {c \in Ids : w.session[c].state = "open" /\ c \notin w.manager.sessions
                                      /\ \A i \in 1 .. Len(ts) : c \notin ts[i].to}
  OBVIOUS
<1>4. PICK f : f = [c \in Ids |-> IF c \in gone
                                  THEN [w.session[c] EXCEPT !.state = "lost", !.playing = FALSE, !.track = "none"]
                                  ELSE w.session[c]]
  OBVIOUS
<1>5. v = [w EXCEPT !.session = f]
  BY <1>1, <1>3, <1>4 DEF Forget
<1>6. \A s \in Sessions : LET t == [s EXCEPT !.state = "lost", !.playing = FALSE, !.track = "none"]
                          IN  t \in Sessions /\ t.state = "lost" /\ ~t.playing /\ t.address = s.address
  BY DEF Sessions, SessionStates
<1>7. f \in [Ids -> Sessions]
  BY <1>2, <1>4, <1>6, WorldParts
<1>8. v \in Worlds /\ v.session = f /\ v.manager = w.manager /\ v.conn = w.conn
  BY <1>2, <1>5, <1>7 DEF Worlds
<1>9. \A c \in Ids : /\ v.session[c].address = w.session[c].address
                     /\ c \in gone => v.session[c].state = "lost" /\ ~v.session[c].playing
                     /\ c \notin gone => v.session[c] = w.session[c]
  <2>1. ASSUME NEW c \in gone
        PROVE  /\ v.session[c].address = w.session[c].address
               /\ v.session[c].state = "lost" /\ ~v.session[c].playing
    <3>1. /\ c \in Ids /\ w.session[c] \in Sessions
          /\ v.session[c] = [w.session[c] EXCEPT !.state = "lost", !.playing = FALSE, !.track = "none"]
      BY <1>2, <1>3, <1>4, <1>8, WorldParts
    <3> QED BY <1>6, <3>1
  <2>2. ASSUME NEW c \in Ids \ gone PROVE v.session[c] = w.session[c]
    BY <1>4, <1>8
  <2> QED BY <2>1, <2>2
<1>10. w.manager.sessions \in SUBSET Ids /\ \A c \in gone : c \notin w.manager.sessions /\ w.session[c].state = "open"
  BY <1>2, <1>3, WorldParts DEF Worlds, Managers
<1>11. QueuesBounded(v)
  BY <1>2, <1>8 DEF QueuesBounded, Sound
<1>12. Counted(v)
  <2>1. \A a \in Addresses : From(v, a) = From(w, a)
    BY <1>8, <1>9, <1>10 DEF From
  <2> QED BY <1>2, <1>8, <2>1 DEF Sound, Counted
<1>13. Agrees(v)
  BY <1>2, <1>8, <1>9, <1>10 DEF Sound, Agrees
<1>14. Told(v, r)
  BY <1>2, <1>8, <1>9 DEF Told, ReadyForMedia, Plays
<1>15. \A n \in Nat : AllOlder(w, r, n) => AllOlder(v, r, n)
  BY <1>8 DEF AllOlder
<1>16. \A c \in Ids : \/ v.session[c].state = w.session[c].state
                      \/ /\ w.session[c].state = "open" /\ v.session[c].state = "lost"
                         /\ \A i \in 1 .. Len(ts) : c \notin ts[i].to
  BY <1>3, <1>9
<1> QED BY <1>1, <1>8, <1>11, <1>12, <1>13, <1>14, <1>15, <1>16 DEF Good, Sound

\* The failures of an address are counted.
LEMMA FailuresGood ==
  ASSUME NEW w, NEW r, Good(w, r), NEW a \in Addresses, NEW n \in Nat
  PROVE  LET v == [w EXCEPT !.manager.failures[a] = n]
         IN  /\ Good(v, r) /\ v.conn = w.conn /\ v.session = w.session
             /\ v.manager.next = w.manager.next /\ v.manager.sessions = w.manager.sessions
<1>1. PICK v : v = [w EXCEPT !.manager.failures[a] = n]
  OBVIOUS
<1>2. w \in Worlds /\ Sound(w) /\ Told(w, r)
  BY DEF Good, Sound
<1>3. PICK f : f = [w.manager.failures EXCEPT ![a] = n]
  OBVIOUS
<1>4. PICK m : m = [w.manager EXCEPT !.failures = f]
  OBVIOUS
<1>5. f \in [Addresses -> Nat]
  BY <1>2, <1>3 DEF Worlds, Managers
<1>6. /\ m \in Managers /\ m.next = w.manager.next /\ m.sessions = w.manager.sessions
      /\ m.active = w.manager.active
  BY <1>2, <1>4, <1>5 DEF Worlds, Managers
<1>7. v = [w EXCEPT !.manager = m]
  BY <1>1, <1>2, <1>3, <1>4 DEF Worlds, Managers
<1>8. v \in Worlds /\ v.manager = m /\ v.session = w.session /\ v.conn = w.conn
  BY <1>2, <1>6, <1>7 DEF Worlds
<1>9. Sound(v)
  BY <1>2, <1>6, <1>8 DEF Sound, QueuesBounded, Counted, From, Agrees
<1>10. Told(v, r)
  BY <1>2, <1>8 DEF Told, ReadyForMedia, Plays
<1> QED BY <1>1, <1>6, <1>8, <1>9, <1>10 DEF Good

\* The first item of c has been written, and received.
Written(w, c) ==
  LET rest == Tail(w.conn[c].queue)
      u == [w EXCEPT !.conn[c].queue = rest]
  IN  IF rest = <<>> /\ w.conn[c].state = "closing" THEN CloseBoth(u, {c}) ELSE u
Heard(w, r, c) == [r EXCEPT ![c] = Receive(@, Head(w.conn[c].queue))]

LEMMA WriteDoneGood ==
  ASSUME NEW w, NEW r \in Received, Good(w, r), NEW c \in Ids, w.conn[c].queue # <<>>,
         \A d \in Ids : r[d].announced
  PROVE  LET v == Written(w, c)
             s == Heard(w, r, c)
         IN  /\ s \in Received /\ Good(v, s) /\ Ages(w, v)
             /\ \A d \in Ids : s[d].announced
             /\ \A n \in Nat : AllOlder(w, r, n) => AllOlder(v, s, n)
             /\ \A d \in Ids : \/ v.conn[d].queue = w.conn[d].queue \/ v.conn[d].queue = <<>>
                               \/ v.conn[d].queue = Tail(w.conn[d].queue) /\ w.conn[d].queue # <<>>
<1>1. PICK q : q = w.conn[c].queue
  OBVIOUS
<1>2. PICK k : k = [w.conn[c] EXCEPT !.queue = Tail(q)]
  OBVIOUS
<1>3. PICK f : f = [w.conn EXCEPT ![c] = k]
  OBVIOUS
<1>4. PICK u : u = [w EXCEPT !.conn[c].queue = Tail(w.conn[c].queue)]
  OBVIOUS
<1>5. PICK t : t = Receive(r[c], Head(q))
  OBVIOUS
<1>6. PICK s : s = [r EXCEPT ![c] = Receive(@, Head(w.conn[c].queue))]
  OBVIOUS
<1>7. w \in Worlds /\ Sound(w) /\ Told(w, r) /\ r[c] \in Clients
  BY DEF Good, Sound, Received
<1>8. /\ q \in Seq(Items) /\ q # <<>> /\ w.conn[c] \in Conns
      /\ Tail(q) \in Seq(Items) /\ Len(Tail(q)) = Len(q) - 1 /\ Len(q) \in Nat
  BY <1>1, <1>7, WorldParts, HeadTailProperties, LenProperties
<1>9. k \in Conns /\ k.queue = Tail(q) /\ k.state = w.conn[c].state
  BY <1>2, <1>8 DEF Conns
<1>10. f \in [Ids -> Conns] /\ f[c] = k /\ \A d \in Ids \ {c} : f[d] = w.conn[d]
  BY <1>3, <1>7, <1>9 DEF Worlds
<1>11. u = [w EXCEPT !.conn = f]
  BY <1>1, <1>2, <1>3, <1>4, <1>7 DEF Worlds, Conns
<1>12. u \in Worlds /\ u.conn = f /\ u.manager = w.manager /\ u.session = w.session
  BY <1>7, <1>10, <1>11 DEF Worlds
<1>13. /\ t \in Clients /\ QueueTells(t, Tail(q)) /\ t.announced
       /\ Expects(r[c], q, Len(q) + 1) => Expects(t, Tail(q), Len(Tail(q)) + 1)
       /\ \A n \in Nat : Older(r[c], q, n) => Older(t, Tail(q), n)
  <2>1. QueueTells(r[c], q)
    BY <1>1, <1>7 DEF Told
  <2> QED BY <1>5, <1>7, <1>8, <2>1, ReceivedTells
<1>14. s \in Received /\ s[c] = t /\ (\A d \in Ids \ {c} : s[d] = r[d]) /\ \A d \in Ids : s[d].announced
  BY <1>1, <1>5, <1>6, <1>13 DEF Received
<1>15. PICK x : x = IF Tail(w.conn[c].queue) = <<>> /\ w.conn[c].state = "closing" THEN CloseBoth(u, {c}) ELSE u
  OBVIOUS
<1> SUFFICES /\ Good(x, s) /\ Ages(w, x)
             /\ \A n \in Nat : AllOlder(w, r, n) => AllOlder(x, s, n)
             /\ \A d \in Ids : \/ x.conn[d].queue = w.conn[d].queue \/ x.conn[d].queue = <<>>
                               \/ x.conn[d].queue = Tail(w.conn[d].queue) /\ w.conn[d].queue # <<>>
  BY <1>4, <1>6, <1>14, <1>15 DEF Written, Heard
<1>16. CASE Tail(q) = <<>> /\ w.conn[c].state = "closing"
  <2>1. CloseConnections(u, {c}) = CloseConnections(w, {c})
    <3>1. \A g : [u EXCEPT !.conn = g] = [w EXCEPT !.conn = g]
      BY <1>7, <1>11 DEF Worlds
    <3>2. [d \in Ids |-> IF d \in {c} THEN [state |-> "closed", queue |-> <<>>] ELSE u.conn[d]]
            = [d \in Ids |-> IF d \in {c} THEN [state |-> "closed", queue |-> <<>>] ELSE w.conn[d]]
      BY <1>10, <1>12
    <3> QED BY <3>1, <3>2 DEF CloseConnections
  <2>2. CloseBoth(u, {c}) = CloseBoth(w, {c})
    BY <1>12, <2>1 DEF CloseBoth
  <2>3. \A d \in Ids \ {c} : QueueTells(s[d], w.conn[d].queue) /\ ReadyForMedia(w, s, d)
    BY <1>7, <1>14 DEF Told, ReadyForMedia
  <2>4. PICK v : v = CloseBoth(w, {c})
    OBVIOUS
  <2>5. /\ Good(v, s) /\ Ages(w, v)
        /\ \A d \in Ids : v.conn[d].queue = w.conn[d].queue \/ v.conn[d].queue = <<>>
        /\ \A n \in Nat : AllOlder(w, s, n) => AllOlder(v, s, n)
    BY <1>7, <1>14, <2>3, <2>4, CloseBothGood
  <2>6. \A n \in Nat : AllOlder(w, r, n) => AllOlder(w, s, n)
    <3>1. \A n \in Nat : Older(r[c], q, n) => Older(t, q, n)
      BY <1>13 DEF Older
    <3> QED BY <1>1, <1>14, <3>1 DEF AllOlder
  <2>7. x = v
    BY <1>1, <1>16, <1>15, <2>2, <2>4
  <2> QED BY <1>14, <2>5, <2>6, <2>7
<1>17. CASE ~(Tail(q) = <<>> /\ w.conn[c].state = "closing")
  <2>1. \A d \in Ids \ {c} : u.conn[d] = w.conn[d] /\ s[d] = r[d]
    BY <1>10, <1>12, <1>14
  <2>2. u.conn[c].queue = Tail(q) /\ u.conn[c].state = w.conn[c].state /\ s[c] = t
    BY <1>9, <1>10, <1>12, <1>14
  <2>3. QueuesBounded(u)
    <3>1. /\ Len(q) <= MaxQueue /\ w.conn[c].state # "closed" /\ MaxQueue \in Nat
          /\ \A d \in Ids : /\ Len(w.conn[d].queue) <= MaxQueue
                            /\ w.conn[d].state = "closing" => w.conn[d].queue # <<>>
                            /\ w.conn[d].state = "closed" => w.conn[d].queue = <<>>
      BY <1>1, <1>7, <1>8, ServerAssumption DEF Sound, QueuesBounded
    <3>2. /\ Len(u.conn[c].queue) <= MaxQueue /\ u.conn[c].state # "closed"
          /\ u.conn[c].state = "closing" => u.conn[c].queue # <<>>
      BY <1>8, <1>17, <2>2, <3>1
    <3> QED BY <2>1, <3>1, <3>2 DEF QueuesBounded
  <2>4. Counted(u) /\ Agrees(u)
    BY <1>7, <1>12, <2>1, <2>2 DEF Sound, Counted, From, Agrees
  <2>5. Told(u, s)
    <3>1. QueueTells(s[c], u.conn[c].queue) /\ ReadyForMedia(u, s, c)
      BY <1>1, <1>7, <1>12, <1>13, <2>2 DEF Told, ReadyForMedia, Plays
    <3>2. \A d \in Ids \ {c} : QueueTells(s[d], u.conn[d].queue) /\ ReadyForMedia(u, s, d)
      BY <1>7, <1>12, <2>1 DEF Told, ReadyForMedia, Plays
    <3> QED BY <3>1, <3>2 DEF Told
  <2>6. \A n \in Nat : AllOlder(w, r, n) => AllOlder(u, s, n)
    BY <1>1, <1>13, <2>1, <2>2 DEF AllOlder
  <2>7. Ages(w, u)
    BY <1>12 DEF Ages
  <2>8. Good(u, s)
    BY <1>12, <2>3, <2>4, <2>5 DEF Good, Sound
  <2>9. \A d \in Ids : \/ u.conn[d].queue = w.conn[d].queue
                       \/ u.conn[d].queue = Tail(w.conn[d].queue) /\ w.conn[d].queue # <<>>
    <3>1. u.conn[c].queue = Tail(w.conn[c].queue) /\ w.conn[c].queue # <<>>
      BY <1>1, <1>8, <2>2
    <3> QED BY <2>1, <3>1
  <2>10. x = u
    BY <1>1, <1>17, <1>15
  <2> QED BY <2>6, <2>7, <2>8, <2>9, <2>10
<1> QED BY <1>16, <1>17

\* Start and the end of Stop clear the registry.
LEMMA ClearedGood ==
  ASSUME NEW w, NEW r, Good(w, r), NEW m \in Managers, m.sessions = {}, m.next = w.manager.next,
         m.active = [a \in Addresses |-> 0]
  PROVE  Good([w EXCEPT !.manager = m], r)
<1>1. PICK v : v = [w EXCEPT !.manager = m]
  OBVIOUS
<1>2. w \in Worlds /\ Sound(w) /\ Told(w, r)
  BY DEF Good, Sound
<1>3. v \in Worlds /\ v.manager = m /\ v.session = w.session /\ v.conn = w.conn
  BY <1>1, <1>2 DEF Worlds
<1>4. Counted(v)
  <2>1. \A a \in Addresses : From(v, a) = {} /\ v.manager.active[a] = 0
    BY <1>3 DEF From
  <2> QED BY <2>1, FS_EmptySet DEF Counted
<1>5. Sound(v)
  BY <1>2, <1>3, <1>4 DEF Sound, QueuesBounded, Agrees
<1>6. Told(v, r)
  BY <1>2, <1>3 DEF Told, ReadyForMedia, Plays
<1> QED BY <1>1, <1>5, <1>6 DEF Good

-----------------------------------------------------------------------------
(* The inductive invariant                                                 *)

Accepted == [do : {"accept"}, gen : Nat, number : {0}, to : (SUBSET Addresses) \ {{}}]
Barriers == [do : {"close"}, gen : Nat, number : {0}, to : SUBSET Ids]
Posted == [do : {"media"}, gen : 1 .. 2 * MaxLifecycles, number : 1 .. MaxMedia, to : SUBSET Ids]
Reads == [do : {"parse"}, gen : {0}, number : {0}, to : SUBSET Ids]
Tasks == Accepted \cup Barriers \cup Posted
Handlers == Tasks \cup Reads

Typed ==
  /\ server \in [started : BOOLEAN, gen : Nat, accepting : BOOLEAN, lifecycles : 0 .. MaxLifecycles]
  /\ stop \in [todo : {"none", "snapshot", "wait", "closed"}, found : SUBSET Ids]
  /\ expired \in SUBSET Ids
  /\ feed \in [media : 0 .. MaxMedia, writing : 0 .. 2 * MaxLifecycles, requests : Nat]
  /\ tasks \in Seq(Tasks)
  /\ io \in Seq(Handlers) /\ Len(io) <= 1
  /\ received \in Received

\* The generation is odd while the server runs.  The io thread has something to do only between
\* Start and the end of Stop, and the media it is about to send are of this lifecycle.
Generations ==
  /\ server.gen = IF server.started THEN 2 * server.lifecycles - 1 ELSE 2 * server.lifecycles
  /\ stop.todo # "none" => ~server.started
  /\ ~IoRuns => io = <<>>
  /\ Doing("media") => Head(io).gen = IF server.started THEN server.gen ELSE server.gen - 1

\* There is one accept at most: pending, queued or handled.  What Stop finds queued is handled
\* before its barrier.
Accepts ==
  /\ server.accepting => server.started
  /\ Doing("accept") => ~server.accepting /\ manager.next <= MaxConnections
  /\ \A i \in 1 .. Len(tasks) : tasks[i].do = "accept" =>
       /\ ~server.accepting /\ manager.next <= MaxConnections /\ ~Doing("accept")
       /\ server.started \/ stop.todo \in {"snapshot", "wait"}
       /\ \A j \in 1 .. Len(tasks) : /\ tasks[j].do = "accept" => j = i
                                     /\ tasks[j].do = "close" => i < j

\* The barrier of a Stop holds what it found until it closes it.
Stopping ==
  /\ stop.todo = "wait" => \E i \in 1 .. Len(tasks) : tasks[i].do = "close"
  /\ \A i \in 1 .. Len(tasks) : tasks[i].do = "close" =>
       /\ stop.todo = "wait" /\ tasks[i].to = stop.found
       /\ \A j \in 1 .. Len(tasks) : tasks[j].do = "close" => j = i
  /\ \A c \in stop.found : /\ stop.todo = "wait" => session[c].state \in {"open", "closed"}
                           /\ stop.todo \in {"closed", "none"} => session[c].state = "closed"

\* Media are posted, sent and received in the order of the writes.
MediaOrder ==
  /\ AllOlder(World, received, feed.media + 1)
  /\ feed.writing # 0 => feed.media > 0 /\ AllOlder(World, received, feed.media)
  /\ Doing("media") => /\ AllOlder(World, received, Head(io).number)
                       /\ Head(io).number < feed.media + 1
                       /\ feed.writing # 0 => Head(io).number < feed.media
  /\ \A i \in 1 .. Len(tasks) : tasks[i].do = "media" =>
       /\ AllOlder(World, received, tasks[i].number)
       /\ tasks[i].number < feed.media + 1
       /\ feed.writing # 0 => tasks[i].number < feed.media
       /\ Doing("media") => Head(io).number < tasks[i].number
       /\ \A j \in 1 .. i - 1 : tasks[j].do = "media" => tasks[j].number < tasks[i].number

IInv ==
  /\ Typed /\ Generations /\ Accepts /\ Stopping /\ MediaOrder
  /\ Good(World, received) /\ MediaAsAnswered

LEMMA IoIs ==
  ASSUME Typed
  PROVE  io # <<>> => Head(io) \in Handlers
BY HeadTailProperties DEF Typed

LEMMA HandlersAre ==
  ASSUME NEW h \in Handlers
  PROVE  /\ h.do \in {"accept", "close", "media", "parse"}
         /\ <<h>> \in Seq(Handlers) /\ Len(<<h>>) = 1 /\ Head(<<h>>) = h /\ <<h>> # <<>>
         /\ h.do = "media" => h \in Posted
         /\ h.do = "accept" => h \in Accepted
         /\ h.do = "close" => h \in Barriers
BY DEF Handlers, Tasks, Accepted, Barriers, Posted, Reads

LEMMA BecomeIs ==
  ASSUME NEW v \in Worlds, Become(v)
  PROVE  World' = v
BY DEF Become, World, Worlds

\* What the io thread does on its world, with nothing else changed but its own position.
LEMMA WorldSteps ==
  ASSUME IInv, server' = server, stop' = stop, tasks' = tasks,
         feed' = feed \/ feed' = [feed EXCEPT !.requests = @ + 1],
         expired' \in SUBSET Ids,
         \/ io' = <<>> \/ io' = io
         \/ IoRuns /\ \E c \in Ids : io' = <<[do |-> "parse", gen |-> 0, number |-> 0, to |-> {c}]>>,
         received' \in Received, \A c \in Ids : received'[c].announced,
         NEW w, w = World, NEW v, v = World', Good(v, received'), Ages(w, v),
         \A n \in Nat : AllOlder(w, received, n) /\ (Doing("media") => io' = io \/ Head(io).number < n) =>
                          AllOlder(v, received', n)
  PROVE  IInv'
<1>1. /\ Typed /\ Generations /\ Accepts /\ Stopping /\ MediaOrder
      /\ manager = w.manager /\ session = w.session /\ manager' = v.manager /\ session' = v.session
  BY DEF IInv, World
<1>2. /\ feed \in [media : 0 .. MaxMedia, writing : 0 .. 2 * MaxLifecycles, requests : Nat]
      /\ MaxMedia \in Nat /\ MaxLifecycles \in Nat
  BY <1>1, ServerAssumption DEF Typed
<1>3. /\ feed' \in [media : 0 .. MaxMedia, writing : 0 .. 2 * MaxLifecycles, requests : Nat]
      /\ feed'.media = feed.media /\ feed'.writing = feed.writing
  BY <1>2
<1>4. /\ io' \in Seq(Handlers) /\ Len(io') <= 1
      /\ \A what \in {"media", "accept"} : io' # <<>> /\ Head(io').do = what => io' = io
      /\ io' # io => io' = <<>> \/ IoRuns
  <2>1. CASE io' = <<>>
    BY <2>1, EmptySeq
  <2>2. CASE io' = io
    BY <1>1, <2>2 DEF Typed
  <2>3. ASSUME NEW c \in Ids, IoRuns, io' = <<[do |-> "parse", gen |-> 0, number |-> 0, to |-> {c}]>>
        PROVE  /\ io' \in Seq(Handlers) /\ Len(io') <= 1 /\ Head(io').do = "parse"
    <3>1. PICK h : h = [do |-> "parse", gen |-> 0, number |-> 0, to |-> {c}]
      OBVIOUS
    <3>2. h \in Handlers /\ h.do = "parse"
      BY <3>1 DEF Handlers, Reads
    <3>3. io' = <<h>>
      BY <2>3, <3>1
    <3> QED BY <3>2, <3>3, HandlersAre
  <2> QED BY <2>1, <2>2, <2>3
<1>5. Typed'
  BY <1>1, <1>3, <1>4 DEF Typed
<1>6. Generations'
  BY <1>1, <1>4 DEF Generations, IoRuns, Doing, IoFree
<1>7. Accepts'
  BY <1>1, <1>4 DEF Accepts, Doing, IoFree, Ages
<1>8. Stopping'
  <2>1. stop.found \in SUBSET Ids
    BY <1>1 DEF Typed
  <2> QED BY <1>1, <2>1 DEF Stopping, Ages
<1>9. MediaOrder'
  <2>1. Doing("media") => Head(io).number \in 1 .. MaxMedia
    BY <1>1, IoIs, HandlersAre DEF Doing, IoFree, Posted
  <2>2. \A i \in 1 .. Len(tasks) : tasks[i].do = "media" => tasks[i].number \in 1 .. MaxMedia
    <3>1. \A i \in 1 .. Len(tasks) : tasks[i] \in Handlers
      BY <1>1, ElementOfSeq DEF Typed, Handlers
    <3> QED BY <3>1, HandlersAre DEF Posted
  <2>3. (io' # <<>> /\ Head(io').do = "media") => io' = io
    BY <1>4
  <2>4. AllOlder(v, received', feed.media + 1)
    BY <1>1, <1>2, <2>1 DEF MediaOrder
  <2>5. feed.writing # 0 => feed.media > 0 /\ AllOlder(v, received', feed.media)
    BY <1>1, <1>2, <2>1 DEF MediaOrder
  <2>6. Doing("media") /\ io' = io => AllOlder(v, received', Head(io).number)
    BY <1>1, <1>2, <2>1 DEF MediaOrder
  <2>7. \A i \in 1 .. Len(tasks) : tasks[i].do = "media" => AllOlder(v, received', tasks[i].number)
    BY <1>1, <1>2, <2>1, <2>2 DEF MediaOrder
  <2> QED BY <1>1, <1>3, <2>3, <2>4, <2>5, <2>6, <2>7 DEF MediaOrder, Doing, IoFree
<1>10. Good(World, received)' /\ MediaAsAnswered'
  BY DEF MediaAsAnswered
<1> QED BY <1>5, <1>6, <1>7, <1>8, <1>9, <1>10 DEF IInv

-----------------------------------------------------------------------------
(* Requests and events of the sockets                                      *)

Methods == {"PLAY", "PAUSE", "SETUP", "other"}

\* No queue gets media.
Quiet(w, v) ==
  \A c \in Ids : LET q == w.conn[c].queue
                     p == v.conn[c].queue
                 IN  \/ p = q \/ p = <<>>
                     \/ q # <<>> /\ p = Tail(q)
                     \/ \E m \in Methods : p = Append(q, Reply(m))

Kept(w, v, r) ==
  /\ Good(v, r) /\ Ages(w, v) /\ Quiet(w, v)
  /\ \A n \in Nat : AllOlder(w, r, n) => AllOlder(v, r, n)

LEMMA KeptItself ==
  ASSUME NEW w, NEW r, Good(w, r)
  PROVE  Kept(w, w, r)
BY DEF Kept, Ages, Quiet

LEMMA KeptOn ==
  ASSUME NEW w, NEW u, NEW v, NEW r, Kept(w, u, r), Good(v, r), Ages(u, v),
         \A c \in Ids : v.conn[c].queue = u.conn[c].queue \/ v.conn[c].queue = <<>>,
         \A n \in Nat : AllOlder(u, r, n) => AllOlder(v, r, n)
  PROVE  Kept(w, v, r)
<1>1. Ages(w, v)
  BY DEF Kept, Ages
<1>2. Quiet(w, v)
  BY DEF Kept, Quiet
<1> QED BY <1>1, <1>2 DEF Kept

LEMMA KeptClosed ==
  ASSUME NEW w, NEW u, NEW r \in Received, Kept(w, u, r), NEW cs \in SUBSET Ids
  PROVE  Kept(w, CloseBoth(u, cs), r)
<1>1. Sound(u) /\ \A c \in Ids \ cs : QueueTells(r[c], u.conn[c].queue) /\ ReadyForMedia(u, r, c)
  BY DEF Kept, Good, Told
<1> QED BY <1>1, CloseBothGood, KeptOn

LEMMA KeptFlushed ==
  ASSUME NEW w, NEW u, NEW r \in Received, Kept(w, u, r), NEW c \in Ids
  PROVE  Kept(w, CloseAfterFlush(u, c), r)
<1>1. Good(u, r)
  BY DEF Kept
<1> QED BY <1>1, CloseAfterFlushGood, KeptOn

\* A request is answered after the session was set, so that PLAY is followed by media, and PAUSE and
\* SETUP are not.
LEMMA AnswerKept ==
  ASSUME NEW w, NEW r \in Received, Good(w, r), NEW c \in Ids, w.conn[c].state # "closed",
         NEW s \in Sessions, s.state = w.session[c].state, s.address = w.session[c].address,
         NEW m \in Methods,
         s.playing /\ s.track = "tcp" =>
           m = "PLAY" \/ (m = "other" /\ w.session[c].playing /\ w.session[c].track = "tcp")
  PROVE  Kept(w, EnqueueWrite([w EXCEPT !.session[c] = s], {c}, Reply(m)), r)
<1>1. PICK u : u = [w EXCEPT !.session[c] = s]
  OBVIOUS
<1>2. /\ Sound(u) /\ Ages(w, u) /\ u.conn = w.conn /\ u.session[c] = s
      /\ \A d \in Ids : QueueTells(r[d], u.conn[d].queue)
      /\ \A d \in Ids \ {c} : ReadyForMedia(u, r, d)
      /\ (s.playing /\ s.track = "tcp" => w.session[c].playing /\ w.session[c].track = "tcp") =>
           ReadyForMedia(u, r, c)
      /\ \A n \in Nat : AllOlder(w, r, n) => AllOlder(u, r, n)
  BY SMTT(40), <1>1, SessionSet
<1>3. Reply(m) \in Items /\ Reply(m).kind = "reply" /\ (Reply(m) \in Ending => m \in {"PAUSE", "SETUP"})
  BY DEF Reply, Items, Methods, Ending
<1>4. MayEnqueue(u, r, c, Reply(m))
  <2>1. ASSUME Plays(u, c), m # "PLAY"
        PROVE  Expects(r[c], u.conn[c].queue, Len(u.conn[c].queue) + 1) /\ Reply(m) \notin Ending
    <3>1. m = "other" /\ w.session[c].playing /\ w.session[c].track = "tcp"
      BY <1>2, <2>1 DEF Plays
    <3>2. ReadyForMedia(u, r, c)
      BY <1>2, <3>1
    <3> QED BY <1>3, <2>1, <3>1, <3>2 DEF ReadyForMedia
  <2> QED BY <1>3, <2>1 DEF MayEnqueue
<1>5. PICK v : v = EnqueueWrite(u, {c}, Reply(m))
  OBVIOUS
<1>6. /\ Good(v, r) /\ Ages(u, v) /\ Fed(u, v, {c}, Reply(m))
      /\ \A n \in Nat : AllOlder(u, r, n) /\ (Reply(m).kind = "rtp" => Reply(m).number < n) => AllOlder(v, r, n)
  BY <1>2, <1>3, <1>4, <1>5, EnqueueGood
<1>7. Ages(w, v)
  BY <1>2, <1>6 DEF Ages
<1>8. Quiet(w, v)
  BY <1>2, <1>6 DEF Quiet, Fed
<1>9. \A n \in Nat : AllOlder(w, r, n) => AllOlder(v, r, n)
  BY <1>2, <1>3, <1>6
<1> QED BY <1>1, <1>5, <1>6, <1>7, <1>8, <1>9 DEF Kept

\* An answer that changes nothing of the session.
LEMMA OtherKept ==
  ASSUME NEW w, NEW r \in Received, Good(w, r), NEW c \in Ids, w.conn[c].state # "closed"
  PROVE  Kept(w, EnqueueWrite(w, {c}, Reply("other")), r)
<1>1. w \in Worlds
  BY DEF Good, Sound
<1>2. [w EXCEPT !.session[c] = w.session[c]] = w
  BY <1>1 DEF Worlds
<1> QED BY <1>1, <1>2, AnswerKept, WorldParts DEF Methods

LEMMA EventSteps ==
  ASSUME IInv, server' = server, stop' = stop, tasks' = tasks, expired' \in SUBSET Ids, received' = received,
         feed' = feed \/ feed' = [feed EXCEPT !.requests = @ + 1],
         \/ io' = <<>> \/ io' = io
         \/ IoRuns /\ \E c \in Ids : io' = <<[do |-> "parse", gen |-> 0, number |-> 0, to |-> {c}]>>,
         NEW v, Become(v), Kept(World, v, received)
  PROVE  IInv' /\ Quiet(World, World')
<1>1. v \in Worlds
  BY DEF Kept, Good, Sound
<1>2. World' = v
  BY <1>1, BecomeIs
<1>3. PICK w : w = World
  OBVIOUS
<1>4. Kept(w, v, received)
  BY <1>3
<1>5. received \in Received /\ \A c \in Ids : received[c].announced
  BY DEF IInv, Typed, MediaAsAnswered
<1>6. IInv'
  BY <1>2, <1>3, <1>4, <1>5, WorldSteps DEF Kept
<1> QED BY <1>2, <1>3, <1>4, <1>6 DEF Kept

LEMMA ParsedIs ==
  ASSUME IInv, NEW c \in Ids, Parsed(c)
  PROVE  /\ IoRuns /\ conn[c].state # "closed" /\ feed' = [feed EXCEPT !.requests = @ + 1]
         /\ server' = server /\ stop' = stop /\ tasks' = tasks /\ expired' \in SUBSET Ids
         /\ received' = received
         /\ Good(World, received) /\ received \in Received
         /\ World.session = session /\ World.conn = conn /\ World.manager = manager
         /\ session[c] \in Sessions
<1>1. Good(World, received) /\ received \in Received /\ expired \in SUBSET Ids /\ Generations
  BY DEF IInv, Typed
<1>2. World \in Worlds
  BY <1>1 DEF Good, Sound
<1>3. session[c] \in Sessions
  BY <1>2, WorldParts DEF World
<1> QED BY <1>1, <1>3 DEF Parsed, Event, IoFree, Doing, Generations, World

LEMMA ToSession ==
  ASSUME NEW w \in Worlds, NEW c \in Ids
  PROVE  /\ \A p : [w EXCEPT !.session[c].playing = p] =
                     [w EXCEPT !.session[c] = [w.session[c] EXCEPT !.playing = p]]
         /\ \A t : [w EXCEPT !.session[c].track = t] =
                     [w EXCEPT !.session[c] = [w.session[c] EXCEPT !.track = t]]
         /\ \A t : [w EXCEPT !.session[c] = [@ EXCEPT !.track = t, !.playing = FALSE]] =
                     [w EXCEPT !.session[c] = [w.session[c] EXCEPT !.track = t, !.playing = FALSE]]
BY DEF Worlds

LEMMA SetPlaying ==
  ASSUME NEW s \in Sessions, NEW p \in BOOLEAN, NEW t, t = [s EXCEPT !.playing = p]
  PROVE  /\ t \in Sessions /\ t.playing = p /\ t.track = s.track
         /\ t.state = s.state /\ t.address = s.address
BY DEF Sessions

LEMMA SetTrack ==
  ASSUME NEW s \in Sessions, NEW m \in Modes \cup {"none"}, NEW t, t = [s EXCEPT !.track = m]
  PROVE  t \in Sessions /\ t.track = m /\ t.state = s.state /\ t.address = s.address
BY DEF Sessions

LEMMA SetNewTrack ==
  ASSUME NEW s \in Sessions, NEW m \in Modes, NEW t, t = [s EXCEPT !.track = m, !.playing = FALSE]
  PROVE  t \in Sessions /\ ~t.playing /\ t.state = s.state /\ t.address = s.address
BY DEF Sessions

LEMMA RequestKeeps ==
  ASSUME IInv, NEW c \in Ids, Request(c)
  PROVE  IInv' /\ Quiet(World, World')
<1> DEFINE Answered(u, m) == EnqueueWrite(u, {c}, Reply(m))
           Playing(p) == [World EXCEPT !.session[c].playing = p]
<1>1. /\ Parsed(c) /\ MoreToParse(c)
      /\ \/ Become(Answered(World, "other"))
         \/ session[c].track # "none" /\ Become(Answered(Playing(TRUE), "PLAY"))
         \/ Become(Answered(Playing(FALSE), "PAUSE"))
         \/ \E m \in Modes : Become(SetUp(World, c, m))
         \/ Become(CloseBoth(Answered(Playing(FALSE), "other"), {c}))
  BY DEF Request
<1>2. /\ IoRuns /\ conn[c].state # "closed" /\ feed' = [feed EXCEPT !.requests = @ + 1]
      /\ server' = server /\ stop' = stop /\ tasks' = tasks /\ expired' \in SUBSET Ids
      /\ received' = received
      /\ Good(World, received) /\ received \in Received
      /\ World.session = session /\ World.conn = conn /\ session[c] \in Sessions
  BY <1>1, ParsedIs
<1>3. PICK w : w = World
  OBVIOUS
<1>4. w \in Worlds
  BY <1>2, <1>3 DEF Good, Sound
<1>5. \/ io' = <<>> \/ io' = io
      \/ IoRuns /\ \E d \in Ids : io' = <<[do |-> "parse", gen |-> 0, number |-> 0, to |-> {d}]>>
  BY <1>1, <1>2 DEF MoreToParse
<1>6. \A p \in BOOLEAN, m \in Methods : (p => m = "PLAY") => Kept(w, Answered(Playing(p), m), received)
  <2>1. ASSUME NEW p \in BOOLEAN, NEW m \in Methods, p => m = "PLAY"
        PROVE  Kept(w, Answered(Playing(p), m), received)
    <3>1. PICK s : s = [w.session[c] EXCEPT !.playing = p]
      OBVIOUS
    <3>2. s \in Sessions /\ s.playing = p /\ s.state = w.session[c].state /\ s.address = w.session[c].address
      <4>1. w.session[c] \in Sessions
        BY <1>2, <1>3
      <4> QED BY <3>1, <4>1, SetPlaying
    <3>3. Playing(p) = [w EXCEPT !.session[c] = s]
      BY <1>3, <1>4, <3>1, ToSession
    <3> QED BY <1>2, <1>3, <2>1, <3>2, <3>3, AnswerKept
  <2> QED BY <2>1
<1>7. ASSUME NEW m \in Modes PROVE Kept(w, SetUp(World, c, m), received)
  <2>1. PICK s : s = [w.session[c] EXCEPT !.track = m, !.playing = FALSE]
    OBVIOUS
  <2>2. s \in Sessions /\ ~s.playing /\ s.state = w.session[c].state /\ s.address = w.session[c].address
    <3>1. w.session[c] \in Sessions
      BY <1>2, <1>3
    <3> QED BY <2>1, <3>1, SetNewTrack
  <2>3. SetUp(World, c, m) = EnqueueWrite([w EXCEPT !.session[c] = s], {c}, Reply("SETUP"))
    BY <1>3, <1>4, <2>1, ToSession DEF SetUp
  <2> QED BY <1>2, <1>3, <2>2, <2>3, AnswerKept DEF Methods
<1>8. Kept(w, Answered(World, "other"), received)
  BY <1>2, <1>3, OtherKept
<1>9. Kept(w, CloseBoth(Answered(Playing(FALSE), "other"), {c}), received)
  BY <1>2, <1>6, KeptClosed DEF Methods
<1> HIDE DEF Answered, Playing
<1>10. PICK v : Become(v) /\ Kept(w, v, received)
  BY <1>1, <1>6, <1>7, <1>8, <1>9 DEF Methods
<1> QED BY <1>2, <1>3, <1>5, <1>10, EventSteps

LEMMA SetupFailsKeeps ==
  ASSUME IInv, NEW c \in Ids, SetupFails(c)
  PROVE  IInv' /\ Quiet(World, World')
<1>1. /\ Parsed(c) /\ MoreToParse(c)
      /\ Become(EnqueueWrite([World EXCEPT !.session[c].track = "none"], {c}, Reply("other")))
  BY DEF SetupFails
<1>2. /\ IoRuns /\ conn[c].state # "closed" /\ feed' = [feed EXCEPT !.requests = @ + 1]
      /\ server' = server /\ stop' = stop /\ tasks' = tasks /\ expired' \in SUBSET Ids
      /\ received' = received
      /\ Good(World, received) /\ received \in Received
      /\ World.session = session /\ World.conn = conn /\ session[c] \in Sessions
  BY <1>1, ParsedIs
<1>3. PICK w : w = World
  OBVIOUS
<1>4. w \in Worlds
  BY <1>2, <1>3 DEF Good, Sound
<1>5. PICK s : s = [w.session[c] EXCEPT !.track = "none"]
  OBVIOUS
<1>6. s \in Sessions /\ s.track = "none" /\ s.state = w.session[c].state /\ s.address = w.session[c].address
  <2>1. w.session[c] \in Sessions
    BY <1>2, <1>3
  <2> QED BY <1>5, <2>1, SetTrack
<1>7. [World EXCEPT !.session[c].track = "none"] = [w EXCEPT !.session[c] = s]
  BY <1>3, <1>4, <1>5, ToSession
<1>8. PICK v : v = EnqueueWrite([w EXCEPT !.session[c] = s], {c}, Reply("other"))
  OBVIOUS
<1>9. Kept(w, v, received)
  BY <1>2, <1>3, <1>6, <1>8, AnswerKept DEF Methods
<1>10. Become(v)
  BY <1>1, <1>7, <1>8
<1> QED BY <1>1, <1>2, <1>3, <1>9, <1>10, EventSteps DEF MoreToParse

LEMMA ParseErrorKeeps ==
  ASSUME IInv, NEW c \in Ids, ParseError(c)
  PROVE  IInv' /\ Quiet(World, World')
<1>1. /\ Parsed(c) /\ io' = <<>>
      /\ Become(CloseAfterFlush(
           EnqueueWrite([World EXCEPT !.session[c].playing = FALSE], {c}, Reply("other")), c))
  BY DEF ParseError
<1>2. /\ IoRuns /\ conn[c].state # "closed" /\ feed' = [feed EXCEPT !.requests = @ + 1]
      /\ server' = server /\ stop' = stop /\ tasks' = tasks /\ expired' \in SUBSET Ids
      /\ received' = received
      /\ Good(World, received) /\ received \in Received
      /\ World.session = session /\ World.conn = conn /\ session[c] \in Sessions
  BY <1>1, ParsedIs
<1>3. PICK w : w = World
  OBVIOUS
<1>4. w \in Worlds
  BY <1>2, <1>3 DEF Good, Sound
<1>5. PICK s : s = [w.session[c] EXCEPT !.playing = FALSE]
  OBVIOUS
<1>6. s \in Sessions /\ ~s.playing /\ s.state = w.session[c].state /\ s.address = w.session[c].address
  <2>1. w.session[c] \in Sessions
    BY <1>2, <1>3
  <2> QED BY <1>5, <2>1, SetPlaying DEF Sessions
<1>7. [World EXCEPT !.session[c].playing = FALSE] = [w EXCEPT !.session[c] = s]
  BY <1>3, <1>4, <1>5, ToSession
<1>8. PICK u : u = EnqueueWrite([w EXCEPT !.session[c] = s], {c}, Reply("other"))
  OBVIOUS
<1>9. Kept(w, u, received)
  BY <1>2, <1>3, <1>6, <1>8, AnswerKept DEF Methods
<1>10. PICK v : v = CloseAfterFlush(u, c)
  OBVIOUS
<1>11. Kept(w, v, received)
  BY <1>2, <1>9, <1>10, KeptFlushed
<1>12. Become(v)
  BY <1>1, <1>7, <1>8, <1>10
<1> QED BY <1>1, <1>2, <1>3, <1>11, <1>12, EventSteps

LEMMA UnauthorizedKeeps ==
  ASSUME IInv, NEW c \in Ids, Unauthorized(c)
  PROVE  IInv' /\ Quiet(World, World')
<1>1. /\ Parsed(c) /\ MoreToParse(c)
      /\ \E failures \in {0, manager.failures[session[c].address]} :
           LET counts == c \in manager.sessions
               w == EnqueueWrite(IF counts THEN [World EXCEPT
                                   !.manager.failures[session[c].address] = failures + 1] ELSE World,
                                 {c}, Reply("other"))
           IN  Become(IF counts /\ failures + 1 >= MaxAuthFailures THEN CloseAfterFlush(w, c) ELSE w)
  BY DEF Unauthorized
<1>2. /\ IoRuns /\ conn[c].state # "closed" /\ feed' = [feed EXCEPT !.requests = @ + 1]
      /\ server' = server /\ stop' = stop /\ tasks' = tasks /\ expired' \in SUBSET Ids
      /\ received' = received
      /\ Good(World, received) /\ received \in Received
      /\ World.session = session /\ World.conn = conn /\ World.manager = manager /\ session[c] \in Sessions
  BY <1>1, ParsedIs
<1>3. PICK w : w = World
  OBVIOUS
<1>4. w \in Worlds
  BY <1>2, <1>3 DEF Good, Sound
<1>5. PICK a : a = session[c].address
  OBVIOUS
<1>6. a \in Addresses /\ manager.failures[a] \in Nat
  BY <1>2, <1>3, <1>4, <1>5 DEF Sessions, Worlds, Managers
<1>7. PICK n \in {0, manager.failures[a]} :
        LET u == EnqueueWrite(IF c \in manager.sessions THEN [World EXCEPT !.manager.failures[a] = n + 1] ELSE World,
                              {c}, Reply("other"))
        IN  Become(IF c \in manager.sessions /\ n + 1 >= MaxAuthFailures THEN CloseAfterFlush(u, c) ELSE u)
  BY <1>1, <1>5
<1>8. PICK t : t = IF c \in manager.sessions THEN [w EXCEPT !.manager.failures[a] = n + 1] ELSE w
  OBVIOUS
<1>9. Kept(w, t, received) /\ t.conn = w.conn /\ Good(t, received)
  <2>1. CASE c \in manager.sessions
    <3>1. n + 1 \in Nat /\ t = [w EXCEPT !.manager.failures[a] = n + 1]
      BY <1>6, <1>8, <2>1
    <3>2. /\ Good(t, received) /\ t.conn = w.conn /\ t.session = w.session
          /\ t.manager.next = w.manager.next
      BY <1>2, <1>3, <1>6, <3>1, FailuresGood
    <3> QED BY <3>2 DEF Kept, Ages, Quiet, AllOlder
  <2>2. CASE c \notin manager.sessions
    BY <1>2, <1>3, <1>8, <2>2, KeptItself
  <2> QED BY <2>1, <2>2
<1>10. PICK u : u = EnqueueWrite(t, {c}, Reply("other"))
  OBVIOUS
<1>11. Kept(t, u, received)
  BY <1>2, <1>3, <1>9, <1>10, OtherKept
<1>12. Kept(w, u, received)
  BY <1>9, <1>11 DEF Kept, Ages, Quiet
<1>13. PICK v : v = IF c \in manager.sessions /\ n + 1 >= MaxAuthFailures THEN CloseAfterFlush(u, c) ELSE u
  OBVIOUS
<1>14. Kept(w, v, received)
  BY <1>2, <1>12, <1>13, KeptFlushed
<1>15. Become(v)
  BY <1>3, <1>7, <1>8, <1>10, <1>13
<1> QED BY <1>1, <1>2, <1>3, <1>14, <1>15, EventSteps DEF MoreToParse

LEMMA WriteDoneKeeps ==
  ASSUME IInv, NEW c \in Ids, WriteDone(c)
  PROVE  IInv' /\ Quiet(World, World')
<1>1. PICK w : w = World
  OBVIOUS
<1>2. /\ Good(w, received) /\ received \in Received /\ w \in Worlds /\ w.conn = conn
      /\ expired \in SUBSET Ids /\ \A d \in Ids : received[d].announced
  BY <1>1 DEF IInv, Typed, MediaAsAnswered, Good, Sound, World
<1>3. w.conn[c].queue # <<>> /\ received' = Heard(w, received, c) /\ Become(Written(w, c))
  BY <1>1, <1>2 DEF WriteDone, Heard, Written
<1>4. PICK v : v = Written(w, c)
  OBVIOUS
<1>5. PICK s : s = Heard(w, received, c)
  OBVIOUS
<1>6. received' = s /\ Become(v)
  BY <1>3, <1>4, <1>5
<1>7. /\ s \in Received /\ Good(v, s) /\ Ages(w, v) /\ \A d \in Ids : s[d].announced
      /\ \A n \in Nat : AllOlder(w, received, n) => AllOlder(v, s, n)
      /\ \A d \in Ids : \/ v.conn[d].queue = w.conn[d].queue \/ v.conn[d].queue = <<>>
                        \/ v.conn[d].queue = Tail(w.conn[d].queue) /\ w.conn[d].queue # <<>>
  BY <1>2, <1>3, <1>4, <1>5, WriteDoneGood
<1>8. World' = v
  BY <1>6, <1>7, BecomeIs DEF Good, Sound
<1>9. /\ server' = server /\ stop' = stop /\ tasks' = tasks /\ feed' = feed /\ io' = io
      /\ expired' \in SUBSET Ids
  BY <1>2 DEF WriteDone
<1>10. IInv'
  BY <1>1, <1>6, <1>7, <1>8, <1>9, WorldSteps
<1> QED BY <1>1, <1>7, <1>8, <1>10 DEF Quiet

LEMMA WorldKnown ==
  ASSUME IInv
  PROVE  /\ Good(World, received) /\ received \in Received /\ World \in Worlds
         /\ World.session = session /\ World.conn = conn /\ World.manager = manager
         /\ expired \in SUBSET Ids /\ Kept(World, World, received)
<1>1. Good(World, received) /\ received \in Received /\ expired \in SUBSET Ids
  BY DEF IInv, Typed
<1> QED BY <1>1, KeptItself DEF Good, Sound, World

LEMMA CloseKeeps ==
  ASSUME IInv, NEW c \in Ids, SocketFails(c) \/ OnIdleTimeout(c)
  PROVE  IInv' /\ Quiet(World, World')
<1>1. /\ server' = server /\ stop' = stop /\ tasks' = tasks /\ feed' = feed /\ io' = io
      /\ received' = received /\ expired' \in SUBSET Ids
  BY WorldKnown DEF SocketFails, OnIdleTimeout
<1>2. PICK v : Become(v) /\ (v = World \/ v = CloseBoth(World, {c}))
  BY DEF SocketFails, OnIdleTimeout
<1>3. Kept(World, v, received)
  <2>1. CASE v = World
    BY <2>1, WorldKnown
  <2>2. CASE v = CloseBoth(World, {c})
    BY <2>2, WorldKnown, KeptClosed
  <2> QED BY <1>2, <2>1, <2>2
<1> QED BY <1>1, <1>2, <1>3, EventSteps

LEMMA IdleKeeps ==
  ASSUME IInv, (\E c \in Ids : IdleExpires(c)) \/ ReadOver \/ UNCHANGED vars
  PROVE  IInv' /\ Quiet(World, World')
<1>1. /\ server' = server /\ stop' = stop /\ tasks' = tasks /\ feed' = feed
      /\ received' = received /\ expired' \in SUBSET Ids /\ (io' = io \/ io' = <<>>)
  BY WorldKnown DEF IdleExpires, ReadOver, vars
<1>2. Become(World)
  BY DEF IdleExpires, ReadOver, vars, Become, World
<1> QED BY <1>1, <1>2, WorldKnown, EventSteps

\* A step of the queues, as MediaOfLifecycle wants it.
MediaStep ==
  \A c \in Ids :
    Len(conn'[c].queue) > Len(conn[c].queue) /\ Last(conn'[c].queue).kind = "rtp" =>
      Last(conn'[c].queue).gen = IF server.started THEN server.gen ELSE server.gen - 1

LEMMA QuietStep ==
  ASSUME IInv, Quiet(World, World')
  PROVE  MediaStep
<1>1. ASSUME NEW c \in Ids, Len(conn'[c].queue) > Len(conn[c].queue) PROVE Last(conn'[c].queue).kind = "reply"
  <2>1. PICK q : q = conn[c].queue
    OBVIOUS
  <2>2. PICK p : p = conn'[c].queue
    OBVIOUS
  <2>3. q \in Seq(Items) /\ Len(q) \in Nat
    BY <2>1, WorldKnown, WorldParts
  <2>4. p = q \/ p = <<>> \/ (q # <<>> /\ p = Tail(q)) \/ \E m \in Methods : p = Append(q, Reply(m))
    BY <2>1, <2>2 DEF Quiet, World
  <2>5. Len(<<>>) = 0 /\ (q # <<>> => Len(Tail(q)) = Len(q) - 1)
    BY <2>3, EmptySeq, HeadTailProperties
  <2>6. PICK m \in Methods : p = Append(q, Reply(m))
    <3>1. Len(p) > Len(q)
      BY <1>1, <2>1, <2>2
    <3>2. p # q /\ p # <<>> /\ ~(q # <<>> /\ p = Tail(q))
      BY <2>3, <2>5, <3>1
    <3> QED BY <2>4, <3>2
  <2>7. Reply(m) \in Items /\ Reply(m).kind = "reply"
    BY DEF Reply, Items, Methods
  <2>8. Len(p) = Len(q) + 1 /\ p[Len(q) + 1] = Reply(m)
    BY <2>3, <2>6, <2>7, AppendProperties
  <2> QED BY <2>2, <2>7, <2>8 DEF Last
<1> QED BY <1>1 DEF MediaStep

LEMMA SendMediaKeeps ==
  ASSUME IInv, SendMedia
  PROVE  IInv' /\ MediaStep
<1>1. PICK w : w = World
  OBVIOUS
<1>2. /\ Good(w, received) /\ received \in Received /\ w \in Worlds /\ w.conn = conn
      /\ Sound(w) /\ Told(w, received)
      /\ expired \in SUBSET Ids /\ \A d \in Ids : received[d].announced
  BY <1>1 DEF IInv, Typed, MediaAsAnswered, Good, Sound, World
<1>3. PICK h : h = Head(io)
  OBVIOUS
<1>4. io # <<>> /\ h.do = "media" /\ io' = <<>>
  BY <1>3 DEF SendMedia, Doing, IoFree
<1>5. h \in Posted
  BY <1>3, <1>4, IoIs, HandlersAre DEF IInv
<1>6. PICK item : item = Rtp(h.gen, h.number)
  OBVIOUS
<1>7. item \in Items /\ item.kind = "rtp" /\ item.number = h.number /\ item.gen = h.gen /\ item \notin Ending
  BY <1>5, <1>6 DEF Rtp, Items, Posted, Ending, Reply
<1>8. PICK cs : cs = {c \in h.to : w.session[c].playing /\ w.session[c].track = "tcp"}
  OBVIOUS
<1>9. cs \in SUBSET Ids
  BY <1>5, <1>8 DEF Posted
<1>10. PICK v : v = EnqueueWrite(w, cs, item)
  OBVIOUS
<1>11. Become(v)
  BY <1>1, <1>3, <1>6, <1>8, <1>10 DEF SendMedia, SendTo
<1>12. AllOlder(w, received, h.number)
  BY <1>1, <1>3, <1>4 DEF IInv, MediaOrder, Doing, IoFree
<1>13. \A c \in cs : MayEnqueue(w, received, c, item)
  BY <1>2, <1>7, <1>8, <1>9, <1>12 DEF MayEnqueue, Told, ReadyForMedia, Plays, AllOlder
<1>14. /\ Good(v, received) /\ Ages(w, v) /\ Fed(w, v, cs, item)
       /\ \A n \in Nat : AllOlder(w, received, n) /\ (item.kind = "rtp" => item.number < n) =>
                           AllOlder(v, received, n)
  BY <1>2, <1>7, <1>9, <1>10, <1>13, EnqueueGood DEF Told
<1>15. World' = v
  BY <1>11, <1>14, BecomeIs DEF Good, Sound
<1>16. /\ server' = server /\ stop' = stop /\ tasks' = tasks /\ feed' = feed /\ expired' \in SUBSET Ids
       /\ received' = received
  BY <1>2 DEF SendMedia
<1>17. \A n \in Nat : AllOlder(w, received, n) /\ (Doing("media") => io' = io \/ Head(io).number < n) =>
                        AllOlder(v, received', n)
  BY <1>3, <1>4, <1>7, <1>14, <1>16 DEF Doing, IoFree
<1>18. IInv'
  BY <1>1, <1>2, <1>4, <1>14, <1>15, <1>16, <1>17, WorldSteps
<1>19. h.gen = IF server.started THEN server.gen ELSE server.gen - 1
  BY <1>3, <1>4 DEF IInv, Generations, Doing, IoFree
<1>20. ASSUME NEW c \in Ids, Len(conn'[c].queue) > Len(conn[c].queue)
       PROVE  Last(conn'[c].queue).gen = IF server.started THEN server.gen ELSE server.gen - 1
  <2>1. PICK q : q = conn[c].queue
    OBVIOUS
  <2>2. PICK p : p = conn'[c].queue
    OBVIOUS
  <2>3. q \in Seq(Items) /\ Len(q) \in Nat /\ Len(<<>>) = 0
    BY <1>2, <2>1, WorldParts, EmptySeq
  <2>4. p = q \/ p = <<>> \/ p = Append(q, item)
    BY <1>2, <1>14, <1>15, <2>1, <2>2 DEF Fed, World
  <2>5. p = Append(q, item)
    BY <1>20, <2>1, <2>2, <2>3, <2>4
  <2>6. Len(p) = Len(q) + 1 /\ p[Len(q) + 1] = item
    BY <1>7, <2>3, <2>5, AppendProperties
  <2> QED BY <1>7, <1>19, <2>2, <2>6 DEF Last
<1> QED BY <1>18, <1>20 DEF MediaStep

-----------------------------------------------------------------------------
(* Tasks                                                                   *)

LEMMA TasksAre ==
  ASSUME Typed
  PROVE  /\ Len(tasks) \in Nat /\ \A i \in 1 .. Len(tasks) : tasks[i] \in Tasks
         /\ tasks # <<>> => /\ Tail(tasks) \in Seq(Tasks) /\ Len(Tail(tasks)) = Len(tasks) - 1
                            /\ 1 \in 1 .. Len(tasks) /\ Head(tasks) = tasks[1]
                            /\ \A i \in 1 .. Len(tasks) - 1 : Tail(tasks)[i] = tasks[i + 1]
         /\ \A t \in Tasks : /\ Append(tasks, t) \in Seq(Tasks) /\ Len(Append(tasks, t)) = Len(tasks) + 1
                             /\ Append(tasks, t)[Len(tasks) + 1] = t
                             /\ \A i \in 1 .. Len(tasks) : Append(tasks, t)[i] = tasks[i]
<1>1. tasks \in Seq(Tasks)
  BY DEF Typed
<1> QED BY <1>1, HeadTailProperties, AppendProperties, LenProperties, ElementOfSeq, EmptySeq

LEMMA TaskIs ==
  ASSUME NEW t \in Tasks
  PROVE  /\ t \in Handlers /\ t.do \in {"accept", "close", "media"}
         /\ t.do = "media" => t \in Posted /\ t.number \in 1 .. MaxMedia
         /\ t.do = "close" => t.to \in SUBSET Ids
BY DEF Handlers, Tasks, Accepted, Barriers, Posted

LEMMA OlderStays ==
  ASSUME Typed, Good(World, received), NEW n \in Nat, AllOlder(World, received, n)
  PROVE  AllOlder(World, received, n + 1)
<1>1. ASSUME NEW c \in Ids PROVE Older(received[c], World.conn[c].queue, n + 1)
  <2>1. PICK q : q = World.conn[c].queue
    OBVIOUS
  <2>2. q \in Seq(Items) /\ received[c] \in Clients /\ Older(received[c], q, n)
    BY <2>1, WorldParts DEF Typed, Good, Sound, Received, AllOlder
  <2>3. \A i \in 1 .. Len(q) : q[i] \in Items
    BY <2>2, ElementOfSeq
  <2>4. received[c].number \in Nat
    BY <2>2, ServerAssumption DEF Clients
  <2>5. \A i \in 1 .. Len(q) : q[i].kind = "rtp" => q[i].number \in Nat
    BY <2>3 DEF Items
  <2> QED BY <2>1, <2>2, <2>4, <2>5 DEF Older
<1> QED BY <1>1 DEF AllOlder

\* Nothing of the world changes.
LEMMA WorldStays ==
  ASSUME IInv, UNCHANGED <<manager, session, conn, received>>
  PROVE  Good(World, received)' /\ MediaAsAnswered' /\ Quiet(World, World')
<1>1. World' = World
  BY DEF World
<1> QED BY <1>1 DEF IInv, MediaAsAnswered, Quiet

LEMMA StartKeeps ==
  ASSUME IInv, Start
  PROVE  IInv' /\ Quiet(World, World')
<1>1. /\ Typed /\ Generations /\ Accepts /\ Stopping /\ MediaOrder /\ MediaAsAnswered
      /\ ~server.started /\ stop.todo = "none" /\ server.lifecycles < MaxLifecycles
      /\ MaxLifecycles \in Nat
  BY ServerAssumption DEF IInv, Start
<1>2. /\ stop' = stop /\ session' = session /\ conn' = conn /\ expired' = expired /\ tasks' = tasks
      /\ io' = io /\ feed' = feed /\ received' = received
  BY DEF Start
<1>3. /\ server' \in [started : BOOLEAN, gen : Nat, accepting : BOOLEAN, lifecycles : 0 .. MaxLifecycles]
      /\ server'.started /\ server'.accepting
      /\ server'.gen = server.gen + 1 /\ server'.lifecycles = server.lifecycles + 1
  BY <1>1 DEF Typed, Start
<1>4. io = <<>>
  BY <1>1 DEF Generations, IoRuns
<1>5. Typed'
  BY <1>1, <1>2, <1>3 DEF Typed
<1>6. Generations'
  BY <1>1, <1>2, <1>3, <1>4 DEF Generations, IoRuns, Doing, IoFree, Typed
<1>7. Accepts'
  BY <1>1, <1>2, <1>3, <1>4 DEF Accepts, Doing, IoFree
<1>8. Stopping'
  BY <1>1, <1>2 DEF Stopping
<1>9. MediaOrder'
  BY <1>1, <1>2 DEF MediaOrder, Doing, IoFree, AllOlder, World
<1>10. PICK w : w = World
  OBVIOUS
<1>11. Good(w, received) /\ w \in Worlds /\ w.conn = conn /\ w.session = session /\ w.manager = manager
  BY <1>10, WorldKnown
<1>12. PICK m : m = [manager EXCEPT !.sessions = {}, !.active = [a \in Addresses |-> 0],
                                    !.failures = [a \in Addresses |-> 0]]
  OBVIOUS
<1>13. m \in Managers /\ m.sessions = {} /\ m.next = manager.next /\ m.active = [a \in Addresses |-> 0]
  <2>1. manager \in Managers
    BY <1>11 DEF Worlds
  <2>2. [a \in Addresses |-> 0] \in [Addresses -> Nat]
    OBVIOUS
  <2> QED BY <1>12, <2>1, <2>2 DEF Managers
<1>14. World' = [w EXCEPT !.manager = m]
  BY <1>2, <1>10, <1>12 DEF Start, World
<1>15. Good(World, received)' /\ MediaAsAnswered'
  BY <1>1, <1>2, <1>11, <1>13, <1>14, ClearedGood DEF MediaAsAnswered
<1>16. Quiet(World, World')
  BY <1>2 DEF Quiet, World
<1> QED BY <1>5, <1>6, <1>7, <1>8, <1>9, <1>15, <1>16 DEF IInv

LEMMA StopGateKeeps ==
  ASSUME IInv, StopGate
  PROVE  IInv' /\ Quiet(World, World')
<1>1. /\ Typed /\ Generations /\ Accepts /\ Stopping /\ MediaOrder
      /\ server.started /\ stop.todo = "none"
  BY DEF IInv, StopGate
<1>2. /\ session' = session /\ conn' = conn /\ expired' = expired /\ tasks' = tasks
      /\ manager' = manager /\ io' = io /\ feed' = feed /\ received' = received
  BY DEF StopGate
<1>3. /\ server' \in [started : BOOLEAN, gen : Nat, accepting : BOOLEAN, lifecycles : 0 .. MaxLifecycles]
      /\ ~server'.started /\ ~server'.accepting
      /\ server'.gen = server.gen + 1 /\ server'.lifecycles = server.lifecycles
  <2>1. server \in [started : BOOLEAN, gen : Nat, accepting : BOOLEAN, lifecycles : 0 .. MaxLifecycles]
    BY <1>1 DEF Typed
  <2>2. server' = [server EXCEPT !.started = FALSE, !.gen = server.gen + 1, !.accepting = FALSE]
    BY DEF StopGate
  <2>3. \A n \in Nat : [server EXCEPT !.started = FALSE, !.gen = n, !.accepting = FALSE]
                         \in [started : BOOLEAN, gen : Nat, accepting : BOOLEAN, lifecycles : 0 .. MaxLifecycles]
    BY <2>1
  <2>4. server.gen + 1 \in Nat
    BY <2>1
  <2>5. /\ ~server'.started /\ ~server'.accepting
        /\ server'.gen = server.gen + 1 /\ server'.lifecycles = server.lifecycles
    BY <2>1, <2>2
  <2> QED BY <2>2, <2>3, <2>4, <2>5
<1>4. /\ stop' \in [todo : {"none", "snapshot", "wait", "closed"}, found : SUBSET Ids]
      /\ stop'.todo = "snapshot" /\ stop'.found = stop.found
  BY <1>1 DEF Typed, StopGate
<1>5. Typed'
  BY <1>1, <1>2, <1>3, <1>4 DEF Typed
<1>6. Generations'
  BY <1>1, <1>2, <1>3, <1>4 DEF Generations, IoRuns, Doing, IoFree, Typed
<1>7. Accepts'
  BY <1>1, <1>2, <1>3, <1>4 DEF Accepts, Doing, IoFree
<1>8. Stopping'
  BY <1>1, <1>2, <1>4 DEF Stopping
<1>9. MediaOrder'
  BY <1>1, <1>2 DEF MediaOrder, Doing, IoFree, AllOlder, World
<1> QED BY <1>2, <1>5, <1>6, <1>7, <1>8, <1>9, WorldStays DEF IInv

LEMMA StopSnapshotKeeps ==
  ASSUME IInv, StopSnapshot
  PROVE  IInv' /\ Quiet(World, World')
<1>1. /\ Typed /\ Generations /\ Accepts /\ Stopping /\ MediaOrder
      /\ stop.todo = "snapshot" /\ manager.sessions \in SUBSET Ids
      /\ \A c \in manager.sessions : session[c].state = "open"
  BY WorldKnown DEF IInv, StopSnapshot, Worlds, Managers, Good, Sound, Agrees
<1>2. /\ session' = session /\ conn' = conn /\ expired' = expired /\ server' = server
      /\ manager' = manager /\ io' = io /\ feed' = feed /\ received' = received
  BY DEF StopSnapshot
<1>3. PICK t : t = [do |-> "close", gen |-> server.gen, number |-> 0, to |-> manager.sessions]
  OBVIOUS
<1>4. t \in Tasks /\ t.do = "close" /\ t.to = manager.sessions
  BY <1>1, <1>3 DEF Typed, Tasks, Barriers
<1>5. /\ tasks' = Append(tasks, t) /\ stop'.todo = "wait" /\ stop'.found = manager.sessions
      /\ stop' \in [todo : {"none", "snapshot", "wait", "closed"}, found : SUBSET Ids]
  BY <1>1, <1>3 DEF StopSnapshot
<1>6. /\ tasks' \in Seq(Tasks) /\ Len(tasks') = Len(tasks) + 1 /\ tasks'[Len(tasks) + 1] = t
      /\ Len(tasks) \in Nat /\ \A i \in 1 .. Len(tasks) : tasks'[i] = tasks[i]
  BY <1>1, <1>4, <1>5, TasksAre
<1>7. Typed'
  BY <1>1, <1>2, <1>5, <1>6 DEF Typed
<1>8. Generations'
  BY <1>1, <1>2, <1>5 DEF Generations, IoRuns, Doing, IoFree
<1>9. Accepts'
  BY <1>1, <1>2, <1>4, <1>5, <1>6 DEF Accepts, Stopping, Doing, IoFree
<1>10. Stopping'
  BY <1>1, <1>2, <1>4, <1>5, <1>6 DEF Stopping
<1>11. MediaOrder'
  BY <1>1, <1>2, <1>4, <1>6 DEF MediaOrder, Doing, IoFree, AllOlder, World
<1> QED BY <1>2, <1>7, <1>8, <1>9, <1>10, <1>11, WorldStays DEF IInv

LEMMA WriteBeginsKeeps ==
  ASSUME IInv, WriteBegins
  PROVE  IInv' /\ Quiet(World, World')
<1>1. /\ Typed /\ Generations /\ Accepts /\ Stopping /\ MediaOrder /\ Good(World, received)
      /\ server.started /\ feed.writing = 0 /\ feed.media < MaxMedia
      /\ MaxLifecycles \in Nat /\ MaxMedia \in Nat
  BY ServerAssumption DEF IInv, WriteBegins
<1>2. /\ session' = session /\ conn' = conn /\ expired' = expired /\ server' = server /\ tasks' = tasks
      /\ manager' = manager /\ io' = io /\ stop' = stop /\ received' = received
  BY DEF WriteBegins
<1>3. server.gen \in 0 .. 2 * MaxLifecycles /\ server.gen # 0
  BY <1>1 DEF Typed, Generations
<1>4. /\ feed' \in [media : 0 .. MaxMedia, writing : 0 .. 2 * MaxLifecycles, requests : Nat]
      /\ feed'.media = feed.media + 1 /\ feed'.writing = server.gen /\ feed.media \in Nat
  <2>1. feed \in [media : 0 .. MaxMedia, writing : 0 .. 2 * MaxLifecycles, requests : Nat]
    BY <1>1 DEF Typed
  <2>2. feed' = [feed EXCEPT !.media = feed.media + 1, !.writing = server.gen]
    BY DEF WriteBegins
  <2>3. feed.media + 1 \in 0 .. MaxMedia /\ feed.media \in Nat
    BY <1>1, <2>1
  <2>4. \A m \in 0 .. MaxMedia, n \in 0 .. 2 * MaxLifecycles :
          LET f == [feed EXCEPT !.media = m, !.writing = n]
          IN  /\ f \in [media : 0 .. MaxMedia, writing : 0 .. 2 * MaxLifecycles, requests : Nat]
              /\ f.media = m /\ f.writing = n
    BY <2>1
  <2> QED BY <1>3, <2>2, <2>3, <2>4
<1>5. Typed'
  BY <1>1, <1>2, <1>4 DEF Typed
<1>6. Generations'
  BY <1>1, <1>2 DEF Generations, IoRuns, Doing, IoFree
<1>7. Accepts' /\ Stopping'
  BY <1>1, <1>2 DEF Accepts, Stopping, Doing, IoFree
<1>8. MediaOrder'
  <2>1. AllOlder(World, received, feed.media + 1) /\ AllOlder(World, received, (feed.media + 1) + 1)
    BY <1>1, <1>4, OlderStays DEF MediaOrder
  <2>2. Doing("media") => Head(io).number \in Nat
    BY <1>1, IoIs, HandlersAre DEF Doing, IoFree, Posted
  <2>3. \A i \in 1 .. Len(tasks) : tasks[i].do = "media" => tasks[i].number \in Nat
    BY <1>1, TasksAre, TaskIs
  <2> QED BY <1>1, <1>2, <1>4, <2>1, <2>2, <2>3 DEF MediaOrder, Doing, IoFree, AllOlder, World
<1> QED BY <1>2, <1>5, <1>6, <1>7, <1>8, WorldStays DEF IInv

LEMMA WritePostsKeeps ==
  ASSUME IInv, WritePosts
  PROVE  IInv' /\ Quiet(World, World')
<1>1. /\ Typed /\ Generations /\ Accepts /\ Stopping /\ MediaOrder /\ Good(World, received)
      /\ feed.writing # 0 /\ MaxLifecycles \in Nat /\ MaxMedia \in Nat
      /\ manager.sessions \in SUBSET Ids
  BY ServerAssumption, WorldKnown DEF IInv, WritePosts, Worlds, Managers
<1>2. /\ session' = session /\ conn' = conn /\ expired' = expired /\ server' = server
      /\ manager' = manager /\ io' = io /\ stop' = stop /\ received' = received
  BY DEF WritePosts
<1>3. /\ feed' \in [media : 0 .. MaxMedia, writing : 0 .. 2 * MaxLifecycles, requests : Nat]
      /\ feed'.media = feed.media /\ feed'.writing = 0
      /\ feed.media \in 1 .. MaxMedia /\ feed.writing \in 1 .. 2 * MaxLifecycles
  <2>1. feed \in [media : 0 .. MaxMedia, writing : 0 .. 2 * MaxLifecycles, requests : Nat]
    BY <1>1 DEF Typed
  <2>2. feed' = [feed EXCEPT !.writing = 0]
    BY DEF WritePosts
  <2>3. 0 \in 0 .. 2 * MaxLifecycles
    BY <1>1
  <2>4. feed.media \in 1 .. MaxMedia /\ feed.writing \in 1 .. 2 * MaxLifecycles
    <3>1. feed.media > 0
      BY <1>1 DEF MediaOrder
    <3> QED BY <1>1, <2>1, <3>1
  <2> QED BY <2>1, <2>2, <2>3, <2>4
<1>4. PICK to : to = IF server.gen <= feed.writing + 1 THEN manager.sessions ELSE {}
  OBVIOUS
<1>5. PICK t : t = [do |-> "media", gen |-> feed.writing, number |-> feed.media, to |-> to]
  OBVIOUS
<1>6. t \in Tasks /\ t.do = "media" /\ t.number = feed.media
  BY <1>1, <1>3, <1>4, <1>5 DEF Tasks, Posted
<1>7. tasks' = Append(tasks, t)
  BY <1>4, <1>5 DEF WritePosts
<1>8. /\ tasks' \in Seq(Tasks) /\ Len(tasks') = Len(tasks) + 1 /\ tasks'[Len(tasks) + 1] = t
      /\ Len(tasks) \in Nat /\ \A i \in 1 .. Len(tasks) : tasks'[i] = tasks[i]
  BY <1>1, <1>6, <1>7, TasksAre
<1>9. Typed'
  BY <1>1, <1>2, <1>3, <1>8 DEF Typed
<1>10. Generations'
  BY <1>1, <1>2 DEF Generations, IoRuns, Doing, IoFree
<1>11. Accepts'
  BY <1>1, <1>2, <1>6, <1>8 DEF Accepts, Doing, IoFree
<1>12. Stopping'
  BY <1>1, <1>2, <1>6, <1>8 DEF Stopping
<1>13. MediaOrder'
  <2>1. /\ AllOlder(World, received, feed.media + 1) /\ AllOlder(World, received, feed.media)
        /\ Doing("media") => /\ AllOlder(World, received, Head(io).number)
                             /\ Head(io).number < feed.media + 1 /\ Head(io).number < feed.media
    BY <1>1 DEF MediaOrder
  <2>2. World' = World
    BY <1>2 DEF World
  <2>3. Doing("media")' = Doing("media")
    BY <1>2 DEF Doing, IoFree
  <2>4. ASSUME NEW i \in 1 .. Len(tasks'), tasks'[i].do = "media"
        PROVE  /\ AllOlder(World, received, tasks'[i].number)
               /\ tasks'[i].number < feed.media + 1
               /\ Doing("media") => Head(io).number < tasks'[i].number
               /\ \A j \in 1 .. i - 1 : tasks'[j].do = "media" => tasks'[j].number < tasks'[i].number
    <3>1. CASE i \in 1 .. Len(tasks)
      BY <1>1, <1>8, <2>4, <3>1 DEF MediaOrder
    <3>2. CASE i = Len(tasks) + 1
      BY <1>1, <1>3, <1>6, <1>8, <2>1, <3>2 DEF MediaOrder
    <3> QED BY <1>8, <3>1, <3>2
  <2> QED BY <1>2, <1>3, <2>1, <2>2, <2>3, <2>4 DEF MediaOrder
<1> QED BY <1>2, <1>9, <1>10, <1>11, <1>12, <1>13, WorldStays DEF IInv

LEMMA IncomingKeeps ==
  ASSUME IInv, Incoming
  PROVE  IInv' /\ Quiet(World, World')
<1>1. /\ Typed /\ Generations /\ Accepts /\ Stopping /\ MediaOrder
      /\ server.accepting /\ server.started /\ manager.next <= MaxConnections /\ stop.todo = "none"
  BY DEF IInv, Incoming, Accepts, Generations
<1>2. /\ session' = session /\ conn' = conn /\ expired' = expired /\ feed' = feed
      /\ manager' = manager /\ io' = io /\ stop' = stop /\ received' = received
  BY DEF Incoming
<1>3. PICK a \in Addresses :
        tasks' = Append(tasks, [do |-> "accept", gen |-> server.gen, number |-> 0, to |-> {a}])
  BY DEF Incoming
<1>4. PICK t : t = [do |-> "accept", gen |-> server.gen, number |-> 0, to |-> {a}]
  OBVIOUS
<1>5. t \in Tasks /\ t.do = "accept"
  BY <1>1, <1>4 DEF Typed, Tasks, Accepted
<1>6. /\ tasks' \in Seq(Tasks) /\ Len(tasks') = Len(tasks) + 1 /\ tasks'[Len(tasks) + 1] = t
      /\ Len(tasks) \in Nat /\ \A i \in 1 .. Len(tasks) : tasks'[i] = tasks[i]
  BY <1>1, <1>3, <1>4, <1>5, TasksAre
<1>7. /\ server' \in [started : BOOLEAN, gen : Nat, accepting : BOOLEAN, lifecycles : 0 .. MaxLifecycles]
      /\ server'.started = server.started /\ ~server'.accepting
      /\ server'.gen = server.gen /\ server'.lifecycles = server.lifecycles
  <2>1. server \in [started : BOOLEAN, gen : Nat, accepting : BOOLEAN, lifecycles : 0 .. MaxLifecycles]
    BY <1>1 DEF Typed
  <2>2. server' = [server EXCEPT !.accepting = FALSE]
    BY DEF Incoming
  <2> QED BY <2>1, <2>2
<1>8. Typed'
  BY <1>1, <1>2, <1>6, <1>7 DEF Typed
<1>9. Generations'
  BY <1>1, <1>2, <1>7 DEF Generations, IoRuns, Doing, IoFree
<1>10. Accepts'
  <2>1. \A i \in 1 .. Len(tasks) : tasks[i].do # "accept" /\ tasks[i].do # "close"
    BY <1>1 DEF Accepts, Stopping
  <2>2. ~Doing("accept")
    BY <1>1 DEF Accepts
  <2> QED BY <1>1, <1>2, <1>5, <1>6, <1>7, <2>1, <2>2 DEF Accepts, Doing, IoFree
<1>11. Stopping'
  BY <1>1, <1>2, <1>5, <1>6 DEF Stopping
<1>12. MediaOrder'
  BY <1>1, <1>2, <1>5, <1>6 DEF MediaOrder, Doing, IoFree, AllOlder, World
<1> QED BY <1>2, <1>8, <1>9, <1>10, <1>11, <1>12, WorldStays DEF IInv

LEMMA OnAcceptedKeeps ==
  ASSUME IInv, OnAccepted
  PROVE  IInv' /\ Quiet(World, World')
<1>1. /\ Typed /\ Generations /\ Accepts /\ Stopping /\ MediaOrder
      /\ IoRuns /\ io = <<>> /\ tasks # <<>> /\ Head(tasks).do = "accept" /\ tasks' = Tail(tasks)
  BY DEF IInv, OnAccepted, NextTask, IoFree
<1>2. /\ session' = session /\ conn' = conn /\ expired' = expired /\ feed' = feed
      /\ manager' = manager /\ server' = server /\ stop' = stop /\ received' = received
  BY DEF OnAccepted
<1>3. /\ Len(tasks) \in Nat /\ tasks' \in Seq(Tasks) /\ Len(tasks') = Len(tasks) - 1
      /\ 1 \in 1 .. Len(tasks) /\ tasks[1] \in Tasks /\ tasks[1].do = "accept"
      /\ \A i \in 1 .. Len(tasks) - 1 : tasks'[i] = tasks[i + 1]
  BY <1>1, TasksAre
<1>4. PICK h : h = tasks[1]
  OBVIOUS
<1>5. /\ <<h>> \in Seq(Handlers) /\ Len(<<h>>) = 1 /\ Head(<<h>>) = h /\ <<h>> # <<>>
      /\ h.do = "accept"
  BY <1>3, <1>4, TaskIs, HandlersAre
<1>6. io' = <<h>> \/ io' = <<>>
  BY <1>1, <1>4, TasksAre DEF OnAccepted
<1>7. Typed'
  <2>1. io' \in Seq(Handlers) /\ Len(io') <= 1
    <3>1. CASE io' = <<h>>
      BY <1>5, <3>1
    <3>2. CASE io' = <<>>
      BY <3>2, EmptySeq
    <3> QED BY <1>6, <3>1, <3>2
  <2> QED BY <1>1, <1>2, <1>3, <2>1 DEF Typed
<1>8. Generations'
  BY <1>1, <1>2, <1>5, <1>6 DEF Generations, IoRuns, Doing, IoFree
<1>9. Accepts'
  <2>1. /\ ~server.accepting /\ manager.next <= MaxConnections
        /\ \A j \in 1 .. Len(tasks) : tasks[j].do = "accept" => j = 1
    BY <1>1, <1>3 DEF Accepts
  <2>2. \A i \in 1 .. Len(tasks') : tasks'[i].do # "accept"
    BY <1>3, <2>1
  <2> QED BY <1>1, <1>2, <2>1, <2>2 DEF Accepts
<1>10. Stopping'
  <2>1. stop.todo = "wait" => \E i \in 1 .. Len(tasks') : tasks'[i].do = "close"
    <3>1. ASSUME NEW i \in 1 .. Len(tasks), tasks[i].do = "close" PROVE \E j \in 1 .. Len(tasks') : tasks'[j].do = "close"
      <4>1. i - 1 \in 1 .. Len(tasks') /\ tasks'[i - 1] = tasks[i]
        BY <1>3, <3>1
      <4> QED BY <3>1, <4>1
    <3> QED BY <1>1, <3>1 DEF Stopping
  <2> QED BY <1>1, <1>2, <1>3, <2>1 DEF Stopping
<1>11. MediaOrder'
  BY <1>1, <1>2, <1>3, <1>5, <1>6 DEF MediaOrder, Doing, IoFree, AllOlder, World
<1> QED BY <1>2, <1>7, <1>8, <1>9, <1>10, <1>11, WorldStays DEF IInv

LEMMA CreateSessionKeeps ==
  ASSUME IInv, CreateSession
  PROVE  IInv' /\ Quiet(World, World')
<1>1. /\ Typed /\ Generations /\ Accepts /\ Stopping /\ MediaOrder /\ MediaAsAnswered
      /\ io # <<>> /\ Head(io).do = "accept" /\ manager.next <= MaxConnections /\ MaxConnections \in Nat
  BY ServerAssumption DEF IInv, CreateSession, Doing, IoFree, Accepts
<1>2. /\ tasks' = tasks /\ io' = <<>> /\ expired' = expired /\ feed' = feed /\ stop' = stop
      /\ received' = received /\ server' = [server EXCEPT !.accepting = server.started]
  BY DEF CreateSession
<1>3. PICK w : w = World
  OBVIOUS
<1>4. /\ w \in Worlds /\ Sound(w) /\ Told(w, received) /\ received \in Received
      /\ w.conn = conn /\ w.session = session /\ w.manager = manager
  BY <1>3, WorldKnown DEF Good
<1>5. manager \in Managers /\ manager.next \in Ids
  <2>1. manager \in Managers
    BY <1>4 DEF Worlds
  <2> QED BY <1>1, <2>1 DEF Managers, Ids
<1>6. PICK c \in Ids : c = manager.next
  BY <1>5
<1>7. /\ session[c].state = "unborn" /\ ~session[c].playing /\ conn[c].state = "closed"
      /\ conn[c].queue = <<>> /\ c \notin manager.sessions
      /\ session[c] \in Sessions /\ conn[c] \in Conns
  <2>1. c >= w.manager.next
    BY <1>4, <1>6 DEF Ids
  <2>2. session[c].state = "unborn" /\ ~session[c].playing /\ conn[c].state = "closed"
    BY <1>4, <2>1 DEF Sound, Agrees
  <2>3. conn[c].queue = <<>>
    BY <1>4, <2>2 DEF Sound, QueuesBounded
  <2>4. c \notin manager.sessions
    BY <1>4, <2>2 DEF Sound, Agrees
  <2>5. session[c] \in Sessions /\ conn[c] \in Conns
    BY <1>4, WorldParts
  <2> QED BY <2>2, <2>3, <2>4, <2>5
<1>8. PICK a \in Addresses : a = CHOOSE b \in Addresses : b \in Head(io).to
  <2>1. Head(io) \in Accepted
    BY <1>1, IoIs, HandlersAre
  <2>2. \E b \in Addresses : b \in Head(io).to
    BY <2>1 DEF Accepted
  <2> QED BY <2>2
<1>9. /\ server' \in [started : BOOLEAN, gen : Nat, accepting : BOOLEAN, lifecycles : 0 .. MaxLifecycles]
      /\ server'.started = server.started /\ server'.accepting = server.started
      /\ server'.gen = server.gen /\ server'.lifecycles = server.lifecycles
  <2>1. server \in [started : BOOLEAN, gen : Nat, accepting : BOOLEAN, lifecycles : 0 .. MaxLifecycles]
    BY <1>1 DEF Typed
  <2> QED BY <1>2, <2>1
<1>10. Typed'
  BY <1>1, <1>2, <1>9, EmptySeq DEF Typed
<1>11. Generations'
  BY <1>1, <1>2, <1>9 DEF Generations, IoRuns, Doing, IoFree
<1>12. Accepts'
  <2>1. \A i \in 1 .. Len(tasks) : tasks[i].do # "accept"
    BY <1>1 DEF Accepts, Doing, IoFree
  <2> QED BY <1>2, <1>9, <2>1 DEF Accepts, Doing, IoFree
<1>13. CASE UNCHANGED <<manager, session, conn>>
  <2>1. Stopping' /\ MediaOrder'
    BY <1>1, <1>2, <1>13 DEF Stopping, MediaOrder, Doing, IoFree, AllOlder, World
  <2> QED BY <1>2, <1>10, <1>11, <1>12, <1>13, <2>1, WorldStays DEF IInv
<1>14. CASE ~UNCHANGED <<manager, session, conn>>
  <2>1. /\ manager' = [manager EXCEPT !.sessions = @ \cup {c}, !.active[a] = @ + 1, !.next = @ + 1]
        /\ session' = [session EXCEPT ![c] = [@ EXCEPT !.state = "open", !.address = a]]
        /\ conn' = [conn EXCEPT ![c].state = "open"]
    BY <1>6, <1>8, <1>14 DEF CreateSession
  <2>2. PICK f : f = [manager.active EXCEPT ![a] = manager.active[a] + 1]
    OBVIOUS
  <2>3. /\ f \in [Addresses -> Nat] /\ f[a] = manager.active[a] + 1
        /\ \A b \in Addresses : b # a => f[b] = manager.active[b]
    BY <1>5, <2>2 DEF Managers
  <2>4. manager' = [manager EXCEPT !.sessions = manager.sessions \cup {c}, !.active = f, !.next = manager.next + 1]
    BY <1>5, <2>1, <2>2 DEF Managers
  <2>5. /\ manager' \in Managers /\ manager'.sessions = manager.sessions \cup {c}
        /\ manager'.active = f /\ manager'.next = manager.next + 1
    <3>1. manager.sessions \cup {c} \in SUBSET Ids /\ manager.next + 1 \in 1 .. MaxConnections + 1
      BY <1>1, <1>5, <1>6 DEF Managers
    <3> QED BY <1>5, <2>3, <2>4, <3>1 DEF Managers
  <2>6. PICK s : s = [session[c] EXCEPT !.state = "open", !.address = a]
    OBVIOUS
  <2>7. s \in Sessions /\ s.state = "open" /\ s.address = a /\ ~s.playing
    <3>1. \A t \in Sessions : LET u == [t EXCEPT !.state = "open", !.address = a]
                              IN  u \in Sessions /\ u.state = "open" /\ u.address = a /\ u.playing = t.playing
      BY DEF Sessions, SessionStates
    <3>2. s.playing = session[c].playing
      BY <1>7, <2>6 DEF Sessions
    <3> QED BY <1>7, <2>6, <3>1, <3>2
  <2>8. /\ session' \in [Ids -> Sessions] /\ session'[c] = s
        /\ \A d \in Ids : d # c => session'[d] = session[d]
    BY <1>4, <2>1, <2>6, <2>7 DEF Worlds
  <2>9. PICK k : k = [conn[c] EXCEPT !.state = "open"]
    OBVIOUS
  <2>10. k \in Conns /\ k.state = "open" /\ k.queue = <<>>
    BY <1>7, <2>9 DEF Conns
  <2>11. /\ conn' \in [Ids -> Conns] /\ conn'[c] = k
         /\ \A d \in Ids : d # c => conn'[d] = conn[d]
    BY <1>4, <2>1, <2>9, <2>10 DEF Worlds, Conns
  <2>12. PICK v : v = World'
    OBVIOUS
  <2>13. v \in Worlds /\ v.manager = manager' /\ v.session = session' /\ v.conn = conn'
    BY <2>5, <2>8, <2>11, <2>12 DEF World, Worlds
  <2>14. /\ manager.sessions \in SUBSET Ids /\ v.manager.sessions = manager.sessions \cup {c}
         /\ v.session[c].address = a /\ v.session[c].state = "open"
         /\ \A d \in manager.sessions : v.session[d] = w.session[d]
    BY <1>4, <1>5, <1>7, <2>5, <2>7, <2>8, <2>13 DEF Managers
  <2>15. QueuesBounded(v)
    <3>1. Len(<<>>) <= MaxQueue
      BY EmptySeq, ServerAssumption
    <3> QED BY <1>4, <2>10, <2>11, <2>13, <3>1 DEF Sound, QueuesBounded
  <2>16. Counted(v)
    <3>1. ASSUME NEW b \in Addresses PROVE v.manager.active[b] = Cardinality(From(v, b))
      <4>1. w.manager.active[b] = Cardinality(From(w, b)) /\ From(w, b) \in SUBSET Ids /\ c \notin From(w, b)
        BY <1>4, <1>5, <1>7 DEF Sound, Counted, From, Managers
      <4>2. IsFiniteSet(From(w, b)) /\ Cardinality(From(w, b)) \in Nat
        BY <4>1, IdsFinite
      <4>3. CASE b = a
        <5>1. From(v, b) = From(w, b) \cup {c}
          BY <1>4, <2>14, <4>3 DEF From
        <5>2. Cardinality(From(v, b)) = Cardinality(From(w, b)) + 1
          BY <4>1, <4>2, <5>1, FS_AddElement
        <5> QED BY <1>4, <2>3, <2>5, <2>13, <4>1, <4>3, <5>2
      <4>4. CASE b # a
        <5>1. From(v, b) = From(w, b)
          BY <1>4, <2>14, <4>4 DEF From
        <5> QED BY <1>4, <2>3, <2>5, <2>13, <4>1, <4>4, <5>1
      <4> QED BY <4>3, <4>4
    <3> QED BY <3>1 DEF Counted
  <2>17. Agrees(v)
    <3>1. \A d \in v.manager.sessions : v.session[d].state = "open"
      BY <1>4, <2>14 DEF Sound, Agrees
    <3>2. \A d \in Ids : v.session[d].state = "closed" => v.conn[d].state = "closed"
      BY <1>4, <2>7, <2>8, <2>11, <2>13 DEF Sound, Agrees
    <3>3. ASSUME NEW d \in Ids, d >= v.manager.next
          PROVE  v.session[d].state = "unborn" /\ ~v.session[d].playing /\ v.conn[d].state = "closed"
      <4>1. d # c /\ d >= w.manager.next
        BY <1>4, <1>5, <1>6, <2>5, <2>13, <3>3 DEF Ids, Managers
      <4> QED BY <1>4, <2>8, <2>11, <2>13, <4>1 DEF Sound, Agrees
    <3> QED BY <3>1, <3>2, <3>3 DEF Agrees
  <2>18. \A d \in Ids : v.conn[d].queue = w.conn[d].queue
    BY <1>4, <1>7, <2>10, <2>11, <2>13
  <2>19. Told(v, received)
    <3>1. ASSUME NEW d \in Ids PROVE QueueTells(received[d], v.conn[d].queue) /\ ReadyForMedia(v, received, d)
      <4>1. CASE d = c
        BY <1>4, <2>7, <2>8, <2>13, <2>18, <4>1 DEF Told, ReadyForMedia, Plays
      <4>2. CASE d # c
        BY <1>4, <2>8, <2>11, <2>13, <4>2 DEF Told, ReadyForMedia, Plays
      <4> QED BY <4>1, <4>2
    <3> QED BY <3>1 DEF Told
  <2>20. Good(World, received)' /\ MediaAsAnswered'
    BY <1>1, <1>2, <2>12, <2>13, <2>15, <2>16, <2>17, <2>19 DEF Good, Sound, MediaAsAnswered
  <2>21. Stopping'
    <3>1. stop.found \in SUBSET Ids
      BY <1>1 DEF Typed
    <3>2. c \in stop.found => stop.todo = "snapshot"
      BY <1>1, <1>7 DEF Stopping, Typed
    <3> QED BY <1>1, <1>2, <2>8, <3>1, <3>2 DEF Stopping
  <2>22. \A n : AllOlder(World, received, n) => AllOlder(v, received, n)
    BY <1>3, <2>18 DEF AllOlder
  <2>23. MediaOrder'
    BY <1>1, <1>2, <2>12, <2>22 DEF MediaOrder, Doing, IoFree
  <2>24. Quiet(World, World')
    BY <1>3, <2>12, <2>18 DEF Quiet
  <2> QED BY <1>10, <1>11, <1>12, <2>20, <2>21, <2>23, <2>24 DEF IInv
<1> QED BY <1>13, <1>14

\* The first task leaves the queue.
LEMMA TailOfTasks ==
  ASSUME Typed, Accepts, tasks # <<>>, tasks' = Tail(tasks)
  PROVE  /\ Len(tasks) \in Nat /\ tasks' \in Seq(Tasks) /\ Len(tasks') = Len(tasks) - 1
         /\ 1 \in 1 .. Len(tasks) /\ Head(tasks) = tasks[1] /\ tasks[1] \in Tasks
         /\ \A i \in 1 .. Len(tasks') : i + 1 \in 1 .. Len(tasks) /\ tasks'[i] = tasks[i + 1]
         /\ \A i \in 1 .. Len(tasks) : i # 1 => i - 1 \in 1 .. Len(tasks') /\ tasks'[i - 1] = tasks[i]
BY TasksAre

LEMMA MediaGateKeeps ==
  ASSUME IInv, MediaGate
  PROVE  IInv' /\ Quiet(World, World')
<1>1. /\ Typed /\ Generations /\ Accepts /\ Stopping /\ MediaOrder /\ MediaAsAnswered
      /\ IoRuns /\ io = <<>> /\ tasks # <<>> /\ Head(tasks).do = "media" /\ tasks' = Tail(tasks)
  BY DEF IInv, MediaGate, NextTask, IoFree
<1>2. /\ server' = server /\ stop' = stop /\ expired' = expired /\ feed' = feed /\ received' = received
  BY DEF MediaGate
<1>3. /\ Len(tasks) \in Nat /\ tasks' \in Seq(Tasks) /\ Len(tasks') = Len(tasks) - 1
      /\ 1 \in 1 .. Len(tasks) /\ Head(tasks) = tasks[1] /\ tasks[1] \in Tasks
      /\ \A i \in 1 .. Len(tasks') : i + 1 \in 1 .. Len(tasks) /\ tasks'[i] = tasks[i + 1]
      /\ \A i \in 1 .. Len(tasks) : i # 1 => i - 1 \in 1 .. Len(tasks') /\ tasks'[i - 1] = tasks[i]
  BY <1>1, TailOfTasks
<1>4. PICK h : h = tasks[1]
  OBVIOUS
<1>5. /\ <<h>> \in Seq(Handlers) /\ Len(<<h>>) = 1 /\ Head(<<h>>) = h /\ <<h>> # <<>>
      /\ h.do = "media"
  BY <1>1, <1>3, <1>4, TaskIs, HandlersAre
<1>6. PICK w : w = World
  OBVIOUS
<1>7. PICK v : v = World'
  OBVIOUS
<1>8. /\ Good(w, received) /\ received \in Received /\ w \in Worlds
      /\ w.conn = conn /\ w.session = session /\ w.manager = manager
  BY <1>6, WorldKnown
<1>9. /\ Good(v, received) /\ v.manager = w.manager /\ v.conn = w.conn
      /\ \A c \in Ids : \/ v.session[c].state = w.session[c].state
                        \/ /\ w.session[c].state = "open" /\ v.session[c].state = "lost"
                           /\ \A i \in 1 .. Len(tasks') : c \notin tasks'[i].to
      /\ \A n \in Nat : AllOlder(w, received, n) => AllOlder(v, received, n)
      /\ io' = <<>> \/ (io' = <<h>> /\ server.started /\ server.gen = h.gen)
  <2>1. CASE Gate(Head(tasks).gen)
    <3>1. io' = <<h>> /\ manager' = manager /\ session' = session /\ conn' = conn
      BY <1>3, <1>4, <2>1 DEF MediaGate
    <3>2. v = w
      BY <1>6, <1>7, <3>1 DEF World
    <3>3. server.started /\ server.gen = h.gen
      BY <1>3, <1>4, <2>1 DEF Gate
    <3> QED BY <1>8, <3>1, <3>2, <3>3
  <2>2. CASE ~Gate(Head(tasks).gen)
    <3>1. PICK x : x = Forget(w, tasks')
      OBVIOUS
    <3>2. io' = <<>> /\ Become(x)
      BY <1>1, <1>6, <2>2, <3>1 DEF MediaGate
    <3>3. /\ Good(x, received) /\ x.manager = w.manager /\ x.conn = w.conn
          /\ \A c \in Ids : \/ x.session[c].state = w.session[c].state
                            \/ /\ w.session[c].state = "open" /\ x.session[c].state = "lost"
                               /\ \A i \in 1 .. Len(tasks') : c \notin tasks'[i].to
          /\ \A n \in Nat : AllOlder(w, received, n) => AllOlder(x, received, n)
      <4>1. PICK ts : ts = tasks'
        OBVIOUS
      <4>2. x = Forget(w, ts)
        BY <3>1, <4>1
      <4>3. LET y == Forget(w, ts)
            IN  /\ Good(y, received) /\ y.manager = w.manager /\ y.conn = w.conn
                /\ \A c \in Ids : \/ y.session[c].state = w.session[c].state
                                  \/ /\ w.session[c].state = "open" /\ y.session[c].state = "lost"
                                     /\ \A i \in 1 .. Len(ts) : c \notin ts[i].to
                /\ \A n \in Nat : AllOlder(w, received, n) => AllOlder(y, received, n)
        BY <1>8, ForgetGood
      <4> QED BY <4>1, <4>2, <4>3
    <3>4. v = x
      BY <1>7, <3>2, <3>3, BecomeIs DEF Good, Sound
    <3> QED BY <1>1, <3>2, <3>3, <3>4
  <2> QED BY <2>1, <2>2
<1>10. Typed'
  <2>1. io' \in Seq(Handlers) /\ Len(io') <= 1
    <3>1. CASE io' = <<h>>
      BY <1>5, <3>1
    <3>2. CASE io' = <<>>
      BY <3>2, EmptySeq
    <3> QED BY <1>9, <3>1, <3>2
  <2> QED BY <1>1, <1>2, <1>3, <2>1 DEF Typed
<1>11. Generations'
  BY <1>1, <1>2, <1>5, <1>9 DEF Generations, IoRuns, Doing, IoFree
<1>12. Accepts'
  <2>1. manager'.next = manager.next
    BY <1>7, <1>8, <1>9 DEF World
  <2>2. ~Doing("accept")'
    BY <1>5, <1>9 DEF Doing, IoFree
  <2>3. ASSUME NEW i \in 1 .. Len(tasks'), tasks'[i].do = "accept"
        PROVE  /\ ~server.accepting /\ manager.next <= MaxConnections
               /\ server.started \/ stop.todo \in {"snapshot", "wait"}
               /\ \A j \in 1 .. Len(tasks') : /\ tasks'[j].do = "accept" => j = i
                                              /\ tasks'[j].do = "close" => i < j
    <3>1. i + 1 \in 1 .. Len(tasks) /\ tasks[i + 1].do = "accept"
      BY <1>3, <2>3
    <3>2. \A j \in 1 .. Len(tasks') : /\ tasks'[j].do = "accept" => j + 1 = i + 1
                                      /\ tasks'[j].do = "close" => i + 1 < j + 1
      BY <1>1, <1>3, <3>1 DEF Accepts
    <3> QED BY <1>1, <1>3, <3>1, <3>2 DEF Accepts
  <2> QED BY <1>1, <1>2, <2>1, <2>2, <2>3 DEF Accepts
<1>13. Stopping'
  <2>1. ASSUME NEW i \in 1 .. Len(tasks), tasks[i].do = "close"
        PROVE  i - 1 \in 1 .. Len(tasks') /\ tasks'[i - 1] = tasks[i]
    BY <1>3, <1>4, <1>5, <2>1
  <2>2. stop.todo = "wait" => \E i \in 1 .. Len(tasks') : tasks'[i].do = "close" /\ tasks'[i].to = stop.found
    BY <1>1, <2>1 DEF Stopping
  <2>3. ASSUME NEW i \in 1 .. Len(tasks'), tasks'[i].do = "close"
        PROVE  /\ stop.todo = "wait" /\ tasks'[i].to = stop.found
               /\ \A j \in 1 .. Len(tasks') : tasks'[j].do = "close" => j = i
    <3>1. i + 1 \in 1 .. Len(tasks) /\ tasks[i + 1] = tasks'[i]
      BY <1>3
    <3>2. \A j \in 1 .. Len(tasks') : tasks'[j].do = "close" => j + 1 = i + 1
      BY <1>1, <1>3, <2>3, <3>1 DEF Stopping
    <3> QED BY <1>1, <1>3, <2>3, <3>1, <3>2 DEF Stopping
  <2>4. ASSUME NEW c \in stop.found
        PROVE  /\ stop.todo = "wait" => session'[c].state \in {"open", "closed"}
               /\ stop.todo \in {"closed", "none"} => session'[c].state = "closed"
    <3>1. c \in Ids
      BY <1>1 DEF Typed
    <3>2. \/ session'[c].state = session[c].state
          \/ session[c].state = "open" /\ \A i \in 1 .. Len(tasks') : c \notin tasks'[i].to
      BY <1>7, <1>8, <1>9, <3>1 DEF World
    <3>3. /\ stop.todo = "wait" => session[c].state \in {"open", "closed"}
          /\ stop.todo \in {"closed", "none"} => session[c].state = "closed"
      BY <1>1 DEF Stopping
    <3> QED BY <2>2, <3>2, <3>3
  <2> QED BY <1>2, <2>2, <2>3, <2>4 DEF Stopping
<1>14. MediaOrder'
  <2>1. AllOlder(v, received, feed.media + 1) /\ (feed.writing # 0 => feed.media > 0 /\ AllOlder(v, received, feed.media))
    <3>1. feed.media \in Nat
      BY <1>1, ServerAssumption DEF Typed
    <3> QED BY <1>1, <1>6, <1>9, <3>1 DEF MediaOrder
  <2>2. ASSUME NEW i \in 1 .. Len(tasks), tasks[i].do = "media"
        PROVE  /\ AllOlder(v, received, tasks[i].number)
               /\ tasks[i].number < feed.media + 1
               /\ feed.writing # 0 => tasks[i].number < feed.media
               /\ \A j \in 1 .. i - 1 : tasks[j].do = "media" => tasks[j].number < tasks[i].number
    <3>1. tasks[i].number \in Nat
      BY <1>1, <2>2, TasksAre, TaskIs
    <3> QED BY <1>1, <1>6, <1>9, <2>2, <3>1 DEF MediaOrder
  <2>3. Doing("media")' => Head(io') = tasks[1] /\ tasks[1].do = "media"
    BY <1>4, <1>5, <1>9 DEF Doing, IoFree
  <2>4. ASSUME NEW i \in 1 .. Len(tasks'), tasks'[i].do = "media"
        PROVE  /\ AllOlder(v, received, tasks'[i].number)
               /\ tasks'[i].number < feed.media + 1
               /\ feed.writing # 0 => tasks'[i].number < feed.media
               /\ tasks[1].number < tasks'[i].number
               /\ \A j \in 1 .. i - 1 : tasks'[j].do = "media" => tasks'[j].number < tasks'[i].number
    <3>1. i + 1 \in 1 .. Len(tasks) /\ tasks'[i] = tasks[i + 1] /\ 1 \in 1 .. (i + 1) - 1
      BY <1>3
    <3>2. \A j \in 1 .. i - 1 : tasks'[j] = tasks[j + 1] /\ j + 1 \in 1 .. (i + 1) - 1
      BY <1>3
    <3>3. tasks[1].do = "media"
      BY <1>4, <1>5
    <3>4. \A j \in 1 .. (i + 1) - 1 : tasks[j].do = "media" => tasks[j].number < tasks[i + 1].number
      BY <2>2, <2>4, <3>1
    <3> QED BY <2>2, <2>4, <3>1, <3>2, <3>3, <3>4
  <2> QED BY <1>2, <1>3, <1>7, <2>1, <2>2, <2>3, <2>4 DEF MediaOrder
<1>15. Good(World, received)' /\ MediaAsAnswered'
  BY <1>1, <1>2, <1>7, <1>9 DEF MediaAsAnswered
<1>16. Quiet(World, World')
  BY <1>6, <1>7, <1>9 DEF Quiet
<1> QED BY <1>10, <1>11, <1>12, <1>13, <1>14, <1>15, <1>16 DEF IInv

LEMMA CloseFoundKeeps ==
  ASSUME IInv, CloseFound
  PROVE  IInv' /\ Quiet(World, World')
<1>1. /\ Typed /\ Generations /\ Accepts /\ Stopping /\ MediaOrder /\ MediaAsAnswered
      /\ IoRuns /\ io = <<>> /\ tasks # <<>> /\ Head(tasks).do = "close" /\ tasks' = Tail(tasks)
  BY DEF IInv, CloseFound, NextTask, IoFree
<1>2. /\ server' = server /\ io' = io /\ expired' = expired /\ feed' = feed /\ received' = received
      /\ stop' = [stop EXCEPT !.todo = "closed"]
  BY DEF CloseFound
<1>3. /\ Len(tasks) \in Nat /\ tasks' \in Seq(Tasks) /\ Len(tasks') = Len(tasks) - 1
      /\ 1 \in 1 .. Len(tasks) /\ Head(tasks) = tasks[1] /\ tasks[1] \in Tasks
      /\ \A i \in 1 .. Len(tasks') : i + 1 \in 1 .. Len(tasks) /\ tasks'[i] = tasks[i + 1]
  BY <1>1, TailOfTasks
<1>4. PICK cs : cs = stop.found
  OBVIOUS
<1>5. /\ stop.todo = "wait" /\ tasks[1].to = cs /\ cs \in SUBSET Ids
      /\ \A j \in 1 .. Len(tasks) : tasks[j].do = "close" => j = 1
      /\ \A c \in cs : session[c].state \in {"open", "closed"}
  BY <1>1, <1>3, <1>4 DEF Stopping, Typed
<1>6. \A i \in 1 .. Len(tasks') : tasks'[i].do # "close" /\ tasks'[i].do # "accept"
  <2>1. ASSUME NEW i \in 1 .. Len(tasks'), tasks'[i].do = "accept" PROVE FALSE
    <3>1. i + 1 \in 1 .. Len(tasks) /\ tasks[i + 1].do = "accept" /\ tasks[1].do = "close"
      BY <1>1, <1>3, <2>1
    <3>2. i + 1 < 1
      BY <1>1, <1>3, <3>1 DEF Accepts
    <3> QED BY <3>2
  <2>2. \A i \in 1 .. Len(tasks') : tasks'[i].do # "close"
    BY <1>3, <1>5
  <2> QED BY <2>1, <2>2
<1>7. PICK w : w = World
  OBVIOUS
<1>8. /\ Good(w, received) /\ received \in Received /\ w \in Worlds
      /\ w.conn = conn /\ w.session = session /\ w.manager = manager
      /\ Sound(w) /\ \A c \in Ids \ cs : QueueTells(received[c], w.conn[c].queue) /\ ReadyForMedia(w, received, c)
  BY <1>7, WorldKnown DEF Good, Told
<1>9. PICK v : v = CloseBoth(w, cs)
  OBVIOUS
<1>10. /\ Good(v, received) /\ Ages(w, v)
       /\ \A c \in Ids : v.conn[c].queue = w.conn[c].queue \/ v.conn[c].queue = <<>>
       /\ \A n \in Nat : AllOlder(w, received, n) => AllOlder(v, received, n)
       /\ \A c \in cs : w.session[c].state \in {"open", "closed"} => v.session[c].state = "closed"
  BY <1>5, <1>8, <1>9, CloseBothGood
<1>11. World' = v
  <2>1. Become(v)
    BY <1>3, <1>5, <1>7, <1>9 DEF CloseFound
  <2> QED BY <1>10, <2>1, BecomeIs DEF Good, Sound
<1>12. /\ stop' \in [todo : {"none", "snapshot", "wait", "closed"}, found : SUBSET Ids]
       /\ stop'.todo = "closed" /\ stop'.found = cs
  BY <1>1, <1>2, <1>4 DEF Typed
<1>13. Typed'
  BY <1>1, <1>2, <1>3, <1>12 DEF Typed
<1>14. Generations'
  BY <1>1, <1>2, <1>5, <1>12 DEF Generations, IoRuns, Doing, IoFree
<1>15. Accepts'
  BY <1>1, <1>2, <1>6 DEF Accepts, Doing, IoFree
<1>16. Stopping'
  <2>1. \A c \in cs : session'[c].state = "closed"
    BY <1>5, <1>8, <1>10, <1>11 DEF World
  <2> QED BY <1>6, <1>12, <2>1 DEF Stopping
<1>17. MediaOrder'
  <2>1. ~Doing("media")'
    BY <1>1, <1>2 DEF Doing, IoFree
  <2>2. AllOlder(v, received, feed.media + 1) /\ (feed.writing # 0 => feed.media > 0 /\ AllOlder(v, received, feed.media))
    <3>1. feed.media \in Nat
      BY <1>1, ServerAssumption DEF Typed
    <3> QED BY <1>1, <1>7, <1>10, <3>1 DEF MediaOrder
  <2>3. ASSUME NEW i \in 1 .. Len(tasks'), tasks'[i].do = "media"
        PROVE  /\ AllOlder(v, received, tasks'[i].number)
               /\ tasks'[i].number < feed.media + 1
               /\ feed.writing # 0 => tasks'[i].number < feed.media
               /\ \A j \in 1 .. i - 1 : tasks'[j].do = "media" => tasks'[j].number < tasks'[i].number
    <3>1. i + 1 \in 1 .. Len(tasks) /\ tasks'[i] = tasks[i + 1] /\ tasks[i + 1].number \in Nat
      BY <1>1, <1>3, <2>3, TasksAre, TaskIs
    <3>2. \A j \in 1 .. i - 1 : tasks'[j] = tasks[j + 1] /\ j + 1 \in 1 .. (i + 1) - 1
      BY <1>3
    <3>3. /\ AllOlder(w, received, tasks[i + 1].number)
          /\ tasks[i + 1].number < feed.media + 1
          /\ feed.writing # 0 => tasks[i + 1].number < feed.media
          /\ \A j \in 1 .. (i + 1) - 1 : tasks[j].do = "media" => tasks[j].number < tasks[i + 1].number
      BY <1>1, <1>7, <2>3, <3>1 DEF MediaOrder
    <3> QED BY <1>10, <3>1, <3>2, <3>3
  <2> QED BY <1>2, <1>11, <2>1, <2>2, <2>3 DEF MediaOrder
<1>18. Good(World, received)' /\ MediaAsAnswered'
  BY <1>1, <1>2, <1>10, <1>11 DEF MediaAsAnswered
<1>19. Quiet(World, World')
  BY <1>7, <1>10, <1>11 DEF Quiet
<1> QED BY <1>13, <1>14, <1>15, <1>16, <1>17, <1>18, <1>19 DEF IInv

LEMMA StopEndsKeeps ==
  ASSUME IInv, StopEnds
  PROVE  IInv' /\ Quiet(World, World')
<1>1. /\ Typed /\ Generations /\ Accepts /\ Stopping /\ MediaOrder /\ MediaAsAnswered
      /\ stop.todo = "closed" /\ io = <<>> /\ ~server.started
  BY DEF IInv, StopEnds, IoFree, Generations
<1>2. /\ server' = server /\ io' = io /\ expired' = expired /\ feed' = feed /\ received' = received
      /\ tasks' = tasks /\ stop' = [stop EXCEPT !.todo = "none"]
  BY DEF StopEnds
<1>3. PICK w : w = World
  OBVIOUS
<1>4. /\ Good(w, received) /\ received \in Received /\ w \in Worlds
      /\ w.conn = conn /\ w.session = session /\ w.manager = manager
  BY <1>3, WorldKnown
<1>5. PICK m : m = [manager EXCEPT !.sessions = {}, !.active = [a \in Addresses |-> 0]]
  OBVIOUS
<1>6. m \in Managers /\ m.sessions = {} /\ m.next = manager.next /\ m.active = [a \in Addresses |-> 0]
  <2>1. manager \in Managers
    BY <1>4 DEF Worlds
  <2>2. [a \in Addresses |-> 0] \in [Addresses -> Nat]
    OBVIOUS
  <2> QED BY <1>5, <2>1, <2>2 DEF Managers
<1>7. PICK u : u = [w EXCEPT !.manager = m]
  OBVIOUS
<1>8. Good(u, received) /\ u.session = w.session /\ u.conn = w.conn
  BY <1>4, <1>6, <1>7, ClearedGood DEF Worlds
<1>9. PICK v : v = Forget(u, tasks)
  OBVIOUS
<1>10. /\ Good(v, received) /\ v.manager = u.manager /\ v.conn = u.conn
       /\ \A c \in Ids : \/ v.session[c].state = u.session[c].state
                         \/ u.session[c].state = "open"
  BY <1>4, <1>8, <1>9, ForgetGood
<1>11. World' = v
  <2>1. u = [World EXCEPT !.manager.sessions = {}, !.manager.active = [a \in Addresses |-> 0]]
    BY <1>3, <1>4, <1>5, <1>7 DEF Worlds, Managers
  <2>2. Become(v)
    BY <1>9, <2>1 DEF StopEnds
  <2> QED BY <1>10, <2>2, BecomeIs DEF Good, Sound
<1>12. /\ stop' \in [todo : {"none", "snapshot", "wait", "closed"}, found : SUBSET Ids]
       /\ stop'.todo = "none" /\ stop'.found = stop.found
  BY <1>1, <1>2 DEF Typed
<1>13. Typed'
  BY <1>1, <1>2, <1>12 DEF Typed
<1>14. Generations'
  BY <1>1, <1>2, <1>12 DEF Generations, IoRuns, Doing, IoFree
<1>15. Accepts'
  BY <1>1, <1>2 DEF Accepts, Doing, IoFree
<1>16. Stopping'
  <2>1. \A c \in stop.found : session'[c].state = "closed"
    <3>1. stop.found \in SUBSET Ids /\ \A c \in stop.found : session[c].state = "closed"
      BY <1>1 DEF Typed, Stopping
    <3> QED BY <1>4, <1>8, <1>10, <1>11, <3>1 DEF World
  <2> QED BY <1>1, <1>2, <1>12, <2>1 DEF Stopping
<1>17. MediaOrder'
  <2>1. \A n : AllOlder(World', received, n) <=> AllOlder(World, received, n)
    BY <1>3, <1>8, <1>10, <1>11 DEF AllOlder
  <2> QED BY <1>1, <1>2, <2>1 DEF MediaOrder, Doing, IoFree
<1>18. Good(World, received)' /\ MediaAsAnswered'
  BY <1>1, <1>2, <1>10, <1>11 DEF MediaAsAnswered
<1>19. Quiet(World, World')
  BY <1>3, <1>8, <1>10, <1>11 DEF Quiet
<1> QED BY <1>13, <1>14, <1>15, <1>16, <1>17, <1>18, <1>19 DEF IInv

-----------------------------------------------------------------------------
(* The theorems                                                            *)

LEMMA InitHolds == Init => IInv
<1> SUFFICES ASSUME Init PROVE IInv
  OBVIOUS
<1>1. /\ MaxLifecycles \in Nat /\ MaxMedia \in Nat /\ MaxRequests \in Nat /\ MaxConnections \in Nat
      /\ MaxQueue \in Nat /\ Addresses # {}
  BY ServerAssumption
<1>2. /\ <<>> \in Seq(Tasks) /\ <<>> \in Seq(Handlers) /\ <<>> \in Seq(Items) /\ Len(<<>>) = 0
  BY EmptySeq
<1>3. [answer |-> "none", number |-> 0, announced |-> TRUE] \in Clients
  BY <1>1 DEF Clients
<1>4. Typed
  <2>1. /\ server \in [started : BOOLEAN, gen : Nat, accepting : BOOLEAN, lifecycles : 0 .. MaxLifecycles]
        /\ stop \in [todo : {"none", "snapshot", "wait", "closed"}, found : SUBSET Ids]
        /\ feed \in [media : 0 .. MaxMedia, writing : 0 .. 2 * MaxLifecycles, requests : Nat]
    BY <1>1 DEF Init
  <2>2. expired \in SUBSET Ids /\ tasks \in Seq(Tasks) /\ io \in Seq(Handlers) /\ Len(io) <= 1
    BY <1>2 DEF Init
  <2>3. received \in Received
    BY <1>3 DEF Init, Received
  <2> QED BY <2>1, <2>2, <2>3 DEF Typed
<1>5. Generations /\ Accepts /\ Stopping
  BY <1>2 DEF Init, Generations, Accepts, Stopping, Doing, IoFree
<1>6. PICK w : w = World
  OBVIOUS
<1>7. w \in Worlds
  <2>1. manager \in Managers
    BY <1>1 DEF Init, Managers
  <2>2. session \in [Ids -> Sessions]
    BY <1>1 DEF Init, Sessions, SessionStates
  <2>3. conn \in [Ids -> Conns]
    BY <1>2 DEF Init, Conns
  <2> QED BY <1>6, <2>1, <2>2, <2>3 DEF World, Worlds
<1>8. w.manager = manager /\ w.session = session /\ w.conn = conn
  BY <1>6 DEF World
<1>9. /\ \A c \in Ids : /\ conn[c].queue = <<>> /\ conn[c].state = "closed"
                        /\ session[c].state = "unborn" /\ ~session[c].playing
                        /\ received[c].number = 0 /\ received[c].announced
      /\ manager.sessions = {} /\ \A a \in Addresses : manager.active[a] = 0
  BY DEF Init
<1>10. Counted(w)
  <2>1. \A a \in Addresses : From(w, a) = {}
    BY <1>8, <1>9 DEF From
  <2> QED BY <1>8, <1>9, <2>1, FS_EmptySet DEF Counted
<1>11. Sound(w)
  BY <1>1, <1>2, <1>7, <1>8, <1>9, <1>10 DEF Sound, QueuesBounded, Agrees
<1>12. Told(w, received)
  BY <1>8, <1>9, NothingQueued DEF Told, ReadyForMedia, Plays
<1>13. MediaOrder
  <2>1. feed.media = 0 /\ feed.writing = 0 /\ io = <<>> /\ Len(tasks) = 0
    BY <1>2 DEF Init
  <2>2. AllOlder(World, received, feed.media + 1)
    BY <1>6, <1>8, <1>9, <2>1, NothingQueued DEF AllOlder
  <2> QED BY <2>1, <2>2 DEF MediaOrder, Doing, IoFree
<1> QED BY <1>4, <1>5, <1>6, <1>9, <1>11, <1>12, <1>13 DEF IInv, Good, MediaAsAnswered

LEMMA StepKeeps == IInv /\ [Next]_vars => IInv' /\ MediaStep
<1> SUFFICES ASSUME IInv, [Next]_vars PROVE IInv' /\ MediaStep
  OBVIOUS
<1>1. CASE Start
  BY <1>1, StartKeeps, QuietStep
<1>2. CASE StopGate
  BY <1>2, StopGateKeeps, QuietStep
<1>3. CASE WriteBegins
  BY <1>3, WriteBeginsKeeps, QuietStep
<1>4. CASE WritePosts
  BY <1>4, WritePostsKeeps, QuietStep
<1>5. CASE Incoming
  BY <1>5, IncomingKeeps, QuietStep
<1>6. CASE TaskStep
  <2>1. CASE OnAccepted
    BY <2>1, OnAcceptedKeeps, QuietStep
  <2>2. CASE CreateSession
    BY <2>2, CreateSessionKeeps, QuietStep
  <2>3. CASE MediaGate
    BY <2>3, MediaGateKeeps, QuietStep
  <2>4. CASE SendMedia
    BY <2>4, SendMediaKeeps
  <2>5. CASE CloseFound
    BY <2>5, CloseFoundKeeps, QuietStep
  <2>6. CASE ReadOver
    BY <2>6, IdleKeeps, QuietStep
  <2> QED BY <1>6, <2>1, <2>2, <2>3, <2>4, <2>5, <2>6 DEF TaskStep
<1>7. CASE StopStep
  <2>1. CASE StopSnapshot
    BY <2>1, StopSnapshotKeeps, QuietStep
  <2>2. CASE StopEnds
    BY <2>2, StopEndsKeeps, QuietStep
  <2> QED BY <1>7, <2>1, <2>2 DEF StopStep
<1>8. ASSUME NEW c \in Ids,
             \/ Request(c) \/ SetupFails(c) \/ Unauthorized(c) \/ ParseError(c)
             \/ WriteDone(c) \/ SocketFails(c) \/ IdleExpires(c) \/ OnIdleTimeout(c)
      PROVE  IInv' /\ MediaStep
  <2>1. CASE Request(c)
    BY <2>1, RequestKeeps, QuietStep
  <2>2. CASE SetupFails(c)
    BY <2>2, SetupFailsKeeps, QuietStep
  <2>3. CASE Unauthorized(c)
    BY <2>3, UnauthorizedKeeps, QuietStep
  <2>4. CASE ParseError(c)
    BY <2>4, ParseErrorKeeps, QuietStep
  <2>5. CASE WriteDone(c)
    BY <2>5, WriteDoneKeeps, QuietStep
  <2>6. CASE SocketFails(c) \/ OnIdleTimeout(c)
    BY <2>6, CloseKeeps, QuietStep
  <2>7. CASE IdleExpires(c)
    BY <2>7, IdleKeeps, QuietStep
  <2> QED BY <1>8, <2>1, <2>2, <2>3, <2>4, <2>5, <2>6, <2>7
<1>9. CASE UNCHANGED vars
  BY <1>9, IdleKeeps, QuietStep
<1> QED BY <1>1, <1>2, <1>3, <1>4, <1>5, <1>6, <1>7, <1>8, <1>9 DEF Next

\* The invariant that all of this rests on: types, generations, the one pending accept, the barrier
\* of Stop, the order of the media, and that every queue tells its client what to expect.
THEOREM Invariant == Spec => []IInv
<1>1. Init => IInv
  BY InitHolds
<1>2. IInv /\ [Next]_vars => IInv'
  BY StepKeeps
<1> QED BY <1>1, <1>2, PTL DEF Spec

\* However a session ends it gives back its place, once; the registry holds open sessions only; and
\* what a Stop found is closed when it has returned (RtspSessionManager, RtspServerProtocol::Stop).
THEOREM RegistryStays == Spec => []RegistryAgrees
<1>1. IInv => RegistryAgrees
  <2> SUFFICES ASSUME IInv PROVE RegistryAgrees
    OBVIOUS
  <2>1. /\ Typed /\ Generations /\ Stopping /\ Sound(World) /\ World \in Worlds
        /\ World.session = session /\ World.conn = conn /\ World.manager = manager
    BY WorldKnown DEF IInv, Good
  <2>2. TypeOK
    <3>1. /\ server.gen \in 0 .. 2 * MaxLifecycles
          /\ server \in [started : BOOLEAN, gen : Nat, accepting : BOOLEAN, lifecycles : 0 .. MaxLifecycles]
      BY SMTT(40), <2>1, ServerAssumption DEF Typed, Generations
    <3>2. server \in [started : BOOLEAN, gen : 0 .. 2 * MaxLifecycles, accepting : BOOLEAN,
                      lifecycles : 0 .. MaxLifecycles]
      BY <3>1
    <3>3. /\ manager \in [sessions : SUBSET Ids, active : [Addresses -> Nat],
                          failures : [Addresses -> Nat], next : 1 .. MaxConnections + 1]
          /\ session \in [Ids -> [state : SessionStates, address : Addresses, playing : BOOLEAN,
                                  track : Modes \cup {"none"}]]
          /\ conn \in [Ids -> Conns]
      BY <2>1 DEF Worlds, Managers, Sessions
    <3>4. \A c \in Ids : /\ conn[c].state \in {"open", "closing", "closed"}
                         /\ conn[c].queue \in Seq(Items) /\ Len(conn[c].queue) <= MaxQueue
                         /\ conn[c].state = "closing" => conn[c].queue # <<>>
      BY <2>1, <3>3 DEF Conns, Sound, QueuesBounded
    <3> QED BY <2>1, <3>2, <3>3, <3>4 DEF TypeOK, Typed
  <2>3. PlacesCounted
    BY <2>1 DEF Sound, Counted, From, Agrees, PlacesCounted, Open
  <2>4. StopClosesFound
    BY <2>1 DEF Typed, Stopping, Sound, Agrees, StopClosesFound
  <2> QED BY <2>2, <2>3, <2>4 DEF RegistryAgrees
<1> QED BY <1>1, Invariant, PTL

\* A client never receives media on its connection that no answer announced, nor the same twice.
THEOREM MediaAnnounced == Spec => []MediaAsAnswered
<1>1. IInv => MediaAsAnswered
  BY DEF IInv
<1> QED BY <1>1, Invariant, PTL

\* Media reach the queues of their own lifecycle only.
THEOREM MediaInLifecycle == Spec => MediaOfLifecycle
<1>1. IInv /\ [Next]_vars => [MediaStep]_vars
  BY StepKeeps
<1> QED BY <1>1, Invariant, PTL DEF Spec, MediaOfLifecycle, MediaStep

=============================================================================
