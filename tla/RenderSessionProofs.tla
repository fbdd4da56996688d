-------------------------- MODULE RenderSessionProofs --------------------------
(***************************************************************************)
(* Machine-checked proofs about RenderSession: for every configuration,    *)
(* all limits of the queues, any number of frames, starts and pauses.      *)
(***************************************************************************)
EXTENDS RenderSession, FiniteSetTheorems, TLAPS

-----------------------------------------------------------------------------
(* One track                                                               *)

\* What holds of a track with queue q, the frames h in the worker's hand, its counts s and its
\* history p: every frame is somewhere, and they stand in the order they were submitted in.
Somewhere(q, h, s, p) == s.submitted = s.rendered + s.dropped + p.gone + Len(q) + Len(h)
Ordered(q, h, s, p) ==
  /\ p.last <= s.submitted
  /\ \A i \in 1 .. Len(q) : p.last < q[i].n /\ q[i].n <= s.submitted
  /\ \A i, j \in 1 .. Len(q) : i < j => q[i].n < q[j].n
  /\ h # <<>> =>
       /\ p.last < h[1].n /\ h[1].n <= s.submitted
       /\ \A i \in 1 .. Len(q) : h[1].n < q[i].n
Good(q, h, s, p) ==
  /\ Len(h) <= 1 /\ s.submitted <= MaxFrames /\ p.ordered
  /\ Somewhere(q, h, s, p) /\ Ordered(q, h, s, p)

StatRecord == [submitted : Nat, rendered : Nat, dropped : Nat]
PlayedRecord == [last : Nat, ordered : BOOLEAN, gone : Nat]

LEMMA OneLeft == ASSUME NEW n \in Nat, n <= 1, n # 0 PROVE n = 1
OBVIOUS

\* What the provers are to know of the numbers of a track.
Typed(q, h, s, p) ==
  /\ Len(q) \in Nat /\ Len(h) \in Nat /\ (h = <<>> <=> Len(h) = 0)
  /\ \A i \in 1 .. Len(q) : q[i].n \in Nat
  /\ h # <<>> => h[1].n \in Nat
  /\ s.submitted \in Nat /\ s.rendered \in Nat /\ s.dropped \in Nat
  /\ p.last \in Nat /\ p.gone \in Nat

LEMMA Numbers ==
  ASSUME NEW q \in Seq(Frames), NEW h \in Seq(Frames), NEW s \in StatRecord, NEW p \in PlayedRecord
  PROVE  Typed(q, h, s, p)
<1>1. Len(q) \in Nat /\ Len(h) \in Nat  OBVIOUS
<1>2. \A f \in Frames : f.n \in Nat  BY DEF Frames
<1>3. PICK F : F = Frames  OBVIOUS
<1>4. q \in Seq(F) /\ h \in Seq(F)  BY <1>3
<1>5. \A i \in 1 .. Len(q) : q[i] \in F  BY <1>4
<1>6. h # <<>> => h[1] \in F /\ Len(h) >= 1  BY <1>4
<1>7. h = <<>> <=> Len(h) = 0  BY <1>6
<1>8. s.submitted \in Nat /\ s.rendered \in Nat /\ s.dropped \in Nat  BY DEF StatRecord
<1>9. p.last \in Nat /\ p.gone \in Nat  BY DEF PlayedRecord
<1> QED  BY <1>1, <1>2, <1>3, <1>5, <1>6, <1>7, <1>8, <1>9 DEF Typed

\* Sequences, by their elements.
LEMMA Longer ==
  ASSUME NEW q \in Seq(Frames), NEW f \in Frames
  PROVE  /\ Append(q, f) \in Seq(Frames) /\ Len(Append(q, f)) = Len(q) + 1
         /\ Append(q, f)[Len(q) + 1] = f /\ \A i \in 1 .. Len(q) : Append(q, f)[i] = q[i]
<1>1. PICK F : F = Frames  OBVIOUS
<1>2. q \in Seq(F) /\ f \in F  BY <1>1
<1> QED  BY <1>1, <1>2

LEMMA Shorter ==
  ASSUME NEW q \in Seq(Frames), NEW k \in 0 .. Len(q)
  PROVE  /\ SubSeq(q, k + 1, Len(q)) \in Seq(Frames) /\ Len(SubSeq(q, k + 1, Len(q))) = Len(q) - k
         /\ \A i \in 1 .. Len(q) - k : SubSeq(q, k + 1, Len(q))[i] = q[i + k]
<1>1. PICK F, a : F = Frames /\ a = SubSeq(q, k + 1, Len(q))  OBVIOUS
<1>2. q \in Seq(F)  BY <1>1
<1>3. a \in Seq(F) /\ Len(a) = Len(q) - k /\ \A i \in 1 .. Len(q) - k : a[i] = q[i + k]  BY <1>1, <1>2
<1> QED  BY <1>1, <1>3

\* A new frame stands last, ...
LEMMA Appended ==
  ASSUME NEW q \in Seq(Frames), NEW h \in Seq(Frames), NEW s \in StatRecord, NEW p \in PlayedRecord,
         Good(q, h, s, p), s.submitted < MaxFrames, MaxFrames \in Nat,
         NEW f \in Frames, f.n = s.submitted + 1,
         NEW r \in StatRecord, r.submitted = s.submitted + 1, r.rendered = s.rendered, r.dropped = s.dropped,
         NEW a \in Seq(Frames), Len(a) = Len(q) + 1, a[Len(q) + 1] = f, \A i \in 1 .. Len(q) : a[i] = q[i]
  PROVE  Good(a, h, r, p)
<1>t. Typed(q, h, s, p)  BY Numbers
<1>g. Somewhere(q, h, s, p) /\ Len(h) <= 1  BY DEF Good
<1>1. PICK m : m = Len(q)  OBVIOUS
<1>2. /\ a \in Seq(Frames) /\ Len(a) = m + 1 /\ a[m + 1] = f
      /\ \A i \in 1 .. m : a[i] = q[i]
      /\ \A i \in 1 .. Len(a) : i \in 1 .. m \/ i = m + 1
      BY <1>1
<1>3. r.submitted = s.submitted + 1 /\ r.rendered = s.rendered /\ r.dropped = s.dropped
      OBVIOUS
<1>4. Somewhere(a, h, r, p)
      <2>1. PICK n, b, c, d, e : /\ n = s.submitted /\ b = s.rendered /\ c = s.dropped
                                /\ d = p.gone /\ e = Len(h)
            OBVIOUS
      <2>2. n \in Nat /\ b \in Nat /\ c \in Nat /\ d \in Nat /\ e \in Nat /\ m \in Nat
            BY <1>1, <2>1, <1>t DEF Typed
      <2>3. n = b + c + d + m + e  BY <1>1, <2>1, <1>g DEF Somewhere
      <2>4. n + 1 = b + c + d + (m + 1) + e  BY <2>2, <2>3
      <2> QED  BY <2>1, <2>4, <1>2, <1>3 DEF Somewhere
<1>5. Ordered(a, h, r, p)
      <2>1. \A i \in 1 .. Len(a) : p.last < a[i].n /\ a[i].n <= r.submitted
            <3>1. \A i \in 1 .. m : p.last < a[i].n /\ a[i].n <= s.submitted
                  BY <1>1, <1>2 DEF Good, Ordered
            <3>2. p.last <= s.submitted /\ p.last \in Nat /\ s.submitted \in Nat
                  BY <1>t DEF Typed, Good, Ordered
            <3>3. \A i \in 1 .. m : a[i].n \in Nat  BY <1>1, <1>2, <1>t DEF Typed
            <3>4. p.last < a[m + 1].n /\ a[m + 1].n <= r.submitted  BY <1>2, <1>3, <3>2
            <3> QED  BY <1>2, <1>3, <3>1, <3>2, <3>3, <3>4
      <2>2. \A i, j \in 1 .. Len(a) : i < j => a[i].n < a[j].n
            <3>1. SUFFICES ASSUME NEW i \in 1 .. Len(a), NEW j \in 1 .. Len(a), i < j
                           PROVE  a[i].n < a[j].n
                  OBVIOUS
            <3>2. m \in Nat /\ i \in 1 .. m  BY <1>1, <1>2, <3>1, <1>t DEF Typed
            <3>3. a[i] = q[i] /\ q[i].n \in Nat /\ q[i].n <= s.submitted
                  BY <1>1, <1>2, <3>2, <1>t DEF Typed, Good, Ordered
            <3>4. CASE j = m + 1  BY <1>2, <3>3, <3>4, <1>t, SMTT(30) DEF Typed
            <3>5. CASE j \in 1 .. m  BY <1>1, <1>2, <3>1, <3>2, <3>3, <3>5 DEF Good, Ordered
            <3> QED  BY <1>2, <3>4, <3>5
      <2>3. h # <<>> =>
              /\ p.last < h[1].n /\ h[1].n <= r.submitted
              /\ \A i \in 1 .. Len(a) : h[1].n < a[i].n
            <3>1. ASSUME h # <<>> PROVE \A i \in 1 .. Len(a) : h[1].n < a[i].n
                  <4>1. h[1].n <= s.submitted /\ (\A i \in 1 .. m : h[1].n < q[i].n) /\ h[1].n \in Nat
                        BY <1>1, <3>1, <1>t DEF Typed, Good, Ordered
                  <4> QED  BY <1>2, <4>1, <1>t, SMTT(30) DEF Typed
            <3>2. ASSUME h # <<>> PROVE p.last < h[1].n /\ h[1].n <= r.submitted
                  BY <1>3, <3>2, <1>t DEF Typed, Good, Ordered
            <3> QED  BY <3>1, <3>2
      <2> QED  BY <2>1, <2>2, <2>3, <1>3, <1>t DEF Typed, Good, Ordered
<1>6. r.submitted <= MaxFrames  BY <1>3, <1>t DEF Typed
<1> QED  BY <1>1, <1>2, <1>3, <1>4, <1>5, <1>6 DEF Good

\* ... the oldest may be shed, and so may what leads the queue, ...
LEMMA Shortened ==
  ASSUME NEW q \in Seq(Frames), NEW h \in Seq(Frames), NEW s \in StatRecord, NEW p \in PlayedRecord,
         Good(q, h, s, p), NEW k \in 0 .. Len(q),
         NEW r \in StatRecord, r.submitted = s.submitted, r.rendered = s.rendered, r.dropped = s.dropped + k,
         NEW a \in Seq(Frames), Len(a) = Len(q) - k, \A i \in 1 .. Len(a) : a[i] = q[i + k]
  PROVE  Good(a, h, r, p)
<1>t. Typed(q, h, s, p)  BY Numbers
<1>g. Somewhere(q, h, s, p) /\ Len(h) <= 1  BY DEF Good
<1>1. PICK m : m = Len(q)  OBVIOUS
<1>2. /\ a \in Seq(Frames) /\ Len(a) = m - k
      /\ \A i \in 1 .. Len(a) : i + k \in 1 .. m /\ a[i] = q[i + k]
      BY <1>1
<1>3. r.submitted = s.submitted /\ r.rendered = s.rendered /\ r.dropped = s.dropped + k
      OBVIOUS
<1>4. Somewhere(a, h, r, p)
      <2>1. PICK n, b, c, d, e : /\ n = s.submitted /\ b = s.rendered /\ c = s.dropped
                                /\ d = p.gone /\ e = Len(h)
            OBVIOUS
      <2>2. n \in Nat /\ b \in Nat /\ c \in Nat /\ d \in Nat /\ e \in Nat /\ m \in Nat
            BY <1>1, <2>1, <1>t DEF Typed
      <2>3. n = b + c + d + m + e  BY <1>1, <2>1, <1>g DEF Somewhere
      <2>4. n = b + (c + k) + d + (m - k) + e  BY <2>2, <2>3
      <2> QED  BY <2>1, <2>4, <1>2, <1>3 DEF Somewhere
<1>5. Ordered(a, h, r, p)
      <2>1. \A i \in 1 .. Len(a) : p.last < a[i].n /\ a[i].n <= r.submitted
            BY <1>1, <1>2, <1>3, <1>t DEF Typed, Good, Ordered
      <2>2. \A i, j \in 1 .. Len(a) : i < j => a[i].n < a[j].n
            <3>1. SUFFICES ASSUME NEW i \in 1 .. Len(a), NEW j \in 1 .. Len(a), i < j
                           PROVE  a[i].n < a[j].n
                  OBVIOUS
            <3>2. PICK u \in 1 .. m : u = i + k /\ a[i] = q[u]  BY <1>2
            <3>3. PICK v \in 1 .. m : v = j + k /\ a[j] = q[v]  BY <1>2
            <3>5. u < v  BY <3>1, <3>2, <3>3
            <3> QED  BY <1>1, <3>2, <3>3, <3>5 DEF Good, Ordered
      <2>3. h # <<>> =>
              /\ p.last < h[1].n /\ h[1].n <= r.submitted
              /\ \A i \in 1 .. Len(a) : h[1].n < a[i].n
            BY <1>1, <1>2, <1>3, <1>t DEF Typed, Good, Ordered
      <2> QED  BY <2>1, <2>2, <2>3, <1>3, <1>t DEF Typed, Good, Ordered
<1> QED  BY <1>1, <1>2, <1>3, <1>4, <1>5 DEF Good

\* ... or the new one is.
LEMMA Refused ==
  ASSUME NEW q \in Seq(Frames), NEW h \in Seq(Frames), NEW s \in StatRecord, NEW p \in PlayedRecord,
         Good(q, h, s, p), s.submitted < MaxFrames, MaxFrames \in Nat,
         NEW r, r = [s EXCEPT !.submitted = @ + 1, !.dropped = @ + 1]
  PROVE  r \in StatRecord /\ Good(q, h, r, p)
<1>t. Typed(q, h, s, p)  BY Numbers
<1>g. Somewhere(q, h, s, p) /\ Len(h) <= 1  BY DEF Good
<1>1. r \in StatRecord /\ r.submitted = s.submitted + 1 /\ r.rendered = s.rendered /\ r.dropped = s.dropped + 1
      <2>1. PICK u \in Nat : u = s.submitted + 1  BY <1>t DEF Typed
      <2>2. PICK v \in Nat : v = s.dropped + 1  BY <1>t DEF Typed
      <2>3. r = [s EXCEPT !.submitted = u, !.dropped = v]  BY <2>1, <2>2
      <2> QED  BY <2>1, <2>2, <2>3 DEF StatRecord
<1>2. Somewhere(q, h, r, p)
      <2>1. PICK n, b, c, d, e, m : /\ n = s.submitted /\ b = s.rendered /\ c = s.dropped
                                   /\ d = p.gone /\ e = Len(h) /\ m = Len(q)
            OBVIOUS
      <2>2. n \in Nat /\ b \in Nat /\ c \in Nat /\ d \in Nat /\ e \in Nat /\ m \in Nat
            BY <2>1, <1>t DEF Typed
      <2>3. n = b + c + d + m + e  BY <2>1, <1>g DEF Somewhere
      <2>4. n + 1 = b + (c + 1) + d + m + e  BY <2>2, <2>3, SMTT(30)
      <2> QED  BY <2>1, <2>4, <1>1 DEF Somewhere
<1>3. Ordered(q, h, r, p)  BY <1>1, <1>t, SMTT(30) DEF Typed, Good, Ordered
<1> QED  BY <1>1, <1>2, <1>3, <1>t DEF Typed, Good

\* The worker takes the first, ...
LEMMA Taken ==
  ASSUME NEW q \in Seq(Frames), NEW s \in StatRecord, NEW p \in PlayedRecord,
         Good(q, <<>>, s, p), q # <<>>
  PROVE  /\ Tail(q) \in Seq(Frames) /\ <<Head(q)>> \in Seq(Frames) /\ Good(Tail(q), <<Head(q)>>, s, p)
         /\ Len(Tail(q)) = Len(q) - 1
<1>e. <<>> \in Seq(Frames) /\ Len(<<>>) = 0  OBVIOUS
<1>t. Typed(q, <<>>, s, p)  BY <1>e, Numbers
<1>g. Somewhere(q, <<>>, s, p) /\ Len(<<>>) <= 1  BY DEF Good
<1>1. PICK m, a, h : m = Len(q) /\ a = Tail(q) /\ h = <<Head(q)>>  OBVIOUS
<1>2. /\ a \in Seq(Frames) /\ m >= 1 /\ Len(a) = m - 1
      /\ \A i \in 1 .. Len(a) : i + 1 \in 1 .. m /\ a[i] = q[i + 1]
      BY <1>1
<1>3. /\ h \in Seq(Frames) /\ Len(h) = 1 /\ h[1] = q[1]
      /\ <<>> \in Seq(Frames) /\ Len(<<>>) = 0
      BY <1>1
<1>4. Somewhere(a, h, s, p)
      BY <1>1, <1>2, <1>3, <1>t, <1>g DEF Typed, Somewhere
<1>5. Ordered(a, h, s, p)
      BY <1>1, <1>2, <1>3, <1>t DEF Typed, Good, Ordered
<1> QED  BY <1>1, <1>2, <1>3, <1>4, <1>5 DEF Good

\* ... puts it back in front, ...
LEMMA PutBack ==
  ASSUME NEW q \in Seq(Frames), NEW h \in Seq(Frames), NEW s \in StatRecord, NEW p \in PlayedRecord,
         Good(q, h, s, p), h # <<>>
  PROVE  h \o q \in Seq(Frames) /\ Good(h \o q, <<>>, s, p) /\ Len(h \o q) = Len(q) + 1
<1>t. Typed(q, h, s, p)  BY Numbers
<1>g. Somewhere(q, h, s, p) /\ Len(h) <= 1  BY DEF Good
<1>1. PICK m, a : m = Len(q) /\ a = h \o q  OBVIOUS
<1>n. Len(h) \in Nat /\ Len(h) # 0  BY <1>t DEF Typed
<1>0. Len(h) = 1  BY <1>g, <1>n, OneLeft
<1>2. /\ a \in Seq(Frames) /\ Len(a) = m + 1 /\ a[1] = h[1]
      /\ \A i \in 1 .. Len(a) : i = 1 \/ (i - 1 \in 1 .. m /\ a[i] = q[i - 1])
      <2>1. PICK F : F = Frames  OBVIOUS
      <2>2. q \in Seq(F) /\ h \in Seq(F)  BY <2>1
      <2>3. a \in Seq(F) /\ Len(a) = Len(h) + m  BY <1>1, <2>2
      <2>4. m \in Nat  BY <1>1, <2>2
      <2>5. a[1] = h[1]  BY <1>0, <1>1, <2>2, <2>4
      <2>6. \A i \in 1 .. Len(a) : i = 1 \/ (i - 1 \in 1 .. m /\ a[i] = q[i - 1])
            BY <1>0, <1>1, <2>2, <2>3, <2>4
      <2> QED  BY <2>1, <2>3, <2>4, <2>5, <2>6
<1>3. <<>> \in Seq(Frames) /\ Len(<<>>) = 0  OBVIOUS
<1>4. Somewhere(a, <<>>, s, p)
      BY <1>0, <1>1, <1>2, <1>3, <1>t, <1>g DEF Typed, Somewhere
<1>5. Ordered(a, <<>>, s, p)
      <2>1. \A i \in 1 .. Len(a) : p.last < a[i].n /\ a[i].n <= s.submitted
            BY <1>1, <1>2, <1>t, SMTT(30) DEF Typed, Good, Ordered
      <2>2. \A i, j \in 1 .. Len(a) : i < j => a[i].n < a[j].n
            BY <1>1, <1>2, <1>t, SMTT(30) DEF Typed, Good, Ordered
      <2> QED  BY <2>1, <2>2 DEF Good, Ordered
<1> QED  BY <1>1, <1>2, <1>3, <1>4, <1>5 DEF Good

\* ... renders it, ...
LEMMA HandRendered ==
  ASSUME NEW q \in Seq(Frames), NEW h \in Seq(Frames), NEW s \in StatRecord, NEW p \in PlayedRecord,
         Good(q, h, s, p), h # <<>>,
         NEW r, r = [s EXCEPT !.rendered = @ + 1],
         NEW z, z = [p EXCEPT !.last = h[1].n, !.ordered = @ /\ p.last < h[1].n]
  PROVE  r \in StatRecord /\ z \in PlayedRecord /\ Good(q, <<>>, r, z)
<1>t. Typed(q, h, s, p)  BY Numbers
<1>g. Somewhere(q, h, s, p) /\ Len(h) <= 1  BY DEF Good
<1>n. Len(h) \in Nat /\ Len(h) # 0  BY <1>t DEF Typed
<1>e. Len(<<>>) = 0  OBVIOUS
<1>0. Len(h) = 1 /\ Len(<<>>) = 0  BY <1>g, <1>n, <1>e, OneLeft
<1>2. r \in StatRecord /\ r.submitted = s.submitted /\ r.rendered = s.rendered + 1 /\ r.dropped = s.dropped
      BY DEF StatRecord
<1>3. z \in PlayedRecord /\ z.last = h[1].n /\ z.ordered /\ z.gone = p.gone
      <2>1. p.ordered /\ p.last < h[1].n /\ h[1].n \in Nat  BY <1>t DEF Typed, Good, Ordered
      <2>2. z = [p EXCEPT !.last = h[1].n, !.ordered = TRUE]  BY <2>1 DEF PlayedRecord
      <2> QED  BY <2>1, <2>2 DEF PlayedRecord
<1>4. Somewhere(q, <<>>, r, z)  BY <1>0, <1>2, <1>3, <1>t, <1>g DEF Typed, Somewhere
<1>5. Ordered(q, <<>>, r, z)  BY <1>2, <1>3, <1>t DEF Typed, Good, Ordered
<1> QED  BY <1>0, <1>2, <1>3, <1>4, <1>5 DEF Good

\* ... drops it, ...
LEMMA HandDropped ==
  ASSUME NEW q \in Seq(Frames), NEW h \in Seq(Frames), NEW s \in StatRecord, NEW p \in PlayedRecord,
         Good(q, h, s, p), h # <<>>,
         NEW d, d = [s EXCEPT !.dropped = @ + 1]
  PROVE  d \in StatRecord /\ Good(q, <<>>, d, p)
<1>t. Typed(q, h, s, p)  BY Numbers
<1>g. Somewhere(q, h, s, p) /\ Len(h) <= 1  BY DEF Good
<1>n. Len(h) \in Nat /\ Len(h) # 0  BY <1>t DEF Typed
<1>e. Len(<<>>) = 0  OBVIOUS
<1>0. Len(h) = 1 /\ Len(<<>>) = 0  BY <1>g, <1>n, <1>e, OneLeft
<1>1. d \in StatRecord /\ d.submitted = s.submitted /\ d.rendered = s.rendered /\ d.dropped = s.dropped + 1
      BY DEF StatRecord
<1>2. Somewhere(q, <<>>, d, p)
      <2>1. PICK a, b, c, e, m : /\ a = s.submitted /\ b = s.rendered /\ c = s.dropped
                                /\ e = p.gone /\ m = Len(q)
            OBVIOUS
      <2>2. a \in Nat /\ b \in Nat /\ c \in Nat /\ e \in Nat /\ m \in Nat  BY <2>1, <1>t DEF Typed
      <2>3. a = b + c + e + m + 1  BY <2>1, <1>0, <1>g DEF Somewhere
      <2>4. a = b + (c + 1) + e + m + 0  BY <2>2, <2>3
      <2> QED  BY <2>1, <2>4, <1>1, <1>0 DEF Somewhere
<1>3. Ordered(q, <<>>, d, p)  BY <1>1, <1>t DEF Typed, Good, Ordered
<1> QED  BY <1>0, <1>1, <1>2, <1>3 DEF Good

\* ... or ends with it in its hand.
LEMMA HandGone ==
  ASSUME NEW q \in Seq(Frames), NEW h \in Seq(Frames), NEW s \in StatRecord, NEW p \in PlayedRecord,
         Good(q, h, s, p), h # <<>>,
         NEW z, z = [p EXCEPT !.gone = @ + 1]
  PROVE  z \in PlayedRecord /\ Good(q, <<>>, s, z)
<1>t. Typed(q, h, s, p)  BY Numbers
<1>g. Somewhere(q, h, s, p) /\ Len(h) <= 1  BY DEF Good
<1>n. Len(h) \in Nat /\ Len(h) # 0  BY <1>t DEF Typed
<1>e. Len(<<>>) = 0  OBVIOUS
<1>0. Len(h) = 1 /\ Len(<<>>) = 0  BY <1>g, <1>n, <1>e, OneLeft
<1>1. z \in PlayedRecord /\ z.last = p.last /\ z.ordered = p.ordered /\ z.gone = p.gone + 1
      <2>1. PICK k \in Nat : k = p.gone + 1  BY <1>t DEF Typed
      <2>2. z = [p EXCEPT !.gone = k]  BY <2>1
      <2> QED  BY <2>1, <2>2 DEF PlayedRecord
<1>2. Somewhere(q, <<>>, s, z)
      <2>1. PICK a, b, c, e, m : /\ a = s.submitted /\ b = s.rendered /\ c = s.dropped
                                /\ e = p.gone /\ m = Len(q)
            OBVIOUS
      <2>2. a \in Nat /\ b \in Nat /\ c \in Nat /\ e \in Nat /\ m \in Nat  BY <2>1, <1>t DEF Typed
      <2>3. a = b + c + e + m + 1  BY <2>1, <1>0, <1>g DEF Somewhere
      <2>4. a = b + c + (e + 1) + m + 0  BY <2>2, <2>3
      <2> QED  BY <2>1, <2>4, <1>1, <1>0 DEF Somewhere
<1>3. Ordered(q, <<>>, s, z)  BY <1>1, <1>t DEF Typed, Good, Ordered
<1> QED  BY <1>0, <1>1, <1>2, <1>3 DEF Good

\* A stop clears the queue.
LEMMA Cleared ==
  ASSUME NEW q \in Seq(Frames), NEW s \in StatRecord, NEW p \in PlayedRecord, Good(q, <<>>, s, p),
         NEW z, z = [p EXCEPT !.gone = @ + Len(q)]
  PROVE  z \in PlayedRecord /\ Good(<<>>, <<>>, s, z)
<1>e. <<>> \in Seq(Frames) /\ Len(<<>>) = 0  OBVIOUS
<1>t. Typed(q, <<>>, s, p)  BY <1>e, Numbers
<1>g. Somewhere(q, <<>>, s, p) /\ Len(<<>>) <= 1  BY DEF Good
<1>1. PICK k \in Nat : k = p.gone + Len(q)  BY <1>t DEF Typed
<1>2. z = [p EXCEPT !.gone = k]  BY <1>1
<1>3. z \in PlayedRecord /\ z.last = p.last /\ z.ordered = p.ordered /\ z.gone = p.gone + Len(q)
      BY <1>1, <1>2 DEF PlayedRecord
<1>4. Len(<<>>) = 0 /\ <<>> \in Seq(Frames)  OBVIOUS
<1>5. Somewhere(<<>>, <<>>, s, z)  BY <1>3, <1>4, <1>t, <1>g DEF Typed, Somewhere
<1>6. Ordered(<<>>, <<>>, s, z)  BY <1>3, <1>4, <1>t DEF Typed, Good, Ordered
<1> QED  BY <1>3, <1>4, <1>5, <1>6 DEF Good

-----------------------------------------------------------------------------
(* The inductive invariant of the frames                                   *)

Places == {"none", "init", "loop", "sync", "render", "exited"}
Worker == [at : Places, hand : Seq(Frames), answered : BOOLEAN, available : BOOLEAN]
Owner == [at : {"idle", "start", "wait", "failed", "stop", "init"}, starts : 0 .. MaxStarts]
Flags == [running : BOOLEAN, stop : BOOLEAN, paused : BOOLEAN, done : BOOLEAN, success : BOOLEAN]
Window == [closed : BOOLEAN, pauses : 0 .. MaxPauses]

Surroundings ==
  /\ config \in [audio : BOOLEAN, keepLatest : BOOLEAN, audioRequired : BOOLEAN]
  /\ owner \in Owner /\ flags \in Flags /\ window \in Window
  /\ timeline \in [origin : Stamps, announced : BOOLEAN]
  /\ flags.paused => window.pauses >= 1
TrackTypes ==
  /\ worker \in [Tracks -> Worker] /\ queue \in [Tracks -> Seq(Frames)]
  /\ stats \in [Tracks -> StatRecord] /\ played \in [Tracks -> PlayedRecord]

\* A full queue is one frame longer than its limit for each pause at most; while a pause lasts, the
\* frame that it may put back still finds room.
Fits(t) ==
  /\ Len(queue[t]) <= Limit(t) + window.pauses
  /\ flags.paused /\ worker[t].hand # <<>> => Len(queue[t]) < Limit(t) + window.pauses
Track(t) ==
  /\ worker[t].hand # <<>> <=> worker[t].at \in {"sync", "render"}
  /\ Good(queue[t], worker[t].hand, stats[t], played[t])
  /\ Fits(t)

Kept == Surroundings /\ TrackTypes /\ \A t \in Tracks : Track(t)

LEMMA Bounds == /\ MaxFrames \in Nat /\ MaxStamp \in Nat /\ MaxStarts \in Nat /\ MaxPauses \in Nat
                /\ MaxVideoQueue \in Nat \ {0} /\ MaxAudioQueue \in Nat \ {0}
                /\ \A t : Limit(t) \in Nat \ {0}
BY RenderAssumption DEF Limit

\* What the invariant says.
LEMMA KeptSays == Kept => FramesKept
<1> SUFFICES ASSUME Kept PROVE FramesKept  OBVIOUS
<1>1. \A t \in Tracks : /\ worker[t] \in Worker /\ queue[t] \in Seq(Frames)
                        /\ stats[t] \in StatRecord /\ played[t] \in PlayedRecord
      BY DEF Kept, TrackTypes
<1>2. TypeOK
      <2>1. \A t \in Tracks : worker[t].at \in Places /\ worker[t].hand \in Seq(Frames)
            <3>1. PICK S : S = Seq(Frames)  OBVIOUS
            <3> QED  BY <1>1, <3>1 DEF Worker
      <2> QED  BY <1>1, <2>1 DEF Kept, Surroundings, Track, Fits, TypeOK, Owner, Flags, Places
<1>3. FramesAccountedFor  BY DEF Kept, Track, Good, Somewhere, FramesAccountedFor
<1>4. RenderedInOrder  BY DEF Kept, Track, Good, RenderedInOrder
<1> QED  BY <1>2, <1>3, <1>4 DEF FramesKept

LEMMA KeptAtFirst == Init => Kept
<1> SUFFICES ASSUME Init PROVE Kept  OBVIOUS
<1>1. Surroundings
      BY Bounds, RenderAssumption DEF Init, Surroundings, Owner, Flags, Window, Stamps, NoStamp
<1>2. <<>> \in Seq(Frames) /\ Len(<<>>) = 0  OBVIOUS
<1>3. NoWorker \in Worker /\ NoWorker.hand = <<>> /\ NoWorker.at = "none"
      BY <1>2 DEF NoWorker, Worker, Places
<1>4. TrackTypes  BY <1>2, <1>3 DEF Init, TrackTypes, StatRecord, PlayedRecord
<1>5. ASSUME NEW t \in Tracks PROVE Track(t)
      <2>1. worker[t] = NoWorker /\ queue[t] = <<>>  BY DEF Init
      <2>2. stats[t] = [submitted |-> 0, rendered |-> 0, dropped |-> 0]
            /\ played[t] = [last |-> 0, ordered |-> TRUE, gone |-> 0]
            BY DEF Init
      <2>3. Good(<<>>, <<>>, stats[t], played[t])
            BY <1>2, <2>2, Bounds DEF Good, Somewhere, Ordered
      <2>4. Fits(t)  BY <1>1, <1>2, <1>3, <2>1, Bounds DEF Fits, Surroundings, Window
      <2> QED  BY <1>3, <2>1, <2>3, <2>4 DEF Track
<1> QED  BY <1>1, <1>4, <1>5 DEF Kept

\* A step that leaves the queues, the counts and the hands alone, and does not begin a pause.
LEMMA Still ==
  ASSUME Kept, Surroundings', worker' \in [Tracks -> Worker], queue' = queue, stats' = stats, played' = played,
         \A t \in Tracks : worker'[t].hand = worker[t].hand,
         \A t \in Tracks : worker'[t].hand # <<>> <=> worker'[t].at \in {"sync", "render"},
         flags'.paused => flags.paused, window'.pauses = window.pauses
  PROVE  Kept'
<1>1. TrackTypes'  BY DEF Kept, TrackTypes
<1>2. ASSUME NEW t \in Tracks PROVE Track(t)'
      BY DEF Kept, Track, Fits, Limit
<1> QED  BY <1>1, <1>2 DEF Kept

\* A step of one track.
LEMMA OneTrack ==
  ASSUME Kept, Surroundings', TrackTypes', flags'.paused = flags.paused, window'.pauses = window.pauses,
         NEW t \in Tracks,
         \A u \in Tracks \ {t} : /\ worker'[u] = worker[u] /\ queue'[u] = queue[u]
                                 /\ stats'[u] = stats[u] /\ played'[u] = played[u],
         worker'[t].hand # <<>> <=> worker'[t].at \in {"sync", "render"},
         Good(queue'[t], worker'[t].hand, stats'[t], played'[t]),
         Len(queue'[t]) <= Limit(t) + window.pauses,
         flags.paused /\ worker'[t].hand # <<>> => Len(queue'[t]) < Limit(t) + window.pauses
  PROVE  Kept'
<1>1. ASSUME NEW u \in Tracks PROVE Track(u)'
      <2>1. CASE u = t  BY <2>1 DEF Track, Fits, Limit
      <2>2. CASE u # t  BY <2>2 DEF Kept, Track, Fits, Limit
      <2> QED  BY <2>1, <2>2
<1> QED  BY <1>1 DEF Kept

-----------------------------------------------------------------------------
(* The steps of the owner, of the user and of the renderers' starts        *)

\* The record of a worker after a change of one field.
LEMMA Placed ==
  ASSUME NEW w \in Worker, NEW a \in Places, NEW r, r = [w EXCEPT !.at = a]
  PROVE  /\ r \in Worker /\ r.at = a /\ r.hand = w.hand
         /\ r.answered = w.answered /\ r.available = w.available
<1>1. PICK S : S = Seq(Frames)  OBVIOUS
<1>2. w \in [at : Places, hand : S, answered : BOOLEAN, available : BOOLEAN]  BY <1>1 DEF Worker
<1> QED  BY <1>1, <1>2 DEF Worker

LEMMA Worked == ASSUME Kept PROVE \A t \in Tracks : /\ worker[t] \in Worker /\ worker[t].at \in Places
                                                    /\ worker[t].hand \in Seq(Frames)
                                                    /\ worker[t].hand # <<>> <=> worker[t].at \in {"sync", "render"}
<1> SUFFICES ASSUME NEW t \in Tracks PROVE /\ worker[t] \in Worker /\ worker[t].at \in Places
                                           /\ worker[t].hand \in Seq(Frames)
                                           /\ worker[t].hand # <<>> <=> worker[t].at \in {"sync", "render"}
    OBVIOUS
<1>1. PICK S : S = Seq(Frames)  OBVIOUS
<1>2. worker[t] \in Worker  BY DEF Kept, TrackTypes
<1>3. worker[t].at \in Places /\ worker[t].hand \in S  BY <1>1, <1>2 DEF Worker
<1> QED  BY <1>1, <1>2, <1>3 DEF Kept, Track

LEMMA StartBeginsKeeps == Kept /\ StartBegins => Kept'
<1> SUFFICES ASSUME Kept, StartBegins PROVE Kept'  OBVIOUS
<1>1. Surroundings'
      <2>1. owner \in Owner /\ owner.starts < MaxStarts  BY DEF Kept, Surroundings, StartBegins
      <2>2. owner' \in Owner
            <3>1. PICK n : n = owner.starts + 1  OBVIOUS
            <3>2. n \in 0 .. MaxStarts  BY <2>1, <3>1, Bounds DEF Owner
            <3> QED  BY <3>1, <3>2 DEF StartBegins, Owner
      <2>3. flags' \in Flags /\ ~flags'.paused  BY DEF Kept, Surroundings, StartBegins, Flags
      <2> QED  BY <2>2, <2>3 DEF Kept, Surroundings, StartBegins
<1>2. \A t \in Tracks : Enabled(t) \in BOOLEAN
      BY DEF Kept, Surroundings, Enabled
<1>3. ASSUME NEW t \in Tracks
      PROVE  worker'[t] \in Worker /\ worker'[t].hand = worker[t].hand /\ worker'[t].at = worker[t].at
      <2>1. PICK b \in BOOLEAN : b = ~Enabled(t)  BY <1>2
      <2>2. worker'[t] = [worker[t] EXCEPT !.answered = b, !.available = FALSE]  BY <2>1 DEF StartBegins
      <2> QED
            <3>1. worker[t] \in Worker  BY Worked
            <3>2. PICK r : r = worker'[t]  OBVIOUS
            <3>3. r = [worker[t] EXCEPT !.answered = b, !.available = FALSE]  BY <2>2, <3>2
            <3>4. PICK S : S = Seq(Frames)  OBVIOUS
            <3>5. worker[t] \in [at : Places, hand : S, answered : BOOLEAN, available : BOOLEAN]
                  BY <3>1, <3>4 DEF Worker
            <3>6. /\ r \in [at : Places, hand : S, answered : BOOLEAN, available : BOOLEAN]
                  /\ r.at = worker[t].at /\ r.hand = worker[t].hand
                  BY <3>3, <3>5
            <3> QED  BY <3>2, <3>4, <3>6 DEF Worker
<1>4. worker' \in [Tracks -> Worker]  BY <1>3 DEF StartBegins
<1> QED  BY <1>1, <1>3, <1>4, Still, Worked DEF StartBegins, Kept, Surroundings, Flags

\* Threads that have ended, or are to begin.
LEMMA Relocated ==
  ASSUME Kept, Surroundings', queue' = queue, stats' = stats, played' = played,
         flags'.paused => flags.paused, window' = window,
         NEW p \in [Tracks -> {"none", "init", "loop", "exited"}],
         worker' = [t \in Tracks |-> [worker[t] EXCEPT !.at = p[t]]],
         \A t \in Tracks : Exited(t)
  PROVE  Kept'
<1>1. ASSUME NEW t \in Tracks
      PROVE  worker'[t] \in Worker /\ worker'[t].hand = worker[t].hand
             /\ (worker'[t].hand # <<>> <=> worker'[t].at \in {"sync", "render"})
      <2>1. p[t] \in Places /\ p[t] \notin {"sync", "render"}  BY DEF Places
      <2>2. worker'[t] = [worker[t] EXCEPT !.at = p[t]]  OBVIOUS
      <2>3. worker[t].hand = <<>>  BY Worked DEF Exited
      <2>4. worker'[t] \in Worker /\ worker'[t].at = p[t] /\ worker'[t].hand = worker[t].hand
            BY <2>1, <2>2, Placed, Worked
      <2> QED  BY <2>1, <2>3, <2>4
<1>2. worker' \in [Tracks -> Worker]  BY <1>1
<1> QED  BY <1>1, <1>2, Still

LEMMA StartCreatesKeeps == Kept /\ StartCreates => Kept'
<1> SUFFICES ASSUME Kept, StartCreates PROVE Kept'  OBVIOUS
<1>1. Surroundings'  BY DEF Kept, Surroundings, StartCreates, OwnerGoes, Owner
<1>2. PICK p : p = [t \in Tracks |-> IF Enabled(t) THEN "init" ELSE "none"]  OBVIOUS
<1>3. p \in [Tracks -> {"none", "init", "loop", "exited"}]  BY <1>2
<1>4. worker' = [t \in Tracks |-> [worker[t] EXCEPT !.at = p[t]]]  BY <1>2 DEF StartCreates
<1> QED  BY <1>1, <1>3, <1>4, Relocated DEF StartCreates

LEMMA StartThrowsKeeps == Kept /\ StartThrows => Kept'
<1> SUFFICES ASSUME Kept, StartThrows PROVE Kept'  OBVIOUS
<1>1. Surroundings' /\ flags'.paused = flags.paused
      BY DEF Kept, Surroundings, StartThrows, OwnerGoes, Owner, Flags
<1>2. PICK first \in {"none", "init"} :
        worker' = [worker EXCEPT !["video"].at = first, !["audio"].at = "none"]
      BY DEF StartThrows
<1>3. PICK p : p = [t \in Tracks |-> IF t = "video" THEN first ELSE "none"]  OBVIOUS
<1>4. p \in [Tracks -> {"none", "init", "loop", "exited"}]  BY <1>3
<1>5. worker' = [t \in Tracks |-> [worker[t] EXCEPT !.at = p[t]]]
      BY <1>2, <1>3 DEF Tracks, Kept, TrackTypes
<1> QED  BY <1>1, <1>4, <1>5, Relocated DEF StartThrows

LEMMA StartFailsKeeps == Kept /\ StartFails => Kept'
<1> SUFFICES ASSUME Kept, StartFails PROVE Kept'  OBVIOUS
<1>1. Surroundings'  BY DEF Kept, Surroundings, StartFails, OwnerGoes, Owner
<1>2. PICK p : p = [t \in Tracks |-> "none"]  OBVIOUS
<1>3. p \in [Tracks -> {"none", "init", "loop", "exited"}]  BY <1>2
<1>4. worker' = [t \in Tracks |-> [worker[t] EXCEPT !.at = p[t]]]  BY <1>2 DEF StartFails
<1> QED  BY <1>1, <1>3, <1>4, Relocated DEF StartFails

\* A step that leaves the workers alone too.
LEMMA Idle ==
  ASSUME Kept, Surroundings', worker' = worker, queue' = queue, stats' = stats, played' = played,
         flags'.paused => flags.paused, window'.pauses = window.pauses
  PROVE  Kept'
BY Still, Worked DEF Kept, TrackTypes

LEMMA OwnerIdles == Kept /\ (StartAnswered \/ StopBegins) => Kept'
<1> SUFFICES ASSUME Kept, StartAnswered \/ StopBegins PROVE Kept'  OBVIOUS
<1>1. CASE StartAnswered
      <2>1. PICK b \in BOOLEAN : b = (flags.stop \/ ~flags.success)  OBVIOUS
      <2>2. flags' = [flags EXCEPT !.stop = b]  BY <1>1, <2>1 DEF StartAnswered
      <2>3. Surroundings' /\ flags'.paused = flags.paused
            BY <1>1, <2>2 DEF StartAnswered, Kept, Surroundings, OwnerGoes, Owner, Flags
      <2> QED  BY <1>1, <2>3, Idle DEF StartAnswered
<1>2. CASE StopBegins
      <2>1. Surroundings' /\ ~flags'.paused
            BY <1>2 DEF StopBegins, Kept, Surroundings, OwnerGoes, Owner, Flags
      <2> QED  BY <1>2, <2>1, Idle DEF StopBegins
<1> QED  BY <1>1, <1>2

LEMMA UserIdles == Kept /\ (Resume \/ UserCloses \/ Poll) => Kept'
<1> SUFFICES ASSUME Kept, Resume \/ UserCloses \/ Poll PROVE Kept'  OBVIOUS
<1>1. CASE Resume
      <2>1. Surroundings' /\ ~flags'.paused  BY <1>1 DEF Resume, Kept, Surroundings, Flags
      <2> QED  BY <1>1, <2>1, Idle DEF Resume
<1>2. CASE UserCloses
      <2>1. Surroundings' /\ window'.pauses = window.pauses
            BY <1>2 DEF UserCloses, Kept, Surroundings, Window
      <2> QED  BY <1>2, <2>1, Idle DEF UserCloses
<1>3. CASE Poll
      <2>1. Surroundings' /\ flags'.paused = flags.paused  BY <1>3 DEF Poll, Kept, Surroundings, Flags
      <2> QED  BY <1>3, <2>1, Idle DEF Poll
<1> QED  BY <1>1, <1>2, <1>3

LEMMA PauseKeeps == Kept /\ Pause => Kept'
<1> SUFFICES ASSUME Kept, Pause PROVE Kept'  OBVIOUS
<1>1. Surroundings' /\ window'.pauses = window.pauses + 1
      <2>1. window \in Window /\ window.pauses < MaxPauses  BY DEF Pause, Kept, Surroundings
      <2>2. PICK n : n = window.pauses + 1  OBVIOUS
      <2>3. n \in 1 .. MaxPauses  BY <2>1, <2>2, Bounds DEF Window
      <2>4. window' = [window EXCEPT !.pauses = n]  BY <2>2 DEF Pause
      <2>5. window' \in Window /\ window'.pauses = n  BY <2>1, <2>3, <2>4 DEF Window
      <2>6. flags' \in Flags  BY DEF Pause, Kept, Surroundings, Flags
      <2> QED  BY <2>2, <2>3, <2>5, <2>6 DEF Pause, Kept, Surroundings
<1>2. TrackTypes'  BY DEF Pause, Kept, TrackTypes
<1>3. ASSUME NEW t \in Tracks PROVE Track(t)'
      <2>1. Len(queue[t]) \in Nat /\ Limit(t) \in Nat /\ window.pauses \in Nat
            BY Bounds DEF Kept, TrackTypes, Surroundings, Window
      <2> QED  BY <1>1, <2>1 DEF Pause, Kept, Track, Fits, Limit
<1> QED  BY <1>1, <1>2, <1>3 DEF Kept

\* The renderer's Init: neither its answer nor what Start makes of it touches a frame.
LEMMA InitRendererKeeps == ASSUME Kept, NEW t \in Tracks, InitRenderer(t) PROVE Kept'
<1>1. PICK ok \in BOOLEAN :
        /\ worker' = [worker EXCEPT ![t] = [@ EXCEPT !.answered = TRUE, !.available = ok,
                                                     !.at = IF ok THEN "loop" ELSE "exited"]]
        /\ flags' = CompleteStartup(worker')
      BY DEF InitRenderer
<1>2. PICK w : w = [worker[t] EXCEPT !.answered = TRUE, !.available = ok,
                                     !.at = IF ok THEN "loop" ELSE "exited"]
      OBVIOUS
<1>3. worker' = [worker EXCEPT ![t] = w]  BY <1>1, <1>2
<1>4. w \in Worker /\ w.hand = worker[t].hand /\ w.at \in {"loop", "exited"}
      <2>1. PICK S : S = Seq(Frames)  OBVIOUS
      <2>2. worker[t] \in [at : Places, hand : S, answered : BOOLEAN, available : BOOLEAN]
            BY <2>1, Worked DEF Worker
      <2>3. PICK a \in {"loop", "exited"} : a = IF ok THEN "loop" ELSE "exited"  OBVIOUS
      <2>4. w = [worker[t] EXCEPT !.answered = TRUE, !.available = ok, !.at = a]  BY <1>2, <2>3
      <2> QED  BY <2>1, <2>2, <2>4 DEF Worker, Places
<1>5. worker' \in [Tracks -> Worker]  BY <1>3, <1>4 DEF Kept, TrackTypes
<1>6. worker[t].hand = <<>>  BY Worked DEF InitRenderer, At
<1>7. \A u \in Tracks : /\ worker'[u].hand = worker[u].hand
                        /\ worker'[u].hand # <<>> <=> worker'[u].at \in {"sync", "render"}
      BY <1>3, <1>4, <1>6, Worked DEF Kept, TrackTypes
<1>8. flags' \in Flags /\ flags'.paused = flags.paused
      <2>1. CASE flags' = flags  BY <2>1 DEF Kept, Surroundings
      <2>2. CASE flags' # flags
            <3>1. PICK good \in BOOLEAN :
                    good = (/\ worker'["video"].available
                            /\ config.audio /\ config.audioRequired => worker'["audio"].available)
                  OBVIOUS
            <3>2. PICK b \in BOOLEAN : b = (flags.stop \/ ~good)  OBVIOUS
            <3>3. flags' = [flags EXCEPT !.done = TRUE, !.success = good, !.running = good, !.stop = b]
                  BY <1>1, <2>2, <3>1, <3>2 DEF CompleteStartup
            <3> QED  BY <3>3 DEF Kept, Surroundings, Flags
      <2> QED  BY <2>1, <2>2
<1>9. Surroundings'  BY <1>8 DEF InitRenderer, Kept, Surroundings
<1> QED  BY <1>5, <1>7, <1>8, <1>9, Still DEF InitRenderer

-----------------------------------------------------------------------------
(* The steps of the workers                                                *)

\* A worker moves, with or without a frame, and the other stays.
LEMMA Moves ==
  ASSUME Kept, NEW t \in Tracks, NEW a \in Places, NEW h \in Seq(Frames),
         worker' = [worker EXCEPT ![t].at = a, ![t].hand = h]
  PROVE  /\ worker' \in [Tracks -> Worker] /\ worker'[t].at = a /\ worker'[t].hand = h
         /\ worker'[t].answered = worker[t].answered /\ worker'[t].available = worker[t].available
         /\ \A u \in Tracks \ {t} : worker'[u] = worker[u]
<1>1. PICK S : S = Seq(Frames)  OBVIOUS
<1>2. worker \in [Tracks -> [at : Places, hand : S, answered : BOOLEAN, available : BOOLEAN]]
      BY <1>1 DEF Kept, TrackTypes, Worker
<1>3. /\ worker' \in [Tracks -> [at : Places, hand : S, answered : BOOLEAN, available : BOOLEAN]]
      /\ worker'[t].at = a /\ worker'[t].hand = h
      /\ worker'[t].answered = worker[t].answered /\ worker'[t].available = worker[t].available
      /\ \A u \in Tracks \ {t} : worker'[u] = worker[u]
      BY <1>1, <1>2
<1> QED  BY <1>1, <1>3 DEF Worker

LEMMA Freed ==
  ASSUME Kept, NEW t \in Tracks, Frees(t, "loop")
  PROVE  /\ worker' \in [Tracks -> Worker] /\ worker'[t].at = "loop" /\ worker'[t].hand = <<>>
         /\ worker'[t].answered = worker[t].answered /\ worker'[t].available = worker[t].available
         /\ \A u \in Tracks \ {t} : worker'[u] = worker[u]
<1>1. PICK e : e = <<>>  OBVIOUS
<1>2. PICK a : a = "loop"  OBVIOUS
<1>3. e \in Seq(Frames) /\ a \in Places  BY <1>1, <1>2 DEF Places
<1>4. worker' = [worker EXCEPT ![t].at = a, ![t].hand = e]  BY <1>1, <1>2 DEF Frees
<1>5. /\ worker' \in [Tracks -> Worker] /\ worker'[t].at = a /\ worker'[t].hand = e
      /\ worker'[t].answered = worker[t].answered /\ worker'[t].available = worker[t].available
      /\ \A u \in Tracks \ {t} : worker'[u] = worker[u]
      BY <1>3, <1>4, Moves
<1> QED  BY <1>1, <1>2, <1>5

LEMMA Exits ==
  ASSUME Kept, NEW t \in Tracks, Ends(t)
  PROVE  /\ worker' \in [Tracks -> Worker] /\ worker'[t].at = "exited" /\ worker'[t].hand = <<>>
         /\ worker'[t].answered = worker[t].answered /\ ~worker'[t].available
         /\ \A u \in Tracks \ {t} : worker'[u] = worker[u]
         /\ window' \in Window /\ window'.pauses = window.pauses
<1>1. PICK S : S = Seq(Frames)  OBVIOUS
<1>2. worker \in [Tracks -> [at : Places, hand : S, answered : BOOLEAN, available : BOOLEAN]]
      BY <1>1 DEF Kept, TrackTypes, Worker
<1>3. <<>> \in S  BY <1>1
<1>4. /\ worker' \in [Tracks -> [at : Places, hand : S, answered : BOOLEAN, available : BOOLEAN]]
      /\ worker'[t].at = "exited" /\ worker'[t].hand = <<>>
      /\ worker'[t].answered = worker[t].answered /\ ~worker'[t].available
      /\ \A u \in Tracks \ {t} : worker'[u] = worker[u]
      BY <1>2, <1>3 DEF Ends, Places
<1>5. window' \in Window /\ window'.pauses = window.pauses
      BY DEF Ends, Kept, Surroundings, Window
<1> QED  BY <1>1, <1>4, <1>5 DEF Worker

\* What the steps below know of the track they belong to.
LEMMA Known ==
  ASSUME Kept, NEW t \in Tracks
  PROVE  /\ queue[t] \in Seq(Frames) /\ worker[t].hand \in Seq(Frames)
         /\ stats[t] \in StatRecord /\ played[t] \in PlayedRecord
         /\ Good(queue[t], worker[t].hand, stats[t], played[t])
         /\ Len(queue[t]) \in Nat /\ Limit(t) \in Nat /\ window.pauses \in Nat
         /\ <<>> \in Seq(Frames)
<1>1. /\ queue[t] \in Seq(Frames) /\ stats[t] \in StatRecord /\ played[t] \in PlayedRecord
      /\ Good(queue[t], worker[t].hand, stats[t], played[t])
      BY DEF Kept, TrackTypes, Track
<1>2. Len(queue[t]) \in Nat  BY <1>1
<1>3. window.pauses \in Nat  BY Bounds DEF Kept, Surroundings, Window
<1> QED  BY <1>1, <1>2, <1>3, Worked, Bounds

LEMMA TakeKeeps == ASSUME Kept, NEW t \in Tracks, Take(t) PROVE Kept'
<1>1. worker[t].hand = <<>>  BY Worked DEF Take, At
<1>2. PICK h, q : h = <<Head(queue[t])>> /\ q = Tail(queue[t])  OBVIOUS
<1>3. /\ q \in Seq(Frames) /\ h \in Seq(Frames) /\ Good(q, h, stats[t], played[t])
      /\ Len(q) = Len(queue[t]) - 1
      BY <1>1, <1>2, Known, Taken DEF Take
<1>4. h # <<>>  BY <1>2
<1>5. /\ worker' \in [Tracks -> Worker] /\ worker'[t].at = "sync" /\ worker'[t].hand = h
      /\ \A u \in Tracks \ {t} : worker'[u] = worker[u]
      BY <1>2, <1>3, Moves DEF Take, Places
<1>6. queue' = [queue EXCEPT ![t] = q]  BY <1>2 DEF Take
<1>7. TrackTypes'  BY <1>3, <1>5, <1>6 DEF Take, Kept, TrackTypes
<1>8. Surroundings'  BY DEF Take, Kept, Surroundings
<1>9. queue'[t] = q /\ \A u \in Tracks \ {t} : queue'[u] = queue[u]
      BY <1>6 DEF Kept, TrackTypes
<1>10. Len(q) <= Limit(t) + window.pauses /\ Len(q) < Limit(t) + window.pauses
       BY <1>3, Known DEF Kept, Track, Fits
<1> QED  BY <1>3, <1>4, <1>5, <1>7, <1>8, <1>9, <1>10, OneTrack DEF Take

LEMMA LeaveLoopKeeps == ASSUME Kept, NEW t \in Tracks, LeaveLoop(t) PROVE Kept'
<1>1. worker[t].hand = <<>>  BY Worked DEF LeaveLoop, At
<1>2. /\ worker' \in [Tracks -> Worker] /\ worker'[t].at = "exited" /\ worker'[t].hand = <<>>
      /\ \A u \in Tracks \ {t} : worker'[u] = worker[u]
      /\ window' \in Window /\ window'.pauses = window.pauses
      BY Exits DEF LeaveLoop
<1>3. Surroundings'  BY <1>2 DEF LeaveLoop, Kept, Surroundings
<1>4. \A u \in Tracks : /\ worker'[u].hand = worker[u].hand
                        /\ worker'[u].hand # <<>> <=> worker'[u].at \in {"sync", "render"}
      BY <1>1, <1>2, Worked
<1> QED  BY <1>2, <1>3, <1>4, Still DEF LeaveLoop

LEMMA SyncKeeps == Kept /\ (SyncVideo \/ SyncAudio) => Kept'
<1> SUFFICES ASSUME Kept, SyncVideo \/ SyncAudio PROVE Kept'  OBVIOUS
<1>1. PICK t \in Tracks : At(t, "sync") /\ Goes(t, "render")  BY DEF SyncVideo, SyncAudio, Tracks
<1>2. /\ worker' \in [Tracks -> Worker] /\ worker'[t].at = "render" /\ worker'[t].hand = worker[t].hand
      /\ \A u \in Tracks \ {t} : worker'[u] = worker[u]
      <2>1. PICK S : S = Seq(Frames)  OBVIOUS
      <2>2. worker \in [Tracks -> [at : Places, hand : S, answered : BOOLEAN, available : BOOLEAN]]
            BY <2>1 DEF Kept, TrackTypes, Worker
      <2>3. /\ worker' \in [Tracks -> [at : Places, hand : S, answered : BOOLEAN, available : BOOLEAN]]
            /\ worker'[t].at = "render" /\ worker'[t].hand = worker[t].hand
            /\ \A u \in Tracks \ {t} : worker'[u] = worker[u]
            BY <1>1, <2>2 DEF Goes, Places
      <2> QED  BY <2>1, <2>3 DEF Worker
<1>3. \A u \in Tracks : /\ worker'[u].hand = worker[u].hand
                        /\ worker'[u].hand # <<>> <=> worker'[u].at \in {"sync", "render"}
      BY <1>1, <1>2, Worked DEF At
<1>4. Surroundings'  BY DEF SyncVideo, SyncAudio, Kept, Surroundings
<1> QED  BY <1>2, <1>3, <1>4, Still DEF SyncVideo, SyncAudio

LEMMA SyncDropsKeeps == Kept /\ SyncDrops => Kept'
<1> SUFFICES ASSUME Kept, SyncDrops PROVE Kept'  OBVIOUS
<1>1. PICK t : t = "video"  OBVIOUS
<1>2. t \in Tracks /\ worker[t].hand # <<>>  BY <1>1, Worked DEF SyncDrops, At, Tracks
<1>3. PICK d : d = [stats[t] EXCEPT !.dropped = @ + 1]  OBVIOUS
<1>4. d \in StatRecord /\ Good(queue[t], <<>>, d, played[t])  BY <1>2, <1>3, Known, HandDropped
<1>5. stats' = [stats EXCEPT ![t] = d]
      BY <1>1, <1>2, <1>3 DEF SyncDrops, Count, Kept, TrackTypes, StatRecord
<1>6. /\ worker' \in [Tracks -> Worker] /\ worker'[t].at = "loop" /\ worker'[t].hand = <<>>
      /\ \A u \in Tracks \ {t} : worker'[u] = worker[u]
      BY <1>1, <1>2, Freed DEF SyncDrops
<1>7. TrackTypes'  BY <1>2, <1>4, <1>5, <1>6 DEF SyncDrops, Kept, TrackTypes
<1>8. Surroundings'  BY DEF SyncDrops, Kept, Surroundings
<1>9. stats'[t] = d /\ \A u \in Tracks \ {t} : stats'[u] = stats[u]  BY <1>2, <1>5 DEF Kept, TrackTypes
<1>10. Len(queue[t]) <= Limit(t) + window.pauses  BY <1>2 DEF Kept, Track, Fits
<1> QED  BY <1>2, <1>4, <1>6, <1>7, <1>8, <1>9, <1>10, OneTrack DEF SyncDrops

LEMMA RequeueKeeps == ASSUME Kept, NEW t \in Tracks, Requeue(t) PROVE Kept'
<1>1. worker[t].hand # <<>>  BY Worked DEF Requeue, Waits, At
<1>2. PICK q : q = worker[t].hand \o queue[t]  OBVIOUS
<1>3. q \in Seq(Frames) /\ Good(q, <<>>, stats[t], played[t]) /\ Len(q) = Len(queue[t]) + 1
      BY <1>1, <1>2, Known, PutBack
<1>4. queue' = [queue EXCEPT ![t] = q]  BY <1>2 DEF Requeue
<1>5. /\ worker' \in [Tracks -> Worker] /\ worker'[t].at = "loop" /\ worker'[t].hand = <<>>
      /\ \A u \in Tracks \ {t} : worker'[u] = worker[u]
      BY Freed DEF Requeue
<1>6. TrackTypes'  BY <1>3, <1>4, <1>5 DEF Requeue, Kept, TrackTypes
<1>7. Surroundings'  BY DEF Requeue, Kept, Surroundings
<1>8. queue'[t] = q /\ \A u \in Tracks \ {t} : queue'[u] = queue[u]
      BY <1>4 DEF Kept, TrackTypes
<1>9. Len(q) <= Limit(t) + window.pauses  BY <1>1, <1>3, Known DEF Requeue, Kept, Track, Fits
<1> QED  BY <1>3, <1>5, <1>6, <1>7, <1>8, <1>9, OneTrack DEF Requeue

LEMMA SyncStopsKeeps == ASSUME Kept, NEW t \in Tracks, SyncStops(t) PROVE Kept'
<1>1. worker[t].hand # <<>>  BY Worked DEF SyncStops, Waits, At
<1>2. PICK z : z = [played[t] EXCEPT !.gone = @ + 1]  OBVIOUS
<1>3. z \in PlayedRecord /\ Good(queue[t], <<>>, stats[t], z)  BY <1>1, <1>2, Known, HandGone
<1>4. played' = [played EXCEPT ![t] = z]
      BY <1>2 DEF SyncStops, Kept, TrackTypes, PlayedRecord
<1>5. /\ worker' \in [Tracks -> Worker] /\ worker'[t].at = "exited" /\ worker'[t].hand = <<>>
      /\ \A u \in Tracks \ {t} : worker'[u] = worker[u]
      /\ window' \in Window /\ window'.pauses = window.pauses
      BY Exits DEF SyncStops
<1>6. TrackTypes'  BY <1>3, <1>4, <1>5 DEF SyncStops, Kept, TrackTypes
<1>7. Surroundings'  BY <1>5 DEF SyncStops, Kept, Surroundings
<1>8. played'[t] = z /\ \A u \in Tracks \ {t} : played'[u] = played[u]
      BY <1>4 DEF Kept, TrackTypes
<1>9. Len(queue[t]) <= Limit(t) + window.pauses  BY DEF Kept, Track, Fits
<1> QED  BY <1>3, <1>5, <1>6, <1>7, <1>8, <1>9, OneTrack DEF SyncStops

LEMMA RenderKeeps == ASSUME Kept, NEW t \in Tracks, Render(t) PROVE Kept'
<1>1. worker[t].hand # <<>>  BY Worked DEF Render, At
<1>2. /\ worker' \in [Tracks -> Worker] /\ worker'[t].at = "loop" /\ worker'[t].hand = <<>>
      /\ \A u \in Tracks \ {t} : worker'[u] = worker[u]
      BY Freed DEF Render
<1>3. PICK n : n = worker[t].hand[1].n  OBVIOUS
<1>4. Len(queue[t]) <= Limit(t) + window.pauses  BY DEF Kept, Track, Fits
<1>5. CASE stats' = Count(t, "rendered", 1) /\ UNCHANGED flags
           /\ played' = [played EXCEPT ![t].last = n, ![t].ordered = @ /\ played[t].last < n]
      <2>1. PICK r, z : r = [stats[t] EXCEPT !.rendered = @ + 1]
                        /\ z = [played[t] EXCEPT !.last = n, !.ordered = @ /\ played[t].last < n]
            OBVIOUS
      <2>2. r \in StatRecord /\ z \in PlayedRecord /\ Good(queue[t], <<>>, r, z)
            BY <1>1, <1>3, <2>1, Known, HandRendered
      <2>3. stats' = [stats EXCEPT ![t] = r]
            BY <1>5, <2>1 DEF Count, Kept, TrackTypes, StatRecord
      <2>4. played' = [played EXCEPT ![t] = z]
            BY <1>5, <2>1 DEF Kept, TrackTypes, PlayedRecord
      <2>5. TrackTypes'  BY <1>2, <2>2, <2>3, <2>4 DEF Render, Kept, TrackTypes
      <2>6. Surroundings'  BY <1>5 DEF Render, Kept, Surroundings
      <2>7. /\ stats'[t] = r /\ played'[t] = z
            /\ \A u \in Tracks \ {t} : stats'[u] = stats[u] /\ played'[u] = played[u]
            BY <2>3, <2>4 DEF Kept, TrackTypes
      <2> QED  BY <1>2, <1>4, <1>5, <2>2, <2>5, <2>6, <2>7, OneTrack DEF Render
<1>6. CASE /\ flags' = [flags EXCEPT !.stop = TRUE, !.running = FALSE]
           /\ played' = [played EXCEPT ![t].gone = @ + 1] /\ UNCHANGED stats
      <2>1. PICK z : z = [played[t] EXCEPT !.gone = @ + 1]  OBVIOUS
      <2>2. z \in PlayedRecord /\ Good(queue[t], <<>>, stats[t], z)  BY <1>1, <2>1, Known, HandGone
      <2>3. played' = [played EXCEPT ![t] = z]
            BY <1>6, <2>1 DEF Kept, TrackTypes, PlayedRecord
      <2>4. TrackTypes'  BY <1>2, <1>6, <2>2, <2>3 DEF Render, Kept, TrackTypes
      <2>5. Surroundings' /\ flags'.paused = flags.paused
            BY <1>6 DEF Render, Kept, Surroundings, Flags
      <2>6. played'[t] = z /\ \A u \in Tracks \ {t} : played'[u] = played[u]
            BY <2>3 DEF Kept, TrackTypes
      <2> QED  BY <1>2, <1>4, <1>6, <2>2, <2>4, <2>5, <2>6, OneTrack DEF Render
<1> QED  BY <1>3, <1>5, <1>6 DEF Render

-----------------------------------------------------------------------------
(* SubmitFrame and the end of a stop                                       *)

LEMMA PrerollLeads == \A o : Kept => Preroll(o) \in 0 .. Len(queue["audio"])
<1> SUFFICES ASSUME NEW o, Kept PROVE Preroll(o) \in 0 .. Len(queue["audio"])  OBVIOUS
<1>1. PICK m : m = Len(queue["audio"])  OBVIOUS
<1>2. m \in Nat  BY <1>1, Known DEF Tracks
<1>3. PICK T : T = {i \in 1 .. m : \A j \in 1 .. i : queue["audio"][j].stamp # NoStamp
                                                     /\ queue["audio"][j].stamp < o}
      OBVIOUS
<1>4. Preroll(o) = Cardinality(T)  BY <1>1, <1>3 DEF Preroll
<1>5. IsFiniteSet(1 .. m) /\ Cardinality(1 .. m) = m  BY <1>2, FS_Interval
<1>6. T \in SUBSET (1 .. m)  BY <1>3
<1>7. IsFiniteSet(T) /\ Cardinality(T) <= m  BY <1>5, <1>6, FS_Subset
<1>8. Cardinality(T) \in Nat  BY <1>7, FS_CardinalityType
<1> QED  BY <1>1, <1>2, <1>4, <1>7, <1>8

\* A frame that is given to the queue of its track, whatever is shed for it.
LEMMA QueuedKeeps ==
  ASSUME Kept, NEW t \in Tracks, stats[t].submitted < MaxFrames, NEW stamp \in Stamps,
         NEW q, q = Queued(t, Frame(t, stamp)),
         NEW r, r = [stats[t] EXCEPT !.submitted = @ + 1, !.dropped = @ + Shed(t)]
  PROVE  /\ q \in Seq(Frames) /\ r \in StatRecord /\ Good(q, worker[t].hand, r, played[t])
         /\ Len(q) <= Limit(t) + window.pauses
         /\ flags.paused /\ worker[t].hand # <<>> => Len(q) < Limit(t) + window.pauses
<1>1. PICK f : f = Frame(t, stamp)  OBVIOUS
<1>2. PICK s, p, h, old : s = stats[t] /\ p = played[t] /\ h = worker[t].hand /\ old = queue[t]  OBVIOUS
<1>3. /\ old \in Seq(Frames) /\ h \in Seq(Frames) /\ s \in StatRecord /\ p \in PlayedRecord
      /\ Good(old, h, s, p) /\ Len(old) \in Nat /\ Limit(t) \in Nat \ {0} /\ window.pauses \in Nat
      /\ s.submitted \in Nat /\ s.dropped \in Nat /\ s.submitted < MaxFrames /\ MaxFrames \in Nat
      BY <1>2, Known, Bounds DEF StatRecord
<1>4. f \in Frames /\ f.n = s.submitted + 1
      BY <1>1, <1>2, <1>3 DEF Frame, Frames
<1>5. Fits(t) /\ (flags.paused => window.pauses >= 1)  BY DEF Kept, Track, Surroundings
<1>6. CASE Room(t)
      <2>1. Shed(t) = 0 /\ q = Append(old, f) /\ Len(old) < Limit(t)
            BY <1>1, <1>2, <1>6 DEF Shed, Queued, Room
      <2>2. r \in StatRecord /\ r.submitted = s.submitted + 1 /\ r.rendered = s.rendered /\ r.dropped = s.dropped
            <3>1. PICK u \in Nat : u = s.submitted + 1  BY <1>3
            <3>2. s.dropped + Shed(t) = s.dropped  BY <1>3, <2>1
            <3>3. r = [s EXCEPT !.submitted = u, !.dropped = s.dropped]  BY <1>2, <3>1, <3>2
            <3> QED  BY <1>3, <3>1, <3>3 DEF StatRecord
      <2>3. /\ q \in Seq(Frames) /\ Len(q) = Len(old) + 1 /\ q[Len(old) + 1] = f
            /\ \A i \in 1 .. Len(old) : q[i] = old[i]
            BY <1>3, <1>4, <2>1, Longer
      <2>4. Good(q, h, r, p)  BY <1>3, <1>4, <2>2, <2>3, Appended
      <2> QED  BY <1>2, <1>3, <1>5, <2>1, <2>2, <2>3, <2>4 DEF Fits
<1>7. CASE ~Room(t) /\ (t = "audio" \/ config.keepLatest)
      <2>1. Shed(t) = 1 /\ q = Append(Tail(old), f)  BY <1>1, <1>2, <1>7 DEF Shed, Queued
      <2>2. PICK k \in 0 .. Len(old) : k = 1  BY <1>2, <1>3, <1>7 DEF Room
      <2>3. PICK a, d : a = SubSeq(old, k + 1, Len(old)) /\ d = [s EXCEPT !.dropped = @ + k]  OBVIOUS
      <2>4. a = Tail(old)  BY <1>3, <2>2, <2>3
      <2>5. a \in Seq(Frames) /\ Len(a) = Len(old) - k /\ \A i \in 1 .. Len(a) : a[i] = old[i + k]
            BY <1>3, <2>3, Shorter
      <2>8. /\ d \in StatRecord /\ d.submitted = s.submitted /\ d.rendered = s.rendered
            /\ d.dropped = s.dropped + k
            <3>1. PICK v \in Nat : v = s.dropped + k  BY <1>3
            <3>2. d = [s EXCEPT !.dropped = v]  BY <2>3, <3>1
            <3> QED  BY <1>3, <3>1, <3>2 DEF StatRecord
      <2>10. Good(a, h, d, p)  BY <1>3, <2>5, <2>8, Shortened
      <2>6. /\ r \in StatRecord /\ r.submitted = d.submitted + 1 /\ r.rendered = d.rendered
            /\ r.dropped = d.dropped
            <3>1. PICK u \in Nat : u = s.submitted + 1  BY <1>3
            <3>2. PICK v \in Nat : v = s.dropped + k  BY <1>3
            <3>3. r = [s EXCEPT !.submitted = u, !.dropped = v]  BY <1>2, <2>1, <2>2, <3>1, <3>2
            <3> QED  BY <1>3, <2>8, <3>1, <3>2, <3>3 DEF StatRecord
      <2>7. /\ q \in Seq(Frames) /\ Len(q) = Len(a) + 1 /\ q[Len(a) + 1] = f
            /\ \A i \in 1 .. Len(a) : q[i] = a[i]
            BY <1>4, <2>1, <2>4, <2>5, Longer
      <2>9. Good(q, h, r, p)
            <3>1. d.submitted < MaxFrames /\ f.n = d.submitted + 1  BY <1>3, <1>4, <2>8
            <3> QED  BY <1>3, <1>4, <2>5, <2>6, <2>7, <2>8, <2>10, <3>1, Appended
      <2> QED  BY <1>2, <1>3, <1>5, <2>2, <2>5, <2>6, <2>7, <2>9 DEF Fits
<1>8. CASE ~Room(t) /\ ~(t = "audio" \/ config.keepLatest)
      <2>1. Shed(t) = 1 /\ q = old  BY <1>2, <1>8 DEF Shed, Queued
      <2>2. r = [s EXCEPT !.submitted = @ + 1, !.dropped = @ + 1]  BY <1>2, <2>1
      <2>3. r \in StatRecord /\ Good(q, h, r, p)  BY <1>3, <2>1, <2>2, Refused
      <2> QED  BY <1>2, <1>3, <1>5, <2>1, <2>3 DEF Fits
<1> QED  BY <1>6, <1>7, <1>8

LEMMA SubmitVideoKeeps == Kept /\ SubmitVideo => Kept'
<1> SUFFICES ASSUME Kept, SubmitVideo PROVE Kept'  OBVIOUS
<1>1. PICK t : t = "video"  OBVIOUS
<1>2. t \in Tracks /\ stats[t].submitted < MaxFrames  BY <1>1 DEF SubmitVideo, Accepts, Tracks
<1>3. PICK stamp \in Stamps : queue' = [queue EXCEPT !["video"] = Queued("video", Frame("video", stamp))]
      BY DEF SubmitVideo, Stamps
<1>4. PICK q, r : q = Queued(t, Frame(t, stamp))
                  /\ r = [stats[t] EXCEPT !.submitted = @ + 1, !.dropped = @ + Shed(t)]
      OBVIOUS
<1>5. /\ q \in Seq(Frames) /\ r \in StatRecord /\ Good(q, worker[t].hand, r, played[t])
      /\ Len(q) <= Limit(t) + window.pauses
      /\ flags.paused /\ worker[t].hand # <<>> => Len(q) < Limit(t) + window.pauses
      BY <1>2, <1>4, QueuedKeeps
<1>6. queue' = [queue EXCEPT ![t] = q]  BY <1>1, <1>3, <1>4
<1>7. stats' = [stats EXCEPT ![t] = r]
      BY <1>1, <1>2, <1>4 DEF SubmitVideo, Kept, TrackTypes, StatRecord
<1>8. TrackTypes'  BY <1>5, <1>6, <1>7 DEF SubmitVideo, Kept, TrackTypes
<1>9. Surroundings'  BY DEF SubmitVideo, Kept, Surroundings
<1>10. /\ queue'[t] = q /\ stats'[t] = r
       /\ \A u \in Tracks \ {t} : queue'[u] = queue[u] /\ stats'[u] = stats[u]
       BY <1>2, <1>6, <1>7 DEF Kept, TrackTypes
<1>11. worker[t].hand # <<>> <=> worker[t].at \in {"sync", "render"}  BY <1>2, Worked
<1> QED  BY <1>2, <1>5, <1>8, <1>9, <1>10, <1>11, OneTrack DEF SubmitVideo

LEMMA SubmitAudioKeeps == Kept /\ SubmitAudio => Kept'
<1> SUFFICES ASSUME Kept, SubmitAudio PROVE Kept'  OBVIOUS
<1>1. PICK t : t = "audio"  OBVIOUS
<1>2. t \in Tracks /\ stats[t].submitted < MaxFrames  BY <1>1 DEF SubmitAudio, Accepts, Tracks
<1>3. PICK stamp \in Stamps, taken \in BOOLEAN :
        /\ queue' = IF taken THEN [queue EXCEPT !["audio"] = Queued("audio", Frame("audio", stamp))]
                    ELSE queue
        /\ stats' = [stats EXCEPT !["audio"].submitted = @ + 1,
                                  !["audio"].dropped = @ + IF taken THEN Shed("audio") ELSE 1]
      BY DEF SubmitAudio
<1>4. Surroundings'  BY DEF SubmitAudio, Kept, Surroundings
<1>5. worker[t].hand # <<>> <=> worker[t].at \in {"sync", "render"}  BY <1>2, Worked
<1>6. CASE taken
      <2>1. PICK q, r : q = Queued(t, Frame(t, stamp))
                        /\ r = [stats[t] EXCEPT !.submitted = @ + 1, !.dropped = @ + Shed(t)]
            OBVIOUS
      <2>2. /\ q \in Seq(Frames) /\ r \in StatRecord /\ Good(q, worker[t].hand, r, played[t])
            /\ Len(q) <= Limit(t) + window.pauses
            /\ flags.paused /\ worker[t].hand # <<>> => Len(q) < Limit(t) + window.pauses
            BY <1>2, <2>1, QueuedKeeps
      <2>3. queue' = [queue EXCEPT ![t] = q]  BY <1>1, <1>3, <1>6, <2>1
      <2>4. stats' = [stats EXCEPT ![t] = r]
            BY <1>1, <1>2, <1>3, <1>6, <2>1 DEF Kept, TrackTypes, StatRecord
      <2>5. TrackTypes'  BY <2>2, <2>3, <2>4 DEF SubmitAudio, Kept, TrackTypes
      <2>6. /\ queue'[t] = q /\ stats'[t] = r
            /\ \A u \in Tracks \ {t} : queue'[u] = queue[u] /\ stats'[u] = stats[u]
            BY <1>2, <2>3, <2>4 DEF Kept, TrackTypes
      <2> QED  BY <1>2, <1>4, <1>5, <2>2, <2>5, <2>6, OneTrack DEF SubmitAudio
<1>7. CASE ~taken
      <2>1. PICK r : r = [stats[t] EXCEPT !.submitted = @ + 1, !.dropped = @ + 1]  OBVIOUS
      <2>2. r \in StatRecord /\ Good(queue[t], worker[t].hand, r, played[t])
            BY <1>2, <2>1, Known, Bounds, Refused
      <2>3. stats' = [stats EXCEPT ![t] = r] /\ queue' = queue
            BY <1>1, <1>2, <1>3, <1>7, <2>1 DEF Kept, TrackTypes, StatRecord
      <2>4. TrackTypes'  BY <2>2, <2>3 DEF SubmitAudio, Kept, TrackTypes
      <2>5. stats'[t] = r /\ \A u \in Tracks \ {t} : stats'[u] = stats[u]
            BY <1>2, <2>3 DEF Kept, TrackTypes
      <2>6. /\ Len(queue[t]) <= Limit(t) + window.pauses
            /\ flags.paused /\ worker[t].hand # <<>> => Len(queue[t]) < Limit(t) + window.pauses
            BY <1>2 DEF Kept, Track, Fits
      <2> QED  BY <1>2, <1>4, <1>5, <2>2, <2>3, <2>4, <2>5, <2>6, OneTrack DEF SubmitAudio
<1> QED  BY <1>6, <1>7

\* The first video frame queues itself and may shed audio: both tracks change.
LEMMA SubmitFirstVideoKeeps == Kept /\ SubmitFirstVideo => Kept'
<1> SUFFICES ASSUME Kept, SubmitFirstVideo PROVE Kept'  OBVIOUS
<1>1. PICK o \in 0 .. MaxStamp :
        /\ timeline' = [timeline EXCEPT !.origin = o]
        /\ queue' = [video |-> Queued("video", Frame("video", o)),
                     audio |-> SubSeq(queue["audio"], Preroll(o) + 1, Len(queue["audio"]))]
        /\ stats' = [video |-> [stats["video"] EXCEPT !.submitted = @ + 1, !.dropped = @ + Shed("video")],
                     audio |-> [stats["audio"] EXCEPT !.dropped = @ + Preroll(o)]]
      BY DEF SubmitFirstVideo
<1>2. PICK q, r, a, d :
        /\ q = Queued("video", Frame("video", o))
        /\ r = [stats["video"] EXCEPT !.submitted = @ + 1, !.dropped = @ + Shed("video")]
        /\ a = SubSeq(queue["audio"], Preroll(o) + 1, Len(queue["audio"]))
        /\ d = [stats["audio"] EXCEPT !.dropped = @ + Preroll(o)]
      OBVIOUS
<1>3. queue' = [video |-> q, audio |-> a] /\ stats' = [video |-> r, audio |-> d]  BY <1>1, <1>2
<1>4. "video" \in Tracks /\ "audio" \in Tracks  BY DEF Tracks
<1>5. stats["video"].submitted < MaxFrames  BY DEF SubmitFirstVideo, Accepts
<1>6. o \in Stamps  BY DEF Stamps
<1>7. /\ q \in Seq(Frames) /\ r \in StatRecord /\ Good(q, worker["video"].hand, r, played["video"])
      /\ Len(q) <= Limit("video") + window.pauses
      /\ flags.paused /\ worker["video"].hand # <<>> => Len(q) < Limit("video") + window.pauses
      BY <1>2, <1>4, <1>5, <1>6, QueuedKeeps
<1>8. Preroll(o) \in 0 .. Len(queue["audio"])  BY PrerollLeads
<1>9. /\ a \in Seq(Frames) /\ d \in StatRecord /\ Good(a, worker["audio"].hand, d, played["audio"])
      /\ Len(a) = Len(queue["audio"]) - Preroll(o)
      <2>1. PICK old, h, c, p : /\ old = queue["audio"] /\ h = worker["audio"].hand
                                /\ c = stats["audio"] /\ p = played["audio"]
            OBVIOUS
      <2>2. PICK k \in 0 .. Len(old) : k = Preroll(o)  BY <1>8, <2>1
      <2>3. /\ old \in Seq(Frames) /\ h \in Seq(Frames) /\ c \in StatRecord /\ p \in PlayedRecord
            /\ Good(old, h, c, p) /\ Len(old) \in Nat
            BY <1>4, <2>1, Known
      <2>4. a = SubSeq(old, k + 1, Len(old))  BY <1>2, <2>1, <2>2
      <2>5. a \in Seq(Frames) /\ Len(a) = Len(old) - k /\ \A i \in 1 .. Len(a) : a[i] = old[i + k]
            BY <2>3, <2>4, Shorter
      <2>6. /\ d \in StatRecord /\ d.submitted = c.submitted /\ d.rendered = c.rendered
            /\ d.dropped = c.dropped + k
            <3>1. PICK v \in Nat : v = c.dropped + k  BY <2>3 DEF StatRecord
            <3>2. d = [c EXCEPT !.dropped = v]  BY <1>2, <2>1, <2>2, <3>1
            <3> QED  BY <2>3, <3>1, <3>2 DEF StatRecord
      <2>7. Good(a, h, d, p)  BY <2>3, <2>5, <2>6, Shortened
      <2> QED  BY <2>1, <2>2, <2>5, <2>6, <2>7
<1>10. Surroundings'
       <2>1. timeline \in [origin : Stamps, announced : BOOLEAN]  BY DEF Kept, Surroundings
       <2>2. timeline' \in [origin : Stamps, announced : BOOLEAN]  BY <1>1, <1>6, <2>1
       <2> QED  BY <2>2 DEF SubmitFirstVideo, Kept, Surroundings
<1>11. queue'["video"] = q /\ queue'["audio"] = a /\ stats'["video"] = r /\ stats'["audio"] = d
       BY <1>3
<1>12. TrackTypes'
       <2>1. queue' \in [Tracks -> Seq(Frames)]
             <3>1. PICK S : S = Seq(Frames)  OBVIOUS
             <3>2. q \in S /\ a \in S  BY <1>7, <1>9, <3>1
             <3>3. queue' \in [Tracks -> S]  BY <1>3, <3>2 DEF Tracks
             <3> QED  BY <3>1, <3>3
       <2>2. stats' \in [Tracks -> StatRecord]  BY <1>3, <1>7, <1>9 DEF Tracks
       <2> QED  BY <2>1, <2>2 DEF SubmitFirstVideo, Kept, TrackTypes
<1>13. Track("video")'
       BY <1>4, <1>7, <1>11, Worked DEF SubmitFirstVideo, Track, Fits, Limit
<1>14. Track("audio")'
       <2>1. Len(a) <= Len(queue["audio"])  BY <1>4, <1>8, <1>9, Known
       <2>2. /\ Len(a) <= Limit("audio") + window.pauses
             /\ flags.paused /\ worker["audio"].hand # <<>> => Len(a) < Limit("audio") + window.pauses
             <3>1. Fits("audio")  BY <1>4 DEF Kept, Track
             <3>2. Len(a) \in Nat  BY <1>9
             <3> QED  BY <1>4, <2>1, <3>1, <3>2, Known DEF Fits
       <2> QED  BY <1>4, <1>9, <1>11, <2>2, Worked DEF SubmitFirstVideo, Track, Fits, Limit
<1> QED  BY <1>10, <1>12, <1>13, <1>14 DEF Kept, Tracks

\* The workers are gone and the queues are cleared, with the counts or without.
LEMMA StopEndsKeeps == Kept /\ StopEnds => Kept'
<1> SUFFICES ASSUME Kept, StopEnds PROVE Kept'  OBVIOUS
<1>1. /\ worker' = [t \in Tracks |-> NoWorker] /\ queue' = [t \in Tracks |-> <<>>]
      BY DEF StopEnds
<1>2. <<>> \in Seq(Frames) /\ Len(<<>>) = 0  OBVIOUS
<1>3. NoWorker \in Worker /\ NoWorker.hand = <<>> /\ NoWorker.at = "none"
      BY <1>2 DEF NoWorker, Worker, Places
<1>4. \A t \in Tracks : worker[t].hand = <<>>  BY Worked DEF StopEnds, Joined, Exited
<1>5. Surroundings' /\ (flags'.paused => flags.paused)
      <2>1. owner' \in Owner  BY DEF StopEnds, OwnerGoes, Kept, Surroundings, Owner
      <2>2. timeline' \in [origin : Stamps, announced : BOOLEAN]
            <3>1. timeline \in [origin : Stamps, announced : BOOLEAN] /\ NoStamp \in Stamps
                  BY DEF Kept, Surroundings, Stamps
            <3>3. [origin |-> NoStamp, announced |-> FALSE] \in [origin : Stamps, announced : BOOLEAN]  BY <3>1
            <3>4. [timeline EXCEPT !.origin = NoStamp] \in [origin : Stamps, announced : BOOLEAN]  BY <3>1
            <3>2. \/ timeline' = [origin |-> NoStamp, announced |-> FALSE]
                  \/ timeline' = [timeline EXCEPT !.origin = NoStamp]
                  BY DEF StopEnds
            <3> QED  BY <3>2, <3>3, <3>4
      <2>3. flags' \in Flags /\ (flags'.paused => flags.paused)
            BY DEF StopEnds, Kept, Surroundings, Flags
      <2> QED  BY <2>1, <2>2, <2>3 DEF StopEnds, Kept, Surroundings
<1>6. CASE OwnerAt("init")
      <2>1. /\ stats' = [t \in Tracks |-> [submitted |-> 0, rendered |-> 0, dropped |-> 0]]
            /\ played' = [t \in Tracks |-> [last |-> 0, ordered |-> TRUE, gone |-> 0]]
            BY <1>6 DEF StopEnds
      <2>2. TrackTypes'  BY <1>1, <1>2, <1>3, <2>1 DEF TrackTypes, StatRecord, PlayedRecord
      <2>3. ASSUME NEW t \in Tracks PROVE Track(t)'
            <3>1. Good(<<>>, <<>>, stats'[t], played'[t])
                  BY <1>2, <2>1, Bounds DEF Good, Somewhere, Ordered
            <3>2. Len(<<>>) <= Limit(t) + window.pauses  BY <1>2, Bounds, Known
            <3> QED  BY <1>1, <1>3, <3>1, <3>2 DEF StopEnds, Track, Fits, Limit
      <2> QED  BY <1>5, <2>2, <2>3 DEF Kept
<1>7. CASE ~OwnerAt("init")
      <2>1. /\ played' = [t \in Tracks |-> [played[t] EXCEPT !.gone = @ + Len(queue[t])]]
            /\ stats' = stats
            BY <1>7 DEF StopEnds
      <2>2. ASSUME NEW t \in Tracks
            PROVE  played'[t] \in PlayedRecord /\ Good(<<>>, <<>>, stats[t], played'[t])
            <3>1. PICK z : z = [played[t] EXCEPT !.gone = @ + Len(queue[t])]  OBVIOUS
            <3>2. z \in PlayedRecord /\ Good(<<>>, <<>>, stats[t], z)
                  BY <1>4, <3>1, Known, Cleared
            <3> QED  BY <2>1, <3>1, <3>2
      <2>3. TrackTypes'  BY <1>1, <1>2, <1>3, <2>1, <2>2 DEF Kept, TrackTypes
      <2>4. ASSUME NEW t \in Tracks PROVE Track(t)'
            <3>1. Len(<<>>) <= Limit(t) + window.pauses  BY <1>2, Bounds, Known
            <3> QED  BY <1>1, <1>3, <2>1, <2>2, <3>1 DEF StopEnds, Track, Fits, Limit
      <2> QED  BY <1>5, <2>3, <2>4 DEF Kept
<1> QED  BY <1>6, <1>7

-----------------------------------------------------------------------------

LEMMA KeptByEveryStep == Kept /\ [Next]_vars => Kept'
<1> SUFFICES ASSUME Kept, [Next]_vars PROVE Kept'  OBVIOUS
<1>1. CASE UNCHANGED vars
      BY <1>1 DEF vars, Kept, Surroundings, TrackTypes, Track, Fits, Limit
<1>2. CASE StartBegins \/ StopBegins \/ OwnerStep
      BY <1>2, StartBeginsKeeps, StartCreatesKeeps, StartThrowsKeeps, OwnerIdles, StartFailsKeeps,
         StopEndsKeeps DEF OwnerStep
<1>3. CASE VideoStep \/ AudioStep
      <2>1. "video" \in Tracks /\ "audio" \in Tracks  BY DEF Tracks
      <2> QED  BY <1>3, <2>1, InitRendererKeeps, TakeKeeps, LeaveLoopKeeps, UserIdles, SyncKeeps,
                  SyncDropsKeeps, RequeueKeeps, SyncStopsKeeps, RenderKeeps DEF VideoStep, AudioStep
<1>4. CASE Pause \/ Resume \/ UserCloses  BY <1>4, PauseKeeps, UserIdles
<1>5. CASE SubmitFirstVideo \/ SubmitVideo \/ SubmitAudio
      BY <1>5, SubmitFirstVideoKeeps, SubmitVideoKeeps, SubmitAudioKeeps
<1> QED  BY <1>1, <1>2, <1>3, <1>4, <1>5 DEF Next

\* Where every frame of a track is, in every reachable state (render_session.cpp:218-291, 830-959).
THEOREM Invariant == Spec => []Kept
BY KeptAtFirst, KeptByEveryStep, PTL DEF Spec

\* Nothing a track is given is lost or overtaken on its way, whatever is paused, shed or stopped.
THEOREM NothingLost == Spec => []FramesKept
BY Invariant, KeptSays, PTL

-----------------------------------------------------------------------------
(* The inductive invariant of a session's life                             *)

Playing == {"loop", "sync", "render"}
Waiting == owner.at \in {"wait", "failed"}

\* A worker that has not answered is still in its renderer's Init, and only a Start in progress waits
\* for it; a worker has a device only while it plays.
Life ==
  /\ ~Waiting => \A t \in Tracks : worker[t].at # "init"
  /\ owner.at = "start" => /\ ~flags.running /\ ~flags.done
                           /\ \A t \in Tracks : Enabled(t) => ~worker[t].answered
  /\ owner.at = "wait" /\ flags.done => \A t \in Tracks : worker[t].at # "init"
  /\ owner.at = "failed" => flags.stop
  /\ \A t \in Tracks : /\ worker[t].at = "init" => ~worker[t].answered
                       /\ worker[t].available => worker[t].at \in Playing
Staffed == Kept /\ Life /\ RunningIsStaffed

\* The workers' records, field by field.
LEMMA FieldTypes == ASSUME Kept PROVE /\ \A t \in Tracks : /\ worker[t].at \in Places
                                                          /\ worker[t].answered \in BOOLEAN
                                                          /\ worker[t].available \in BOOLEAN
                                      /\ config.audio \in BOOLEAN /\ config.audioRequired \in BOOLEAN
                                      /\ flags \in Flags /\ owner \in Owner
<1>1. PICK S : S = Seq(Frames)  OBVIOUS
<1>2. worker \in [Tracks -> [at : Places, hand : S, answered : BOOLEAN, available : BOOLEAN]]
      BY <1>1 DEF Kept, TrackTypes, Worker
<1> QED  BY <1>2 DEF Kept, Surroundings

\* A step that moves no worker in or out of its loop, and runs no session.
LEMMA StaffStays ==
  ASSUME Life, RunningIsStaffed, config' = config,
         \A t \in Tracks : /\ worker'[t].answered = worker[t].answered
                           /\ worker'[t].available => worker[t].available
                           /\ worker'[t].at # "init" \/ worker[t].at = "init"
                           /\ worker[t].at \in Playing /\ worker'[t].at \notin Playing =>
                                flags'.stop /\ ~worker'[t].available,
         flags'.running => flags.running, flags.stop => flags'.stop, flags'.done = flags.done,
         owner' = owner
  PROVE  Life' /\ RunningIsStaffed'
<1>1. ASSUME NEW t \in Tracks
      PROVE  /\ worker'[t].at = "init" => ~worker'[t].answered /\ worker[t].at = "init"
             /\ worker'[t].available => worker'[t].at \in Playing
      BY DEF Life
<1>2. Life'  BY <1>1 DEF Life, Enabled, Waiting
<1>3. RunningIsStaffed'
      <2>1. SUFFICES ASSUME flags'.running, ~flags'.stop, NEW t \in Tracks, Enabled(t)
                     PROVE  \/ worker'[t].at \in Playing
                            \/ t = "audio" /\ ~config.audioRequired /\ ~worker'[t].available
            BY DEF RunningIsStaffed, Playing, Enabled
      <2>2. \/ worker[t].at \in Playing
            \/ t = "audio" /\ ~config.audioRequired /\ ~worker[t].available
            BY <2>1 DEF RunningIsStaffed, Playing
      <2> QED  BY <2>1, <2>2
<1> QED  BY <1>2, <1>3

LEMMA WorkersStay ==
  ASSUME Kept, Life, RunningIsStaffed, NEW t \in Tracks,
         Take(t) \/ LeaveLoop(t) \/ Requeue(t) \/ SyncStops(t) \/ Render(t)
  PROVE  Life' /\ RunningIsStaffed'
<1>1. CASE Take(t)
      <2>1. PICK h : h = <<Head(queue[t])>>  OBVIOUS
      <2>2. h \in Seq(Frames)
            <3>1. queue[t] \in Seq(Frames) /\ queue[t] # <<>>  BY <1>1, Known DEF Take
            <3>2. PICK F : F = Frames  OBVIOUS
            <3> QED  BY <2>1, <3>1, <3>2
      <2>3. /\ worker'[t].at = "sync" /\ worker'[t].answered = worker[t].answered
            /\ worker'[t].available = worker[t].available
            /\ \A u \in Tracks \ {t} : worker'[u] = worker[u]
            BY <1>1, <2>1, <2>2, Moves DEF Take, Places
      <2> QED  BY <1>1, <2>3, StaffStays DEF Take, Playing, At
<1>2. CASE LeaveLoop(t) \/ SyncStops(t)
      <2>1. Ends(t) /\ flags.stop /\ flags' = flags /\ owner' = owner /\ config' = config
            /\ worker[t].at \in Playing
            BY <1>2 DEF LeaveLoop, SyncStops, Waits, At, Playing
      <2>2. /\ worker'[t].at = "exited" /\ worker'[t].answered = worker[t].answered
            /\ ~worker'[t].available
            /\ \A u \in Tracks \ {t} : worker'[u] = worker[u]
            BY <2>1, Exits
      <2> QED  BY <2>1, <2>2, StaffStays
<1>3. CASE Requeue(t) \/ Render(t)
      <2>1. Frees(t, "loop") /\ owner' = owner /\ config' = config
            BY <1>3 DEF Requeue, Render
      <2>2. /\ worker'[t].at = "loop" /\ worker'[t].answered = worker[t].answered
            /\ worker'[t].available = worker[t].available
            /\ \A u \in Tracks \ {t} : worker'[u] = worker[u]
            BY <2>1, Freed
      <2>3. flags' = flags \/ flags' = [flags EXCEPT !.stop = TRUE, !.running = FALSE]
            BY <1>3 DEF Requeue, Render
      <2>4. (flags'.running => flags.running) /\ (flags.stop => flags'.stop) /\ flags'.done = flags.done
            BY <2>3, FieldTypes DEF Flags
      <2>5. worker[t].at \in Playing  BY <1>3 DEF Requeue, Render, Waits, At, Playing
      <2> QED  BY <2>1, <2>2, <2>4, <2>5, StaffStays DEF Playing
<1> QED  BY <1>1, <1>2, <1>3

LEMMA SyncStays ==
  ASSUME Kept, Life, RunningIsStaffed, SyncVideo \/ SyncAudio \/ SyncDrops
  PROVE  Life' /\ RunningIsStaffed'
<1>1. PICK t \in Tracks : /\ Goes(t, "render") \/ Frees(t, "loop")
                          /\ worker[t].at = "sync"
      BY DEF SyncVideo, SyncAudio, SyncDrops, Tracks, At
<1>2. flags' = flags /\ owner' = owner /\ config' = config
      BY DEF SyncVideo, SyncAudio, SyncDrops
<1>3. /\ worker'[t].at \in Playing /\ worker'[t].answered = worker[t].answered
      /\ worker'[t].available = worker[t].available
      /\ \A u \in Tracks \ {t} : worker'[u] = worker[u]
      <2>1. PICK S : S = Seq(Frames)  OBVIOUS
      <2>2. worker \in [Tracks -> [at : Places, hand : S, answered : BOOLEAN, available : BOOLEAN]]
            BY <2>1 DEF Kept, TrackTypes, Worker
      <2> QED  BY <1>1, <2>2 DEF Goes, Frees, Playing
<1> QED  BY <1>1, <1>2, <1>3, StaffStays DEF Playing

LEMMA OthersStay ==
  ASSUME Kept, Life, RunningIsStaffed,
         Pause \/ Resume \/ UserCloses \/ Poll \/ SubmitFirstVideo \/ SubmitVideo \/ SubmitAudio
  PROVE  Life' /\ RunningIsStaffed'
<1>1. worker' = worker /\ owner' = owner /\ config' = config
      BY DEF Pause, Resume, UserCloses, Poll, SubmitFirstVideo, SubmitVideo, SubmitAudio
<1>2. (flags'.running => flags.running) /\ (flags.stop => flags'.stop) /\ flags'.done = flags.done
      BY FieldTypes DEF Pause, Resume, UserCloses, Poll, SubmitFirstVideo, SubmitVideo, SubmitAudio, Flags
<1> QED  BY <1>1, <1>2, StaffStays

\* CompleteStartup runs the session only when every worker has answered as it must.
LEMMA InitRendererStaffs ==
  ASSUME Kept, Life, RunningIsStaffed, NEW t \in Tracks, InitRenderer(t)
  PROVE  Life' /\ RunningIsStaffed'
<1>1. PICK ok \in BOOLEAN :
        /\ worker' = [worker EXCEPT ![t] = [@ EXCEPT !.answered = TRUE, !.available = ok,
                                                     !.at = IF ok THEN "loop" ELSE "exited"]]
        /\ flags' = CompleteStartup(worker')
      BY DEF InitRenderer
<1>2. /\ worker'[t].answered /\ worker'[t].available = ok
      /\ worker'[t].at = IF ok THEN "loop" ELSE "exited"
      /\ \A u \in Tracks \ {t} : worker'[u] = worker[u]
      <2>1. PICK S : S = Seq(Frames)  OBVIOUS
      <2>2. worker \in [Tracks -> [at : Places, hand : S, answered : BOOLEAN, available : BOOLEAN]]
            BY <2>1 DEF Kept, TrackTypes, Worker
      <2>3. PICK w : w = [worker[t] EXCEPT !.answered = TRUE, !.available = ok,
                                           !.at = IF ok THEN "loop" ELSE "exited"]
            OBVIOUS
      <2>4. worker' = [worker EXCEPT ![t] = w]  BY <1>1, <2>3
      <2>5. w.answered /\ w.available = ok /\ w.at = IF ok THEN "loop" ELSE "exited"
            BY <2>2, <2>3
      <2> QED  BY <2>2, <2>4, <2>5
<1>3. worker[t].at = "init" /\ owner' = owner /\ config' = config  BY DEF InitRenderer, At
<1>4. Waiting  BY <1>3 DEF Life
<1>5. \A u \in Tracks : /\ worker'[u].at = "init" => ~worker'[u].answered
                        /\ worker'[u].available => worker'[u].at \in Playing
      BY <1>2 DEF Life, Playing
<1>6. CASE flags.done \/ \E u \in Tracks : ~worker'[u].answered
      <2>1. flags' = flags  BY <1>1, <1>6 DEF CompleteStartup
      <2>2. Life'  BY <1>2, <1>3, <1>4, <1>5, <2>1 DEF Life, Waiting
      <2>3. RunningIsStaffed'
            BY <1>2, <1>3, <2>1 DEF RunningIsStaffed, Enabled
      <2> QED  BY <2>2, <2>3
<1>7. CASE ~flags.done /\ \A u \in Tracks : worker'[u].answered
      <2>1. PICK good \in BOOLEAN :
              good = (/\ worker'["video"].available
                      /\ config.audio /\ config.audioRequired => worker'["audio"].available)
            OBVIOUS
      <2>2. PICK b \in BOOLEAN : b = (flags.stop \/ ~good)  OBVIOUS
      <2>3. flags' = [flags EXCEPT !.done = TRUE, !.success = good, !.running = good, !.stop = b]
            BY <1>1, <1>7, <2>1, <2>2 DEF CompleteStartup
      <2>4. flags'.running = good /\ flags'.stop = b  BY <2>3, FieldTypes DEF Flags
      <2>5. \A u \in Tracks : worker'[u].at # "init"  BY <1>5, <1>7
      <2>6. Life'
            BY <1>3, <1>4, <1>5, <2>2, <2>4, <2>5, FieldTypes DEF Life, Waiting
      <2>7. RunningIsStaffed'
            <3>1. SUFFICES ASSUME good, NEW u \in Tracks, Enabled(u)
                           PROVE  \/ worker'[u].at \in Playing
                                  \/ u = "audio" /\ ~config.audioRequired /\ ~worker'[u].available
                  BY <1>3, <2>4 DEF RunningIsStaffed, Playing, Enabled
            <3>2. CASE u = "video"  BY <1>5, <2>1, <3>1, <3>2 DEF Tracks
            <3>3. CASE u = "audio"  BY <1>5, <2>1, <3>1, <3>3 DEF Tracks, Enabled
            <3> QED  BY <3>2, <3>3 DEF Tracks
      <2> QED  BY <2>6, <2>7
<1> QED  BY <1>6, <1>7

LEMMA OwnerStaffs ==
  ASSUME Kept, Life, RunningIsStaffed, StartBegins \/ StopBegins \/ OwnerStep
  PROVE  Life' /\ RunningIsStaffed'
<1>b. \A t \in Tracks : Enabled(t) \in BOOLEAN  BY FieldTypes DEF Enabled
<1>1. CASE StartBegins
      <2>1. ASSUME NEW t \in Tracks
            PROVE  worker'[t].at = worker[t].at /\ (Enabled(t) => ~worker'[t].answered) /\ ~worker'[t].available
            <3>1. PICK b \in BOOLEAN : b = ~Enabled(t)  BY <1>b
            <3>2. worker'[t] = [worker[t] EXCEPT !.answered = b, !.available = FALSE]
                  BY <1>1, <3>1 DEF StartBegins
            <3>3. PICK S : S = Seq(Frames)  OBVIOUS
            <3>4. worker[t] \in [at : Places, hand : S, answered : BOOLEAN, available : BOOLEAN]
                  BY <3>3, Worked DEF Worker
            <3> QED  BY <3>1, <3>2, <3>4
      <2>2. owner'.at = "start" /\ config' = config  BY <1>1 DEF StartBegins
      <2>3. ~flags'.running /\ ~flags'.done  BY <1>1, FieldTypes DEF StartBegins, Flags
      <2>4. \A t \in Tracks : worker[t].at # "init"  BY <1>1 DEF StartBegins, OwnerAt, Life, Waiting
      <2> QED  BY <2>1, <2>2, <2>3, <2>4 DEF Life, RunningIsStaffed, Waiting, Enabled
<1>2. CASE StopBegins
      <2>1. owner'.at \in {"stop", "init"} /\ worker' = worker /\ config' = config
            BY <1>2, FieldTypes DEF StopBegins, OwnerGoes, Owner
      <2>2. flags'.stop  BY <1>2, FieldTypes DEF StopBegins, Flags
      <2>3. \A t \in Tracks : worker[t].at # "init"  BY <1>2 DEF StopBegins, OwnerAt, Life, Waiting
      <2> QED  BY <2>1, <2>2, <2>3 DEF Life, RunningIsStaffed, Waiting
<1>3. CASE StartCreates
      <2>1. ASSUME NEW t \in Tracks
            PROVE  /\ worker'[t].at = IF Enabled(t) THEN "init" ELSE "none"
                   /\ worker'[t].answered = worker[t].answered /\ worker'[t].available = worker[t].available
            <3>1. PICK a \in Places : a = IF Enabled(t) THEN "init" ELSE "none"  BY DEF Places
            <3>2. worker'[t] = [worker[t] EXCEPT !.at = a]  BY <1>3, <3>1 DEF StartCreates
            <3> QED  BY <3>1, <3>2, Placed, Worked
      <2>2. owner'.at = "wait" /\ flags' = flags /\ config' = config
            BY <1>3, FieldTypes DEF StartCreates, OwnerGoes, Owner
      <2>3. \A t \in Tracks : worker[t].at \notin Playing
            BY <1>3 DEF StartCreates, Exited, Playing
      <2>4. owner.at = "start"  BY <1>3 DEF StartCreates, OwnerAt
      <2>5. ~flags.running /\ ~flags.done /\ \A t \in Tracks : Enabled(t) => ~worker[t].answered
            BY <2>4 DEF Life
      <2>6. \A t \in Tracks : ~worker[t].available  BY <2>3 DEF Life
      <2> QED  BY <2>1, <2>2, <2>5, <2>6 DEF Life, RunningIsStaffed, Waiting
<1>4. CASE StartThrows
      <2>1. PICK first \in {"none", "init"} :
              worker' = [worker EXCEPT !["video"].at = first, !["audio"].at = "none"]
            BY <1>4 DEF StartThrows
      <2>2. ASSUME NEW t \in Tracks
            PROVE  /\ worker'[t].at = "init" => t = "video"
                   /\ worker'[t].answered = worker[t].answered /\ worker'[t].available = worker[t].available
            <3>1. PICK S : S = Seq(Frames)  OBVIOUS
            <3>2. worker \in [Tracks -> [at : Places, hand : S, answered : BOOLEAN, available : BOOLEAN]]
                  BY <3>1 DEF Kept, TrackTypes, Worker
            <3> QED  BY <2>1, <3>2 DEF Tracks
      <2>3. owner'.at = "failed" /\ config' = config /\ flags'.stop
            BY <1>4, FieldTypes DEF StartThrows, OwnerGoes, Owner, Flags
      <2>4. \A t \in Tracks : ~worker[t].available
            BY <1>4 DEF StartThrows, Exited, Life, Playing
      <2>5. ~worker["video"].answered
            BY <1>4 DEF StartThrows, OwnerAt, Life, Enabled, Tracks
      <2> QED  BY <2>2, <2>3, <2>4, <2>5 DEF Life, RunningIsStaffed, Waiting
<1>5. CASE StartAnswered
      <2>1. PICK b \in BOOLEAN : b = (flags.stop \/ ~flags.success)  OBVIOUS
      <2>2. flags' = [flags EXCEPT !.stop = b]  BY <1>5, <2>1 DEF StartAnswered
      <2>3. /\ flags'.running = flags.running /\ flags'.stop = b
            BY <2>2, FieldTypes DEF Flags
      <2>4. owner'.at = (IF flags.success THEN "idle" ELSE "failed") /\ worker' = worker /\ config' = config
            BY <1>5, FieldTypes DEF StartAnswered, OwnerGoes, Owner
      <2>5. \A t \in Tracks : worker[t].at # "init"  BY <1>5 DEF StartAnswered, OwnerAt, Life
      <2> QED  BY <2>1, <2>3, <2>4, <2>5 DEF Life, RunningIsStaffed, Waiting, Enabled
<1>6. CASE StartFails
      <2>1. ASSUME NEW t \in Tracks
            PROVE  worker'[t].at = "none" /\ ~worker'[t].available
            <3>1. worker'[t] = [worker[t] EXCEPT !.at = "none"]  BY <1>6 DEF StartFails
            <3>2. ~worker[t].available  BY <1>6 DEF StartFails, Exited, Life, Playing
            <3>3. PICK a \in Places : a = "none"  BY DEF Places
            <3> QED  BY <3>1, <3>2, <3>3, Placed, Worked
      <2>2. owner'.at = "idle" /\ config' = config /\ flags' = flags /\ flags.stop
            BY <1>6, FieldTypes DEF StartFails, OwnerGoes, OwnerAt, Owner, Life
      <2> QED  BY <2>1, <2>2 DEF Life, RunningIsStaffed, Waiting
<1>7. CASE StopEnds
      <2>1. \A t \in Tracks : worker'[t] = NoWorker  BY <1>7 DEF StopEnds
      <2>2. owner'.at = "idle"  BY <1>7, FieldTypes DEF StopEnds, OwnerGoes, Owner
      <2>3. ~flags'.running  BY <1>7, FieldTypes DEF StopEnds, Flags
      <2> QED  BY <2>1, <2>2, <2>3 DEF Life, RunningIsStaffed, Waiting, NoWorker
<1> QED  BY <1>1, <1>2, <1>3, <1>4, <1>5, <1>6, <1>7 DEF OwnerStep

\* Whatever runs and is not asked to stop has its workers in their loops (render_session.cpp:136-216,
\* 466-504, 697-723).
THEOREM AlwaysStaffed == Spec => []RunningIsStaffed
<1>1. Init => Staffed
      BY KeptAtFirst DEF Init, Staffed, Life, RunningIsStaffed, Waiting, NoWorker
<1>2. Staffed /\ [Next]_vars => Staffed'
      <2> SUFFICES ASSUME Staffed, [Next]_vars PROVE Staffed'  OBVIOUS
      <2>0. Kept /\ Life /\ RunningIsStaffed /\ Kept'  BY KeptByEveryStep DEF Staffed
      <2>1. CASE UNCHANGED vars
            BY <2>0, <2>1 DEF vars, Staffed, Life, RunningIsStaffed, Waiting, Enabled
      <2>2. CASE StartBegins \/ StopBegins \/ OwnerStep  BY <2>0, <2>2, OwnerStaffs DEF Staffed
      <2>3. CASE VideoStep \/ AudioStep
            <3>1. "video" \in Tracks /\ "audio" \in Tracks  BY DEF Tracks
            <3> QED  BY <2>0, <2>3, <3>1, WorkersStay, SyncStays, OthersStay, InitRendererStaffs
                     DEF VideoStep, AudioStep, Staffed
      <2>4. CASE Pause \/ Resume \/ UserCloses \/ SubmitFirstVideo \/ SubmitVideo \/ SubmitAudio
            BY <2>0, <2>4, OthersStay DEF Staffed
      <2> QED  BY <2>1, <2>2, <2>3, <2>4 DEF Next
<1>3. Staffed => RunningIsStaffed  BY DEF Staffed
<1> QED  BY <1>1, <1>2, <1>3, PTL DEF Spec

=============================================================================
