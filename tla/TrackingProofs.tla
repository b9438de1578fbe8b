--------------------------- MODULE TrackingProofs ---------------------------
(***************************************************************************)
(* One recording's encoder and context, followed together: where a frame   *)
(* is between the queue and the file, and what each call the video thread  *)
(* makes does to that, for every encoder, context and failure; and where a *)
(* buffer of sound is, with the calls of both threads.  Lemmas for         *)
(* FrameProofs, without the variables of the recorder.                     *)
(***************************************************************************)
EXTENDS RecorderProofs, MuxerProofs, FiniteSetTheorems

-----------------------------------------------------------------------------
(* Sequences and timestamps.                                               *)

\* What RemoveAt leaves where.
LEMMA RemoveAtShape ==
  ASSUME NEW S, NEW q \in Seq(S), NEW i \in 1 .. Len(q)
  PROVE  /\ RemoveAt(q, i) \in Seq(S) /\ Len(RemoveAt(q, i)) = Len(q) - 1
         /\ \A k \in 1 .. Len(q) - 1 :
              RemoveAt(q, i)[k] = IF k < i THEN q[k] ELSE q[k + 1]
<1> DEFINE a == SubSeq(q, 1, i - 1)
           b == SubSeq(q, i + 1, Len(q))
<1>0. Len(q) \in Nat /\ i \in Nat
  BY LenProperties
<1>1. a \in Seq(S) /\ Len(a) = i - 1 /\ \A k \in 1 .. i - 1 : a[k] = q[k]
  BY <1>0, SubSeqProperties
<1>2. b \in Seq(S) /\ Len(b) = Len(q) - i /\ \A k \in 1 .. Len(q) - i : b[k] = q[i + 1 + k - 1]
  BY <1>0, SubSeqProperties
<1>3. RemoveAt(q, i) = a \o b
  BY DEF RemoveAt
<1> HIDE DEF a, b
<1>4. \A k \in 1 .. Len(a) + Len(b) :
        (a \o b)[k] = IF k <= Len(a) THEN a[k] ELSE b[k - Len(a)]
  BY <1>1, <1>2, ConcatProperties
<1>5. Len(a) + Len(b) = Len(q) - 1
  BY <1>0, <1>1, <1>2
<1>6. ASSUME NEW k \in 1 .. Len(q) - 1
      PROVE  (a \o b)[k] = IF k < i THEN q[k] ELSE q[k + 1]
  <2>1. CASE k < i
    <3>1. k \in 1 .. i - 1 /\ k <= Len(a)
      BY <1>0, <1>1, <2>1
    <3> QED
      BY <1>1, <1>4, <1>5, <2>1, <3>1
  <2>2. CASE ~(k < i)
    <3>1. /\ ~(k <= Len(a)) /\ k - Len(a) \in 1 .. Len(q) - i
          /\ i + 1 + (k - Len(a)) - 1 = k + 1
      BY <1>0, <1>1, <2>2
    <3>2. b[k - Len(a)] = q[i + 1 + (k - Len(a)) - 1]
      BY <1>2, <3>1
    <3> QED
      BY <1>4, <1>5, <2>2, <3>1, <3>2
  <2> QED
    BY <2>1, <2>2
<1> QED
  BY <1>3, <1>6, RemoveAtOne

\* The time at which frame c of a recording is shown, and the dts of packet c + Reorder.
Stamp(c) == c * VideoPeriod

LEMMA RecorderConstants ==
    /\ VideoPeriod \in Nat \ {0} /\ Reorder \in Nat /\ VideoDelay \in Nat
    /\ MaxInterleaveDelta \in Nat /\ NoPts \in Int /\ NoPts < 0
    /\ NoPts < -(Reorder * VideoPeriod)
    /\ VIDEO_STREAM = 0 /\ AUDIO_STREAM = 1 /\ Streams = {VIDEO_STREAM, AUDIO_STREAM}
  BY RecorderAssumption, NoPtsAssumption, DeltaAssumption
  DEF RecorderAssumption, NoPtsAssumption, DeltaAssumption, Streams, VIDEO_STREAM, AUDIO_STREAM

\* Stamps are in the order of the frames, and none is taken for a missing one.
LEMMA StampOrder ==
  ASSUME NEW a \in Int, NEW b \in Int
  PROVE  /\ Stamp(a) \in Int /\ Stamp(b) \in Int
         /\ Stamp(a) < Stamp(b) <=> a < b
         /\ Stamp(a) = Stamp(b) <=> a = b
         /\ a >= -Reorder => NoPts < Stamp(a)
         /\ Stamp(a) - Stamp(b) = Stamp(a - b)
<1> USE RecorderConstants
<1>1. /\ Stamp(a) \in Int /\ Stamp(b) \in Int
      /\ a < b => Stamp(a) < Stamp(b)
      /\ b < a => Stamp(b) < Stamp(a)
      /\ Stamp(a) - Stamp(b) = Stamp(a - b)
  BY TimesOrder DEF Stamp
<1>2. ASSUME a >= -Reorder PROVE NoPts < Stamp(a)
  <2>1. -Reorder \in Int /\ -Reorder <= a
    BY <1>2
  <2>2. (-Reorder) * VideoPeriod <= a * VideoPeriod /\ (-Reorder) * VideoPeriod \in Int
        /\ a * VideoPeriod \in Int
    BY <2>1, TimesOrder
  <2>3. (-Reorder) * VideoPeriod = -(Reorder * VideoPeriod)
    OBVIOUS
  <2> QED
    BY <2>2, <2>3 DEF Stamp
<1>3. a < b \/ a = b \/ b < a
  OBVIOUS
<1> QED
  BY <1>1, <1>2, <1>3

-----------------------------------------------------------------------------
(* The encoder.                                                            *)

\* An encoder that has been fed n frames: those that wait are in the order of
\* their counts, and dts, which runs Reorder frames behind, has overtaken none.
Fed(e, n) ==
    /\ e \in EncoderState /\ n \in Nat /\ e.out + Len(e.pending) = n
    /\ \A i \in 1 .. Len(e.pending) :
         e.pending[i].count < n /\ e.pending[i].count >= e.out - Reorder
    /\ \A i, j \in 1 .. Len(e.pending) : i < j => e.pending[i].count < e.pending[j].count

\* The entry for frame f, counted as c.
Entry(f, c) == [frame |-> f, count |-> c]

\* Feeding a frame adds its entry.
LEMMA FeedShape ==
  ASSUME NEW e, NEW n, Fed(e, n), NEW f \in Nat
  PROVE  /\ Fed(Feed(e, f, n), n + 1)
         /\ Entry(f, n) \in Inside
         /\ \A x : x \in ToSet(Feed(e, f, n).pending) <=>
                   x \in ToSet(e.pending) \/ x = Entry(f, n)
         /\ ToSet(e.pending) \subseteq Inside
         /\ \A x \in ToSet(e.pending) : x.count < n
         /\ Feed(e, f, n).out = e.out
<1> DEFINE q == e.pending
           x == Entry(f, n)
           r == Append(q, x)
<1>1. /\ e \in EncoderState /\ n \in Nat /\ q \in Seq(Inside) /\ e.out \in Nat
      /\ Len(q) \in Nat /\ e.out + Len(q) = n /\ x \in Inside /\ x.count = n
  BY EncoderType, LenProperties DEF Fed, Inside, Entry
<1>2. Feed(e, f, n) = [e EXCEPT !.pending = r]
  BY DEF Feed, Entry
<1>3. \A i \in 1 .. Len(q) : q[i] \in Inside /\ q[i].count < n /\ q[i].count >= e.out - Reorder
  <2>1. \A i \in 1 .. Len(q) : q[i] \in Inside
    BY <1>1, ElementOfSeq
  <2> QED
    BY <2>1 DEF Fed
<1>4. \A i, j \in 1 .. Len(q) : i < j => q[i].count < q[j].count
  BY DEF Fed
<1> HIDE DEF q, x
<1>5. /\ r \in Seq(Inside) /\ Len(r) = Len(q) + 1
      /\ \A i \in 1 .. Len(q) : r[i] = q[i]
      /\ r[Len(q) + 1] = x
  BY <1>1, AppendProperties
<1> DEFINE g == Feed(e, f, n)
<1>6. g.pending = r /\ g.out = e.out /\ g \in EncoderState
  <2> HIDE DEF r, g
  <2>1. g = [e EXCEPT !.pending = r]
    BY <1>2 DEF g, r
  <2> QED
    BY <1>1, <1>5, <2>1, EncoderType DEF Inside
<1> HIDE DEF r, g
<1>7. ASSUME NEW i \in 1 .. Len(r) PROVE r[i].count < n + 1 /\ r[i].count >= e.out - Reorder
  <2>1. CASE i = Len(q) + 1
    BY <1>1, <1>5, <2>1, RecorderConstants
  <2>2. CASE i # Len(q) + 1
    <3>1. i \in 1 .. Len(q)
      BY <1>1, <1>5, <2>2
    <3>2. q[i].count \in Nat /\ q[i].count < n /\ q[i].count >= e.out - Reorder /\ r[i] = q[i]
      BY <1>3, <1>5, <3>1 DEF Inside
    <3> QED
      BY <1>1, <3>2
  <2> QED
    BY <2>1, <2>2
<1>8. ASSUME NEW i \in 1 .. Len(r), NEW j \in 1 .. Len(r), i < j
      PROVE  r[i].count < r[j].count
  <2>1. i \in 1 .. Len(q) /\ r[i] = q[i]
    BY <1>1, <1>5, <1>8
  <2>2. CASE j = Len(q) + 1
    BY <1>1, <1>3, <1>5, <2>1, <2>2
  <2>3. CASE j # Len(q) + 1
    <3>1. j \in 1 .. Len(q) /\ r[j] = q[j]
      BY <1>1, <1>5, <2>3
    <3> QED
      BY <1>4, <1>8, <2>1, <3>1
  <2> QED
    BY <2>2, <2>3
<1>9. Fed(g, n + 1)
  <2>1. g.out + Len(g.pending) = n + 1 /\ n + 1 \in Nat
    <3>1. g.out = e.out /\ Len(g.pending) = Len(q) + 1
      BY <1>5, <1>6
    <3> QED
      BY <1>1, <3>1
  <2>2. \A i \in 1 .. Len(g.pending) :
          g.pending[i].count < n + 1 /\ g.pending[i].count >= g.out - Reorder
    BY <1>6, <1>7
  <2>3. \A i, j \in 1 .. Len(g.pending) : i < j => g.pending[i].count < g.pending[j].count
    BY <1>6, <1>8
  <2> QED
    BY <1>6, <2>1, <2>2, <2>3 DEF Fed
<1>10. ToSet(r) = ToSet(q) \cup {x} /\ ToSet(q) \subseteq Inside
  <2>1. /\ ToSet(q) = {q[i] : i \in 1 .. Len(q)} /\ ToSet(q) \subseteq Inside
        /\ ToSet(r) = {r[i] : i \in 1 .. Len(q) + 1}
    <3>1. ToSet(q) = {q[i] : i \in 1 .. Len(q)} /\ ToSet(q) \subseteq Inside
      BY <1>1, ToSetOfSeq
    <3>2. ToSet(r) = {r[i] : i \in 1 .. Len(r)}
      BY <1>5, ToSetOfSeq
    <3> QED
      BY <1>5, <3>1, <3>2
  <2>2. \A i \in 1 .. Len(q) + 1 : i \in 1 .. Len(q) \/ i = Len(q) + 1
    BY <1>1
  <2>3. \A i \in 1 .. Len(q) : i \in 1 .. Len(q) + 1
    BY <1>1
  <2>4. Len(q) + 1 \in 1 .. Len(q) + 1
    BY <1>1
  <2> DEFINE l == Len(q)
             l1 == l + 1
  <2>5. /\ ToSet(q) = {q[i] : i \in 1 .. l} /\ ToSet(r) = {r[i] : i \in 1 .. l1}
        /\ \A i \in 1 .. l1 : i \in 1 .. l \/ i = l1
        /\ \A i \in 1 .. l : i \in 1 .. l1 /\ r[i] = q[i]
        /\ l1 \in 1 .. l1 /\ r[l1] = x
    BY <1>5, <2>1, <2>2, <2>3, <2>4
  <2> HIDE DEF l, l1
  <2>6. ToSet(r) \subseteq ToSet(q) \cup {x}
    BY <2>5
  <2>7. ToSet(q) \cup {x} \subseteq ToSet(r)
    BY <2>5
  <2> QED
    BY <2>1, <2>6, <2>7
<1>11. \A y \in ToSet(q) : y.count < n
  <2>1. ToSet(q) = {q[i] : i \in 1 .. Len(q)}
    BY <1>1, ToSetOfSeq
  <2> QED
    BY <1>3, <2>1
<1>12. \A y : y \in ToSet(g.pending) <=> y \in ToSet(q) \/ y = x
  BY <1>6, <1>10
<1> QED
  BY <1>1, <1>6, <1>9, <1>10, <1>11, <1>12 DEF g, q, x

\* What comes out is the entry of a frame that dts has not overtaken, and the
\* others stay.
LEMMA EmitShape ==
  ASSUME NEW e, NEW n, Fed(e, n), NEW i \in Candidates(e, Reorder)
  PROVE  /\ i \in 1 .. Len(e.pending)
         /\ e.pending[i] \in Inside /\ e.pending[i].count < n
         /\ e.pending[i].count >= e.out - Reorder
         /\ Fed(Emit(e, i), n) /\ Emit(e, i).out = e.out + 1 /\ e.out \in Nat /\ e.out < n
         /\ \A x : x \in ToSet(e.pending) <=>
                   x \in ToSet(Emit(e, i).pending) \/ x = e.pending[i]
         /\ \A x \in ToSet(Emit(e, i).pending) : x.count # e.pending[i].count
<1> DEFINE q == e.pending
           r == RemoveAt(q, i)
           g == Emit(e, i)
           l == Len(q)
<1>1. /\ e \in EncoderState /\ n \in Nat /\ q \in Seq(Inside) /\ e.out \in Nat
      /\ l \in Nat /\ e.out + l = n /\ i \in 1 .. l
  <2>1. /\ e \in EncoderState /\ n \in Nat /\ q \in Seq(Inside) /\ e.out \in Nat
        /\ l \in Nat /\ e.out + l = n
    BY EncoderType, LenProperties DEF Fed, Inside
  <2>2. i \in DOMAIN q /\ DOMAIN q = 1 .. l
    BY <2>1, LenProperties DEF Candidates
  <2> QED
    BY <2>1, <2>2
<1>2. \A k \in 1 .. l : /\ q[k] \in Inside /\ q[k].count \in Nat
                        /\ q[k].count < n /\ q[k].count >= e.out - Reorder
  <2>1. \A k \in 1 .. l : q[k] \in Inside
    BY <1>1, ElementOfSeq
  <2> QED
    BY <2>1 DEF Fed, Inside
<1>3. \A j, k \in 1 .. l : j < k => q[j].count < q[k].count
  BY DEF Fed
<1>4. i = 1 \/ q[1].count > e.out - Reorder
  BY DEF Candidates
<1>5. g = [pending |-> r, out |-> e.out + 1] /\ g \in EncoderState
  <2>1. i \in DOMAIN e.pending
    BY DEF Candidates
  <2> QED
    BY <1>1, <2>1, EmitHolds DEF Emit
<1>6. /\ r \in Seq(Inside) /\ Len(r) = l - 1
      /\ \A k \in 1 .. l - 1 : r[k] = IF k < i THEN q[k] ELSE q[k + 1]
  BY <1>1, RemoveAtShape
<1>7. ToSet(q) = {q[k] : k \in 1 .. l} /\ ToSet(r) = {r[k] : k \in 1 .. l - 1}
  <2>1. ToSet(r) = {r[k] : k \in 1 .. Len(r)}
    BY <1>6, ToSetOfSeq
  <2> QED
    BY <1>1, <1>6, <2>1, ToSetOfSeq
<1> HIDE DEF q, r, g, l
\* Where an entry that stays comes from.
<1> DEFINE from(k) == IF k < i THEN k ELSE k + 1
<1>8. ASSUME NEW k \in 1 .. l - 1
      PROVE  from(k) \in 1 .. l /\ from(k) # i /\ r[k] = q[from(k)]
  <2>1. CASE k < i
    BY <1>1, <1>6, <2>1
  <2>2. CASE ~(k < i)
    BY <1>1, <1>6, <2>2
  <2> QED
    BY <2>1, <2>2
<1>9. ASSUME NEW j \in 1 .. l - 1, NEW k \in 1 .. l - 1, j < k PROVE from(j) < from(k)
  BY <1>1, <1>9
<1> HIDE DEF from
<1>10. q[i] \in Inside /\ q[i].count < n /\ q[i].count >= e.out - Reorder /\ e.out < n
  BY <1>1, <1>2
<1>11. ASSUME NEW k \in 1 .. l - 1
       PROVE  r[k].count < n /\ r[k].count >= e.out + 1 - Reorder
  <2>1. r[k] = q[from(k)] /\ from(k) \in 1 .. l /\ from(k) # i
    BY <1>8
  <2>2. PICK c \in Nat : c = q[from(k)].count /\ c < n /\ c >= e.out - Reorder
    BY <1>2, <2>1
  <2>3. 1 \in 1 .. l /\ Reorder \in Nat
    BY <1>1, RecorderConstants
  <2>4. PICK d \in Nat : d = q[1].count /\ d >= e.out - Reorder
    BY <1>2, <2>3
  <2>5. PICK o \in Int : o = e.out - Reorder
    BY <1>1, <2>3
  <2>6. from(k) = 1 \/ d < c
    <3>1. from(k) = 1 \/ 1 < from(k)
      BY <1>1, <2>1
    <3> QED
      BY <1>3, <2>1, <2>2, <2>3, <2>4, <3>1
  <2>7. c > o
    <3>1. CASE i = 1
      <4>1. d < c /\ d >= o
        BY <2>1, <2>4, <2>5, <2>6, <3>1
      <4> QED
        BY ONLY <4>1, <2>2, <2>4, <2>5
    <3>2. CASE i # 1
      <4>1. d > o
        BY <1>4, <2>4, <2>5, <3>2
      <4>2. c = d \/ d < c
        BY <2>2, <2>4, <2>6
      <4> QED
        BY ONLY <4>1, <4>2, <2>2, <2>4, <2>5
    <3> QED
      BY <3>1, <3>2
  <2>8. c >= o + 1 /\ o + 1 = e.out + 1 - Reorder
    <3>1. e.out \in Nat
      BY <1>1
    <3>2. c >= o + 1
      BY ONLY <2>2, <2>5, <2>7
    <3> QED
      BY ONLY <2>3, <2>5, <3>1, <3>2
  <2> QED
    BY <2>1, <2>2, <2>8
<1>12. ASSUME NEW j \in 1 .. l - 1, NEW k \in 1 .. l - 1, j < k
       PROVE  r[j].count < r[k].count
  BY <1>3, <1>8, <1>9, <1>12
<1>13. Fed(g, n) /\ g.out = e.out + 1 /\ g.pending = r
  <2>1. g.pending = r /\ g.out = e.out + 1
    BY <1>5
  <2>0. Len(g.pending) = l - 1
    BY <1>6, <2>1
  <2>2. g.out + Len(g.pending) = n
    <3>1. e.out + 1 + (l - 1) = n
      BY <1>1
    <3> QED
      BY <2>0, <2>1, <3>1
  <2>3. \A k \in 1 .. Len(g.pending) :
          g.pending[k].count < n /\ g.pending[k].count >= g.out - Reorder
    <3> SUFFICES ASSUME NEW k \in 1 .. l - 1
                 PROVE  r[k].count < n /\ r[k].count >= g.out - Reorder
      BY <2>0, <2>1
    <3>1. r[k].count < n /\ r[k].count >= e.out + 1 - Reorder
      BY <1>11
    <3>2. g.out = e.out + 1 /\ e.out \in Nat
      BY <1>1, <2>1
    <3>3. g.out - Reorder = e.out + 1 - Reorder
      BY ONLY <3>2, RecorderConstants
    <3> QED
      BY ONLY <3>1, <3>3
  <2>4. \A j, k \in 1 .. Len(g.pending) : j < k => g.pending[j].count < g.pending[k].count
    BY <1>12, <2>0, <2>1
  <2> QED
    BY <1>1, <1>5, <2>1, <2>2, <2>3, <2>4 DEF Fed
<1>14. ToSet(r) \cup {q[i]} \subseteq ToSet(q)
  BY <1>1, <1>7, <1>8
<1>15. ToSet(q) \subseteq ToSet(r) \cup {q[i]}
  <2> SUFFICES ASSUME NEW k \in 1 .. l, k # i PROVE q[k] \in ToSet(r)
    BY <1>7
  <2>1. CASE k < i
    <3>1. k \in 1 .. l - 1 /\ r[k] = q[k]
      BY <1>1, <1>6, <2>1
    <3> QED
      BY <1>7, <3>1
  <2>2. CASE k > i
    <3>1. k - 1 \in 1 .. l - 1 /\ ~(k - 1 < i) /\ (k - 1) + 1 = k
      BY <1>1, <2>2
    <3>2. r[k - 1] = q[k]
      BY <1>6, <3>1
    <3> QED
      BY <1>7, <3>1, <3>2
  <2>3. k < i \/ k > i
    BY <1>1
  <2> QED
    BY <2>1, <2>2, <2>3
<1>16. \A x \in ToSet(r) : x.count # q[i].count
  <2> SUFFICES ASSUME NEW k \in 1 .. l, k # i PROVE q[k].count # q[i].count
    BY <1>7, <1>8
  <2>1. k < i \/ i < k
    BY <1>1
  <2>2. q[k].count < q[i].count \/ q[i].count < q[k].count
    BY <1>1, <1>3, <2>1
  <2>3. q[k].count \in Nat /\ q[i].count \in Nat
    BY <1>1, <1>2
  <2> QED
    BY <2>2, <2>3
<1>17. \A x : x \in ToSet(q) <=> x \in ToSet(g.pending) \/ x = q[i]
  BY <1>13, <1>14, <1>15
<1> QED
  BY <1>1, <1>10, <1>13, <1>16, <1>17 DEF g, q, l

-----------------------------------------------------------------------------
(* Encoder and context together.                                           *)

\* The video packets with data in context m, and the frame and count one carries.
Data(m) == Shown(m.file, VIDEO_STREAM) \cup Shown(m.packet_buffer, VIDEO_STREAM)

Carries(p, x) == p.pts = Stamp(x.count) /\ p.frame = x.frame

\* The frames of a recording, each with its count: those inside the encoder and
\* those in packets.
Marks(e, m) == ToSet(e.pending) \cup {x \in Inside : \E p \in Data(m) : Carries(p, x)}

\* Frames are counted in the order in which they were captured.
Chain(K) == \A x, y \in K : x.count < y.count <=> x.frame < y.frame

\* Each of the n frames is inside the encoder or in one packet, unless writing
\* has failed.
PacketInv(e, m, n) ==
    /\ \A p \in Data(m) : \E c \in 0 .. n - 1 :
         p.pts = Stamp(c) /\ \A x \in ToSet(e.pending) : x.count # c
    /\ \A p, q \in Data(m) : p.pts = q.pts => p = q
    /\ Chain(Marks(e, m))
    /\ ~m.error => \A c \in 0 .. n - 1 : \E x \in Marks(e, m) : x.count = c

\* The muxer will accept what comes out next, and holds video packets only: none
\* may leave before the trailer unless they span too much time.
BufferInv(e, m, n) ==
    /\ m.cur_dts[VIDEO_STREAM] \in {0, NoPts} \/ m.cur_dts[VIDEO_STREAM] < Stamp(e.out - Reorder)
    /\ \A p \in ToSet(m.packet_buffer) :
         /\ HasData(p) /\ p.stream = VIDEO_STREAM
         /\ \E k \in 0 .. e.out - 1 : p.dts = Stamp(k - Reorder)
    /\ ~m.finished /\ n * VideoPeriod <= MaxInterleaveDelta => Shown(m.file, VIDEO_STREAM) = {}
    /\ m.finished /\ ~m.error => m.packet_buffer = << >>

Tracked(e, m, n) ==
    Fed(e, n) /\ m \in MuxerState /\ PacketInv(e, m, n) /\ BufferInv(e, m, n)

\* What is in a context are packets.
LEMMA DataShape ==
  ASSUME NEW m \in MuxerState
  PROVE  /\ Data(m) \subseteq Packet
         /\ \A p \in Data(m) : p.pts \in Int /\ p.dts \in Int /\ p.frame \in Nat
         /\ ToSet(m.packet_buffer) \subseteq Packet /\ ToSet(m.file) \subseteq Packet
<1>1. m.file \in Seq(Packet) /\ m.packet_buffer \in Seq(Packet)
  BY DEF MuxerState
<1>2. ToSet(m.packet_buffer) \subseteq Packet /\ ToSet(m.file) \subseteq Packet
  BY <1>1, ToSetOfSeq
<1>3. Data(m) \subseteq Packet
  BY <1>2 DEF Data, Shown
<1> QED
  BY <1>2, <1>3 DEF Packet

\* Every frame of a recording has been counted.
LEMMA MarksShape ==
  ASSUME NEW e, NEW m \in MuxerState, NEW n, Fed(e, n), PacketInv(e, m, n)
  PROVE  /\ Marks(e, m) \subseteq Inside
         /\ \A x \in Marks(e, m) : x.count \in 0 .. n - 1 /\ x.frame \in Nat
<1>1. /\ ToSet(e.pending) = {e.pending[i] : i \in 1 .. Len(e.pending)}
      /\ ToSet(e.pending) \subseteq Inside /\ n \in Nat
  BY EncoderType, ToSetOfSeq DEF Fed, Inside
<1>2. Marks(e, m) \subseteq Inside
  BY <1>1 DEF Marks
<1>3. ASSUME NEW x \in ToSet(e.pending) PROVE x.count < n
  BY <1>1 DEF Fed
<1>4. ASSUME NEW x \in Inside, NEW p \in Data(m), Carries(p, x) PROVE x.count < n
  <2>1. PICK c \in 0 .. n - 1 : p.pts = Stamp(c)
    BY DEF PacketInv
  <2>2. x.count \in Nat /\ Stamp(x.count) = Stamp(c)
    BY <1>4, <2>1 DEF Carries, Inside
  <2>3. x.count = c
    <3>1. x.count \in Int /\ c \in Int
      BY <1>1, <2>2
    <3>2. Stamp(x.count) = Stamp(c) <=> x.count = c
      BY <3>1, StampOrder
    <3> QED
      BY <2>2, <3>2
  <2> QED
    BY <1>1, <2>3
<1>5. ASSUME NEW x \in Marks(e, m) PROVE x.count < n
  BY <1>3, <1>4 DEF Marks
<1> QED
  BY <1>1, <1>2, <1>5 DEF Inside

\* Feeding a frame captured after all the others.
LEMMA FeedTracked ==
  ASSUME NEW e, NEW m, NEW n, Tracked(e, m, n), NEW f \in Nat,
         \A x \in Marks(e, m) : x.frame < f
  PROVE  /\ Tracked(Feed(e, f, n), m, n + 1)
         /\ Marks(Feed(e, f, n), m) = Marks(e, m) \cup {Entry(f, n)}
<1> DEFINE g == Feed(e, f, n)
           z == Entry(f, n)
<1>1. /\ Fed(g, n + 1) /\ z \in Inside /\ z.count = n /\ z.frame = f /\ g.out = e.out
      /\ ToSet(g.pending) = ToSet(e.pending) \cup {z} /\ n \in Nat
  <2>1. z.count = n /\ z.frame = f /\ n \in Nat /\ Fed(e, n)
    BY DEF Entry, Tracked, Fed
  <2>2. Fed(g, n + 1) /\ z \in Inside /\ g.out = e.out
    BY <2>1, FeedShape
  <2>3. ToSet(g.pending) = ToSet(e.pending) \cup {z}
    <3>1. \A x : x \in ToSet(g.pending) <=> x \in ToSet(e.pending) \/ x = z
      BY <2>1, FeedShape
    <3> QED
      BY <3>1
  <2> QED
    BY <2>1, <2>2, <2>3
<1>2. Marks(g, m) = Marks(e, m) \cup {z}
  BY <1>1 DEF Marks
<1>3. /\ \A x \in Marks(e, m) : x.count \in 0 .. n - 1 /\ x.frame \in Nat
      /\ m \in MuxerState /\ PacketInv(e, m, n) /\ BufferInv(e, m, n)
  BY MarksShape DEF Tracked
<1> HIDE DEF g, z
<1>4. Chain(Marks(g, m))
  <2> SUFFICES ASSUME NEW x \in Marks(e, m) \cup {z}, NEW y \in Marks(e, m) \cup {z}
               PROVE  x.count < y.count <=> x.frame < y.frame
    BY <1>2 DEF Chain
  <2>1. CASE x \in Marks(e, m) /\ y \in Marks(e, m)
    BY <1>3, <2>1 DEF PacketInv, Chain
  <2>2. CASE x \in Marks(e, m) /\ y = z
    BY <1>1, <1>3, <2>2
  <2>3. CASE x = z /\ y \in Marks(e, m)
    BY <1>1, <1>3, <2>3
  <2>4. CASE x = z /\ y = z
    BY <1>1, <2>4
  <2> QED
    BY <2>1, <2>2, <2>3, <2>4
<1>5. ASSUME NEW p \in Data(m)
      PROVE  \E c \in 0 .. (n + 1) - 1 : p.pts = Stamp(c) /\ \A x \in ToSet(g.pending) : x.count # c
  <2>1. PICK c \in 0 .. n - 1 : p.pts = Stamp(c) /\ \A x \in ToSet(e.pending) : x.count # c
    BY <1>3 DEF PacketInv
  <2>2. c \in 0 .. (n + 1) - 1 /\ c # n
    BY <1>1
  <2> QED
    BY <1>1, <2>1, <2>2
<1>6. ASSUME ~m.error, NEW c \in 0 .. (n + 1) - 1 PROVE \E x \in Marks(g, m) : x.count = c
  <2>1. c \in 0 .. n - 1 \/ c = n
    BY <1>1
  <2> QED
    BY <1>1, <1>2, <1>3, <1>6, <2>1 DEF PacketInv
<1>7. PacketInv(g, m, n + 1)
  BY <1>3, <1>4, <1>5, <1>6 DEF PacketInv
<1>8. BufferInv(g, m, n + 1)
  <2>1. (n + 1) * VideoPeriod <= MaxInterleaveDelta => n * VideoPeriod <= MaxInterleaveDelta
    <3>1. n * VideoPeriod <= (n + 1) * VideoPeriod /\ n * VideoPeriod \in Int
          /\ (n + 1) * VideoPeriod \in Int
      BY <1>1, RecorderConstants, TimesOrder
    <3> DEFINE a == n * VideoPeriod
               b == (n + 1) * VideoPeriod
    <3>2. a \in Int /\ b \in Int /\ a <= b
      BY <3>1
    <3> HIDE DEF a, b
    <3>3. b <= MaxInterleaveDelta => a <= MaxInterleaveDelta
      BY <3>2, RecorderConstants
    <3> QED
      BY <3>3 DEF a, b
  <2> QED
    BY <1>1, <1>3, <2>1 DEF BufferInv
<1> QED
  BY <1>1, <1>2, <1>3, <1>7, <1>8 DEF Tracked, g, z

-----------------------------------------------------------------------------
(* The calls.                                                              *)

\* A call that adds no video to file or buffer.
LEMMA QuietTracked ==
  ASSUME NEW e, NEW m, NEW n, Tracked(e, m, n), NEW r \in MuxerState,
         r.packet_buffer = m.packet_buffer, r.finished = m.finished,
         Shown(r.file, VIDEO_STREAM) = Shown(m.file, VIDEO_STREAM),
         \/ r.cur_dts[VIDEO_STREAM] \in {0, NoPts}
         \/ r.cur_dts[VIDEO_STREAM] = m.cur_dts[VIDEO_STREAM],
         ~r.error => ~m.error
  PROVE  Tracked(e, r, n) /\ Marks(e, r) = Marks(e, m)
<1>1. Data(r) = Data(m)
  BY DEF Data
<1>2. Marks(e, r) = Marks(e, m)
  BY <1>1 DEF Marks
<1>3. PacketInv(e, r, n)
  BY <1>1, <1>2 DEF Tracked, PacketInv
<1>4. BufferInv(e, r, n)
  BY DEF Tracked, BufferInv
<1> QED
  BY <1>2, <1>3, <1>4 DEF Tracked

\* An empty packet is refused: at most cur_dts is unset.
LEMMA EmptyTracked ==
  ASSUME NEW e, NEW m, NEW n, Tracked(e, m, n), NEW good \in Nat
  PROVE  LET r == av_interleaved_write_frame(m, EmptyPacket(VIDEO_STREAM), good) IN
         /\ Tracked(e, r, n) /\ Marks(e, r) = Marks(e, m)
         /\ r.finished = m.finished /\ r.error = m.error
<1> DEFINE p == EmptyPacket(VIDEO_STREAM)
           r == av_interleaved_write_frame(m, p, good)
           q == WithTimestamps(m, p)
<1>1. m \in MuxerState
  BY DEF Tracked
<1>2. p \in Packet /\ p.stream = VIDEO_STREAM /\ p.dts = NoPts
  BY RecorderConstants DEF EmptyPacket, Packet
<1> HIDE DEF p
<1>3. q = p
  BY <1>2, RecorderConstants DEF WithTimestamps
<1> HIDE DEF q
<1>4. /\ r \in MuxerState /\ r.finished = m.finished
      /\ ~Accepts(m, p) => r = m
      /\ Accepts(m, p) => r.cur_dts = [m.cur_dts EXCEPT ![p.stream] = q.dts]
      /\ ~Accepts(m, p) \/ q.dts = NoPts =>
           r.file = m.file /\ r.packet_buffer = m.packet_buffer /\ r.error = m.error
  BY <1>1, <1>2, InterleavedShape DEF q
<1> HIDE DEF r
<1>5. r.file = m.file /\ r.packet_buffer = m.packet_buffer /\ r.error = m.error
  BY <1>2, <1>3, <1>4
<1>6. r.cur_dts[VIDEO_STREAM] = NoPts \/ r.cur_dts = m.cur_dts
  <2>1. m.cur_dts \in [Streams -> Int] /\ VIDEO_STREAM \in Streams
    BY <1>1 DEF MuxerState, Streams
  <2> QED
    BY <1>2, <1>3, <1>4, <2>1
<1>7. Tracked(e, r, n) /\ Marks(e, r) = Marks(e, m)
  BY <1>4, <1>5, <1>6, QuietTracked
<1> QED
  BY <1>4, <1>5, <1>7 DEF r, p

\* Sound goes past the video.
LEMMA SoundTracked ==
  ASSUME NEW e, NEW m, NEW n, Tracked(e, m, n), NEW works \in BOOLEAN,
         NEW p \in Packet, p.stream = AUDIO_STREAM
  PROVE  LET r == av_write_frame(m, p, works) IN
         /\ Tracked(e, r, n) /\ Marks(e, r) = Marks(e, m)
         /\ r.finished = m.finished /\ (works /\ ~m.error => ~r.error)
<1> DEFINE r == av_write_frame(m, p, works)
           q == WithTimestamps(m, p)
<1>1. m \in MuxerState /\ AUDIO_STREAM # VIDEO_STREAM
  BY RecorderConstants DEF Tracked
<1>2. q \in Packet /\ q.stream = AUDIO_STREAM
  BY <1>1, AdvanceShape
<1>3. /\ r \in MuxerState /\ r.finished = m.finished /\ r.packet_buffer = m.packet_buffer
      /\ ~Accepts(m, p) => r = m
      /\ Accepts(m, p) => r.cur_dts = [m.cur_dts EXCEPT ![p.stream] = q.dts]
      /\ r.file = m.file \/ r.file = Append(m.file, q)
      /\ ~r.error /\ Accepts(m, p) => ~m.error
  BY <1>1, DirectShape
<1>4. works /\ ~m.error => ~r.error
  <2> SUFFICES ASSUME works, ~m.error PROVE ~r.error
    OBVIOUS
  <2>1. CASE ~Accepts(m, p)
    BY <1>3, <2>1
  <2>2. CASE Accepts(m, p)
    <3> DEFINE a == Advance(m, q)
    <3>1. r = [a EXCEPT !.file = @ \o <<q>>]
      BY <2>2 DEF av_write_frame, Written
    <3>2. a \in MuxerState /\ a.error = m.error
      <4>1. a = [m EXCEPT !.cur_dts = [m.cur_dts EXCEPT ![p.stream] = q.dts],
                          !.priv_pts = NextPts(m, q)] /\ a \in MuxerState
        BY <1>1, AdvanceShape
      <4> HIDE DEF a
      <4> QED
        BY <1>1, <4>1 DEF MuxerState
    <3> HIDE DEF a, r
    <3>3. r.error = a.error
      BY <3>1, <3>2 DEF MuxerState
    <3> QED
      BY <3>2, <3>3
  <2> QED
    BY <2>1, <2>2
<1> HIDE DEF r, q
<1>5. Shown(r.file, VIDEO_STREAM) = Shown(m.file, VIDEO_STREAM)
  <2>1. CASE r.file = m.file
    BY <2>1
  <2>2. CASE r.file = Append(m.file, q)
    <3>1. m.file \in Seq(Packet) /\ r.file \in Seq(Packet)
      BY <1>1, <1>3 DEF MuxerState
    <3> DEFINE f == m.file
               g == r.file
               l == Len(f)
    <3>2. /\ l \in Nat /\ Len(g) = l + 1 /\ g[l + 1] = q
          /\ \A i \in 1 .. l : g[i] = f[i]
      BY <1>2, <2>2, <3>1, AppendProperties, LenProperties
    <3>3. ToSet(f) = {f[i] : i \in 1 .. l} /\ ToSet(g) = {g[i] : i \in 1 .. l + 1}
      BY <3>1, <3>2, ToSetOfSeq
    <3> HIDE DEF f, g, l
    <3>4. \A i \in 1 .. l + 1 : i \in 1 .. l \/ i = l + 1
      BY <3>2
    <3>5. \A i \in 1 .. l : i \in 1 .. l + 1
      BY <3>2
    <3>6. \A x : x \in ToSet(g) => x \in ToSet(f) \/ x = q
      BY <3>2, <3>3, <3>4
    <3>7. \A x \in ToSet(f) : x \in ToSet(g)
      BY <3>2, <3>3, <3>5
    <3>8. \A x : x \in Shown(g, VIDEO_STREAM) <=> x \in Shown(f, VIDEO_STREAM)
      BY <1>1, <1>2, <3>6, <3>7 DEF Shown
    <3>9. r.file = g /\ m.file = f
      BY DEF f, g
    <3> QED
      BY <3>8, <3>9
  <2> QED
    BY <1>3, <2>1, <2>2
<1>6. r.cur_dts[VIDEO_STREAM] = m.cur_dts[VIDEO_STREAM]
  <2>1. m.cur_dts \in [Streams -> Int] /\ VIDEO_STREAM \in Streams
    BY <1>1 DEF MuxerState, Streams
  <2> QED
    BY <1>1, <1>3, <2>1
<1>7. ~r.error => ~m.error
  BY <1>3
<1>8. Tracked(e, r, n) /\ Marks(e, r) = Marks(e, m)
  BY <1>3, <1>5, <1>6, <1>7, QuietTracked
<1> QED
  BY <1>3, <1>4, <1>8 DEF r

\* A call after which file and buffer hold no packets but those they had and, if
\* p is new, p, which carries a frame the encoder has let go.
LEMMA MovedPackets ==
  ASSUME NEW e, NEW m \in MuxerState, NEW n, Fed(e, n), PacketInv(e, m, n),
         NEW g, NEW r \in MuxerState, Fed(g, n), ToSet(g.pending) \subseteq ToSet(e.pending),
         NEW p, NEW x,
         \A d \in Data(r) : d \in Data(m) \/ d = p,
         p \in Data(r) /\ p \notin Data(m) =>
             /\ x \in ToSet(e.pending) /\ Carries(p, x)
             /\ \A y \in ToSet(g.pending) : y.count # x.count,
         ~r.error => ~m.error /\ Marks(e, m) \subseteq Marks(g, r)
  PROVE  PacketInv(g, r, n) /\ Marks(g, r) \subseteq Marks(e, m)
<1>1. /\ n \in Nat /\ ToSet(e.pending) \subseteq Marks(e, m)
      /\ \A y \in Marks(e, m) : y \in Inside /\ y.count \in 0 .. n - 1
  BY MarksShape DEF Fed, Marks
\* A new packet is for a frame no other packet is for.
<1>2. ASSUME p \in Data(r), p \notin Data(m)
      PROVE  /\ x \in Inside /\ x.count \in 0 .. n - 1 /\ p.pts = Stamp(x.count)
             /\ p.frame = x.frame
             /\ \A d \in Data(m) : d.pts # p.pts
  <2>1. /\ x \in Inside /\ x.count \in 0 .. n - 1 /\ p.pts = Stamp(x.count)
        /\ p.frame = x.frame /\ x \in ToSet(e.pending)
    BY <1>1, <1>2 DEF Carries
  <2>2. ASSUME NEW d \in Data(m) PROVE d.pts # p.pts
    <3>1. PICK c \in 0 .. n - 1 : d.pts = Stamp(c) /\ \A y \in ToSet(e.pending) : y.count # c
      BY DEF PacketInv
    <3>2. c # x.count /\ c \in Int /\ x.count \in Int
      BY <2>1, <3>1
    <3>3. Stamp(c) # Stamp(x.count)
      BY <3>2, StampOrder
    <3> QED
      BY <2>1, <3>1, <3>3
  <2> QED
    BY <2>1, <2>2
<1>3. Marks(g, r) \subseteq Marks(e, m)
  <2> SUFFICES ASSUME NEW y \in Inside, NEW d \in Data(r), Carries(d, y), d \notin Data(m)
               PROVE  y = x
    <3>1. ASSUME NEW y \in Marks(g, r) PROVE y \in Marks(e, m)
      <4>1. CASE y \in ToSet(g.pending)
        BY <1>1, <4>1
      <4>2. CASE y \notin ToSet(g.pending)
        <5>1. PICK d \in Data(r) : y \in Inside /\ Carries(d, y)
          BY <3>1, <4>2 DEF Marks
        <5>2. CASE d \in Data(m)
          BY <5>1, <5>2 DEF Marks
        <5>3. CASE d \notin Data(m)
          <6>1. d = p /\ y = x
            BY <5>1, <5>3
          <6>2. x \in ToSet(e.pending)
            BY <5>3, <6>1
          <6> QED
            BY <1>1, <6>1, <6>2
        <5> QED
          BY <5>2, <5>3
      <4> QED
        BY <4>1, <4>2
    <3> QED
      BY <3>1
  <2>1. d = p
    OBVIOUS
  <2>2. /\ x \in Inside /\ x.count \in Int /\ p.pts = Stamp(x.count) /\ p.frame = x.frame
    BY <1>2, <2>1
  <2>3. y.count \in Int /\ Stamp(y.count) = Stamp(x.count) /\ y.frame = x.frame
    BY <2>1, <2>2 DEF Carries, Inside
  <2>4. Stamp(y.count) = Stamp(x.count) <=> y.count = x.count
    BY <2>2, <2>3, StampOrder
  <2> QED
    BY <2>2, <2>3, <2>4 DEF Inside
<1>4. ASSUME NEW d \in Data(r)
      PROVE  \E c \in 0 .. n - 1 : d.pts = Stamp(c) /\ \A y \in ToSet(g.pending) : y.count # c
  <2>1. CASE d \in Data(m)
    BY <2>1 DEF PacketInv
  <2>2. CASE d \notin Data(m)
    <3>1. d = p
      BY <2>2
    <3> QED
      BY <1>2, <2>2, <3>1
  <2> QED
    BY <2>1, <2>2
<1>5. ASSUME NEW d \in Data(r), NEW f \in Data(r), d.pts = f.pts PROVE d = f
  <2>1. CASE d \in Data(m) /\ f \in Data(m)
    BY <1>5, <2>1 DEF PacketInv
  <2>2. CASE d \notin Data(m) \/ f \notin Data(m)
    BY <1>2, <1>5, <2>2
  <2> QED
    BY <2>1, <2>2
<1>6. Chain(Marks(g, r))
  BY <1>3 DEF PacketInv, Chain
<1>7. ~r.error => \A c \in 0 .. n - 1 : \E y \in Marks(g, r) : y.count = c
  BY DEF PacketInv
<1> QED
  BY <1>3, <1>4, <1>5, <1>6, <1>7 DEF PacketInv

\* The trailer moves what is held into the file.
LEMMA TrailerTracked ==
  ASSUME NEW e, NEW m, NEW n, Tracked(e, m, n), NEW good \in Nat
  PROVE  LET r == av_write_trailer(m, good) IN
         /\ Tracked(e, r, n) /\ Marks(e, r) \subseteq Marks(e, m) /\ r.finished
         /\ (~m.error /\ good >= Len(m.packet_buffer) => ~r.error)
         /\ (~r.error => Marks(e, m) \subseteq Marks(e, r))
<1> DEFINE r == av_write_trailer(m, good)
           b == m.packet_buffer
           o == Output(m, Len(b), good)
<1>1. m \in MuxerState /\ b \in Seq(Packet) /\ Len(b) \in 0 .. Len(b)
  BY LenProperties DEF Tracked, MuxerState
<1>2. /\ r \in MuxerState /\ r.finished /\ r.cur_dts = m.cur_dts
      /\ \E t, g \in 0 .. Len(b) : Moves(m, r, b, Len(b), t, g)
  BY <1>1, TrailerShape
<1>3. ~m.error /\ good >= Len(b) => ~r.error
  <2>1. o \in MuxerState /\ (~m.error /\ good >= Len(b) => ~o.error)
    BY <1>1, OutputShape
  <2>2. r = [o EXCEPT !.finished = TRUE]
    BY DEF av_write_trailer
  <2> HIDE DEF o, r
  <2>3. r.error = o.error
    BY <2>1, <2>2 DEF MuxerState
  <2> QED
    BY <2>1, <2>3
<1> HIDE DEF r, b, o
<1>4. PICK t \in 0 .. Len(b), g \in 0 .. Len(b) : Moves(m, r, b, Len(b), t, g)
  BY <1>2
<1>5. /\ ToSet(m.file) \subseteq ToSet(r.file)
      /\ ToSet(r.file) \subseteq ToSet(m.file) \cup ToSet(b)
      /\ ToSet(r.packet_buffer) \subseteq ToSet(b)
      /\ ~r.error => ToSet(m.file) \cup ToSet(b) = ToSet(r.file) \cup ToSet(r.packet_buffer)
  BY <1>1, <1>2, <1>4, MovesSets
<1>6. ~r.error => ~m.error /\ r.packet_buffer = << >>
  <2> SUFFICES ASSUME ~r.error PROVE ~m.error /\ r.packet_buffer = << >>
    OBVIOUS
  <2>1. ~m.error /\ g = Len(b) /\ r.packet_buffer = Rest(b, g)
    BY <1>4 DEF Moves
  <2>2. Rest(b, Len(b)) = << >>
    BY <1>1, SubSeqEmpty DEF Rest
  <2> QED
    BY <2>1, <2>2
<1>7. \A d \in Data(r) : d \in Data(m)
  BY <1>5 DEF Data, Shown, b
<1>8. ~r.error => Marks(e, m) \subseteq Marks(e, r)
  <2>1. ~r.error => \A d \in Data(m) : d \in Data(r)
    BY <1>5 DEF Data, Shown, b
  <2> QED
    BY <2>1 DEF Marks
<1>9. PacketInv(e, r, n) /\ Marks(e, r) \subseteq Marks(e, m)
  BY <1>1, <1>2, <1>6, <1>7, <1>8, MovedPackets DEF Tracked
<1>10. BufferInv(e, r, n)
  <2>1. \A p \in ToSet(r.packet_buffer) : p \in ToSet(m.packet_buffer)
    BY <1>5 DEF b
  <2> QED
    BY <1>2, <1>6, <2>1 DEF Tracked, BufferInv
<1> QED
  BY <1>2, <1>3, <1>8, <1>9, <1>10 DEF Tracked, r, b

\* A buffer of video packets stays shut as long as the recording is short.
LEMMA VideoStaysShut ==
  ASSUME NEW b \in Seq(Packet), NEW l \in Nat, l * VideoPeriod <= MaxInterleaveDelta,
         \A i \in 1 .. Len(b) : /\ b[i].stream = VIDEO_STREAM
                                /\ \E k \in 0 .. l : b[i].dts = Stamp(k - Reorder)
  PROVE  ~Ready(b)
<1>1. DOMAIN b = 1 .. Len(b) /\ Len(b) \in Nat /\ \A i \in 1 .. Len(b) : b[i].dts \in Int
  <2>1. \A i \in 1 .. Len(b) : b[i] \in Packet
    BY ElementOfSeq
  <2> QED
    BY <2>1, LenProperties DEF Packet
<1>2. ASSUME b # << >>, \A s \in Streams : \E i \in DOMAIN b : b[i].stream = s PROVE FALSE
  BY <1>1, <1>2, RecorderConstants
<1>3. ASSUME b # << >>, NEW i \in DOMAIN b, b[i].dts - b[1].dts > MaxInterleaveDelta PROVE FALSE
  <2>1. i \in 1 .. Len(b) /\ 1 \in 1 .. Len(b)
    BY <1>1, <1>3
  <2>2. PICK k \in 0 .. l : b[i].dts = Stamp(k - Reorder)
    BY <2>1
  <2>3. PICK j \in 0 .. l : b[1].dts = Stamp(j - Reorder)
    BY <2>1
  <2>4. /\ k - Reorder \in Int /\ j - Reorder \in Int
        /\ (k - Reorder) - (j - Reorder) = k - j /\ k - j <= l /\ k - j \in Int /\ l \in Int
    BY <2>2, <2>3, RecorderConstants
  <2>5. Stamp(k - Reorder) - Stamp(j - Reorder) = Stamp(k - j)
    BY <2>4, StampOrder
  <2>6. (k - j) * VideoPeriod <= l * VideoPeriod
    BY <2>4, RecorderConstants, TimesOrder
  <2> DEFINE a == Stamp(k - j)
             c == l * VideoPeriod
  <2>7. a \in Int /\ c \in Int /\ a <= c /\ c <= MaxInterleaveDelta /\ a > MaxInterleaveDelta
    <3>1. a \in Int /\ c \in Int /\ a <= c
      BY <2>4, <2>6, RecorderConstants DEF Stamp
    <3>2. a > MaxInterleaveDelta
      BY <1>3, <2>2, <2>3, <2>5
    <3> QED
      BY <3>1, <3>2
  <2> HIDE DEF a, c
  <2> QED
    BY ONLY <2>7, RecorderConstants
<1> QED
  BY <1>2, <1>3 DEF Ready

\* The packet for an entry of the encoder.
LEMMA PacketOfEntry ==
  ASSUME NEW e, NEW n, Fed(e, n), NEW i \in Candidates(e, Reorder)
  PROVE  LET p == VideoPacket(e, i) IN
         /\ p \in Packet /\ p.stream = VIDEO_STREAM /\ HasData(p)
         /\ Carries(p, e.pending[i]) /\ p.dts = Stamp(e.out - Reorder)
         /\ p.dts # NoPts /\ p.pts # NoPts /\ p.dts <= p.pts
<1> DEFINE x == e.pending[i]
           o == e.out - Reorder
<1>1. x \in Inside /\ x.count \in Int /\ x.count >= o /\ e.out \in Nat
  BY EmitShape DEF Inside
<1> HIDE DEF x
<1>2. o \in Int /\ o >= -Reorder
  BY <1>1, RecorderConstants
<1> DEFINE p == VideoPacket(e, i)
<1>3. p = [stream |-> VIDEO_STREAM, pts |-> Stamp(x.count), dts |-> Stamp(o), size |-> 1,
           frame |-> x.frame]
  BY DEF VideoPacket, Stamp, x
<1> HIDE DEF p
<1>4. /\ Stamp(x.count) \in Int /\ Stamp(o) \in Int /\ NoPts < Stamp(o)
      /\ o < x.count => Stamp(o) < Stamp(x.count)
  <2> HIDE DEF o
  <2> QED
    BY <1>1, <1>2, StampOrder
<1>5. Stamp(o) <= Stamp(x.count)
  <2>1. o = x.count \/ o < x.count
    BY <1>1, <1>2
  <2> QED
    BY <1>4, <2>1
<1>6. p \in Packet /\ p.stream = VIDEO_STREAM /\ HasData(p)
  BY <1>1, <1>3, <1>4, RecorderConstants DEF Packet, HasData, Inside
<1>7. Carries(p, x) /\ p.dts = Stamp(o)
  BY <1>3 DEF Carries
<1>8. p.dts # NoPts /\ p.pts # NoPts /\ p.dts <= p.pts
  BY <1>3, <1>4, <1>5, RecorderConstants
<1> QED
  BY <1>6, <1>7, <1>8 DEF p, x

\* The muxer refuses no packet of the encoder: it is held, and nothing leaves the
\* buffer of a short recording.
LEMMA EmitTracked ==
  ASSUME NEW e, NEW m, NEW n, Tracked(e, m, n), ~m.finished,
         NEW i \in Candidates(e, Reorder), NEW good \in Nat
  PROVE  LET g == Emit(e, i)
             r == av_interleaved_write_frame(m, VideoPacket(e, i), good)
         IN  /\ Tracked(g, r, n) /\ Marks(g, r) \subseteq Marks(e, m) /\ ~r.finished
             /\ (~m.error /\ good >= Len(m.packet_buffer) + 1 => ~r.error)
             /\ (~r.error => Marks(e, m) \subseteq Marks(g, r))
<1> DEFINE g == Emit(e, i)
           x == e.pending[i]
           p == VideoPacket(e, i)
           r == av_interleaved_write_frame(m, p, good)
           c == m.packet_buffer
           q == WithTimestamps(m, p)
           b == ff_interleave_add_packet(c, q)
           N == ReadyCount(b)
<1>1. /\ Fed(e, n) /\ m \in MuxerState /\ PacketInv(e, m, n) /\ BufferInv(e, m, n)
      /\ c \in Seq(Packet) /\ m.file \in Seq(Packet) /\ n \in Nat
  BY DEF Tracked, MuxerState, Fed
<1>2. /\ x \in Inside /\ x.count < n /\ Fed(g, n) /\ g.out = e.out + 1
      /\ e.out \in Nat /\ e.out < n
      /\ \A y \in ToSet(g.pending) : y.count # x.count
  BY <1>1, EmitShape
<1>3. \A y : y \in ToSet(e.pending) <=> y \in ToSet(g.pending) \/ y = x
  BY <1>1, EmitShape
<1>4. /\ p \in Packet /\ p.stream = VIDEO_STREAM /\ HasData(p)
      /\ Carries(p, x) /\ p.dts = Stamp(e.out - Reorder)
      /\ p.dts # NoPts /\ p.pts # NoPts /\ p.dts <= p.pts
  BY <1>1, PacketOfEntry
<1> HIDE DEF p, g, x
<1>5. q = p
  BY <1>4, RecorderConstants DEF WithTimestamps
<1>6. Accepts(m, p)
  BY <1>1, <1>4, <1>5 DEF Accepts, DtsAccepted, BufferInv
<1>7. /\ r \in MuxerState /\ r.finished = m.finished
      /\ r.cur_dts = [m.cur_dts EXCEPT ![p.stream] = p.dts]
      /\ b \in Seq(Packet) /\ N \in 0 .. Len(b)
      /\ ~m.error /\ good >= N => ~r.error
      /\ \E t, h \in 0 .. N : Moves(m, r, b, N, t, h)
  <2>1. /\ r \in MuxerState /\ r.finished = m.finished
        /\ Accepts(m, p) => r.cur_dts = [m.cur_dts EXCEPT ![p.stream] = q.dts]
        /\ Accepts(m, p) /\ q.dts # NoPts =>
             /\ b \in Seq(Packet) /\ N \in 0 .. Len(b)
             /\ ~m.error /\ good >= N => ~r.error
             /\ \E t, h \in 0 .. N : Moves(m, r, b, N, t, h)
    BY <1>1, <1>4, InterleavedShape
  <2> HIDE DEF r, q, b, N
  <2> QED
    BY <1>4, <1>5, <1>6, <2>1
<1> HIDE DEF r, q
<1>8. /\ b = InsertAt(c, Place(c, p), p) /\ Place(c, p) \in 1 .. Len(c) + 1
  BY <1>1, <1>4, <1>5, PlaceShape DEF ff_interleave_add_packet
<1>9. \A y : y \in ToSet(b) <=> y \in ToSet(c) \/ y = p
  <2>1. ToSet(b) = ToSet(c) \cup {p}
    BY <1>1, <1>4, <1>8, InsertAtSet
  <2> QED
    BY <2>1
<1>10. Len(b) = Len(c) + 1 /\ Len(c) \in Nat
  BY <1>1, <1>4, <1>8, InsertAtShape, LenProperties
<1>11. N \in 0 .. Len(b) /\ ~Ready(Rest(b, N)) /\ \A k \in 0 .. N - 1 : Ready(Rest(b, k))
  BY <1>7, ReadyCountShape
<1>12. ToSet(b) = {b[k] : k \in 1 .. Len(b)}
  BY <1>7, ToSetOfSeq
<1> HIDE DEF b, N, c
<1>13. PICK t \in 0 .. N, h \in 0 .. N : Moves(m, r, b, N, t, h)
  BY <1>7
<1>14. /\ ToSet(m.file) \subseteq ToSet(r.file)
       /\ ToSet(r.file) \subseteq ToSet(m.file) \cup ToSet(b)
       /\ ToSet(r.packet_buffer) \subseteq ToSet(b)
       /\ ~r.error => ToSet(m.file) \cup ToSet(b) = ToSet(r.file) \cup ToSet(r.packet_buffer)
  BY <1>1, <1>7, <1>13, MovesSets
<1>15. ~r.error => ~m.error
  BY <1>13 DEF Moves
<1>16. ~m.error /\ good >= Len(c) + 1 => ~r.error
  BY <1>7, <1>10
<1>17. \A d \in Data(r) : d \in Data(m) \/ d = p
  BY <1>9, <1>14 DEF Data, Shown, c
<1>18. ~r.error => p \in Data(r) /\ \A d \in Data(m) : d \in Data(r)
  <2> SUFFICES ASSUME ~r.error PROVE p \in Data(r) /\ \A d \in Data(m) : d \in Data(r)
    OBVIOUS
  <2>1. \A y : y \in ToSet(m.file) \/ y \in ToSet(b) =>
             y \in ToSet(r.file) \/ y \in ToSet(r.packet_buffer)
    BY <1>14
  <2>2. \A y : y \in ToSet(m.file) \/ y \in ToSet(c) \/ y = p =>
             y \in ToSet(r.file) \/ y \in ToSet(r.packet_buffer)
    BY <1>9, <2>1
  <2> QED
    BY <1>4, <2>2 DEF Data, Shown, c
<1>19. ~r.error => Marks(e, m) \subseteq Marks(g, r)
  <2> SUFFICES ASSUME ~r.error, NEW y \in Marks(e, m) PROVE y \in Marks(g, r)
    OBVIOUS
  <2>1. CASE y \in ToSet(g.pending)
    BY <2>1 DEF Marks
  <2>2. CASE y = x
    BY <1>2, <1>4, <1>18, <2>2 DEF Marks
  <2>3. CASE y \notin ToSet(e.pending)
    BY <1>18, <2>3 DEF Marks
  <2> QED
    BY <1>3, <2>1, <2>2, <2>3
<1>20. PacketInv(g, r, n) /\ Marks(g, r) \subseteq Marks(e, m)
  <2>1. x \in ToSet(e.pending) /\ ToSet(g.pending) \subseteq ToSet(e.pending)
    BY <1>3
  <2> QED
    <3>1. p \in Data(r) /\ p \notin Data(m) =>
            /\ x \in ToSet(e.pending) /\ Carries(p, x)
            /\ \A y \in ToSet(g.pending) : y.count # x.count
      BY <1>2, <1>4, <2>1
    <3>2. ~r.error => ~m.error /\ Marks(e, m) \subseteq Marks(g, r)
      BY <1>15, <1>19
    <3>3. m \in MuxerState /\ r \in MuxerState /\ Fed(e, n) /\ Fed(g, n) /\ PacketInv(e, m, n)
      BY <1>1, <1>2, <1>7
    <3> QED
      BY <1>17, <2>1, <3>1, <3>2, <3>3, MovedPackets
<1>21. BufferInv(g, r, n)
  <2>1. r.cur_dts[VIDEO_STREAM] < Stamp(g.out - Reorder)
    <3>1. r.cur_dts[VIDEO_STREAM] = Stamp(e.out - Reorder)
      <4>1. m.cur_dts \in [Streams -> Int] /\ VIDEO_STREAM \in Streams
        BY <1>1 DEF MuxerState, Streams
      <4> QED
        BY <1>4, <1>7, <4>1
    <3>2. e.out - Reorder \in Int /\ g.out - Reorder \in Int /\ e.out - Reorder < g.out - Reorder
      BY <1>2, RecorderConstants
    <3>3. Stamp(e.out - Reorder) < Stamp(g.out - Reorder)
      <4>1. ASSUME NEW a \in Int, NEW d \in Int, a < d PROVE Stamp(a) < Stamp(d)
        BY <4>1, StampOrder
      <4> QED
        BY <3>2, <4>1
    <3> QED
      BY <3>1, <3>3
  <2>2. ASSUME NEW y \in ToSet(b)
        PROVE  /\ HasData(y) /\ y.stream = VIDEO_STREAM
               /\ \E k \in 0 .. g.out - 1 : y.dts = Stamp(k - Reorder)
    <3>1. CASE y = p
      <4>1. e.out \in 0 .. g.out - 1
        BY <1>2
      <4> QED
        BY <1>4, <3>1, <4>1
    <3>2. CASE y \in ToSet(c)
      <4>1. PICK k \in 0 .. e.out - 1 : y.dts = Stamp(k - Reorder)
        BY <1>1, <3>2 DEF BufferInv, c
      <4>2. k \in 0 .. g.out - 1
        BY <1>2
      <4> QED
        BY <1>1, <3>2, <4>1, <4>2 DEF BufferInv, c
    <3> QED
      BY <1>9, <3>1, <3>2
  <2>3. ASSUME n * VideoPeriod <= MaxInterleaveDelta
        PROVE  Shown(r.file, VIDEO_STREAM) = {}
    <3>1. ~Ready(b)
      <4>1. ASSUME NEW k \in 1 .. Len(b)
            PROVE  b[k].stream = VIDEO_STREAM /\ \E j \in 0 .. n : b[k].dts = Stamp(j - Reorder)
        <5>1. b[k] \in ToSet(b)
          BY <1>12
        <5>2. PICK j \in 0 .. g.out - 1 : b[k].dts = Stamp(j - Reorder)
          BY <2>2, <5>1
        <5>3. j \in 0 .. n
          BY <1>1, <1>2
        <5> QED
          BY <2>2, <5>1, <5>2, <5>3
      <4> QED
        BY <1>1, <1>7, <2>3, <4>1, VideoStaysShut
    <3>2. N = 0
      <4>1. Rest(b, 0) = b
        BY <1>7, <1>10, RestShape DEF Rest
      <4> QED
        BY <1>10, <1>11, <3>1, <4>1
    <3>3. Len(r.file) = Len(m.file) /\ \A k \in 1 .. Len(m.file) : r.file[k] = m.file[k]
      <4>1. t = 0 /\ Len(m.file) \in Nat
        BY <1>1, <3>2, LenProperties
      <4>2. Len(r.file) = Len(m.file) + t /\ \A k \in 1 .. Len(m.file) : r.file[k] = m.file[k]
        BY <1>1, <1>7, <1>13, MovesShape
      <4> QED
        BY <4>1, <4>2
    <3>4. /\ ToSet(m.file) = {m.file[k] : k \in 1 .. Len(m.file)}
          /\ ToSet(r.file) = {r.file[k] : k \in 1 .. Len(r.file)}
      <4>1. r.file \in Seq(Packet)
        BY <1>7 DEF MuxerState
      <4> QED
        BY <1>1, <4>1, ToSetOfSeq
    <3>5. \A y : y \in ToSet(r.file) <=> y \in ToSet(m.file)
      BY <3>3, <3>4
    <3>6. Shown(m.file, VIDEO_STREAM) = {}
      BY <1>1, <2>3 DEF BufferInv
    <3> QED
      BY <3>5, <3>6 DEF Shown
  <2> QED
    BY <1>7, <1>14, <2>1, <2>2, <2>3 DEF BufferInv
<1>22. ~r.finished /\ Tracked(g, r, n)
  BY <1>2, <1>7, <1>20, <1>21 DEF Tracked
<1> QED
  BY <1>16, <1>19, <1>20, <1>22 DEF g, r, p, c


-----------------------------------------------------------------------------
(* Sound: the audio encoder and the context of a recording, followed       *)
(* together in the same way.                                               *)

\* The timestamp of packet number c.
Date(c) == (c - AudioDelay) * AudioPeriod

LEMMA DateOrder ==
  ASSUME NEW a \in Int, NEW b \in Int
  PROVE  /\ Date(a) \in Int /\ Date(b) \in Int
         /\ a < b => Date(a) < Date(b)
         /\ a >= 0 => NoPts < Date(a)
<1>1. /\ AudioDelay \in Nat /\ AudioPeriod \in Nat \ {0} /\ NoPts \in Int
      /\ NoPts < -(AudioDelay * AudioPeriod)
  BY RecorderAssumption, AudioPeriodAssumption, NoPtsAssumption
     DEF RecorderAssumption, AudioPeriodAssumption, NoPtsAssumption
<1>2. /\ a - AudioDelay \in Int /\ b - AudioDelay \in Int /\ -AudioDelay \in Int
      /\ a < b => a - AudioDelay < b - AudioDelay
      /\ a >= 0 => -AudioDelay <= a - AudioDelay
  BY <1>1
<1>3. Date(a) \in Int /\ Date(b) \in Int /\ (a < b => Date(a) < Date(b))
  BY <1>1, <1>2, TimesOrder DEF Date
<1>4. a >= 0 => (-AudioDelay) * AudioPeriod <= Date(a)
  BY <1>1, <1>2, TimesOrder DEF Date
<1>5. (-AudioDelay) * AudioPeriod = -(AudioDelay * AudioPeriod) /\ AudioDelay * AudioPeriod \in Int
  BY <1>1
<1> QED
  BY <1>1, <1>3, <1>4, <1>5

\* Where the sound is in a file.
Sounds(f) == {i \in DOMAIN f : f[i].stream = AUDIO_STREAM /\ HasData(f[i])}

\* A file that another continues, by packets that are not sound.
LEMMA SilentTail ==
  ASSUME NEW f \in Seq(Packet), NEW g \in Seq(Packet), Len(f) <= Len(g),
         \A i \in 1 .. Len(f) : g[i] = f[i],
         \A i \in Len(f) + 1 .. Len(g) : ~(g[i].stream = AUDIO_STREAM /\ HasData(g[i]))
  PROVE  Sounds(g) = Sounds(f) /\ \A i \in Sounds(f) : g[i] = f[i]
<1>1. Len(f) \in Nat /\ Len(g) \in Nat /\ DOMAIN f = 1 .. Len(f) /\ DOMAIN g = 1 .. Len(g)
  BY LenProperties
<1>2. \A i \in 1 .. Len(g) : i \in 1 .. Len(f) \/ i \in Len(f) + 1 .. Len(g)
  BY <1>1
<1>3. \A i \in 1 .. Len(f) : i \in 1 .. Len(g)
  BY <1>1
<1> QED
  BY <1>1, <1>2, <1>3 DEF Sounds

\* ... or by one packet of sound.
LEMMA SoundAdded ==
  ASSUME NEW f \in Seq(Packet), NEW p \in Packet
  PROVE  LET g == Append(f, p)
             l == Len(f) + 1
         IN  /\ IsFiniteSet(Sounds(f)) /\ Sounds(f) \subseteq 1 .. Len(f)
             /\ g[l] = p /\ \A i \in Sounds(f) : g[i] = f[i]
             /\ p.stream = AUDIO_STREAM /\ HasData(p) =>
                  /\ Sounds(g) = Sounds(f) \cup {l}
                  /\ Cardinality(Sounds(g)) = Cardinality(Sounds(f)) + 1
             /\ ~(p.stream = AUDIO_STREAM /\ HasData(p)) => Sounds(g) = Sounds(f)
<1> DEFINE g == Append(f, p)
           l == Len(f) + 1
           n == Len(f)
<1>1. /\ n \in Nat /\ DOMAIN f = 1 .. n /\ g \in Seq(Packet) /\ Len(g) = l /\ l = n + 1
      /\ DOMAIN g = 1 .. l /\ g[l] = p /\ \A i \in 1 .. n : g[i] = f[i]
  BY AppendProperties, LenProperties
<1> HIDE DEF g, l, n
<1>2. /\ \A i \in 1 .. l : i \in 1 .. n \/ i = l
      /\ \A i \in 1 .. n : i \in 1 .. l
      /\ l \in 1 .. l /\ l \notin 1 .. n
  BY <1>1
<1>3. Sounds(f) \subseteq 1 .. n
  BY <1>1 DEF Sounds
<1>4. IsFiniteSet(Sounds(f))
  <2>1. 1 \in Int /\ n \in Int
    BY <1>1
  <2>2. IsFiniteSet(1 .. n)
    BY <2>1, FS_Interval
  <2> QED
    BY <1>3, <2>2, FS_Subset
<1>5. ASSUME p.stream = AUDIO_STREAM /\ HasData(p)
      PROVE  /\ Sounds(g) = Sounds(f) \cup {l}
             /\ Cardinality(Sounds(g)) = Cardinality(Sounds(f)) + 1
  <2>1. \A i : i \in Sounds(g) <=> i \in Sounds(f) \/ i = l
    BY <1>1, <1>2, <1>5 DEF Sounds
  <2>2. l \notin Sounds(f)
    BY <1>2, <1>3
  <2>3. Sounds(g) = Sounds(f) \cup {l}
    BY <2>1
  <2> QED
    BY <1>4, <2>2, <2>3, FS_AddElement
<1>6. ASSUME ~(p.stream = AUDIO_STREAM /\ HasData(p)) PROVE Sounds(g) = Sounds(f)
  BY <1>1, <1>2, <1>6 DEF Sounds
<1> QED
  BY <1>1, <1>3, <1>4, <1>5, <1>6 DEF g, l, n

\* An audio encoder returns nothing until it is full, and then one packet per
\* buffer, oldest first.
Waiting(e) ==
    /\ e \in EncoderState /\ Len(e.pending) <= AudioDelay
    /\ e.out > 0 => Len(e.pending) = AudioDelay
    /\ \A i, j \in 1 .. Len(e.pending) : i < j => e.pending[i].frame < e.pending[j].frame

\* The packet the audio thread has in hand is the last the encoder returned, if it
\* returned any.
Returned(e, p) ==
    /\ p \in Packet
    /\ ~HasData(p) => p = EmptyPacket(AUDIO_STREAM)
    /\ HasData(p) =>
         /\ p.stream = AUDIO_STREAM /\ e.out > 0
         /\ p.dts = Date(e.out - 1) /\ p.pts = Date(e.out - 1)
         /\ \A i \in 1 .. Len(e.pending) : p.frame < e.pending[i].frame

\* How many packets have left the thread's hands, and the buffers behind them.
Passed(e, p) == IF HasData(p) THEN e.out - 1 ELSE e.out

Behind(e, p) == {e.pending[i].frame : i \in 1 .. Len(e.pending)} \cup
                (IF HasData(p) THEN {p.frame} ELSE {})

\* The clock of the stream is unset or behind packet k, the next, although the
\* empty packets of an encoder that fills have moved it.
ClockInv(m, k) ==
    /\ k = 0 => m.cur_dts[AUDIO_STREAM] \in {0, NoPts} /\ m.priv_pts = 0
    /\ \/ m.cur_dts[AUDIO_STREAM] \in {0, NoPts}
       \/ m.cur_dts[AUDIO_STREAM] < Date(k)

\* The file has the k packets before that in order, or all but one if one has been
\* lost.
HeardInv(m, k, behind, lost) ==
    /\ \A i \in Sounds(m.file) : /\ m.file[i].dts < Date(k)
                                 /\ \A f \in behind : m.file[i].frame < f
    /\ \A i, j \in Sounds(m.file) : i < j =>
         m.file[i].frame < m.file[j].frame /\ m.file[i].dts < m.file[j].dts
    /\ ~m.error => \/ Cardinality(Sounds(m.file)) = k
                   \/ lost /\ Cardinality(Sounds(m.file)) = k - 1

Sounding(e, p, m, lost) ==
    /\ Waiting(e) /\ Returned(e, p) /\ m \in MuxerState
    /\ ClockInv(m, Passed(e, p))
    /\ HeardInv(m, Passed(e, p), Behind(e, p), lost)

\* The buffers a recording has, in its file, in hand or in its encoder.
SoundFrames(e, p, m) == {m.file[i].frame : i \in Sounds(m.file)} \cup Behind(e, p)

\* Nothing is needed for a packet to count as lost.
LEMMA MayBeLost ==
  ASSUME NEW e, NEW p, NEW m, NEW l1, NEW l2, Sounding(e, p, m, l1), l1 => l2
  PROVE  Sounding(e, p, m, l2)
  BY DEF Sounding, HeardInv

\* A step after which the file has the sound it had.
LEMMA SilentKeeps ==
  ASSUME NEW e, NEW p, NEW m, NEW lost, Sounding(e, p, m, lost), NEW r \in MuxerState,
         Sounds(r.file) = Sounds(m.file), \A i \in Sounds(m.file) : r.file[i] = m.file[i],
         \/ r.cur_dts[AUDIO_STREAM] = m.cur_dts[AUDIO_STREAM] /\ r.priv_pts = m.priv_pts
         \/ r.cur_dts[AUDIO_STREAM] \in {0, NoPts} /\ r.priv_pts = 0,
         ~r.error => ~m.error
  PROVE  Sounding(e, p, r, lost) /\ SoundFrames(e, p, r) = SoundFrames(e, p, m)
<1>1. ClockInv(r, Passed(e, p))
  BY DEF Sounding, ClockInv
<1>2. HeardInv(r, Passed(e, p), Behind(e, p), lost)
  BY DEF Sounding, HeardInv
<1>3. SoundFrames(e, p, r) = SoundFrames(e, p, m)
  BY DEF SoundFrames
<1> QED
  BY <1>1, <1>2, <1>3 DEF Sounding

\* The sounds of a file are packets.
LEMMA SoundPackets ==
  ASSUME NEW f \in Seq(Packet), NEW i \in Sounds(f)
  PROVE  i \in 1 .. Len(f) /\ f[i].dts \in Int /\ f[i].frame \in Nat
<1>1. i \in 1 .. Len(f)
  BY LenProperties DEF Sounds
<1>2. f[i] \in Packet
  BY <1>1, ElementOfSeq
<1> QED
  BY <1>1, <1>2 DEF Packet

\* A buffer is fed to the encoder: its entry is the last.
LEMMA SoundFed ==
  ASSUME NEW e, Waiting(e), NEW f \in Nat, NEW n \in Nat,
         \A i \in 1 .. Len(e.pending) : e.pending[i].frame < f
  PROVE  LET g == Feed(e, f, n)
             l == Len(e.pending)
         IN  /\ g \in EncoderState /\ g.pending \in Seq(Inside) /\ g.out = e.out
             /\ Len(g.pending) = l + 1 /\ l \in Nat /\ e.out \in Nat
             /\ \A i \in 1 .. l : g.pending[i] = e.pending[i]
             /\ g.pending[l + 1].frame = f
             /\ \A i \in 1 .. l + 1 : g.pending[i].frame \in Nat
             /\ \A i, j \in 1 .. l + 1 : i < j => g.pending[i].frame < g.pending[j].frame
<1> DEFINE g == Feed(e, f, n)
           q == e.pending
           a == g.pending
           l == Len(q)
           x == Entry(f, n)
<1>1. /\ q \in Seq(Inside) /\ l \in Nat /\ e.out \in Nat /\ e \in EncoderState
      /\ x \in Inside /\ x.frame = f
      /\ \A i \in 1 .. l : q[i].frame < f
      /\ \A i, j \in 1 .. l : i < j => q[i].frame < q[j].frame
  BY EncoderType, LenProperties DEF Waiting, Inside, Entry
<1>2. /\ g \in EncoderState /\ a \in Seq(Inside) /\ a = Append(q, x) /\ g.out = e.out
  <2>1. g = [e EXCEPT !.pending = Append(q, x)]
    BY DEF Feed, Entry
  <2>2. Append(q, x) \in Seq(Inside)
    BY <1>1, AppendProperties
  <2> HIDE DEF g, q, x
  <2> QED
    BY <1>1, <2>1, <2>2, EncoderType
<1> HIDE DEF g, q, a, l, x
<1>3. Len(a) = l + 1 /\ a[l + 1] = x /\ \A i \in 1 .. l : a[i] = q[i]
  BY <1>1, <1>2, AppendProperties DEF l
<1>4. \A i \in 1 .. l + 1 : i \in 1 .. l \/ i = l + 1
  BY <1>1
<1>5. \A i \in 1 .. l + 1 : a[i].frame \in Nat
  <2>1. \A i \in 1 .. l + 1 : a[i] \in Inside
    BY <1>2, <1>3, ElementOfSeq
  <2> QED
    BY <2>1 DEF Inside
<1>6. ASSUME NEW i \in 1 .. l + 1, NEW j \in 1 .. l + 1, i < j PROVE a[i].frame < a[j].frame
  <2>1. i \in 1 .. l
    BY <1>1, <1>6
  <2> QED
    BY <1>1, <1>3, <1>4, <1>6, <2>1
<1> QED
  BY <1>1, <1>2, <1>3, <1>5, <1>6 DEF g, q, a, l, x

\* While the encoder fills it returns nothing.
LEMMA FillingSounds ==
  ASSUME NEW e, NEW p, NEW m, NEW lost, Sounding(e, p, m, lost), ~HasData(p),
         NEW f \in Nat, NEW n \in Nat, \A x \in SoundFrames(e, p, m) : x < f,
         ~(Len(Feed(e, f, n).pending) > AudioDelay)
  PROVE  LET g == Feed(e, f, n) IN
         /\ Sounding(g, p, m, lost) /\ g.out = 0
         /\ \A x \in SoundFrames(g, p, m) : x \in SoundFrames(e, p, m) \/ x = f
<1> DEFINE g == Feed(e, f, n)
           l == Len(e.pending)
<1>1. /\ Waiting(e) /\ Returned(e, p) /\ m \in MuxerState /\ AudioDelay \in Nat
      /\ Passed(e, p) = e.out /\ Behind(e, p) = {e.pending[i].frame : i \in 1 .. l}
      /\ \A i \in 1 .. l : e.pending[i].frame < f
  <2>1. AudioDelay \in Nat
    BY RecorderAssumption DEF RecorderAssumption
  <2>2. \A i \in 1 .. l : e.pending[i].frame \in SoundFrames(e, p, m)
    BY DEF SoundFrames, Behind
  <2> QED
    BY <2>1, <2>2 DEF Sounding, Passed, Behind
<1>2. /\ g \in EncoderState /\ g.out = e.out /\ Len(g.pending) = l + 1 /\ l \in Nat
      /\ e.out \in Nat
      /\ \A i \in 1 .. l : g.pending[i] = e.pending[i]
      /\ g.pending[l + 1].frame = f
      /\ \A i \in 1 .. l + 1 : g.pending[i].frame \in Nat
      /\ \A i, j \in 1 .. l + 1 : i < j => g.pending[i].frame < g.pending[j].frame
  <2>1. Waiting(e) /\ f \in Nat /\ n \in Nat /\ \A i \in 1 .. Len(e.pending) : e.pending[i].frame < f
    BY <1>1
  <2> QED
    BY ONLY <2>1, SoundFed
<1> HIDE DEF g, l
<1>3. l + 1 <= AudioDelay /\ e.out = 0
  <2>1. ~(Len(g.pending) > AudioDelay)
    BY DEF g
  <2>2. l + 1 <= AudioDelay
    BY <1>1, <1>2, <2>1
  <2>3. e.out > 0 => l = AudioDelay
    BY <1>1 DEF Waiting, l
  <2> QED
    BY <1>1, <1>2, <2>2, <2>3
<1>4. Waiting(g) /\ Returned(g, p) /\ Passed(g, p) = e.out
  BY <1>1, <1>2, <1>3 DEF Waiting, Returned, Passed
<1>5. \A i \in 1 .. l + 1 : i \in 1 .. l \/ i = l + 1
  BY <1>2
<1>6. \A x \in Behind(g, p) : x \in Behind(e, p) \/ x = f
  <2>1. Behind(g, p) = {g.pending[i].frame : i \in 1 .. l + 1}
    BY <1>2 DEF Behind
  <2> QED
    BY <1>1, <1>2, <1>5, <2>1
<1>7. HeardInv(m, e.out, Behind(g, p), lost)
  <2>1. HeardInv(m, e.out, Behind(e, p), lost)
    BY <1>1 DEF Sounding
  <2>2. ASSUME NEW i \in Sounds(m.file), NEW x \in Behind(g, p) PROVE m.file[i].frame < x
    <3>1. m.file[i].frame < f
      BY DEF SoundFrames
    <3> QED
      BY <1>6, <2>1, <3>1 DEF HeardInv
  <2> QED
    BY <2>1, <2>2 DEF HeardInv
<1>8. Sounding(g, p, m, lost)
  BY <1>1, <1>4, <1>7 DEF Sounding
<1>9. \A x \in SoundFrames(g, p, m) : x \in SoundFrames(e, p, m) \/ x = f
  BY <1>6 DEF SoundFrames
<1> QED
  BY <1>2, <1>3, <1>8, <1>9 DEF g

\* A full encoder returns the oldest buffer.
LEMMA FullSounds ==
  ASSUME NEW e, NEW p, NEW m, NEW lost, Sounding(e, p, m, lost), ~HasData(p),
         NEW f \in Nat, NEW n \in Nat, \A x \in SoundFrames(e, p, m) : x < f,
         Len(Feed(e, f, n).pending) > AudioDelay
  PROVE  LET g == Feed(e, f, n)
             h == Emit(g, 1)
             q == AudioPacket(g)
         IN  /\ Sounding(h, q, m, lost) /\ HasData(q)
             /\ \A x \in SoundFrames(h, q, m) : x \in SoundFrames(e, p, m) \/ x = f
<1> DEFINE g == Feed(e, f, n)
           a == g.pending
           h == Emit(g, 1)
           b == h.pending
           l == Len(e.pending)
           q == AudioPacket(g)
<1>1. /\ Waiting(e) /\ m \in MuxerState /\ AudioDelay \in Nat
      /\ Passed(e, p) = e.out /\ Behind(e, p) = {e.pending[i].frame : i \in 1 .. l}
      /\ \A i \in 1 .. l : e.pending[i].frame < f
  <2>1. AudioDelay \in Nat
    BY RecorderAssumption DEF RecorderAssumption
  <2>2. \A i \in 1 .. l : e.pending[i].frame \in SoundFrames(e, p, m)
    BY DEF SoundFrames, Behind
  <2> QED
    BY <2>1, <2>2 DEF Sounding, Passed, Behind
<1>2. /\ g \in EncoderState /\ g.out = e.out /\ Len(a) = l + 1 /\ l \in Nat /\ a \in Seq(Inside)
      /\ e.out \in Nat
      /\ \A i \in 1 .. l : a[i] = e.pending[i]
      /\ a[l + 1].frame = f
      /\ \A i \in 1 .. l + 1 : a[i].frame \in Nat
      /\ \A i, j \in 1 .. l + 1 : i < j => a[i].frame < a[j].frame
  BY <1>1, SoundFed
<1>3. l = AudioDelay
  <2>1. Len(a) > AudioDelay /\ l <= AudioDelay
    BY <1>1 DEF Waiting
  <2> HIDE DEF a, l
  <2> QED
    BY <1>1, <1>2, <2>1
<1>4. /\ h \in EncoderState /\ h.out = e.out + 1 /\ Len(b) = l
      /\ \A k \in 1 .. l : b[k] = a[k + 1]
  <2>1. 1 \in DOMAIN g.pending /\ 1 \in 1 .. Len(a)
    <3>1. 1 \in 1 .. Len(a)
      BY <1>2
    <3> QED
      BY <1>2, <3>1, LenProperties
  <2>2. h \in EncoderState
    BY <1>2, <2>1, EmitHolds
  <2>3. b = RemoveAt(a, 1) /\ h.out = g.out + 1
    BY DEF Emit
  <2> HIDE DEF a, b, l, h, g
  <2>4. Len(b) = Len(a) - 1 /\ \A k \in 1 .. Len(a) - 1 : b[k] = IF k < 1 THEN a[k] ELSE a[k + 1]
    <3>1. \A S : a \in Seq(S) =>
            /\ Len(RemoveAt(a, 1)) = Len(a) - 1
            /\ \A k \in 1 .. Len(a) - 1 : RemoveAt(a, 1)[k] = IF k < 1 THEN a[k] ELSE a[k + 1]
      BY <2>1, RemoveAtShape
    <3> QED
      BY <1>2, <2>3, <3>1
  <2>5. Len(a) - 1 = l
    BY <1>2
  <2>6. \A k \in 1 .. l : ~(k < 1)
    BY <1>2
  <2> QED
    BY <1>2, <2>2, <2>3, <2>4, <2>5, <2>6
<1>5. q = [stream |-> AUDIO_STREAM, pts |-> Date(e.out), dts |-> Date(e.out), size |-> 1,
           frame |-> a[1].frame]
  <2>1. g.out = e.out
    BY <1>2
  <2>2. Date(e.out) = (g.out - AudioDelay) * AudioPeriod
    BY <2>1 DEF Date
  <2> QED
    BY <2>2 DEF AudioPacket
<1> HIDE DEF g, a, h, b, l, q
<1>6. \A i \in 1 .. l + 1 : i \in 1 .. l \/ i = l + 1
  BY <1>2
<1>7. \A k \in 1 .. l : k + 1 \in 1 .. l + 1 /\ 1 < k + 1
  BY <1>2
<1>8. 1 \in 1 .. l + 1 /\ a[1].frame \in Nat
  BY <1>2
<1>9. Waiting(h)
  <2>1. ASSUME NEW i \in 1 .. l, NEW j \in 1 .. l, i < j PROVE b[i].frame < b[j].frame
    <3>1. i + 1 \in 1 .. l + 1 /\ j + 1 \in 1 .. l + 1 /\ i + 1 < j + 1
      BY <1>2, <2>1
    <3>2. a[i + 1].frame < a[j + 1].frame
      BY <1>2, <3>1
    <3> QED
      BY <1>4, <3>2
  <2> QED
    BY <1>1, <1>3, <1>4, <2>1 DEF Waiting, b
<1>10. Date(e.out) \in Int
  <2>1. e.out \in Int
    BY <1>2
  <2> QED
    BY <2>1, DateOrder
<1>11. q \in Packet /\ HasData(q) /\ q.stream = AUDIO_STREAM /\ q.frame = a[1].frame
       /\ q.dts = Date(e.out) /\ q.pts = Date(e.out)
  BY <1>5, <1>8, <1>10, RecorderConstants DEF Packet, HasData
<1>12. Returned(h, q) /\ Passed(h, q) = e.out
  <2>1. h.out - 1 = e.out /\ h.out > 0
    BY <1>2, <1>4
  <2>2. \A k \in 1 .. l : a[1].frame < b[k].frame
    BY <1>2, <1>4, <1>7, <1>8
  <2>3. Len(h.pending) = l /\ \A k \in 1 .. l : h.pending[k] = b[k]
    BY <1>4 DEF b
  <2> QED
    BY <1>11, <2>1, <2>2, <2>3 DEF Returned, Passed
\* What is behind the packets before is what was, and the buffer fed.
<1>13. \A x \in Behind(h, q) : x \in Behind(e, p) \/ x = f
  <2>1. ASSUME NEW i \in 1 .. l + 1 PROVE a[i].frame \in Behind(e, p) \/ a[i].frame = f
    BY <1>1, <1>2, <1>6
  <2>2. \A k \in 1 .. l : b[k].frame \in Behind(e, p) \/ b[k].frame = f
    BY <1>4, <1>7, <2>1
  <2>3. Behind(h, q) = {b[k].frame : k \in 1 .. l} \cup {a[1].frame}
    BY <1>4, <1>11 DEF Behind, b
  <2> QED
    BY <1>8, <2>1, <2>2, <2>3
<1>14. HeardInv(m, e.out, Behind(h, q), lost)
  <2>1. HeardInv(m, e.out, Behind(e, p), lost)
    BY <1>1 DEF Sounding
  <2>2. ASSUME NEW i \in Sounds(m.file), NEW x \in Behind(h, q) PROVE m.file[i].frame < x
    <3>1. m.file[i].frame < f
      BY DEF SoundFrames
    <3> QED
      BY <1>13, <2>1, <3>1 DEF HeardInv
  <2> QED
    BY <2>1, <2>2 DEF HeardInv
<1>15. Sounding(h, q, m, lost)
  BY <1>1, <1>9, <1>12, <1>14 DEF Sounding
<1>16. \A x \in SoundFrames(h, q, m) : x \in SoundFrames(e, p, m) \/ x = f
  BY <1>13 DEF SoundFrames
<1> QED
  BY <1>11, <1>15, <1>16 DEF g, h, q

\* An empty packet is given the timestamps the first one is expected to have.
LEMMA EmptyWritten ==
  ASSUME NEW e, NEW p, NEW m, NEW lost, Sounding(e, p, m, lost), ~HasData(p), e.out = 0,
         NEW works \in BOOLEAN
  PROVE  LET r == av_write_frame(m, p, works) IN
         Sounding(e, p, r, lost) /\ SoundFrames(e, p, r) = SoundFrames(e, p, m)
<1> DEFINE q == WithTimestamps(m, p)
           r == av_write_frame(m, p, works)
<1>1. m \in MuxerState /\ p = EmptyPacket(AUDIO_STREAM) /\ m.priv_pts = 0
      /\ m.cur_dts[AUDIO_STREAM] \in {0, NoPts}
  BY DEF Sounding, Returned, Passed, ClockInv
<1>2. p \in Packet /\ p.stream = AUDIO_STREAM /\ p.size = 0 /\ p.dts = NoPts /\ p.pts = NoPts
  BY <1>1, RecorderConstants DEF EmptyPacket, Packet
<1>3. q \in Packet /\ q.stream = AUDIO_STREAM /\ q.size = 0 /\ q.dts = 0
  <2>1. q \in Packet /\ q.stream = p.stream /\ q.size = p.size
    BY <1>1, <1>2, AdvanceShape
  <2>2. q = [p EXCEPT !.dts = m.priv_pts, !.pts = m.priv_pts]
    BY <1>2 DEF WithTimestamps
  <2> HIDE DEF q
  <2>3. q.dts = 0
    BY <1>1, <1>2, <2>2 DEF Packet
  <2> QED
    BY <1>2, <2>1, <2>3
<1> HIDE DEF q
<1>4. /\ r \in MuxerState
      /\ ~Accepts(m, p) => r = m
      /\ Accepts(m, p) => r.cur_dts = [m.cur_dts EXCEPT ![p.stream] = q.dts]
      /\ Accepts(m, p) => r.priv_pts = NextPts(m, q)
      /\ r.file = m.file \/ r.file = Append(m.file, q)
      /\ ~r.error /\ Accepts(m, p) => ~m.error
  BY <1>1, <1>2, DirectShape DEF q
<1> HIDE DEF r
<1>5. \/ r.cur_dts[AUDIO_STREAM] = m.cur_dts[AUDIO_STREAM] /\ r.priv_pts = m.priv_pts
      \/ r.cur_dts[AUDIO_STREAM] \in {0, NoPts} /\ r.priv_pts = 0
  <2>1. CASE Accepts(m, p)
    <3>1. m.cur_dts \in [Streams -> Int] /\ AUDIO_STREAM \in Streams
      BY <1>1 DEF MuxerState, Streams
    <3>2. r.cur_dts[AUDIO_STREAM] = 0
      BY <1>2, <1>3, <1>4, <2>1, <3>1
    <3>3. r.priv_pts = 0
      BY <1>3, <1>4, <2>1 DEF NextPts
    <3> QED
      BY <3>2, <3>3
  <2>2. CASE ~Accepts(m, p)
    BY <1>4, <2>2
  <2> QED
    BY <2>1, <2>2
<1>6. Sounds(r.file) = Sounds(m.file) /\ \A i \in Sounds(m.file) : r.file[i] = m.file[i]
  <2>1. CASE r.file = m.file
    BY <2>1
  <2>2. CASE r.file = Append(m.file, q)
    <3>1. m.file \in Seq(Packet) /\ ~HasData(q)
      BY <1>1, <1>3 DEF MuxerState, HasData
    <3> QED
      BY <1>3, <2>2, <3>1, SoundAdded
  <2> QED
    BY <1>4, <2>1, <2>2
<1>7. ~r.error => ~m.error
  BY <1>4
<1> QED
  BY <1>4, <1>5, <1>6, <1>7, SilentKeeps DEF r

\* Afterwards the packet is no longer in hand.
LEMMA HandEmptied ==
  ASSUME NEW e, NEW p, NEW m, NEW lost, Sounding(e, p, m, lost), HasData(p)
  PROVE  LET z == EmptyPacket(AUDIO_STREAM) IN
         /\ Returned(e, z) /\ ~HasData(z) /\ Passed(e, z) = e.out /\ Behind(e, z) \subseteq Behind(e, p)
         /\ Passed(e, p) = e.out - 1 /\ e.out \in Nat /\ e.out > 0
         /\ Date(e.out - 1) \in Int /\ Date(e.out) \in Int /\ Date(e.out - 1) < Date(e.out)
         /\ NoPts < Date(e.out - 1)
<1> DEFINE z == EmptyPacket(AUDIO_STREAM)
<1>1. z \in Packet /\ ~HasData(z)
  BY RecorderConstants DEF EmptyPacket, Packet, HasData
<1>2. e.out \in Nat /\ e.out > 0
  BY EncoderType DEF Sounding, Waiting, Returned
<1>3. e.out - 1 \in Int /\ e.out \in Int /\ e.out - 1 < e.out /\ e.out - 1 >= 0
  BY <1>2
<1>4. Date(e.out - 1) \in Int /\ Date(e.out) \in Int /\ Date(e.out - 1) < Date(e.out)
      /\ NoPts < Date(e.out - 1)
  BY <1>3, DateOrder
<1> QED
  BY <1>1, <1>2, <1>4 DEF Returned, Passed, Behind

\* The muxer does not refuse a packet with sound.
LEMMA SoundWritten ==
  ASSUME NEW e, NEW p, NEW m, Sounding(e, p, m, FALSE), HasData(p), NEW works \in BOOLEAN
  PROVE  LET z == EmptyPacket(AUDIO_STREAM)
             r == av_write_frame(m, p, works)
         IN  /\ Sounding(e, z, r, FALSE)
             /\ \A x \in SoundFrames(e, z, r) : x \in SoundFrames(e, p, m)
<1> DEFINE z == EmptyPacket(AUDIO_STREAM)
           r == av_write_frame(m, p, works)
           k == e.out - 1
<1>1. /\ Returned(e, z) /\ ~HasData(z) /\ Passed(e, z) = e.out /\ Behind(e, z) \subseteq Behind(e, p)
      /\ Passed(e, p) = k /\ e.out \in Nat /\ e.out > 0
      /\ Date(k) \in Int /\ Date(e.out) \in Int /\ Date(k) < Date(e.out) /\ NoPts < Date(k)
  BY HandEmptied
<1>2. /\ Waiting(e) /\ m \in MuxerState /\ ClockInv(m, k) /\ HeardInv(m, k, Behind(e, p), FALSE)
      /\ m.file \in Seq(Packet)
  BY <1>1 DEF Sounding, MuxerState
<1>3. /\ p \in Packet /\ p.stream = AUDIO_STREAM /\ p.dts = Date(k) /\ p.pts = Date(k)
      /\ p.frame \in Nat /\ p.frame \in Behind(e, p)
      /\ \A i \in 1 .. Len(e.pending) : p.frame < e.pending[i].frame
  BY DEF Sounding, Returned, Behind, Packet
<1>4. WithTimestamps(m, p) = p
  <2>1. p.dts # NoPts
    BY <1>1, <1>3, RecorderConstants
  <2> QED
    BY <1>2, <1>3, <2>1, AdvanceShape
<1>5. Accepts(m, p)
  <2>1. m.cur_dts[AUDIO_STREAM] \in {0, NoPts} \/ m.cur_dts[AUDIO_STREAM] < p.dts
    BY <1>2, <1>3 DEF ClockInv
  <2>2. p.dts <= p.pts
    BY <1>1, <1>3
  <2> QED
    BY <1>3, <1>4, <2>1, <2>2 DEF Accepts, DtsAccepted
<1>6. /\ r \in MuxerState /\ r.cur_dts[AUDIO_STREAM] = Date(k)
      /\ r.file = m.file \/ r.file = Append(m.file, p)
      /\ ~r.error => ~m.error /\ r.file = Append(m.file, p)
  <2> DEFINE q == WithTimestamps(m, p)
  <2>0. /\ r \in MuxerState
        /\ Accepts(m, p) => r.cur_dts = [m.cur_dts EXCEPT ![p.stream] = q.dts]
        /\ r.file = m.file \/ r.file = Append(m.file, q)
        /\ ~r.error /\ Accepts(m, p) => ~m.error /\ r.file = Append(m.file, q)
    BY <1>2, <1>3, DirectShape
  <2> HIDE DEF r, q
  <2>1. /\ r \in MuxerState
        /\ Accepts(m, p) => r.cur_dts = [m.cur_dts EXCEPT ![p.stream] = p.dts]
        /\ r.file = m.file \/ r.file = Append(m.file, p)
        /\ ~r.error /\ Accepts(m, p) => ~m.error /\ r.file = Append(m.file, p)
    BY <1>4, <2>0 DEF q
  <2>2. m.cur_dts \in [Streams -> Int] /\ AUDIO_STREAM \in Streams
    BY <1>2 DEF MuxerState, Streams
  <2> QED
    BY <1>3, <1>5, <2>1, <2>2
<1> HIDE DEF r, z, k
<1>7. ClockInv(r, e.out)
  BY <1>1, <1>6 DEF ClockInv
<1> DEFINE L == Len(m.file) + 1
<1>8. /\ Sounds(m.file) \subseteq 1 .. Len(m.file) /\ Len(m.file) \in Nat
      /\ Append(m.file, p)[L] = p
      /\ \A i \in Sounds(m.file) : Append(m.file, p)[i] = m.file[i]
      /\ Sounds(Append(m.file, p)) = Sounds(m.file) \cup {L}
      /\ Cardinality(Sounds(Append(m.file, p))) = Cardinality(Sounds(m.file)) + 1
  BY <1>2, <1>3, SoundAdded, LenProperties
<1>9. L \in Nat /\ \A i \in Sounds(m.file) : i < L /\ i \in Nat
  BY <1>8
<1> HIDE DEF L
<1>10. \A i \in Sounds(r.file) : \/ i \in Sounds(m.file) /\ r.file[i] = m.file[i]
                                 \/ i = L /\ r.file[i] = p
  <2>1. CASE r.file = m.file
    BY <2>1
  <2>2. CASE r.file = Append(m.file, p)
    BY <1>8, <2>2
  <2> QED
    BY <1>6, <2>1, <2>2
\* The sound the file had is older.
<1>11. ASSUME NEW i \in Sounds(m.file)
       PROVE  /\ m.file[i].dts < Date(k) /\ m.file[i].frame < p.frame
              /\ m.file[i].dts < Date(e.out)
  <2>1. m.file[i].dts \in Int
    BY <1>2, SoundPackets
  <2>2. m.file[i].dts < Date(k) /\ m.file[i].frame < p.frame
    BY <1>2, <1>3 DEF HeardInv
  <2> QED
    BY <1>1, <2>1, <2>2
<1>12. \A x \in Behind(e, z) : p.frame < x
  BY <1>1, <1>3 DEF Behind
<1>13. HeardInv(r, e.out, Behind(e, z), FALSE)
  <2>1. ASSUME NEW i \in Sounds(r.file)
        PROVE  /\ r.file[i].dts < Date(e.out)
               /\ \A x \in Behind(e, z) : r.file[i].frame < x
    <3>1. CASE i \in Sounds(m.file) /\ r.file[i] = m.file[i]
      BY <1>1, <1>2, <1>11, <3>1 DEF HeardInv
    <3>2. CASE r.file[i] = p
      BY <1>1, <1>3, <1>12, <3>2
    <3> QED
      BY <1>10, <3>1, <3>2
  <2>2. ASSUME NEW i \in Sounds(r.file), NEW j \in Sounds(r.file), i < j
        PROVE  r.file[i].frame < r.file[j].frame /\ r.file[i].dts < r.file[j].dts
    <3>0. L \in Nat /\ j \in Nat /\ j <= L
      BY <1>9, <1>10
    <3>1. i \in Sounds(m.file) /\ r.file[i] = m.file[i]
      <4>1. i # L
        BY <2>2, <3>0
      <4> QED
        BY <1>10, <4>1
    <3>2. CASE j \in Sounds(m.file) /\ r.file[j] = m.file[j]
      BY <1>2, <2>2, <3>1, <3>2 DEF HeardInv
    <3>3. CASE r.file[j] = p
      BY <1>3, <1>11, <3>1, <3>3
    <3> QED
      BY <1>10, <3>2, <3>3
  <2>3. ~r.error => Cardinality(Sounds(r.file)) = e.out
    <3>1. ~m.error => Cardinality(Sounds(m.file)) = k
      BY <1>2 DEF HeardInv
    <3>2. k + 1 = e.out
      BY <1>1 DEF k
    <3> QED
      BY <1>6, <1>8, <3>1, <3>2
  <2> QED
    BY <2>1, <2>2, <2>3 DEF HeardInv
<1>14. \A x \in SoundFrames(e, z, r) : x \in SoundFrames(e, p, m)
  <2>1. ASSUME NEW i \in Sounds(r.file) PROVE r.file[i].frame \in SoundFrames(e, p, m)
    BY <1>3, <1>10 DEF SoundFrames
  <2> QED
    BY <1>1, <2>1 DEF SoundFrames
<1> QED
  BY <1>1, <1>2, <1>6, <1>7, <1>13, <1>14 DEF Sounding, r, z

\* A packet that is thrown away is lost.
LEMMA SoundLost ==
  ASSUME NEW e, NEW p, NEW m, Sounding(e, p, m, FALSE)
  PROVE  LET z == EmptyPacket(AUDIO_STREAM) IN
         /\ Sounding(e, z, m, TRUE)
         /\ \A x \in SoundFrames(e, z, m) : x \in SoundFrames(e, p, m)
<1> DEFINE z == EmptyPacket(AUDIO_STREAM)
           k == e.out - 1
<1>1. CASE ~HasData(p)
  <2>1. p = z
    BY <1>1 DEF Sounding, Returned
  <2>2. Sounding(e, p, m, TRUE)
    BY MayBeLost
  <2> HIDE DEF z
  <2> QED
    BY <2>1, <2>2 DEF z
<1>2. CASE HasData(p)
  <2>1. /\ Returned(e, z) /\ Passed(e, z) = e.out /\ Behind(e, z) \subseteq Behind(e, p)
        /\ Passed(e, p) = k /\ e.out \in Nat /\ e.out > 0
        /\ Date(k) \in Int /\ Date(e.out) \in Int /\ Date(k) < Date(e.out)
    BY <1>2, HandEmptied
  <2>2. /\ Waiting(e) /\ m \in MuxerState /\ ClockInv(m, k) /\ HeardInv(m, k, Behind(e, p), FALSE)
        /\ m.file \in Seq(Packet)
    BY <2>1 DEF Sounding, MuxerState
  <2> HIDE DEF k
  <2>3. ClockInv(m, e.out)
    <3>1. m.cur_dts[AUDIO_STREAM] \in Int
      BY <2>2, RecorderConstants DEF MuxerState
    <3>2. m.cur_dts[AUDIO_STREAM] < Date(k) => m.cur_dts[AUDIO_STREAM] < Date(e.out)
      BY <2>1, <3>1
    <3> QED
      BY <2>1, <2>2, <3>2 DEF ClockInv
  <2>4. HeardInv(m, e.out, Behind(e, z), TRUE)
    <3>1. ASSUME NEW i \in Sounds(m.file) PROVE m.file[i].dts < Date(e.out)
      <4>1. m.file[i].dts \in Int /\ m.file[i].dts < Date(k)
        BY <2>2, SoundPackets DEF HeardInv
      <4> QED
        BY <2>1, <4>1
    <3> QED
      BY <2>1, <2>2, <3>1 DEF HeardInv, k
  <2>5. \A x \in SoundFrames(e, z, m) : x \in SoundFrames(e, p, m)
    BY <2>1 DEF SoundFrames
  <2> QED
    BY <2>1, <2>2, <2>3, <2>4, <2>5 DEF Sounding
<1> QED
  BY <1>1, <1>2

\* Video packets leave the buffer.
LEMMA MovesSilently ==
  ASSUME NEW e, NEW h, NEW m, NEW lost, Sounding(e, h, m, lost), NEW r \in MuxerState,
         NEW b \in Seq(Packet), \A p \in ToSet(b) : p.stream = VIDEO_STREAM,
         NEW k \in 0 .. Len(b), \E t, g \in 0 .. k : Moves(m, r, b, k, t, g),
         r.cur_dts[AUDIO_STREAM] = m.cur_dts[AUDIO_STREAM], r.priv_pts = m.priv_pts
  PROVE  Sounding(e, h, r, lost) /\ SoundFrames(e, h, r) = SoundFrames(e, h, m)
<1>1. PICK t \in 0 .. k, g \in 0 .. k : Moves(m, r, b, k, t, g)
  OBVIOUS
<1>2. m \in MuxerState /\ m.file \in Seq(Packet) /\ r.file \in Seq(Packet)
  BY DEF Sounding, MuxerState
<1> DEFINE f == m.file
           l == Len(f)
<1>3. /\ Len(r.file) = l + t /\ \A i \in 1 .. l : r.file[i] = f[i]
      /\ \A i \in l + 1 .. l + t : r.file[i] = b[i - l]
  BY <1>1, <1>2, MovesShape
<1>4. l \in Nat /\ Len(b) \in Nat /\ t \in Nat /\ t <= Len(b)
  BY <1>2, LenProperties
<1>5. \A i \in 1 .. Len(b) : b[i].stream = VIDEO_STREAM
  BY ToSetOfSeq
<1>6. f \in Seq(Packet)
  BY <1>2
<1> HIDE DEF f, l
<1>7. ASSUME NEW i \in l + 1 .. Len(r.file) PROVE r.file[i].stream # AUDIO_STREAM
  <2>1. i - l \in 1 .. Len(b) /\ i \in l + 1 .. l + t
    BY <1>3, <1>4
  <2> QED
    BY <1>3, <1>5, <2>1, RecorderConstants
<1>8. Sounds(r.file) = Sounds(f) /\ \A i \in Sounds(f) : r.file[i] = f[i]
  <2>1. l <= Len(r.file)
    BY <1>3, <1>4
  <2> QED
    BY <1>2, <1>3, <1>6, <1>7, <2>1, SilentTail DEF l
<1>9. ~r.error => ~m.error
  BY <1>1 DEF Moves
<1> QED
  BY <1>8, <1>9, SilentKeeps DEF f

\* A video packet is written.
LEMMA VideoUnheard ==
  ASSUME NEW e, NEW h, NEW m, NEW lost, Sounding(e, h, m, lost),
         \A x \in ToSet(m.packet_buffer) : x.stream = VIDEO_STREAM,
         NEW p \in Packet, p.stream = VIDEO_STREAM, NEW good \in Nat
  PROVE  LET r == av_interleaved_write_frame(m, p, good) IN
         Sounding(e, h, r, lost) /\ SoundFrames(e, h, r) = SoundFrames(e, h, m)
<1> DEFINE r == av_interleaved_write_frame(m, p, good)
           q == WithTimestamps(m, p)
           c == m.packet_buffer
           b == ff_interleave_add_packet(c, q)
           k == ReadyCount(b)
<1>1. m \in MuxerState /\ c \in Seq(Packet) /\ q = p /\ AUDIO_STREAM # VIDEO_STREAM
  <2>1. m \in MuxerState
    BY DEF Sounding
  <2>2. q = p
    BY <2>1, AdvanceShape
  <2> QED
    BY <2>1, <2>2, RecorderConstants DEF MuxerState
<1>2. /\ r \in MuxerState
      /\ ~Accepts(m, p) => r = m
      /\ Accepts(m, p) => r.cur_dts = [m.cur_dts EXCEPT ![p.stream] = q.dts]
      /\ Accepts(m, p) => r.priv_pts = NextPts(m, q)
      /\ ~Accepts(m, p) \/ q.dts = NoPts =>
           r.file = m.file /\ r.packet_buffer = m.packet_buffer /\ r.error = m.error
      /\ Accepts(m, p) /\ q.dts # NoPts =>
           /\ b \in Seq(Packet) /\ k \in 0 .. Len(b)
           /\ \E t, g \in 0 .. k : Moves(m, r, b, k, t, g)
  BY <1>1, InterleavedShape
<1> HIDE DEF r, q, k
<1>3. r.cur_dts[AUDIO_STREAM] = m.cur_dts[AUDIO_STREAM] /\ r.priv_pts = m.priv_pts
  <2>1. m.cur_dts \in [Streams -> Int] /\ VIDEO_STREAM \in Streams /\ AUDIO_STREAM \in Streams
    BY <1>1 DEF MuxerState, Streams
  <2>2. NextPts(m, q) = m.priv_pts
    BY <1>1 DEF NextPts
  <2> QED
    BY <1>1, <1>2, <2>1, <2>2
<1>4. CASE ~Accepts(m, p) \/ q.dts = NoPts
  BY <1>2, <1>3, <1>4, SilentKeeps DEF r
<1>5. CASE Accepts(m, p) /\ q.dts # NoPts
  <2>1. \A x \in ToSet(b) : x.stream = VIDEO_STREAM
    <3>1. b = InsertAt(c, Place(c, p), p) /\ Place(c, p) \in 1 .. Len(c) + 1
      BY <1>1, PlaceShape DEF ff_interleave_add_packet
    <3>2. ToSet(b) = ToSet(c) \cup {p}
      BY <1>1, <3>1, InsertAtSet
    <3> HIDE DEF b
    <3> QED
      BY <3>2
  <2> HIDE DEF b
  <2> QED
    BY <1>2, <1>3, <1>5, <2>1, MovesSilently DEF r
<1> QED
  BY <1>4, <1>5

\* The trailer is written.
LEMMA TrailerUnheard ==
  ASSUME NEW e, NEW h, NEW m, NEW lost, Sounding(e, h, m, lost),
         \A x \in ToSet(m.packet_buffer) : x.stream = VIDEO_STREAM, NEW good \in Nat
  PROVE  LET r == av_write_trailer(m, good) IN
         Sounding(e, h, r, lost) /\ SoundFrames(e, h, r) = SoundFrames(e, h, m)
<1> DEFINE r == av_write_trailer(m, good)
           b == m.packet_buffer
<1>1. m \in MuxerState /\ b \in Seq(Packet)
  BY DEF Sounding, MuxerState
<1>2. /\ r \in MuxerState /\ r.cur_dts = m.cur_dts /\ r.priv_pts = m.priv_pts
      /\ \E t, g \in 0 .. Len(b) : Moves(m, r, b, Len(b), t, g)
  BY <1>1, TrailerShape
<1>3. Len(b) \in 0 .. Len(b)
  BY <1>1, LenProperties
<1> HIDE DEF r
<1> QED
  BY <1>1, <1>2, <1>3, MovesSilently DEF r
==============================================================================
