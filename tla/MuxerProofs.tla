---------------------------- MODULE MuxerProofs -----------------------------
(***************************************************************************)
(* What the muxing calls do to a context, for every context, packet and    *)
(* failure of the device: lemmas for the proofs about the modules that     *)
(* call them.                                                              *)
(***************************************************************************)
EXTENDS Muxer, SequenceTheorems, WellFoundedInduction, TLAPS

-----------------------------------------------------------------------------
(* Timestamps.                                                             *)

\* Multiplication by a duration keeps the order.
LEMMA TimesOrder ==
  ASSUME NEW a \in Int, NEW b \in Int, NEW p \in Nat \ {0}
  PROVE  /\ a * p \in Int /\ b * p \in Int /\ a * p - b * p = (a - b) * p
         /\ a < b => a * p < b * p
         /\ a <= b => a * p <= b * p
<1>1. a * p \in Int /\ b * p \in Int
  OBVIOUS
<1>2. a * p - b * p = (a - b) * p
  OBVIOUS
<1>3. ASSUME a < b PROVE a * p < b * p
  <2>1. b - a \in Nat \ {0}
    BY <1>3
  <2>2. (b - a) * p > 0
    BY <2>1
  <2>3. b * p - a * p = (b - a) * p
    OBVIOUS
  <2> QED
    BY <1>1, <2>2, <2>3
<1> QED
  BY <1>1, <1>2, <1>3

-----------------------------------------------------------------------------
(* Sequences.                                                              *)

\* A set of naturals has a least element.
LEMMA LeastNat ==
  ASSUME NEW S, S \subseteq Nat, S # {}
  PROVE  \E n \in S : \A k \in S : n <= k
<1>1. PICK n \in S : \A k \in S : ~(<<k, n>> \in OpToRel(<, Nat))
  BY NatLessThanWellFounded, WFMin
<1>2. ASSUME NEW k \in S PROVE n <= k
  <2>1. ~(k < n)
    BY <1>1 DEF OpToRel
  <2> QED
    BY <2>1
<1> QED
  BY <1>2

\* What InsertAt puts where.
LEMMA InsertAtShape ==
  ASSUME NEW S, NEW q \in Seq(S), NEW x \in S, NEW i \in 1 .. Len(q) + 1
  PROVE  /\ InsertAt(q, i, x) \in Seq(S)
         /\ Len(InsertAt(q, i, x)) = Len(q) + 1
         /\ \A k \in 1 .. Len(q) + 1 :
              InsertAt(q, i, x)[k] = IF k < i THEN q[k] ELSE IF k = i THEN x ELSE q[k - 1]
<1> DEFINE a == SubSeq(q, 1, i - 1)
           b == SubSeq(q, i, Len(q))
<1>0. Len(q) \in Nat /\ i \in Nat /\ \A k \in 1 .. Len(q) : q[k] \in S
  BY LenProperties, ElementOfSeq
<1>1. /\ a \in Seq(S) /\ Len(a) = i - 1
      /\ \A k \in 1 .. i - 1 : a[k] = q[k]
  BY <1>0, SubSeqProperties
<1>2. /\ b \in Seq(S) /\ Len(b) = Len(q) - i + 1
      /\ \A k \in 1 .. Len(q) - i + 1 : b[k] = q[i + k - 1]
  BY <1>0, SubSeqProperties
<1>3. <<x>> \in Seq(S) /\ Len(<<x>>) = 1 /\ <<x>>[1] = x
  OBVIOUS
<1>4. InsertAt(q, i, x) = (a \o <<x>>) \o b
  BY DEF InsertAt
<1> HIDE DEF a, b
<1>5. /\ a \o <<x>> \in Seq(S) /\ Len(a \o <<x>>) = i
      /\ \A k \in 1 .. i : (a \o <<x>>)[k] = IF k < i THEN q[k] ELSE x
  <2> DEFINE y == <<x>>
  <2>1. y \in Seq(S) /\ Len(y) = 1 /\ y[1] = x
    BY <1>3
  <2> HIDE DEF y
  <2>2. /\ a \o y \in Seq(S) /\ Len(a \o y) = Len(a) + Len(y)
        /\ \A k \in 1 .. Len(a) + Len(y) :
             (a \o y)[k] = IF k <= Len(a) THEN a[k] ELSE y[k - Len(a)]
    BY <1>1, <2>1, ConcatProperties
  <2>3. a \o y \in Seq(S) /\ Len(a \o y) = i
    BY <1>0, <1>1, <2>1, <2>2
  <2>4. ASSUME NEW k \in 1 .. i PROVE (a \o y)[k] = IF k < i THEN q[k] ELSE x
    <3>1. CASE k < i
      BY <3>1, <1>0, <1>1, <2>1, <2>2
    <3>2. CASE k = i
      BY <3>2, <1>0, <1>1, <2>1, <2>2
    <3>3. k < i \/ k = i
      BY <1>0
    <3> QED
      BY <3>1, <3>2, <3>3
  <2> QED
    BY <2>3, <2>4 DEF y
<1> DEFINE ax == a \o <<x>>
<1>6. /\ ax \in Seq(S) /\ Len(ax) = i
      /\ \A k \in 1 .. i : ax[k] = IF k < i THEN q[k] ELSE x
  BY <1>5
<1> HIDE DEF ax
<1>7. /\ ax \o b \in Seq(S) /\ Len(ax \o b) = Len(ax) + Len(b)
      /\ \A k \in 1 .. Len(ax) + Len(b) :
           (ax \o b)[k] = IF k <= Len(ax) THEN ax[k] ELSE b[k - Len(ax)]
  BY <1>2, <1>6, ConcatProperties
<1>8. Len(ax) + Len(b) = Len(q) + 1
  BY <1>0, <1>2, <1>6
<1>9. ASSUME NEW k \in 1 .. Len(q) + 1
      PROVE  (ax \o b)[k] = IF k < i THEN q[k] ELSE IF k = i THEN x ELSE q[k - 1]
  <2>1. CASE k <= i
    BY <2>1, <1>0, <1>6, <1>7, <1>8
  <2>2. CASE k > i
    <3>1. k - i \in 1 .. Len(q) - i + 1 /\ i + (k - i) - 1 = k - 1
      BY <2>2, <1>0
    <3>2. (ax \o b)[k] = b[k - i]
      BY <2>2, <1>0, <1>6, <1>7, <1>8
    <3>3. b[k - i] = q[i + (k - i) - 1]
      BY <3>1, <1>2
    <3> QED
      BY <2>2, <3>1, <3>2, <3>3, <1>0
  <2>3. k <= i \/ k > i
    BY <1>0
  <2> QED
    BY <2>1, <2>2, <2>3
<1> QED
  BY <1>4, <1>7, <1>8, <1>9 DEF ax

\* A prefix and a suffix.
LEMMA PrefixShape ==
  ASSUME NEW S, NEW q \in Seq(S), NEW n \in 0 .. Len(q)
  PROVE  /\ SubSeq(q, 1, n) \in Seq(S) /\ Len(SubSeq(q, 1, n)) = n
         /\ \A k \in 1 .. n : SubSeq(q, 1, n)[k] = q[k]
<1>1. Len(q) \in Nat /\ \A k \in 1 .. n : q[k] \in S
  BY LenProperties, ElementOfSeq
<1> QED
  BY <1>1, SubSeqProperties

LEMMA RestShape ==
  ASSUME NEW S, NEW q \in Seq(S), NEW n \in 0 .. Len(q)
  PROVE  /\ Rest(q, n) \in Seq(S) /\ Len(Rest(q, n)) = Len(q) - n
         /\ \A k \in 1 .. Len(q) - n : Rest(q, n)[k] = q[n + k]
<1>1. Len(q) \in Nat /\ \A k \in n + 1 .. Len(q) : q[k] \in S
  BY LenProperties, ElementOfSeq
<1> QED
  BY <1>1, SubSeqProperties DEF Rest

-----------------------------------------------------------------------------
(* The interleaving buffer.                                                *)

\* The order of packets is that of their dts, then of their streams.
LEMMA BeforeOrder ==
  ASSUME NEW p \in Packet, NEW q \in Packet, NEW r \in Packet
  PROVE  /\ Before(p, q) => ~Before(q, p)
         /\ Before(p, q) /\ ~Before(r, q) => Before(p, r)
         /\ Before(p, q) /\ ~Before(p, r) => Before(r, q)
  BY DEF Before, Packet, Streams, VIDEO_STREAM, AUDIO_STREAM

\* A packet's place is in the buffer or behind it; no packet of its own stream
\* comes at or after it.
LEMMA PlaceShape ==
  ASSUME NEW b \in Seq(Packet), NEW p \in Packet
  PROVE  /\ Place(b, p) \in 1 .. Len(b) + 1
         /\ \A j \in Place(b, p) .. Len(b) : b[j].stream # p.stream
         /\ Place(b, p) <= Len(b) => Before(p, b[Place(b, p)])
         /\ \A i \in 1 .. Len(b) :
              /\ Before(p, b[i])
              /\ \A j \in i .. Len(b) : b[j].stream # p.stream
              /\ Before(p, b[Len(b)])
              => Place(b, p) <= i
<1> DEFINE later == {i \in DOMAIN b : /\ Before(p, b[i])
                                      /\ \A j \in i .. Len(b) : b[j].stream # p.stream}
<1>1. Len(b) \in Nat /\ DOMAIN b = 1 .. Len(b)
  BY LenProperties
<1>2. CASE b # << >> /\ Before(p, Last(b)) /\ later # {}
  <2>1. later \subseteq Nat
    BY <1>1
  <2>2. \E i \in later : \A j \in later : i <= j
    BY <1>2, <2>1, LeastNat
  <2>3. Place(b, p) = CHOOSE i \in later : \A j \in later : i <= j
    BY <1>2 DEF Place
  <2> HIDE DEF later
  <2>4. Place(b, p) \in later /\ \A j \in later : Place(b, p) <= j
    BY <2>2, <2>3
  <2> QED
    BY <1>1, <2>4 DEF later
<1>3. CASE ~(b # << >> /\ Before(p, Last(b)) /\ later # {})
  <2>1. Place(b, p) = Len(b) + 1
    BY <1>3 DEF Place
  <2>2. ASSUME NEW i \in 1 .. Len(b), i \in later, Before(p, b[Len(b)]) PROVE FALSE
    <3>1. b # << >>
      BY <1>1, <2>2, EmptySeq
    <3>2. Last(b) = b[Len(b)]
      BY DEF Last
    <3> QED
      BY <1>3, <2>2, <3>1, <3>2
  <2> QED
    BY <1>1, <2>1, <2>2
<1> QED
  BY <1>2, <1>3

\* ff_interleave_add_packet keeps a sorted buffer sorted, provided the packet does
\* not belong before one of its own stream.
LEMMA PlacedInOrder ==
  ASSUME NEW b \in Seq(Packet), NEW p \in Packet,
         \A i, j \in 1 .. Len(b) : i < j => ~Before(b[j], b[i]),
         \A i \in 1 .. Len(b) : b[i].stream = p.stream => ~Before(p, b[i])
  PROVE  /\ \A i \in 1 .. Len(b) : i < Place(b, p) => ~Before(p, b[i])
         /\ \A i \in 1 .. Len(b) : Place(b, p) <= i => ~Before(b[i], p)
<1>1. Len(b) \in Nat /\ \A i \in 1 .. Len(b) : b[i] \in Packet
  BY LenProperties, ElementOfSeq
<1>2. Place(b, p) \in 1 .. Len(b) + 1
  BY PlaceShape
<1>3. ASSUME NEW i \in 1 .. Len(b), Place(b, p) <= i PROVE ~Before(b[i], p)
  <2>1. Place(b, p) \in 1 .. Len(b) /\ Before(p, b[Place(b, p)])
    BY <1>1, <1>2, <1>3, PlaceShape
  <2>2. Place(b, p) = i \/ ~Before(b[i], b[Place(b, p)])
    BY <1>1, <1>2, <1>3, <2>1
  <2>3. b[i] \in Packet /\ b[Place(b, p)] \in Packet
    BY <1>1, <2>1
  <2> QED
    BY <2>1, <2>2, <2>3, BeforeOrder
<1>4. ASSUME NEW i \in 1 .. Len(b), i < Place(b, p), Before(p, b[i]) PROVE FALSE
  \* Everything behind i would be after p, hence of the other stream, and the
  \* search would have stopped at i.
  <2>1. ASSUME NEW j \in 1 .. Len(b), i <= j PROVE Before(p, b[j])
    <3>1. i = j \/ ~Before(b[j], b[i])
      BY <1>1, <2>1
    <3>2. b[i] \in Packet /\ b[j] \in Packet
      BY <1>1
    <3> QED
      BY <1>4, <3>1, <3>2, BeforeOrder
  <2>2. \A j \in i .. Len(b) : b[j].stream # p.stream
    BY <1>1, <2>1
  <2>3. Before(p, b[Len(b)])
    BY <1>1, <2>1
  <2>4. Place(b, p) <= i
    BY <1>4, <2>2, <2>3, PlaceShape
  <2> QED
    BY <1>1, <1>2, <1>4, <2>4
<1> QED
  BY <1>3, <1>4

\* The loop that lets packets out stops, at the first buffer that is not ready.
LEMMA ReadyCountShape ==
  ASSUME NEW b \in Seq(Packet)
  PROVE  /\ ReadyCount(b) \in 0 .. Len(b)
         /\ ~Ready(Rest(b, ReadyCount(b)))
         /\ \A k \in 0 .. ReadyCount(b) - 1 : Ready(Rest(b, k))
<1> DEFINE stop == {n \in 0 .. Len(b) : ~Ready(Rest(b, n))}
<1>1. Len(b) \in Nat
  BY LenProperties
<1>2. Len(b) \in stop
  <2>1. Rest(b, Len(b)) = << >>
    BY <1>1, SubSeqEmpty DEF Rest
  <2> QED
    BY <1>1, <2>1 DEF Ready
<1>3. stop \subseteq Nat /\ stop # {}
  BY <1>1, <1>2
<1> HIDE DEF stop
<1>4. PICK n \in stop : \A k \in stop : n <= k
  BY <1>3, LeastNat
<1>5. n \in 0 .. Len(b) /\ ~Ready(Rest(b, n)) /\ \A k \in 0 .. n - 1 : Ready(Rest(b, k))
  BY <1>1, <1>4 DEF stop
<1>6. \E m \in 0 .. Len(b) : ~Ready(Rest(b, m)) /\ \A k \in 0 .. m - 1 : Ready(Rest(b, k))
  BY <1>5
<1> QED
  BY <1>6 DEF ReadyCount

-----------------------------------------------------------------------------
(* The calls.                                                              *)

\* The packets of sequence c are those of b from one index to another, moved.
\* t packets go to the file and g leave the buffer: as many as asked for unless
\* the device fails, and then one is lost.
Moves(m, r, b, n, t, g) ==
    /\ t \in 0 .. n /\ g \in t .. n
    /\ r.file = m.file \o SubSeq(b, 1, t)
    /\ r.packet_buffer = Rest(b, g)
    /\ ~r.error => ~m.error /\ t = n /\ g = n

LEMMA OutputShape ==
  ASSUME NEW m \in MuxerState, NEW n \in 0 .. Len(m.packet_buffer), NEW good \in Nat
  PROVE  LET r == Output(m, n, good) IN
         /\ r \in MuxerState
         /\ r.cur_dts = m.cur_dts /\ r.finished = m.finished
         /\ r.priv_pts = m.priv_pts
         /\ ~m.error /\ good >= n => ~r.error
         /\ \E t, g \in 0 .. n : Moves(m, r, m.packet_buffer, n, t, g)
<1> DEFINE b == m.packet_buffer
           taken == IF m.error THEN 0 ELSE good
           t == IF taken < n THEN taken ELSE n
           g == IF taken < n THEN taken + 1 ELSE n
           f == m.file \o SubSeq(b, 1, t)
           r == Output(m, n, good)
<1>1. Len(b) \in Nat /\ n \in Nat /\ taken \in Nat
  BY LenProperties DEF MuxerState
<1>2. t \in 0 .. n /\ g \in t .. n
  BY <1>1
<1>3. SubSeq(b, 1, t) \in Seq(Packet)
  BY <1>1, <1>2, PrefixShape DEF MuxerState
<1>4. f \in Seq(Packet)
  BY <1>3, ConcatProperties DEF MuxerState
<1>5. Rest(b, g) \in Seq(Packet)
  <2>1. b \in Seq(Packet) /\ g \in 0 .. Len(b)
    BY <1>1, <1>2 DEF MuxerState
  <2> HIDE DEF b, g
  <2> QED
    BY <2>1, RestShape
<1>6. r = [[m EXCEPT !.file = @ \o SubSeq(b, 1, t)]
             EXCEPT !.packet_buffer = Rest(b, g), !.error = @ \/ taken < n]
  BY DEF Output, Written
<1> HIDE DEF t, g, taken
<1>7. r = [packet_buffer |-> Rest(b, g), file |-> f, cur_dts |-> m.cur_dts,
           priv_pts |-> m.priv_pts, error |-> (m.error \/ taken < n), finished |-> m.finished]
  BY <1>6 DEF MuxerState
<1> HIDE DEF r
<1>8. r \in MuxerState
  BY <1>4, <1>5, <1>7 DEF MuxerState
<1>9. ASSUME ~r.error PROVE ~m.error /\ t = n /\ g = n
  <2>1. r.error = (m.error \/ taken < n)
    BY <1>7
  <2>2. ~m.error /\ ~(taken < n)
    BY <1>9, <2>1
  <2> QED
    BY <2>2 DEF t, g
<1>10. ASSUME ~m.error, good >= n PROVE ~r.error
  <2>1. ~(taken < n)
    BY <1>1, <1>10 DEF taken
  <2>2. r.error = (m.error \/ taken < n)
    BY <1>7
  <2> QED
    BY <1>10, <2>1, <2>2
<1>11. Moves(m, r, b, n, t, g) /\ t \in 0 .. n /\ g \in 0 .. n
  <2>1. r.file = m.file \o SubSeq(b, 1, t) /\ r.packet_buffer = Rest(b, g)
    BY <1>7
  <2>2. t \in 0 .. n /\ g \in 0 .. n
    BY <1>1, <1>2
  <2> QED
    BY <1>2, <1>9, <2>1, <2>2 DEF Moves
<1>12. r.cur_dts = m.cur_dts /\ r.finished = m.finished /\ r.priv_pts = m.priv_pts
  BY <1>7
<1>13. \E t1, g1 \in 0 .. n : Moves(m, r, b, n, t1, g1)
  BY <1>11
<1> QED
  BY <1>8, <1>10, <1>12, <1>13 DEF r

\* Timestamps and the stream's clock keep their types.
LEMMA AdvanceShape ==
  ASSUME NEW m \in MuxerState, NEW p \in Packet
  PROVE  LET q == WithTimestamps(m, p) IN
         /\ q \in Packet /\ q.stream = p.stream /\ q.size = p.size /\ q.frame = p.frame
         /\ p.dts # NoPts \/ p.stream = VIDEO_STREAM => q = p
         /\ Advance(m, q) = [m EXCEPT !.cur_dts = [m.cur_dts EXCEPT ![p.stream] = q.dts],
                                      !.priv_pts = NextPts(m, q)]
         /\ Advance(m, q) \in MuxerState
<1> DEFINE q == WithTimestamps(m, p)
<1>1. /\ q \in Packet /\ q.stream = p.stream /\ q.size = p.size /\ q.frame = p.frame
      /\ p.dts # NoPts \/ p.stream = VIDEO_STREAM => q = p
  <2>1. CASE p.stream = AUDIO_STREAM /\ p.dts = NoPts /\ p.pts = NoPts
    <3>1. q = [p EXCEPT !.dts = m.priv_pts, !.pts = m.priv_pts] /\ m.priv_pts \in Int
      BY <2>1 DEF WithTimestamps, MuxerState
    <3> HIDE DEF q
    <3>2. q \in Packet /\ q.stream = p.stream /\ q.size = p.size /\ q.frame = p.frame
      BY <3>1 DEF Packet
    <3>3. p.dts = NoPts /\ p.stream # VIDEO_STREAM
      BY <2>1 DEF VIDEO_STREAM, AUDIO_STREAM
    <3> QED
      BY <3>2, <3>3
  <2>2. CASE ~(p.stream = AUDIO_STREAM /\ p.dts = NoPts /\ p.pts = NoPts)
    BY <2>2 DEF WithTimestamps
  <2> QED
    BY <2>1, <2>2
<1> HIDE DEF q
<1>2. NextPts(m, q) \in Int
  BY <1>1, AudioPeriodAssumption DEF NextPts, Packet, MuxerState
<1>3. Advance(m, q) = [m EXCEPT !.cur_dts = [m.cur_dts EXCEPT ![p.stream] = q.dts],
                                !.priv_pts = NextPts(m, q)]
  BY <1>1 DEF Advance, MuxerState
<1>4. [m.cur_dts EXCEPT ![p.stream] = q.dts] \in [Streams -> Int]
  BY <1>1 DEF MuxerState, Packet
<1>5. Advance(m, q) \in MuxerState
  BY <1>2, <1>3, <1>4 DEF MuxerState
<1> QED
  BY <1>1, <1>3, <1>5 DEF q

\* A call of av_interleaved_write_frame refuses the packet, or places it and lets
\* out what is ready.
LEMMA InterleavedShape ==
  ASSUME NEW m \in MuxerState, NEW p \in Packet, NEW good \in Nat
  PROVE  LET q == WithTimestamps(m, p)
             r == av_interleaved_write_frame(m, p, good)
             b == ff_interleave_add_packet(m.packet_buffer, q)
         IN  /\ r \in MuxerState /\ r.finished = m.finished
             /\ ~Accepts(m, p) => r = m
             /\ Accepts(m, p) => r.cur_dts = [m.cur_dts EXCEPT ![p.stream] = q.dts]
             /\ Accepts(m, p) => r.priv_pts = NextPts(m, q)
             /\ ~Accepts(m, p) \/ q.dts = NoPts =>
                  r.file = m.file /\ r.packet_buffer = m.packet_buffer /\ r.error = m.error
             /\ Accepts(m, p) /\ q.dts # NoPts =>
                  /\ b \in Seq(Packet) /\ ReadyCount(b) \in 0 .. Len(b)
                  /\ ~m.error /\ good >= ReadyCount(b) => ~r.error
                  /\ \E t, g \in 0 .. ReadyCount(b) : Moves(m, r, b, ReadyCount(b), t, g)
<1> DEFINE q == WithTimestamps(m, p)
           r == av_interleaved_write_frame(m, p, good)
           b == ff_interleave_add_packet(m.packet_buffer, q)
           a == Advance(m, q)
           held == [a EXCEPT !.packet_buffer = ff_interleave_add_packet(@, q)]
<1>1. /\ q \in Packet /\ a \in MuxerState
      /\ a = [m EXCEPT !.cur_dts = [m.cur_dts EXCEPT ![p.stream] = q.dts],
                       !.priv_pts = NextPts(m, q)]
  BY AdvanceShape
<1>2. /\ a.file = m.file /\ a.packet_buffer = m.packet_buffer /\ a.error = m.error
      /\ a.finished = m.finished /\ a.cur_dts = [m.cur_dts EXCEPT ![p.stream] = q.dts]
      /\ a.priv_pts = NextPts(m, q)
  BY <1>1 DEF MuxerState
<1>3. r = IF ~Accepts(m, p) THEN m
          ELSE IF q.dts = NoPts THEN a
          ELSE Output(held, ReadyCount(held.packet_buffer), good)
  BY DEF av_interleaved_write_frame
<1> HIDE DEF q, r, a
<1>4. CASE ~Accepts(m, p)
  BY <1>3, <1>4 DEF q, r
<1>5. CASE Accepts(m, p) /\ q.dts = NoPts
  BY <1>1, <1>2, <1>3, <1>5 DEF q, r
<1>6. CASE Accepts(m, p) /\ q.dts # NoPts
  <2>1. b \in Seq(Packet)
    BY <1>1, PlaceShape, InsertAtShape DEF ff_interleave_add_packet, MuxerState
  <2>2. ReadyCount(b) \in 0 .. Len(b)
    BY <2>1, ReadyCountShape
  <2>3. held = [packet_buffer |-> b, file |-> m.file, cur_dts |-> a.cur_dts,
                priv_pts |-> a.priv_pts, error |-> m.error, finished |-> m.finished]
    <3>1. held = [a EXCEPT !.packet_buffer = b]
      BY <1>2
    <3> HIDE DEF b, held
    <3> QED
      BY <1>1, <1>2, <3>1 DEF MuxerState
  <2> HIDE DEF b, held
  <2>4. held \in MuxerState /\ held.packet_buffer = b
    BY <1>1, <2>1, <2>3 DEF MuxerState
  <2>5. r = Output(held, ReadyCount(b), good)
    BY <1>3, <1>6, <2>4
  <2>6. /\ r \in MuxerState /\ r.cur_dts = held.cur_dts /\ r.finished = held.finished
        /\ r.priv_pts = held.priv_pts /\ (~held.error /\ good >= ReadyCount(b) => ~r.error)
        /\ \E t, g \in 0 .. ReadyCount(b) : Moves(held, r, b, ReadyCount(b), t, g)
    BY <2>2, <2>4, <2>5, OutputShape
  <2>7. \E t, g \in 0 .. ReadyCount(b) : Moves(m, r, b, ReadyCount(b), t, g)
    BY <2>3, <2>6 DEF Moves
  <2>8. /\ r.cur_dts = [m.cur_dts EXCEPT ![p.stream] = q.dts] /\ r.finished = m.finished
        /\ r.priv_pts = NextPts(m, q)
    BY <1>2, <2>3, <2>6
  <2> QED
    BY <1>6, <2>1, <2>2, <2>3, <2>6, <2>7, <2>8 DEF q, r, b
<1> QED
  BY <1>4, <1>5, <1>6

\* A call of av_write_frame refuses the packet, loses it or appends it.
LEMMA DirectShape ==
  ASSUME NEW m \in MuxerState, NEW p \in Packet, NEW works \in BOOLEAN
  PROVE  LET q == WithTimestamps(m, p)
             r == av_write_frame(m, p, works)
         IN  /\ r \in MuxerState /\ r.finished = m.finished
             /\ r.packet_buffer = m.packet_buffer
             /\ ~Accepts(m, p) => r = m
             /\ Accepts(m, p) => r.cur_dts = [m.cur_dts EXCEPT ![p.stream] = q.dts]
             /\ Accepts(m, p) => r.priv_pts = NextPts(m, q)
             /\ r.file = m.file \/ (Accepts(m, p) /\ r.file = Append(m.file, q))
             /\ ~r.error /\ Accepts(m, p) => ~m.error /\ r.file = Append(m.file, q)
<1> DEFINE q == WithTimestamps(m, p)
           r == av_write_frame(m, p, works)
           a == Advance(m, q)
<1>1. /\ q \in Packet /\ a \in MuxerState
      /\ a = [m EXCEPT !.cur_dts = [m.cur_dts EXCEPT ![p.stream] = q.dts],
                       !.priv_pts = NextPts(m, q)]
  BY AdvanceShape
<1>2. /\ a.file = m.file /\ a.packet_buffer = m.packet_buffer /\ a.error = m.error
      /\ a.finished = m.finished /\ a.cur_dts = [m.cur_dts EXCEPT ![p.stream] = q.dts]
      /\ a.priv_pts = NextPts(m, q)
  BY <1>1 DEF MuxerState
<1>3. r = IF ~Accepts(m, p) THEN m
          ELSE IF m.error \/ ~works THEN [a EXCEPT !.error = TRUE]
          ELSE [a EXCEPT !.file = @ \o <<q>>]
  BY DEF av_write_frame, Written
<1>4. Append(m.file, q) \in Seq(Packet) /\ Append(m.file, q) = m.file \o <<q>>
  BY <1>1, AppendProperties, AppendIsConcat DEF MuxerState
<1> HIDE DEF q, r, a
<1>5. CASE ~Accepts(m, p)
  <2>1. r = m
    BY <1>3, <1>5
  <2> QED
    BY <1>5, <2>1 DEF q, r
<1>6. CASE Accepts(m, p) /\ (m.error \/ ~works)
  <2>1. r = [a EXCEPT !.error = TRUE]
    BY <1>3, <1>6
  <2>2. /\ r \in MuxerState /\ r.finished = a.finished /\ r.file = a.file /\ r.error
        /\ r.packet_buffer = a.packet_buffer /\ r.cur_dts = a.cur_dts
        /\ r.priv_pts = a.priv_pts
    BY <1>1, <2>1 DEF MuxerState
  <2> QED
    BY <1>2, <1>6, <2>2 DEF q, r
<1>7. CASE Accepts(m, p) /\ ~m.error /\ works
  <2>1. r = [a EXCEPT !.file = Append(m.file, q)]
    BY <1>2, <1>3, <1>4, <1>7
  <2>2. /\ r \in MuxerState /\ r.finished = a.finished /\ r.file = Append(m.file, q)
        /\ r.packet_buffer = a.packet_buffer /\ r.cur_dts = a.cur_dts
        /\ r.priv_pts = a.priv_pts
    BY <1>1, <1>4, <2>1 DEF MuxerState
  <2> QED
    BY <1>2, <1>7, <2>2 DEF q, r
<1> QED
  BY <1>5, <1>6, <1>7

\* av_write_trailer empties the buffer into the file, as far as the device goes.
LEMMA TrailerShape ==
  ASSUME NEW m \in MuxerState, NEW good \in Nat
  PROVE  LET r == av_write_trailer(m, good)
             b == m.packet_buffer
         IN  /\ r \in MuxerState /\ r.finished /\ r.cur_dts = m.cur_dts
             /\ r.priv_pts = m.priv_pts
             /\ \E t, g \in 0 .. Len(b) : Moves(m, r, b, Len(b), t, g)
<1> DEFINE o == Output(m, Len(m.packet_buffer), good)
           r == av_write_trailer(m, good)
<1>1. Len(m.packet_buffer) \in 0 .. Len(m.packet_buffer)
  BY LenProperties DEF MuxerState
<1>2. /\ o \in MuxerState /\ o.cur_dts = m.cur_dts /\ o.priv_pts = m.priv_pts
      /\ \E t, g \in 0 .. Len(m.packet_buffer) :
           Moves(m, o, m.packet_buffer, Len(m.packet_buffer), t, g)
  BY <1>1, OutputShape
<1>3. r = [o EXCEPT !.finished = TRUE]
  BY DEF av_write_trailer
<1> HIDE DEF o, r
<1>4. /\ r \in MuxerState /\ r.finished /\ r.cur_dts = o.cur_dts /\ r.file = o.file
      /\ r.packet_buffer = o.packet_buffer /\ r.error = o.error /\ r.priv_pts = o.priv_pts
  BY <1>2, <1>3 DEF MuxerState
<1> QED
  BY <1>2, <1>4 DEF Moves, r

-----------------------------------------------------------------------------
(* What the calls do to the packets of file and buffer, as sets and as one *)
(* sequence, the file followed by the buffer.                              *)

\* A set of a sequence's elements.
LEMMA ToSetOfSeq ==
  ASSUME NEW S, NEW q \in Seq(S)
  PROVE  /\ ToSet(q) = {q[i] : i \in 1 .. Len(q)}
         /\ ToSet(q) \subseteq S
  BY LenProperties, ElementOfSeq DEF ToSet

LEMMA InsertAtSet ==
  ASSUME NEW S, NEW q \in Seq(S), NEW x \in S, NEW i \in 1 .. Len(q) + 1
  PROVE  ToSet(InsertAt(q, i, x)) = ToSet(q) \cup {x}
<1> DEFINE b == InsertAt(q, i, x)
<1>1. Len(q) \in Nat /\ i \in Nat
  BY LenProperties
<1>2. /\ b \in Seq(S) /\ Len(b) = Len(q) + 1
      /\ \A k \in 1 .. Len(q) + 1 : b[k] = IF k < i THEN q[k] ELSE IF k = i THEN x ELSE q[k - 1]
  <2>1. Len(b) = Len(q) + 1 /\ b \in Seq(S)
    BY InsertAtShape
  <2>2. \A k \in 1 .. Len(q) + 1 : b[k] = IF k < i THEN q[k] ELSE IF k = i THEN x ELSE q[k - 1]
    BY InsertAtShape
  <2> QED
    BY <2>1, <2>2
<1> HIDE DEF b
<1>3. ToSet(b) = {b[k] : k \in 1 .. Len(q) + 1} /\ ToSet(q) = {q[k] : k \in 1 .. Len(q)}
  BY <1>2, ToSetOfSeq
<1>4. ASSUME NEW y \in ToSet(b) PROVE y \in ToSet(q) \cup {x}
  <2>1. PICK k \in 1 .. Len(q) + 1 : y = b[k]
    BY <1>3
  <2>2. CASE k < i
    BY <1>1, <1>2, <1>3, <2>1, <2>2
  <2>3. CASE k = i
    <3>1. y = x
      BY <1>1, <1>2, <2>1, <2>3
    <3> QED
      BY <3>1
  <2>4. CASE k > i
    <3>1. k - 1 \in 1 .. Len(q) /\ y = q[k - 1]
      BY <1>1, <1>2, <2>1, <2>4
    <3> QED
      BY <1>3, <3>1
  <2>5. k < i \/ k = i \/ k > i
    BY <1>1
  <2> QED
    BY <2>2, <2>3, <2>4, <2>5
<1>5. ASSUME NEW y \in ToSet(q) PROVE y \in ToSet(b)
  <2>1. PICK k \in 1 .. Len(q) : y = q[k]
    BY <1>3
  <2>2. CASE k < i
    <3>1. k \in 1 .. Len(q) + 1 /\ b[k] = q[k]
      BY <1>1, <1>2, <2>1, <2>2
    <3> QED
      BY <1>3, <2>1, <3>1
  <2>3. CASE k >= i
    <3>1. k + 1 \in 1 .. Len(q) + 1 /\ b[k + 1] = q[(k + 1) - 1] /\ (k + 1) - 1 = k
      BY <1>1, <1>2, <2>3
    <3> QED
      BY <1>3, <2>1, <3>1
  <2>4. k < i \/ k >= i
    BY <1>1
  <2> QED
    BY <2>2, <2>3, <2>4
<1>6. x \in ToSet(b)
  <2>1. i \in 1 .. Len(q) + 1 /\ b[i] = x
    BY <1>1, <1>2
  <2> QED
    BY <1>3, <2>1
<1> QED
  BY <1>4, <1>5, <1>6 DEF b

\* Where the packets of file and buffer come from when some have moved.
LEMMA MovesShape ==
  ASSUME NEW m \in MuxerState, NEW r \in MuxerState, NEW b \in Seq(Packet),
         NEW n \in 0 .. Len(b), NEW t \in 0 .. n, NEW g \in 0 .. n, Moves(m, r, b, n, t, g)
  PROVE  /\ Len(r.file) = Len(m.file) + t
         /\ \A i \in 1 .. Len(m.file) : r.file[i] = m.file[i]
         /\ \A i \in Len(m.file) + 1 .. Len(m.file) + t : r.file[i] = b[i - Len(m.file)]
         /\ Len(r.packet_buffer) = Len(b) - g
         /\ \A j \in 1 .. Len(b) - g : r.packet_buffer[j] = b[g + j]
<1> DEFINE f == m.file
           a == SubSeq(b, 1, t)
<1>1. Len(b) \in Nat /\ f \in Seq(Packet) /\ Len(f) \in Nat
  BY LenProperties DEF MuxerState
<1>2. a \in Seq(Packet) /\ Len(a) = t /\ \A k \in 1 .. t : a[k] = b[k]
  BY <1>1, PrefixShape
<1>3. r.file = f \o a /\ r.packet_buffer = Rest(b, g)
  BY DEF Moves
<1> HIDE DEF f, a
<1>4. /\ Len(f \o a) = Len(f) + t
      /\ \A i \in 1 .. Len(f) + t : (f \o a)[i] = IF i <= Len(f) THEN f[i] ELSE a[i - Len(f)]
  BY <1>1, <1>2, ConcatProperties
<1>5. \A i \in 1 .. Len(f) : r.file[i] = f[i]
  BY <1>1, <1>3, <1>4
<1>6. ASSUME NEW i \in Len(f) + 1 .. Len(f) + t PROVE r.file[i] = b[i - Len(f)]
  <2>1. i \in 1 .. Len(f) + t /\ ~(i <= Len(f)) /\ i - Len(f) \in 1 .. t
    BY <1>1
  <2> QED
    BY <1>2, <1>3, <1>4, <2>1
<1>7. /\ Len(Rest(b, g)) = Len(b) - g
      /\ \A j \in 1 .. Len(b) - g : Rest(b, g)[j] = b[g + j]
  <2>1. g \in 0 .. Len(b)
    BY <1>1
  <2> QED
    BY <2>1, RestShape
<1> QED
  BY <1>3, <1>4, <1>5, <1>6, <1>7 DEF f

LEMMA MovesSets ==
  ASSUME NEW m \in MuxerState, NEW r \in MuxerState, NEW b \in Seq(Packet),
         NEW n \in 0 .. Len(b), NEW t \in 0 .. n, NEW g \in 0 .. n, Moves(m, r, b, n, t, g)
  PROVE  /\ ToSet(m.file) \subseteq ToSet(r.file)
         /\ ToSet(r.file) \subseteq ToSet(m.file) \cup ToSet(b)
         /\ ToSet(r.packet_buffer) \subseteq ToSet(b)
         /\ ~r.error => ToSet(m.file) \cup ToSet(b) = ToSet(r.file) \cup ToSet(r.packet_buffer)
<1> DEFINE f == m.file
           f1 == r.file
           b1 == r.packet_buffer
<1>1. /\ Len(b) \in Nat /\ Len(f) \in Nat /\ f \in Seq(Packet)
      /\ f1 \in Seq(Packet) /\ b1 \in Seq(Packet)
  BY LenProperties DEF MuxerState
<1>2. /\ ToSet(f) = {f[i] : i \in 1 .. Len(f)} /\ ToSet(b) = {b[i] : i \in 1 .. Len(b)}
      /\ ToSet(f1) = {f1[i] : i \in 1 .. Len(f) + t}
      /\ ToSet(b1) = {b1[i] : i \in 1 .. Len(b) - g}
  <2>1. Len(f1) = Len(f) + t /\ Len(b1) = Len(b) - g
    BY MovesShape
  <2> HIDE DEF f, f1, b1
  <2>2. ToSet(f) = {f[i] : i \in 1 .. Len(f)} /\ ToSet(b) = {b[i] : i \in 1 .. Len(b)}
    BY <1>1, ToSetOfSeq
  <2>3. ToSet(f1) = {f1[i] : i \in 1 .. Len(f1)} /\ ToSet(b1) = {b1[i] : i \in 1 .. Len(b1)}
    BY <1>1, ToSetOfSeq
  <2> QED
    BY <2>1, <2>2, <2>3
<1>3. /\ \A i \in 1 .. Len(f) : f1[i] = f[i]
      /\ \A i \in Len(f) + 1 .. Len(f) + t : f1[i] = b[i - Len(f)]
      /\ \A j \in 1 .. Len(b) - g : b1[j] = b[g + j]
  BY MovesShape
<1> HIDE DEF f, f1, b1
<1>4. ToSet(f) \subseteq ToSet(f1)
  BY <1>1, <1>2, <1>3
<1>5. ToSet(f1) \subseteq ToSet(f) \cup ToSet(b)
  <2> SUFFICES ASSUME NEW i \in 1 .. Len(f) + t PROVE f1[i] \in ToSet(f) \cup ToSet(b)
    BY <1>2
  <2>1. CASE i <= Len(f)
    <3>1. i \in 1 .. Len(f)
      BY <1>1, <2>1
    <3> QED
      BY <1>2, <1>3, <3>1
  <2>2. CASE i > Len(f)
    <3>1. i \in Len(f) + 1 .. Len(f) + t /\ i - Len(f) \in 1 .. Len(b)
      BY <1>1, <2>2
    <3> QED
      BY <1>2, <1>3, <3>1
  <2>3. i <= Len(f) \/ i > Len(f)
    BY <1>1
  <2> QED
    BY <2>1, <2>2, <2>3
<1>6. ToSet(b1) \subseteq ToSet(b)
  <2> SUFFICES ASSUME NEW j \in 1 .. Len(b) - g PROVE b1[j] \in ToSet(b)
    BY <1>2
  <2>1. g + j \in 1 .. Len(b)
    BY <1>1
  <2> QED
    BY <1>2, <1>3, <2>1
<1>7. ASSUME ~r.error PROVE ToSet(b) \subseteq ToSet(f1) \cup ToSet(b1)
  <2> SUFFICES ASSUME NEW k \in 1 .. Len(b) PROVE b[k] \in ToSet(f1) \cup ToSet(b1)
    BY <1>2
  <2>1. t = n /\ g = n
    BY <1>7 DEF Moves
  <2>2. CASE k <= n
    <3>1. k + Len(f) \in Len(f) + 1 .. Len(f) + t /\ (k + Len(f)) - Len(f) = k
          /\ k + Len(f) \in 1 .. Len(f) + t
      BY <1>1, <2>1, <2>2
    <3>2. f1[k + Len(f)] = b[k]
      BY <1>3, <3>1
    <3> QED
      BY <1>2, <3>1, <3>2
  <2>3. CASE k > n
    <3>1. k - g \in 1 .. Len(b) - g /\ g + (k - g) = k
      BY <1>1, <2>1, <2>3
    <3>2. b1[k - g] = b[k]
      BY <1>3, <3>1
    <3> QED
      BY <1>2, <3>1, <3>2
  <2>4. k <= n \/ k > n
    BY <1>1
  <2> QED
    BY <2>2, <2>3, <2>4
<1> QED
  BY <1>4, <1>5, <1>6, <1>7 DEF f, f1, b1

\* Every two packets of the file followed by the buffer are in relation Rel.
InOrder(f, b, Rel) ==
    /\ \A i, j \in 1 .. Len(f) : i < j => <<f[i], f[j]>> \in Rel
    /\ \A i, j \in 1 .. Len(b) : i < j => <<b[i], b[j]>> \in Rel
    /\ \A i \in 1 .. Len(f) : \A j \in 1 .. Len(b) : <<f[i], b[j]>> \in Rel

\* Moving packets from the front of the buffer to the end of the file keeps it.
LEMMA MovesInOrder ==
  ASSUME NEW m \in MuxerState, NEW r \in MuxerState, NEW b \in Seq(Packet), NEW Rel,
         NEW n \in 0 .. Len(b), NEW t \in 0 .. n, NEW g \in 0 .. n, Moves(m, r, b, n, t, g),
         InOrder(m.file, b, Rel)
  PROVE  InOrder(r.file, r.packet_buffer, Rel)
<1> DEFINE f == m.file
           f1 == r.file
           b1 == r.packet_buffer
<1>1. Len(b) \in Nat /\ Len(f) \in Nat /\ t <= g
  BY LenProperties DEF MuxerState, Moves
<1>2. /\ Len(f1) = Len(f) + t /\ Len(b1) = Len(b) - g
      /\ \A i \in 1 .. Len(f) : f1[i] = f[i]
      /\ \A i \in Len(f) + 1 .. Len(f) + t : f1[i] = b[i - Len(f)]
      /\ \A j \in 1 .. Len(b) - g : b1[j] = b[g + j]
  BY MovesShape
<1>3. /\ \A i, j \in 1 .. Len(f) : i < j => <<f[i], f[j]>> \in Rel
      /\ \A i, j \in 1 .. Len(b) : i < j => <<b[i], b[j]>> \in Rel
      /\ \A i \in 1 .. Len(f) : \A j \in 1 .. Len(b) : <<f[i], b[j]>> \in Rel
  BY DEF InOrder
<1> HIDE DEF f, f1, b1
<1>4. ASSUME NEW i \in 1 .. Len(f1), NEW j \in 1 .. Len(f1), i < j
      PROVE  <<f1[i], f1[j]>> \in Rel
  <2>1. CASE j <= Len(f)
    <3>1. i \in 1 .. Len(f) /\ j \in 1 .. Len(f)
      BY <1>1, <1>2, <1>4, <2>1
    <3> QED
      BY <1>2, <1>3, <1>4, <3>1
  <2>2. CASE i <= Len(f) /\ j > Len(f)
    <3>1. /\ i \in 1 .. Len(f) /\ j \in Len(f) + 1 .. Len(f) + t
          /\ j - Len(f) \in 1 .. Len(b)
      BY <1>1, <1>2, <1>4, <2>2
    <3> QED
      BY <1>2, <1>3, <3>1
  <2>3. CASE i > Len(f)
    <3>1. /\ i \in Len(f) + 1 .. Len(f) + t /\ j \in Len(f) + 1 .. Len(f) + t
          /\ i - Len(f) \in 1 .. Len(b) /\ j - Len(f) \in 1 .. Len(b)
          /\ i - Len(f) < j - Len(f)
      BY <1>1, <1>2, <1>4, <2>3
    <3> QED
      BY <1>2, <1>3, <3>1
  <2>4. j <= Len(f) \/ (i <= Len(f) /\ j > Len(f)) \/ i > Len(f)
    BY <1>1, <1>2
  <2> QED
    BY <2>1, <2>2, <2>3, <2>4
<1>5. ASSUME NEW i \in 1 .. Len(b1), NEW j \in 1 .. Len(b1), i < j
      PROVE  <<b1[i], b1[j]>> \in Rel
  <2>1. g + i \in 1 .. Len(b) /\ g + j \in 1 .. Len(b) /\ g + i < g + j
    BY <1>1, <1>2, <1>5
  <2> QED
    BY <1>2, <1>3, <2>1
<1>6. ASSUME NEW i \in 1 .. Len(f1), NEW j \in 1 .. Len(b1)
      PROVE  <<f1[i], b1[j]>> \in Rel
  <2>1. g + j \in 1 .. Len(b) /\ b1[j] = b[g + j]
    BY <1>1, <1>2
  <2>2. CASE i <= Len(f)
    <3>1. i \in 1 .. Len(f)
      BY <1>1, <1>2, <2>2
    <3> QED
      BY <1>2, <1>3, <2>1, <3>1
  <2>3. CASE i > Len(f)
    <3>1. /\ i \in Len(f) + 1 .. Len(f) + t /\ i - Len(f) \in 1 .. Len(b)
          /\ i - Len(f) < g + j
      BY <1>1, <1>2, <2>3
    <3> QED
      BY <1>2, <1>3, <2>1, <3>1
  <2>4. i <= Len(f) \/ i > Len(f)
    BY <1>1, <1>2
  <2> QED
    BY <2>2, <2>3, <2>4
<1> QED
  BY <1>4, <1>5, <1>6 DEF InOrder, f1, b1

\* So does placing a packet that is in relation with those around its place.
LEMMA InsertInOrder ==
  ASSUME NEW f \in Seq(Packet), NEW b \in Seq(Packet), NEW q \in Packet, NEW Rel,
         NEW i \in 1 .. Len(b) + 1, InOrder(f, b, Rel),
         \A k \in 1 .. Len(f) : <<f[k], q>> \in Rel,
         \A k \in 1 .. Len(b) : k < i => <<b[k], q>> \in Rel,
         \A k \in 1 .. Len(b) : i <= k => <<q, b[k]>> \in Rel
  PROVE  InOrder(f, InsertAt(b, i, q), Rel)
<1> DEFINE c == InsertAt(b, i, q)
<1>1. Len(b) \in Nat /\ Len(f) \in Nat /\ i \in Nat
  BY LenProperties
<1>2. /\ Len(c) = Len(b) + 1
      /\ \A k \in 1 .. Len(b) + 1 : c[k] = IF k < i THEN b[k] ELSE IF k = i THEN q ELSE b[k - 1]
  BY InsertAtShape
<1>3. /\ \A k, j \in 1 .. Len(f) : k < j => <<f[k], f[j]>> \in Rel
      /\ \A k, j \in 1 .. Len(b) : k < j => <<b[k], b[j]>> \in Rel
      /\ \A k \in 1 .. Len(f) : \A j \in 1 .. Len(b) : <<f[k], b[j]>> \in Rel
  BY DEF InOrder
<1> HIDE DEF c
<1>4. \A k \in 1 .. Len(b) + 1 :
        /\ k < i => k \in 1 .. Len(b) /\ c[k] = b[k]
        /\ k = i => c[k] = q
        /\ k > i => k - 1 \in 1 .. Len(b) /\ i <= k - 1 /\ c[k] = b[k - 1]
  BY <1>1, <1>2
<1>5. ASSUME NEW k \in 1 .. Len(b) + 1, NEW j \in 1 .. Len(b) + 1, k < j
      PROVE  <<c[k], c[j]>> \in Rel
  <2>1. CASE j < i
    <3>1. k < i
      BY <1>1, <1>5, <2>1
    <3> QED
      BY <1>3, <1>4, <1>5, <2>1, <3>1
  <2>2. CASE j = i
    BY <1>4, <1>5, <2>2
  <2>3. CASE j > i /\ k < i
    <3>1. k < j - 1
      BY <1>1, <2>3
    <3> QED
      BY <1>3, <1>4, <2>3, <3>1
  <2>4. CASE j > i /\ k = i
    BY <1>4, <2>4
  <2>5. CASE j > i /\ k > i
    <3>1. k - 1 < j - 1
      BY <1>1, <1>5
    <3> QED
      BY <1>3, <1>4, <2>5, <3>1
  <2>6. j < i \/ j = i \/ (j > i /\ k < i) \/ (j > i /\ k = i) \/ (j > i /\ k > i)
    BY <1>1
  <2> QED
    BY <2>1, <2>2, <2>3, <2>4, <2>5, <2>6
<1>6. ASSUME NEW k \in 1 .. Len(f), NEW j \in 1 .. Len(b) + 1
      PROVE  <<f[k], c[j]>> \in Rel
  <2>1. j < i \/ j = i \/ j > i
    BY <1>1
  <2> QED
    BY <1>3, <1>4, <2>1
<1> QED
  BY <1>2, <1>3, <1>5, <1>6 DEF InOrder, c

\* And writing a packet past the buffer.
LEMMA AppendInOrder ==
  ASSUME NEW f \in Seq(Packet), NEW b \in Seq(Packet), NEW q \in Packet, NEW Rel,
         InOrder(f, b, Rel),
         \A k \in 1 .. Len(f) : <<f[k], q>> \in Rel,
         \A k \in 1 .. Len(b) : <<q, b[k]>> \in Rel
  PROVE  InOrder(Append(f, q), b, Rel)
<1>1. Len(b) \in Nat /\ Len(f) \in Nat
  BY LenProperties
<1> DEFINE c == Append(f, q)
<1>2. /\ Len(c) = Len(f) + 1 /\ \A k \in 1 .. Len(f) : c[k] = f[k]
      /\ c[Len(f) + 1] = q
  BY AppendProperties
<1>3. /\ \A k, j \in 1 .. Len(f) : k < j => <<f[k], f[j]>> \in Rel
      /\ \A k, j \in 1 .. Len(b) : k < j => <<b[k], b[j]>> \in Rel
      /\ \A k \in 1 .. Len(f) : \A j \in 1 .. Len(b) : <<f[k], b[j]>> \in Rel
  BY DEF InOrder
<1> HIDE DEF c
<1>4. \A k \in 1 .. Len(f) + 1 : k \in 1 .. Len(f) \/ k = Len(f) + 1
  BY <1>1
<1>5. ASSUME NEW k \in 1 .. Len(f) + 1, NEW j \in 1 .. Len(f) + 1, k < j
      PROVE  <<c[k], c[j]>> \in Rel
  <2>1. k \in 1 .. Len(f)
    BY <1>1, <1>5
  <2> QED
    BY <1>2, <1>3, <1>4, <1>5, <2>1
<1> QED
  BY <1>2, <1>3, <1>4, <1>5 DEF InOrder, c

=============================================================================
