-------------------------- MODULE MuxContextProofs --------------------------
(***************************************************************************)
(* The properties of the muxing context for every relation of the two      *)
(* packet durations, every delay of the encoders, every number of packets  *)
(* and every failure of the device: what is held is in dts order and spans *)
(* no more than it may, no packet is lost, doubled or overtaken, and the   *)
(* file is interleaved, or holds no video, according to the functions the  *)
(* two encoders call.                                                      *)
(***************************************************************************)
EXTENDS MuxContext, MuxerProofs

-----------------------------------------------------------------------------
(* The packets of the encoders.                                            *)

Period(s) == IF s = VIDEO_STREAM THEN VideoPeriod ELSE AudioPeriod
Delay(s) == IF s = VIDEO_STREAM THEN Reorder ELSE AudioDelay

\* The dts of packet n of stream s, and the packet.
Dts(s, n) == (n - Delay(s)) * Period(s)
DataPacket(s, n) == IF s = VIDEO_STREAM THEN VideoPacket(n) ELSE AudioPacket(n)

LEMMA Constants == /\ VideoPeriod \in Nat \ {0} /\ AudioPeriod \in Nat \ {0}
                   /\ Reorder \in Nat /\ AudioDelay \in Nat /\ MaxPackets \in Nat
                   /\ NoPts \in Int /\ NoPts < 0 /\ MaxInterleaveDelta \in Nat
                   /\ NoPts < -(Reorder * VideoPeriod) /\ NoPts < -(AudioDelay * AudioPeriod)
                   /\ Streams = {0, 1} /\ VIDEO_STREAM = 0 /\ AUDIO_STREAM = 1
  BY EncoderAssumption, MuxBoundAssumption, NoPtsAssumption, DeltaAssumption,
     AudioPeriodAssumption
  DEF EncoderAssumption, MuxBoundAssumption, NoPtsAssumption, DeltaAssumption,
      AudioPeriodAssumption, Streams, VIDEO_STREAM, AUDIO_STREAM

\* The dts of a stream grows with the number of the packet and is never mistaken
\* for the missing one.
LEMMA DtsOrder ==
  ASSUME NEW s \in Streams, NEW n \in Nat, NEW k \in Nat
  PROVE  /\ Dts(s, n) \in Int /\ NoPts < Dts(s, n)
         /\ n < k => Dts(s, n) < Dts(s, k)
         /\ n <= k => Dts(s, n) <= Dts(s, k)
         /\ Dts(s, k) - Dts(s, n) = (k - n) * Period(s)
<1> USE Constants
<1>1. Period(s) \in Nat \ {0} /\ Delay(s) \in Nat /\ NoPts < -(Delay(s) * Period(s))
  BY DEF Period, Delay
<1> DEFINE P == Period(s)
           D == Delay(s)
<1> HIDE DEF P, D
<1>2. P \in Nat \ {0} /\ D \in Nat /\ NoPts < -(D * P)
  BY <1>1 DEF P, D
<1>3. Dts(s, n) = (n - D) * P /\ Dts(s, k) = (k - D) * P
  BY DEF Dts, P, D
<1>4. /\ (n - D) * P \in Int
      /\ n - D < k - D => (n - D) * P < (k - D) * P
      /\ n - D <= k - D => (n - D) * P <= (k - D) * P
  BY <1>2, TimesOrder
<1>5. (k - D) * P - (n - D) * P = ((k - D) - (n - D)) * P
  BY <1>2, TimesOrder
<1>6. ((k - D) - (n - D)) = k - n
  BY <1>2
<1>7. NoPts < (n - D) * P
  <2>1. (0 - D) * P <= (n - D) * P
    BY <1>2, TimesOrder
  <2>2. (0 - D) * P = -(D * P)
    BY <1>2
  <2> QED
    BY <1>2, <1>4, <2>1, <2>2
<1> QED
  BY <1>2, <1>3, <1>4, <1>5, <1>6, <1>7 DEF P

\* A packet carries its number, and its dts is not after its pts.
LEMMA PacketShape ==
  ASSUME NEW s \in Streams, NEW n \in Nat
  PROVE  /\ DataPacket(s, n) \in Packet /\ HasData(DataPacket(s, n))
         /\ DataPacket(s, n).stream = s /\ DataPacket(s, n).frame = n
         /\ DataPacket(s, n).dts = Dts(s, n) /\ Dts(s, n) <= DataPacket(s, n).pts
         /\ DataPacket(s, n).pts # NoPts
<1> USE Constants
<1>1. CASE s = VIDEO_STREAM
  <2>1. DataPacket(s, n) = [stream |-> s, pts |-> n * VideoPeriod, dts |-> Dts(s, n),
                            size |-> 1, frame |-> n]
    BY <1>1 DEF DataPacket, VideoPacket, Dts, Delay, Period
  <2>2. Dts(s, n) <= n * VideoPeriod /\ n * VideoPeriod \in Int /\ n * VideoPeriod # NoPts
    <3>1. Dts(s, n) = (n - Reorder) * VideoPeriod
      BY <1>1 DEF Dts, Delay, Period
    <3>2. n * VideoPeriod \in Int /\ (n - Reorder) * VideoPeriod <= n * VideoPeriod
      BY TimesOrder
    <3>3. NoPts < Dts(s, n) /\ Dts(s, n) \in Int
      BY DtsOrder
    <3> QED
      BY <3>1, <3>2, <3>3
  <2> QED
    BY <2>1, <2>2, DtsOrder DEF Packet, HasData
<1>2. CASE s = AUDIO_STREAM
  <2>1. DataPacket(s, n) = [stream |-> s, pts |-> Dts(s, n), dts |-> Dts(s, n),
                            size |-> 1, frame |-> n]
    BY <1>2 DEF DataPacket, AudioPacket, Dts, Delay, Period
  <2>2. Dts(s, n) \in Int /\ NoPts < Dts(s, n)
    BY DtsOrder
  <2> QED
    BY <2>1, <2>2 DEF Packet, HasData
<1> QED
  BY <1>1, <1>2

-----------------------------------------------------------------------------
(* The inductive invariant.                                                *)

TypeInv == /\ call \in {Recorders, Proper} /\ mux \in MuxerState
           /\ made \in [Streams -> 0 .. MaxPackets]

\* A stream's cur_dts is either one that the check reads as unset, or that of a
\* packet before the next one.  Before the first packet with sound, an empty one
\* is given dts 0.
ClockInv == /\ \A s \in Streams : \/ mux.cur_dts[s] \in {0, NoPts}
                                  \/ mux.cur_dts[s] < Dts(s, made[s])
            /\ made[AUDIO_STREAM] = 0 => mux.priv_pts = 0

\* A packet with data is one the encoders have handed over.
Good(p) == HasData(p) /\ p.frame < made[p.stream] /\ p.dts = Dts(p.stream, p.frame)

\* Packets without data are never held, and only the recorder's encoders hand
\* them over; it is only video that those hand over to be held.
ElementInv ==
    /\ \A p \in ToSet(mux.packet_buffer) :
         Good(p) /\ (call = Recorders => p.stream = VIDEO_STREAM)
    /\ \A p \in ToSet(mux.file) : HasData(p) \/ call = Proper => Good(p)

\* Two packets in the order of their encoder, if they come from the same one.
InStreamOrder == {x \in Packet \X Packet :
    x[1].stream = x[2].stream /\ HasData(x[1]) /\ HasData(x[2]) => x[1].frame < x[2].frame}

\* Two packets in dts order.
InTimeOrder == {x \in Packet \X Packet : ~Before(x[2], x[1])}

StreamInv == InOrder(mux.file, mux.packet_buffer, InStreamOrder)

HeldInv == InOrder(<< >>, mux.packet_buffer, InTimeOrder)

LostInv == ~mux.error =>
    /\ \A s \in Streams : \A n \in 0 .. made[s] - 1 :
         \E p \in ToSet(mux.file) \cup ToSet(mux.packet_buffer) :
           p.stream = s /\ HasData(p) /\ p.frame = n
    /\ mux.finished => mux.packet_buffer = << >>

\* Whatever may leave the buffer has left it.
ReadyInv == ~mux.error => ~Ready(mux.packet_buffer)

\* The next packet of neither encoder belongs before one that is in the file.
TimeInv == call = Proper /\ WithinDelta =>
    /\ InOrder(mux.file, mux.packet_buffer, InTimeOrder)
    /\ ~mux.finished => \A p \in ToSet(mux.file) : \A s \in Streams :
                          ~Before(DataPacket(s, made[s]), p)

IInv == /\ TypeInv /\ ClockInv /\ ElementInv /\ StreamInv /\ HeldInv
        /\ LostInv /\ ReadyInv /\ VideoHeldBack /\ TimeInv

\* The sets of packets in the buffer and in the file.
LEMMA Elements ==
  ASSUME TypeInv
  PROVE  /\ mux.packet_buffer \in Seq(Packet) /\ mux.file \in Seq(Packet)
         /\ Len(mux.packet_buffer) \in Nat /\ Len(mux.file) \in Nat
         /\ \A i \in 1 .. Len(mux.packet_buffer) :
              mux.packet_buffer[i] \in Packet /\ mux.packet_buffer[i] \in ToSet(mux.packet_buffer)
         /\ \A i \in 1 .. Len(mux.file) :
              mux.file[i] \in Packet /\ mux.file[i] \in ToSet(mux.file)
         /\ ToSet(mux.packet_buffer) \subseteq Packet /\ ToSet(mux.file) \subseteq Packet
<1>1. mux.packet_buffer \in Seq(Packet) /\ mux.file \in Seq(Packet)
  BY DEF TypeInv, MuxerState
<1>2. Len(mux.packet_buffer) \in Nat /\ Len(mux.file) \in Nat
  BY <1>1, LenProperties
<1>3. /\ ToSet(mux.packet_buffer) = {mux.packet_buffer[i] : i \in 1 .. Len(mux.packet_buffer)}
      /\ ToSet(mux.packet_buffer) \subseteq Packet
  BY <1>1, ToSetOfSeq
<1>4. /\ ToSet(mux.file) = {mux.file[i] : i \in 1 .. Len(mux.file)}
      /\ ToSet(mux.file) \subseteq Packet
  BY <1>1, ToSetOfSeq
<1> QED
  BY <1>1, <1>2, <1>3, <1>4

-----------------------------------------------------------------------------
(* Handing over a packet with data.                                        *)

\* Where ff_interleave_add_packet puts it, the order of the encoders and that of
\* the timestamps are kept.
LEMMA Insertion ==
  ASSUME IInv, NEW s \in Streams, made[s] < MaxPackets
  PROVE  LET p == DataPacket(s, made[s])
             b == ff_interleave_add_packet(mux.packet_buffer, p)
         IN  /\ b \in Seq(Packet) /\ ToSet(b) = ToSet(mux.packet_buffer) \cup {p}
             /\ InOrder(mux.file, b, InStreamOrder)
             /\ InOrder(<< >>, b, InTimeOrder)
             /\ call = Proper /\ WithinDelta /\ ~mux.finished =>
                  InOrder(mux.file, b, InTimeOrder)
<1> DEFINE n == made[s]
           p == DataPacket(s, n)
           q == mux.packet_buffer
           b == ff_interleave_add_packet(q, p)
           k == Place(q, p)
<1> USE DEF IInv
<1>1. n \in Nat
  BY Constants DEF TypeInv
<1>2. /\ p \in Packet /\ HasData(p) /\ p.stream = s /\ p.frame = n /\ p.dts = Dts(s, n)
  BY <1>1, PacketShape
<1>3. /\ q \in Seq(Packet) /\ mux.file \in Seq(Packet)
      /\ \A i \in 1 .. Len(q) : q[i] \in Packet /\ q[i] \in ToSet(q)
      /\ \A i \in 1 .. Len(mux.file) : mux.file[i] \in Packet /\ mux.file[i] \in ToSet(mux.file)
  BY Elements
<1>4. /\ k \in 1 .. Len(q) + 1
      /\ \A j \in k .. Len(q) : q[j].stream # p.stream
  BY <1>2, <1>3, PlaceShape
<1>5. b = InsertAt(q, k, p)
  BY DEF ff_interleave_add_packet
<1>6. \A i \in 1 .. Len(q) : q[i].stream = s => q[i].frame < n /\ ~Before(p, q[i])
  <2> SUFFICES ASSUME NEW i \in 1 .. Len(q), q[i].stream = s
               PROVE  q[i].frame < n /\ ~Before(p, q[i])
    OBVIOUS
  <2>1. Good(q[i]) /\ q[i] \in Packet
    BY <1>3 DEF ElementInv
  <2>2. q[i].frame \in Nat /\ q[i].frame < n /\ q[i].dts = Dts(s, q[i].frame)
    BY <2>1 DEF Good, Packet
  <2>3. Dts(s, q[i].frame) < Dts(s, n) /\ Dts(s, q[i].frame) \in Int /\ Dts(s, n) \in Int
    BY <1>1, <2>2, DtsOrder
  <2>4. ~Before(p, q[i])
    BY <1>2, <2>2, <2>3 DEF Before
  <2> QED
    BY <2>2, <2>4
<1>7. b \in Seq(Packet) /\ ToSet(b) = ToSet(q) \cup {p}
  BY <1>2, <1>3, <1>4, <1>5, InsertAtShape, InsertAtSet
<1> HIDE DEF n, p, q, b, k
<1>8. InOrder(mux.file, b, InStreamOrder)
  <2>1. InOrder(mux.file, q, InStreamOrder)
    BY DEF StreamInv, q
  <2>2. \A i \in 1 .. Len(mux.file) : <<mux.file[i], p>> \in InStreamOrder
    <3> SUFFICES ASSUME NEW i \in 1 .. Len(mux.file), mux.file[i].stream = s, HasData(mux.file[i])
                 PROVE  mux.file[i].frame < n
      BY <1>2, <1>3 DEF InStreamOrder
    <3> QED
      BY <1>3 DEF ElementInv, Good, n
  <2>3. \A i \in 1 .. Len(q) : i < k => <<q[i], p>> \in InStreamOrder
    BY <1>2, <1>3, <1>6 DEF InStreamOrder
  <2>4. \A i \in 1 .. Len(q) : k <= i => <<p, q[i]>> \in InStreamOrder
    <3> SUFFICES ASSUME NEW i \in 1 .. Len(q), k <= i PROVE q[i].stream # p.stream
      BY <1>2, <1>3 DEF InStreamOrder
    <3>1. Len(q) \in Nat
      BY <1>3, LenProperties
    <3>2. i \in k .. Len(q)
      BY <1>4, <3>1
    <3> QED
      BY <1>4, <3>2
  <2> QED
    BY <1>2, <1>3, <1>4, <1>5, <2>1, <2>2, <2>3, <2>4, InsertInOrder
<1>9. /\ \A i \in 1 .. Len(q) : i < k => <<q[i], p>> \in InTimeOrder
      /\ \A i \in 1 .. Len(q) : k <= i => <<p, q[i]>> \in InTimeOrder
  <2>1. \A i, j \in 1 .. Len(q) : i < j => ~Before(q[j], q[i])
    BY <1>3 DEF HeldInv, InOrder, InTimeOrder, q
  <2>2. \A i \in 1 .. Len(q) : q[i].stream = p.stream => ~Before(p, q[i])
    BY <1>2, <1>6
  <2>3. /\ \A i \in 1 .. Len(q) : i < k => ~Before(p, q[i])
        /\ \A i \in 1 .. Len(q) : k <= i => ~Before(q[i], p)
    BY <1>2, <1>3, <2>1, <2>2, PlacedInOrder DEF k
  <2> QED
    BY <1>2, <1>3, <2>3 DEF InTimeOrder
<1>10. InOrder(<< >>, b, InTimeOrder)
  <2>1. << >> \in Seq(Packet) /\ Len(<< >>) = 0
    BY EmptySeq
  <2>2. InOrder(<< >>, q, InTimeOrder)
    BY DEF HeldInv, q
  <2>3. \A i \in 1 .. Len(<< >>) : <<(<< >>)[i], p>> \in InTimeOrder
    BY <2>1
  <2> HIDE DEF InTimeOrder
  <2> QED
    BY <1>2, <1>3, <1>4, <1>5, <1>9, <2>1, <2>2, <2>3, InsertInOrder
<1>11. ASSUME call = Proper, WithinDelta, ~mux.finished
       PROVE  InOrder(mux.file, b, InTimeOrder)
  <2>1. InOrder(mux.file, q, InTimeOrder) /\ \A x \in ToSet(mux.file) : ~Before(p, x)
    BY <1>11 DEF TimeInv, p, q, n
  <2>2. \A i \in 1 .. Len(mux.file) : <<mux.file[i], p>> \in InTimeOrder
    BY <1>2, <1>3, <2>1 DEF InTimeOrder
  <2> HIDE DEF InTimeOrder
  <2> QED
    BY <1>2, <1>3, <1>4, <1>5, <1>9, <2>1, <2>2, InsertInOrder
<1> QED
  BY <1>7, <1>8, <1>10, <1>11 DEF n, p, q, b

\* A packet with data is never refused: it goes into the buffer, from which some
\* packets may leave, or straight to the file.
LEMMA Handing ==
  ASSUME IInv, NEW s \in Streams, made[s] < MaxPackets, Hand(DataPacket(s, made[s]))
  PROVE  LET p == DataPacket(s, made[s])
             b == ff_interleave_add_packet(mux.packet_buffer, p)
         IN  /\ mux' \in MuxerState /\ mux'.finished = mux.finished
             /\ mux'.cur_dts = [mux.cur_dts EXCEPT ![s] = p.dts]
             /\ s = VIDEO_STREAM => mux'.priv_pts = mux.priv_pts
             /\ \/ /\ call[s] = "interleaved" /\ ReadyCount(b) \in 0 .. Len(b)
                   /\ \E t, g \in 0 .. ReadyCount(b) : Moves(mux, mux', b, ReadyCount(b), t, g)
                \/ /\ call[s] = "direct"
                   /\ mux'.packet_buffer = mux.packet_buffer
                   /\ mux'.file \in {mux.file, Append(mux.file, p)}
                   /\ ~mux'.error => ~mux.error /\ mux'.file = Append(mux.file, p)
<1> DEFINE n == made[s]
           p == DataPacket(s, n)
           b == ff_interleave_add_packet(mux.packet_buffer, p)
<1> USE DEF IInv
<1>1. n \in Nat /\ mux \in MuxerState
  BY Constants DEF TypeInv
<1>2. /\ p \in Packet /\ p.stream = s /\ p.dts = Dts(s, n) /\ Dts(s, n) <= p.pts
      /\ p.pts # NoPts /\ NoPts < Dts(s, n) /\ Dts(s, n) \in Int
  BY <1>1, PacketShape, DtsOrder
<1>3. p.dts # NoPts
  BY <1>2, Constants
<1> HIDE DEF n, p
<1>4. WithTimestamps(mux, p) = p
  BY <1>3 DEF WithTimestamps
<1>5. Accepts(mux, p)
  BY <1>2, <1>4 DEF Accepts, DtsAccepted, ClockInv, n
<1>6. s = VIDEO_STREAM => NextPts(mux, p) = mux.priv_pts
  BY <1>2, Constants DEF NextPts
<1>7. CASE call[s] = "interleaved"
  <2>1. PICK good \in Takes(Len(mux.packet_buffer) + 1) :
          mux' = av_interleaved_write_frame(mux, p, good)
    BY <1>2, <1>7 DEF Hand, n, p
  <2>2. good \in Nat
    BY Elements DEF Takes
  <2> DEFINE q == WithTimestamps(mux, p)
             r == av_interleaved_write_frame(mux, p, good)
             c == ff_interleave_add_packet(mux.packet_buffer, q)
  <2>3. /\ r \in MuxerState /\ r.finished = mux.finished
        /\ r.cur_dts = [mux.cur_dts EXCEPT ![s] = q.dts]
        /\ r.priv_pts = NextPts(mux, q)
        /\ q.dts # NoPts => /\ ReadyCount(c) \in 0 .. Len(c)
                            /\ \E t, g \in 0 .. ReadyCount(c) : Moves(mux, r, c, ReadyCount(c), t, g)
    BY <1>1, <1>2, <1>5, <2>2, InterleavedShape
  <2>4. q = p /\ c = b /\ mux' = r
    BY <1>4, <2>1
  <2> HIDE DEF q, r, c, b
  <2> QED
    BY <1>3, <1>6, <1>7, <2>3, <2>4 DEF n, p, b
<1>8. CASE call[s] = "direct"
  <2>1. PICK works \in BOOLEAN : mux' = av_write_frame(mux, p, works)
    BY <1>2, <1>8 DEF Hand, n, p
  <2>2. /\ mux' \in MuxerState /\ mux'.finished = mux.finished
        /\ mux'.cur_dts = [mux.cur_dts EXCEPT ![s] = p.dts]
        /\ mux'.priv_pts = NextPts(mux, p)
        /\ mux'.packet_buffer = mux.packet_buffer
        /\ mux'.file = mux.file \/ mux'.file = Append(mux.file, p)
        /\ ~mux'.error => ~mux.error /\ mux'.file = Append(mux.file, p)
    BY <1>1, <1>2, <1>4, <1>5, <2>1, DirectShape
  <2> QED
    BY <1>6, <1>8, <2>2 DEF n, p
<1> QED
  BY <1>2, <1>7, <1>8 DEF Hand, n, p

\* The clocks do not depend on where the packet goes.
LEMMA SendClock ==
  ASSUME IInv, NEW s \in Streams, made[s] < MaxPackets, Hand(DataPacket(s, made[s])),
         made' = [made EXCEPT ![s] = @ + 1], UNCHANGED call
  PROVE  TypeInv' /\ ClockInv'
<1> DEFINE n == made[s]
<1>1. /\ made \in [Streams -> 0 .. MaxPackets] /\ n \in Nat /\ call \in {Recorders, Proper}
      /\ mux \in MuxerState
  BY Constants DEF IInv, TypeInv
<1>2. /\ mux' \in MuxerState /\ mux'.cur_dts = [mux.cur_dts EXCEPT ![s] = Dts(s, n)]
      /\ s = VIDEO_STREAM => mux'.priv_pts = mux.priv_pts
  BY <1>1, Handing, PacketShape
<1>3. made' \in [Streams -> 0 .. MaxPackets] /\ made'[s] = n + 1
      /\ \A u \in Streams : u # s => made'[u] = made[u]
  BY <1>1, Constants
<1>4. TypeInv'
  BY <1>1, <1>2, <1>3 DEF TypeInv
<1>5. \A u \in Streams : mux'.cur_dts[u] \in {0, NoPts} \/ mux'.cur_dts[u] < Dts(u, made'[u])
  <2> SUFFICES ASSUME NEW u \in Streams
               PROVE  mux'.cur_dts[u] \in {0, NoPts} \/ mux'.cur_dts[u] < Dts(u, made'[u])
    OBVIOUS
  <2>1. mux.cur_dts \in [Streams -> Int]
    BY <1>1 DEF MuxerState
  <2>2. CASE u = s
    <3>1. Dts(s, n) < Dts(s, n + 1)
      BY <1>1, DtsOrder
    <3> QED
      BY <1>2, <1>3, <2>1, <2>2, <3>1
  <2>3. CASE u # s
    BY <1>2, <1>3, <2>1, <2>3 DEF IInv, ClockInv
  <2> QED
    BY <2>2, <2>3
<1>6. made'[AUDIO_STREAM] = 0 => mux'.priv_pts = 0
  <2>1. CASE s = AUDIO_STREAM
    BY <1>1, <1>3, <2>1
  <2>2. CASE s = VIDEO_STREAM
    BY <1>2, <1>3, <2>2, Constants DEF IInv, ClockInv
  <2> QED
    BY <2>1, <2>2, Constants
<1> QED
  BY <1>4, <1>5, <1>6 DEF ClockInv

\* What is good stays good.
LEMMA GoodGrows ==
  ASSUME TypeInv, NEW s \in Streams, made' = [made EXCEPT ![s] = @ + 1]
  PROVE  /\ \A p \in Packet : Good(p) => Good(p)'
         /\ made[s] \in Nat /\ made'[s] = made[s] + 1
         /\ \A u \in Streams : u # s => made'[u] = made[u]
         /\ \A u \in Streams : made[u] \in Nat /\ made[u] <= made'[u]
         /\ \A p \in Packet : p = DataPacket(s, made[s]) => Good(p)'
<1>1. made \in [Streams -> 0 .. MaxPackets] /\ MaxPackets \in Nat
  BY Constants DEF TypeInv
<1>2. /\ made[s] \in Nat /\ made'[s] = made[s] + 1
      /\ \A u \in Streams : u # s => made'[u] = made[u]
      /\ \A u \in Streams : made[u] \in Nat /\ made[u] <= made'[u]
  BY <1>1
<1>3. ASSUME NEW p \in Packet, Good(p) PROVE Good(p)'
  BY <1>2, <1>3 DEF Good, Packet
<1>4. ASSUME NEW p \in Packet, p = DataPacket(s, made[s]) PROVE Good(p)'
  <2>1. HasData(p) /\ p.stream = s /\ p.frame = made[s] /\ p.dts = Dts(s, made[s])
    BY <1>2, <1>4, PacketShape
  <2>2. p.frame < made'[p.stream] /\ p.dts = Dts(p.stream, p.frame)
    BY <1>2, <2>1
  <2> QED
    BY <2>1, <2>2 DEF Good
<1> QED
  BY <1>2, <1>3, <1>4

\* A packet held for interleaving.
LEMMA SendInterleaved ==
  ASSUME IInv, NEW s \in Streams, made[s] < MaxPackets, Hand(DataPacket(s, made[s])),
         call[s] = "interleaved", ~mux.finished,
         made' = [made EXCEPT ![s] = @ + 1], UNCHANGED call
  PROVE  IInv'
<1>1. /\ TypeInv /\ mux \in MuxerState /\ made[s] \in Nat
      /\ DataPacket(s, made[s]) \in Packet
      /\ ToSet(mux.file) \subseteq Packet /\ ToSet(mux.packet_buffer) \subseteq Packet
  BY Elements, PacketShape, GoodGrows DEF IInv, TypeInv
<1>0. PICK p \in Packet : p = DataPacket(s, made[s])
  BY <1>1
<1>21. PICK b \in Seq(Packet) : b = ff_interleave_add_packet(mux.packet_buffer, p)
  BY <1>0, Insertion
<1> DEFINE N == ReadyCount(b)
           B == ToSet(mux.packet_buffer)
           F == ToSet(mux.file)
           B1 == ToSet(mux'.packet_buffer)
           F1 == ToSet(mux'.file)
<1>2. TypeInv' /\ ClockInv' /\ mux' \in MuxerState
  BY SendClock DEF TypeInv
<1>3. /\ b \in Seq(Packet) /\ ToSet(b) = B \cup {p}
      /\ InOrder(mux.file, b, InStreamOrder) /\ InOrder(<< >>, b, InTimeOrder)
      /\ call = Proper /\ WithinDelta => InOrder(mux.file, b, InTimeOrder)
  BY <1>0, <1>21, Insertion
<1>4. /\ ~mux'.finished /\ N \in 0 .. Len(b)
      /\ \E t, g \in 0 .. N : Moves(mux, mux', b, N, t, g)
  BY <1>0, <1>21, Handing
<1> HIDE DEF N
<1>5. PICK t \in 0 .. N, g \in 0 .. N : Moves(mux, mux', b, N, t, g)
  BY <1>4
<1>6. /\ Good(p)' /\ \A x \in Packet : Good(x) => Good(x)'
      /\ made'[s] = made[s] + 1 /\ made[s] \in Nat /\ \A u \in Streams : made[u] \in Nat
      /\ \A u \in Streams : u # s => made'[u] = made[u]
      /\ \A u \in Streams : made[u] <= made'[u]
  BY <1>0, <1>1, GoodGrows
<1>7. /\ HasData(p) /\ p.stream = s /\ p.frame = made[s] /\ p.dts = Dts(s, made[s])
  BY <1>0, <1>1, PacketShape
<1>8. /\ F \subseteq F1 /\ F1 \subseteq F \cup ToSet(b) /\ B1 \subseteq ToSet(b)
      /\ ~mux'.error => F \cup ToSet(b) = F1 \cup B1
  BY <1>1, <1>2, <1>3, <1>4, <1>5, MovesSets
<1>9. /\ Len(mux'.file) = Len(mux.file) + t
      /\ \A i \in 1 .. Len(mux.file) : mux'.file[i] = mux.file[i]
      /\ \A i \in Len(mux.file) + 1 .. Len(mux.file) + t : mux'.file[i] = b[i - Len(mux.file)]
      /\ Len(mux'.packet_buffer) = Len(b) - g
      /\ \A j \in 1 .. Len(b) - g : mux'.packet_buffer[j] = b[g + j]
  BY <1>1, <1>2, <1>3, <1>4, <1>5, MovesShape
<1>10. /\ Len(b) \in Nat /\ Len(mux.file) \in Nat /\ t \in Nat /\ g \in Nat /\ N \in Nat
       /\ t <= g /\ g <= N /\ N <= Len(b)
  BY <1>1, <1>3, <1>4, <1>5, LenProperties DEF MuxerState, Moves
<1>17. /\ \A i \in 1 .. Len(b) : b[i] \in Packet /\ b[i] \in ToSet(b)
       /\ F1 = {mux'.file[i] : i \in 1 .. Len(mux'.file)} /\ F1 \subseteq Packet
       /\ F = {mux.file[i] : i \in 1 .. Len(mux.file)}
       /\ F \subseteq Packet /\ B \subseteq Packet
  <2>1. mux.file \in Seq(Packet) /\ mux'.file \in Seq(Packet)
    BY <1>1, <1>2 DEF MuxerState
  <2>2. ToSet(b) = {b[i] : i \in 1 .. Len(b)} /\ ToSet(b) \subseteq Packet
    BY <1>3, ToSetOfSeq
  <2>3. F1 = {mux'.file[i] : i \in 1 .. Len(mux'.file)} /\ F1 \subseteq Packet
    BY <2>1, ToSetOfSeq
  <2>4. F = {mux.file[i] : i \in 1 .. Len(mux.file)} /\ F \subseteq Packet
    BY <2>1, ToSetOfSeq
  <2>5. B \subseteq Packet
    BY <1>1
  <2>6. \A i \in 1 .. Len(b) : b[i] \in ToSet(b)
    BY <2>2
  <2>7. \A i \in 1 .. Len(b) : b[i] \in Packet
    BY <2>2, <2>6
  <2> QED
    BY <2>3, <2>4, <2>5, <2>6, <2>7
<1> HIDE DEF B, F, B1, F1
<1>11. \A x \in ToSet(b) : Good(x)' /\ (call = Recorders => x.stream = VIDEO_STREAM)
  <2>1. \A x \in B : Good(x) /\ (call = Recorders => x.stream = VIDEO_STREAM)
    BY DEF IInv, ElementInv, B
  <2>2. call = Recorders => s = VIDEO_STREAM
    BY Constants DEF Recorders
  <2> QED
    BY <1>3, <1>6, <1>7, <1>17, <2>1, <2>2
<1>12. ElementInv'
  <2>1. \A x \in F : HasData(x) \/ call = Proper => Good(x)
    BY DEF IInv, ElementInv, F
  <2>2. \A x \in B1 : Good(x)' /\ (call = Recorders => x.stream = VIDEO_STREAM)
    BY <1>8, <1>11
  <2>3. \A x \in F1 : HasData(x) \/ call = Proper => Good(x)'
    BY <1>6, <1>8, <1>11, <1>17, <2>1
  <2> QED
    BY <2>2, <2>3 DEF ElementInv, B1, F1
<1>13. StreamInv'
  BY <1>1, <1>2, <1>3, <1>4, <1>5, MovesInOrder DEF StreamInv
<1>14. HeldInv'
  <2>1. Len(<< >>) = 0
    OBVIOUS
  <2>2. \A i, j \in 1 .. Len(b) : i < j => <<b[i], b[j]>> \in InTimeOrder
    BY <1>3 DEF InOrder
  <2>3. ASSUME NEW i \in 1 .. Len(mux'.packet_buffer), NEW j \in 1 .. Len(mux'.packet_buffer), i < j
        PROVE  <<mux'.packet_buffer[i], mux'.packet_buffer[j]>> \in InTimeOrder
    <3>1. g \in Nat /\ g + i \in 1 .. Len(b) /\ g + j \in 1 .. Len(b) /\ g + i < g + j
      BY <1>9, <1>10, <2>3
    <3> QED
      BY <1>9, <2>2, <3>1
  <2> QED
    BY <2>1, <2>3 DEF HeldInv, InOrder
<1>15. LostInv'
  <2> SUFFICES ASSUME ~mux'.error, NEW u \in Streams, NEW n \in 0 .. made'[u] - 1
               PROVE  \E x \in F1 \cup B1 : x.stream = u /\ HasData(x) /\ x.frame = n
    BY <1>4 DEF LostInv, F1, B1
  <2>1. F \cup B \cup {p} = F1 \cup B1
    BY <1>3, <1>8
  <2>2. CASE u = s /\ n = made[s]
    BY <1>7, <2>1, <2>2
  <2>3. CASE ~(u = s /\ n = made[s])
    <3>1. n \in 0 .. made[u] - 1
      BY <1>6, <2>3
    <3>2. ~mux.error
      BY <1>5 DEF Moves
    <3>3. \E x \in F \cup B : x.stream = u /\ HasData(x) /\ x.frame = n
      BY <3>1, <3>2 DEF IInv, LostInv, F, B
    <3> QED
      BY <2>1, <3>3
  <2> QED
    BY <2>2, <2>3
<1>16. ReadyInv'
  <2> SUFFICES ASSUME ~mux'.error PROVE ~Ready(mux'.packet_buffer)
    BY DEF ReadyInv
  <2>1. mux'.packet_buffer = Rest(b, N)
    BY <1>5 DEF Moves
  <2> QED
    BY <1>3, <2>1, ReadyCountShape DEF N
<1>18. /\ VideoPeriod \in Nat \ {0} /\ made[VIDEO_STREAM] \in Nat /\ MaxInterleaveDelta \in Nat
       /\ VIDEO_STREAM \in Streams /\ Streams = {VIDEO_STREAM, AUDIO_STREAM}
       /\ \A u \in Streams : made'[u] \in Nat /\ made[u] <= made'[u]
       /\ \A u \in Streams : Period(u) \in Nat \ {0}
  BY <1>6, Constants DEF Period
<1>19. ASSUME NEW u \in Streams, (made'[u] - 1) * Period(u) <= MaxInterleaveDelta,
              NEW i \in 1 .. Len(b), NEW j \in 1 .. Len(b), b[i].stream = u, b[j].stream = u
       PROVE  b[i].dts - b[j].dts <= MaxInterleaveDelta
  <2>1. /\ b[i] \in Packet /\ b[j] \in Packet /\ Good(b[i])' /\ Good(b[j])'
    BY <1>11, <1>17
  <2>2. /\ b[i].frame \in Nat /\ b[j].frame \in Nat /\ b[i].frame < made'[u]
        /\ b[i].dts = Dts(u, b[i].frame) /\ b[j].dts = Dts(u, b[j].frame)
    BY <1>19, <2>1 DEF Good, Packet
  <2> DEFINE m == b[i].frame
             k == b[j].frame
  <2> HIDE DEF m, k
  <2>3. Dts(u, m) - Dts(u, k) = (m - k) * Period(u)
    BY <2>2, DtsOrder DEF m, k
  <2>4. (m - k) * Period(u) <= (made'[u] - 1) * Period(u) /\ (m - k) * Period(u) \in Int
        /\ (made'[u] - 1) * Period(u) \in Int
    <3>1. m - k \in Int /\ made'[u] - 1 \in Int /\ m - k <= made'[u] - 1
      <4> DEFINE n == made'[u]
      <4>1. n \in Nat
        BY <1>18
      <4>2. m \in Nat /\ k \in Nat /\ m < n
        BY <2>2 DEF m, k
      <4> HIDE DEF n
      <4>3. m - k \in Int /\ n - 1 \in Int /\ m - k <= n - 1
        BY <4>1, <4>2
      <4> QED
        BY <4>3 DEF n
    <3> QED
      BY <1>18, <3>1, TimesOrder
  <2> QED
    BY <1>18, <1>19, <2>2, <2>3, <2>4 DEF m, k
<1>20. VideoHeldBack'
  <2> SUFFICES ASSUME call = Recorders, (made'[VIDEO_STREAM] - 1) * VideoPeriod <= MaxInterleaveDelta
               PROVE  ~\E x \in F1 : x.stream = VIDEO_STREAM /\ HasData(x)
    BY <1>4 DEF VideoHeldBack, Shown, F1
  <2>1. (made[VIDEO_STREAM] - 1) * VideoPeriod <= MaxInterleaveDelta
    <3>1. (made[VIDEO_STREAM] - 1) * VideoPeriod <= (made'[VIDEO_STREAM] - 1) * VideoPeriod
          /\ (made[VIDEO_STREAM] - 1) * VideoPeriod \in Int
          /\ (made'[VIDEO_STREAM] - 1) * VideoPeriod \in Int
      <4> DEFINE m == made[VIDEO_STREAM] - 1
                 n == made'[VIDEO_STREAM] - 1
      <4>1. m \in Int /\ n \in Int /\ m <= n
        BY <1>18
      <4> HIDE DEF m, n
      <4>2. m * VideoPeriod <= n * VideoPeriod /\ m * VideoPeriod \in Int /\ n * VideoPeriod \in Int
        BY <1>18, <4>1, TimesOrder
      <4> QED
        BY <4>2 DEF m, n
    <3> DEFINE x == (made[VIDEO_STREAM] - 1) * VideoPeriod
               y == (made'[VIDEO_STREAM] - 1) * VideoPeriod
    <3>2. x <= y /\ x \in Int /\ y \in Int /\ y <= MaxInterleaveDelta /\ MaxInterleaveDelta \in Int
      BY <1>18, <3>1
    <3> HIDE DEF x, y
    <3>3. x <= MaxInterleaveDelta
      BY <3>2
    <3> QED
      BY <3>3 DEF x
  <2>2. ~\E x \in F : x.stream = VIDEO_STREAM /\ HasData(x)
    BY <2>1 DEF IInv, VideoHeldBack, Shown, F
  <2>3. \A i \in 1 .. Len(b) : b[i].stream = VIDEO_STREAM
    BY <1>11, <1>17
  <2>4. ~Ready(b)
    <3>1. ASSUME b # << >>, \A u \in Streams : \E i \in DOMAIN b : b[i].stream = u PROVE FALSE
      <4>1. DOMAIN b = 1 .. Len(b)
        BY <1>3
      <4>2. AUDIO_STREAM # VIDEO_STREAM
        BY Constants
      <4> QED
        BY <1>18, <2>3, <3>1, <4>1, <4>2
    <3>2. ASSUME b # << >>, NEW i \in DOMAIN b, b[i].dts - b[1].dts > MaxInterleaveDelta PROVE FALSE
      <4>1. i \in 1 .. Len(b) /\ 1 \in 1 .. Len(b)
        BY <1>3, <3>2
      <4>2. Period(VIDEO_STREAM) = VideoPeriod
        BY DEF Period
      <4>3. b[i].dts - b[1].dts <= MaxInterleaveDelta
        BY <1>18, <1>19, <2>3, <4>1, <4>2
      <4>4. b[i].dts \in Int /\ b[1].dts \in Int
        BY <1>17, <4>1 DEF Packet
      <4> DEFINE d == b[i].dts - b[1].dts
      <4>5. d \in Int /\ d <= MaxInterleaveDelta /\ d > MaxInterleaveDelta
        BY <3>2, <4>3, <4>4
      <4> HIDE DEF d
      <4> QED
        BY <4>5, Constants
    <3> QED
      BY <3>1, <3>2 DEF Ready
  <2>5. N = 0
    <3>1. Rest(b, 0) = b
      BY <1>3, RestShape, <1>10 DEF Rest
    <3>2. \A k \in 0 .. N - 1 : Ready(Rest(b, k))
      BY <1>3, ReadyCountShape DEF N
    <3> QED
      BY <1>4, <1>10, <2>4, <3>1, <3>2
  <2>6. t = 0 /\ mux'.file = mux.file \o SubSeq(b, 1, 0)
    BY <1>5, <1>10, <2>5 DEF Moves
  <2>7. F1 = F
    <3>1. Len(mux'.file) = Len(mux.file)
      BY <1>9, <1>10, <2>6
    <3> QED
      BY <1>9, <1>17, <3>1
  <2> QED
    BY <2>2, <2>7
\* A packet that may leave the buffer has one of either stream behind it, or is
\* that one.
<1>22. ASSUME call = Proper, WithinDelta'
       PROVE  /\ InOrder(mux'.file, mux'.packet_buffer, InTimeOrder)
              /\ \A x \in F1 : \A u \in Streams : \A n \in Nat :
                   n = made'[u] => ~Before(DataPacket(u, n), x)
  <2>1. WithinDelta
    <3> DEFINE m(u) == made[u] - 1
               n(u) == made'[u] - 1
    <3>1. \A u \in Streams : m(u) \in Int /\ n(u) \in Int /\ m(u) <= n(u)
      <4> SUFFICES ASSUME NEW u \in Streams
                   PROVE  m(u) \in Int /\ n(u) \in Int /\ m(u) <= n(u)
        OBVIOUS
      <4>1. made[u] \in Nat /\ made'[u] \in Nat /\ made[u] <= made'[u]
        BY <1>6, <1>18
      <4>2. ASSUME NEW x \in Nat, NEW y \in Nat, x <= y
            PROVE  x - 1 \in Int /\ y - 1 \in Int /\ x - 1 <= y - 1
        BY ONLY <4>2
      <4> QED
        BY ONLY <4>1, <4>2 DEF m, n
    <3> HIDE DEF m, n
    <3>2. ASSUME NEW u \in Streams
          PROVE  /\ m(u) * VideoPeriod <= n(u) * VideoPeriod
                 /\ m(u) * AudioPeriod <= n(u) * AudioPeriod
                 /\ m(u) * VideoPeriod \in Int /\ n(u) * VideoPeriod \in Int
                 /\ m(u) * AudioPeriod \in Int /\ n(u) * AudioPeriod \in Int
      <4>1. m(u) \in Int /\ n(u) \in Int /\ m(u) <= n(u)
        BY <3>1
      <4>2. VideoPeriod \in Nat \ {0} /\ AudioPeriod \in Nat \ {0}
        BY Constants
      <4>3. /\ m(u) * VideoPeriod <= n(u) * VideoPeriod
            /\ m(u) * VideoPeriod \in Int /\ n(u) * VideoPeriod \in Int
        BY ONLY <4>1, <4>2, TimesOrder
      <4>4. /\ m(u) * AudioPeriod <= n(u) * AudioPeriod
            /\ m(u) * AudioPeriod \in Int /\ n(u) * AudioPeriod \in Int
        BY ONLY <4>1, <4>2, TimesOrder
      <4> QED
        BY <4>3, <4>4
    <3>3. /\ n(VIDEO_STREAM) * VideoPeriod <= MaxInterleaveDelta
          /\ n(AUDIO_STREAM) * AudioPeriod <= MaxInterleaveDelta
      BY <1>22 DEF WithinDelta, n
    <3>4. /\ m(VIDEO_STREAM) * VideoPeriod <= MaxInterleaveDelta
          /\ m(AUDIO_STREAM) * AudioPeriod <= MaxInterleaveDelta
      <4>1. VIDEO_STREAM \in Streams /\ AUDIO_STREAM \in Streams /\ MaxInterleaveDelta \in Int
        BY <1>18
      <4> HIDE DEF Streams, VIDEO_STREAM, AUDIO_STREAM
      <4>2. ASSUME NEW x \in Int, NEW y \in Int, x <= y, y <= MaxInterleaveDelta
            PROVE  x <= MaxInterleaveDelta
        BY ONLY <4>1, <4>2
      <4>3. m(VIDEO_STREAM) * VideoPeriod <= MaxInterleaveDelta
        BY <3>2, <3>3, <4>1, <4>2
      <4>4. m(AUDIO_STREAM) * AudioPeriod <= MaxInterleaveDelta
        BY <3>2, <3>3, <4>1, <4>2
      <4> QED
        BY <4>3, <4>4
    <3> QED
      BY <3>4 DEF WithinDelta, m
  <2>2. InOrder(mux.file, b, InTimeOrder)
    BY <1>3, <1>22, <2>1
  <2>3. InOrder(mux'.file, mux'.packet_buffer, InTimeOrder)
    BY <1>1, <1>2, <1>4, <1>5, <2>2, MovesInOrder
  <2>4. ASSUME NEW u \in Streams PROVE (made'[u] - 1) * Period(u) <= MaxInterleaveDelta
    BY <1>22, <1>18, <2>4, Constants DEF WithinDelta, Period
  <2>9. ASSUME NEW i \in 1 .. Len(b), NEW j \in 1 .. Len(b), b[i].stream = b[j].stream
        PROVE  b[i].dts - b[j].dts <= MaxInterleaveDelta
    <3>1. PICK u \in Streams : b[i].stream = u /\ b[j].stream = u
      BY <1>17, <2>9 DEF Packet
    <3>2. (made'[u] - 1) * Period(u) <= MaxInterleaveDelta
      BY <2>4
    <3> QED
      BY <1>19, <3>1, <3>2
  <2>5. \A x \in F : \A u \in Streams : ~Before(DataPacket(u, made[u]), x)
    BY <1>22, <2>1 DEF IInv, TimeInv, F
  <2>6. ASSUME NEW u \in Streams, NEW n \in Nat, NEW k \in Nat, k < n,
               NEW x \in Packet, NEW y \in Packet, y.dts = Dts(u, k), ~Before(y, x)
        PROVE  ~Before(DataPacket(u, n), x)
    <3>1. Dts(u, k) < Dts(u, n) /\ Dts(u, n) \in Int
      BY <2>6, DtsOrder
    <3> DEFINE z == DataPacket(u, n)
    <3>2. z.dts = Dts(u, n)
      BY PacketShape
    <3>3. x.dts \in Int /\ y.dts \in Int
      BY DEF Packet
    <3> HIDE DEF z
    <3>4. ~(y.dts < x.dts)
      BY <2>6 DEF Before
    <3>5. ~(z.dts < x.dts) /\ z.dts # x.dts
      BY <2>6, <3>1, <3>2, <3>3, <3>4
    <3>6. ~Before(z, x)
      BY <3>5 DEF Before
    <3> QED
      BY <3>6 DEF z
  <2>7. ASSUME NEW k \in 1 .. t, NEW u \in Streams
        PROVE  \E j \in k .. Len(b) : b[j].stream = u
    <3> DEFINE c == Rest(b, k - 1)
    <3>1. /\ c \in Seq(Packet) /\ Len(c) = Len(b) - (k - 1)
          /\ \A j \in 1 .. Len(b) - (k - 1) : c[j] = b[k - 1 + j]
      <4>1. k - 1 \in 0 .. Len(b)
        BY <1>10
      <4> QED
        BY <4>1, RestShape
    <3>2. Ready(c)
      <4>1. k - 1 \in 0 .. N - 1
        BY <1>10
      <4> QED
        BY <4>1, ReadyCountShape DEF N
    <3> HIDE DEF c
    <3>3. DOMAIN c = 1 .. Len(c)
      BY <3>1
    <3>4. ASSUME NEW i \in DOMAIN c PROVE k - 1 + i \in k .. Len(b) /\ c[i] = b[k - 1 + i]
      <4>1. i \in 1 .. Len(b) - (k - 1) /\ k \in Nat /\ i \in Nat
        BY <1>10, <3>1, <3>3, <3>4
      <4>2. k - 1 + i \in k .. Len(b)
        BY <1>10, <4>1
      <4> QED
        BY <3>1, <4>1, <4>2
    <3>5. CASE \A v \in Streams : \E i \in DOMAIN c : c[i].stream = v
      BY <3>4, <3>5
    <3>6. ASSUME NEW i \in DOMAIN c, c[i].dts - c[1].dts > MaxInterleaveDelta
          PROVE  \E j \in k .. Len(b) : b[j].stream = u
      <4>1. /\ k \in 1 .. Len(b) /\ k - 1 + i \in 1 .. Len(b) /\ 1 \in DOMAIN c
            /\ k - 1 + i \in k .. Len(b) /\ k \in k .. Len(b)
        BY <1>10, <3>1, <3>3
      <4>2. c[i] = b[k - 1 + i] /\ c[1] = b[k]
        <5>1. k - 1 + 1 = k
          OBVIOUS
        <5> QED
          BY <3>4, <4>1, <5>1
      <4> DEFINE h == k - 1 + i
      <4> HIDE DEF h
      <4>3. /\ b[h] \in Packet /\ b[k] \in Packet /\ h \in 1 .. Len(b) /\ h \in k .. Len(b)
            /\ b[h].dts - b[k].dts > MaxInterleaveDelta
        BY <1>17, <3>6, <4>1, <4>2 DEF h
      <4>4. b[h].stream # b[k].stream
        <5> SUFFICES ASSUME b[h].stream = b[k].stream PROVE FALSE
          OBVIOUS
        <5> DEFINE d == b[h].dts - b[k].dts
        <5>2. d <= MaxInterleaveDelta
          BY <2>9, <4>1, <4>3
        <5>3. b[h].dts \in Int /\ b[k].dts \in Int
          BY <4>3 DEF Packet
        <5>4. d \in Int /\ d > MaxInterleaveDelta
          BY <4>3, <5>3
        <5> HIDE DEF d
        <5> QED
          BY <5>2, <5>4, Constants
      <4>5. b[h].stream \in Streams /\ b[k].stream \in Streams
        BY <4>3 DEF Packet
      <4>6. u = b[h].stream \/ u = b[k].stream
        BY <4>4, <4>5 DEF Streams
      <4> QED
        BY <4>1, <4>3, <4>6
    <3> QED
      BY <3>2, <3>5, <3>6 DEF Ready
  <2>8. ASSUME NEW x \in F1, NEW u \in Streams, NEW n \in Nat, n = made'[u]
        PROVE  ~Before(DataPacket(u, n), x)
    <3>1. x \in Packet
      BY <1>17
    <3>2. CASE x \in F /\ u # s
      BY <1>6, <2>5, <2>8, <3>2
    <3>3. CASE x \in F /\ u = s
      <4>1. ~Before(p, x)
        BY <1>0, <2>5, <3>3
      <4>2. made[s] < n
        BY <1>6, <2>8, <3>3
      <4> QED
        BY <1>6, <1>7, <2>6, <3>1, <3>3, <4>1, <4>2
    <3>4. CASE x \notin F
      <4>1. PICK i \in 1 .. Len(mux'.file) : x = mux'.file[i]
        BY <1>17, <2>8
      <4> DEFINE l == Len(mux.file)
                 k == i - l
      <4>9. i \in 1 .. l + t /\ l \in Nat
        BY <1>9, <1>10, <4>1
      <4>2. ~(i \in 1 .. l)
        BY <1>9, <1>17, <3>4, <4>1
      <4> HIDE DEF l
      <4>10. k \in 1 .. t /\ k \in 1 .. Len(b) /\ i \in l + 1 .. l + t
        BY <1>10, <4>2, <4>9
      <4> HIDE DEF k
      <4>3. k \in 1 .. t /\ k \in 1 .. Len(b) /\ x = b[k]
        BY <1>9, <4>1, <4>10 DEF k, l
      <4>4. PICK j \in k .. Len(b) : b[j].stream = u
        BY <2>7, <4>3
      <4>5. j \in 1 .. Len(b) /\ (k < j \/ k = j)
        BY <1>10, <4>3, <4>4
      <4>6. b[j] \in Packet /\ b[j] \in ToSet(b)
        BY <1>17, <4>5
      <4>7. ~Before(b[j], x)
        <5>1. CASE k < j
          BY <2>2, <4>3, <4>5, <5>1 DEF InOrder, InTimeOrder
        <5>2. CASE k = j
          <6>1. x.dts \in Int /\ x.stream \in Int
            BY <3>1, Constants DEF Packet
          <6> QED
            BY <4>3, <5>2, <6>1 DEF Before
        <5> QED
          BY <4>5, <5>1, <5>2
      <4>8. b[j].frame \in Nat /\ b[j].frame < n /\ b[j].dts = Dts(u, b[j].frame)
        BY <1>11, <2>8, <4>4, <4>6 DEF Good, Packet
      <4> QED
        BY <2>6, <3>1, <4>6, <4>7, <4>8
    <3> QED
      BY <3>2, <3>3, <3>4
  <2> QED
    BY <2>3, <2>8
<1>23. TimeInv'
  <2>1. \A u \in Streams : made'[u] \in Nat
    BY <1>18
  <2> QED
    BY <1>22, <2>1 DEF TimeInv, F1
<1> QED
  BY <1>2, <1>12, <1>13, <1>14, <1>15, <1>16, <1>20, <1>23 DEF IInv

\* To append is to insert at the end.
LEMMA AppendedAtEnd ==
  ASSUME NEW f \in Seq(Packet), NEW p \in Packet
  PROVE  Append(f, p) = InsertAt(f, Len(f) + 1, p)
<1> DEFINE r == InsertAt(f, Len(f) + 1, p)
<1>1. Len(f) \in Nat /\ Len(f) + 1 \in 1 .. Len(f) + 1
  BY LenProperties
<1>2. /\ r \in Seq(Packet) /\ Len(r) = Len(f) + 1
      /\ \A k \in 1 .. Len(f) + 1 : r[k] = IF k < Len(f) + 1 THEN f[k] ELSE IF k = Len(f) + 1 THEN p ELSE f[k - 1]
  BY <1>1, InsertAtShape
<1>3. /\ Append(f, p) \in Seq(Packet) /\ Len(Append(f, p)) = Len(f) + 1
      /\ \A i \in 1 .. Len(f) : Append(f, p)[i] = f[i]
      /\ Append(f, p)[Len(f) + 1] = p
  BY AppendProperties
<1> DEFINE a == Append(f, p)
<1> HIDE DEF r, a
<1>4. \A k \in 1 .. Len(f) + 1 : a[k] = r[k]
  <2> SUFFICES ASSUME NEW k \in 1 .. Len(f) + 1 PROVE a[k] = r[k]
    OBVIOUS
  <2>1. CASE k = Len(f) + 1
    BY <1>1, <1>2, <1>3, <2>1 DEF a
  <2>2. CASE k # Len(f) + 1
    <3>1. k \in 1 .. Len(f) /\ k < Len(f) + 1
      BY <1>1, <2>2
    <3> QED
      BY <1>2, <1>3, <3>1 DEF a
  <2> QED
    BY <2>1, <2>2
<1>5. a = r
  BY <1>1, <1>2, <1>3, <1>4, SeqEqual DEF a
<1> QED
  BY <1>5 DEF a, r

\* A packet with sound that goes straight to the file: what is held is video.
LEMMA SendDirect ==
  ASSUME IInv, NEW s \in Streams, made[s] < MaxPackets, Hand(DataPacket(s, made[s])),
         call[s] = "direct", ~mux.finished,
         made' = [made EXCEPT ![s] = @ + 1], UNCHANGED call
  PROVE  IInv'
<1> DEFINE q == mux.packet_buffer
           f == mux.file
           F == ToSet(f)
           F1 == ToSet(mux'.file)
<1>1. /\ TypeInv /\ made[s] \in Nat /\ DataPacket(s, made[s]) \in Packet
      /\ f \in Seq(Packet) /\ q \in Seq(Packet) /\ F \subseteq Packet
      /\ ToSet(q) \subseteq Packet /\ Len(q) \in Nat
      /\ \A i \in 1 .. Len(q) : q[i] \in Packet /\ q[i] \in ToSet(q)
      /\ \A i \in 1 .. Len(f) : f[i] \in Packet /\ f[i] \in F
  BY Elements, PacketShape, GoodGrows DEF IInv
<1>2. PICK p \in Packet : p = DataPacket(s, made[s])
  BY <1>1
<1>3. TypeInv' /\ ClockInv'
  BY SendClock
<1>4. call = Recorders /\ s = AUDIO_STREAM /\ call # Proper
  BY Constants DEF IInv, TypeInv, Recorders, Proper
<1>5. /\ mux'.finished = mux.finished /\ mux'.packet_buffer = q
      /\ mux'.file \in {f, Append(f, p)}
      /\ ~mux'.error => ~mux.error /\ mux'.file = Append(f, p)
  BY <1>2, Handing
<1>6. /\ Good(p)' /\ \A x \in Packet : Good(x) => Good(x)'
      /\ made'[s] = made[s] + 1 /\ \A u \in Streams : u # s => made'[u] = made[u]
      /\ \A u \in Streams : made[u] \in Nat
  BY <1>1, <1>2, GoodGrows
<1>7. HasData(p) /\ p.stream = s /\ p.frame = made[s]
  BY <1>1, <1>2, PacketShape
<1>8. ToSet(Append(f, p)) = F \cup {p}
  <2>1. Append(f, p) = InsertAt(f, Len(f) + 1, p) /\ Len(f) + 1 \in 1 .. Len(f) + 1
    BY <1>1, AppendedAtEnd, LenProperties
  <2> HIDE DEF f
  <2> QED
    BY <1>1, <2>1, InsertAtSet
<1>9. F1 \in {F, F \cup {p}} /\ (~mux'.error => F1 = F \cup {p}) /\ F1 \subseteq Packet
  BY <1>1, <1>5, <1>8
<1> HIDE DEF q, f, F, F1
<1>10. ElementInv'
  <2>1. \A x \in ToSet(q) : Good(x) /\ x.stream = VIDEO_STREAM
    BY <1>4 DEF IInv, ElementInv, q
  <2>2. \A x \in F : HasData(x) => Good(x)
    BY DEF IInv, ElementInv, F, f
  <2>3. \A x \in ToSet(q) : Good(x)' /\ x.stream = VIDEO_STREAM
    BY <1>1, <1>6, <2>1
  <2>4. \A x \in F1 : HasData(x) => Good(x)'
    BY <1>1, <1>6, <1>9, <2>2
  <2>5. call' = call
    OBVIOUS
  <2> QED
    BY <1>4, <1>5, <2>3, <2>4, <2>5 DEF ElementInv, F1
<1>11. StreamInv'
  <2>1. InOrder(f, q, InStreamOrder)
    BY DEF IInv, StreamInv, f, q
  <2>2. \A i \in 1 .. Len(f) : <<f[i], p>> \in InStreamOrder
    <3> SUFFICES ASSUME NEW i \in 1 .. Len(f), f[i].stream = s, HasData(f[i])
                 PROVE  f[i].frame < made[s]
      BY <1>1, <1>7 DEF InStreamOrder
    <3> QED
      BY <1>1 DEF IInv, ElementInv, Good, f, F
  <2>3. \A i \in 1 .. Len(q) : <<p, q[i]>> \in InStreamOrder
    <3> SUFFICES ASSUME NEW i \in 1 .. Len(q) PROVE q[i].stream # s
      BY <1>1, <1>7 DEF InStreamOrder
    <3>1. q[i].stream = VIDEO_STREAM
      BY <1>1, <1>4 DEF IInv, ElementInv, q
    <3> QED
      BY <1>4, <3>1, Constants
  <2>4. InOrder(Append(f, p), q, InStreamOrder)
    BY <1>1, <2>1, <2>2, <2>3, AppendInOrder
  <2> QED
    BY <1>5, <2>1, <2>4 DEF StreamInv
<1>12. HeldInv' /\ ReadyInv'
  BY <1>5 DEF IInv, HeldInv, ReadyInv, q
<1>13. LostInv'
  <2> SUFFICES ASSUME ~mux'.error, NEW u \in Streams, NEW n \in 0 .. made'[u] - 1
               PROVE  \E x \in F1 \cup ToSet(q) : x.stream = u /\ HasData(x) /\ x.frame = n
    BY <1>5 DEF LostInv, F1
  <2>1. CASE u = s /\ n = made[s]
    BY <1>7, <1>9, <2>1
  <2>2. CASE ~(u = s /\ n = made[s])
    <3>1. n \in 0 .. made[u] - 1
      BY <1>6, <2>2
    <3>2. \E x \in F \cup ToSet(q) : x.stream = u /\ HasData(x) /\ x.frame = n
      BY <1>5, <3>1 DEF IInv, LostInv, F, f, q
    <3> QED
      BY <1>9, <3>2
  <2> QED
    BY <2>1, <2>2
<1>14. VideoHeldBack'
  <2>1. made'[VIDEO_STREAM] = made[VIDEO_STREAM] /\ p.stream # VIDEO_STREAM
    BY <1>4, <1>6, <1>7, Constants
  <2>2. Shown(f, VIDEO_STREAM) = {} => Shown(mux'.file, VIDEO_STREAM) = {}
    BY <1>9, <2>1 DEF Shown, F, F1
  <2> QED
    BY <1>5, <2>1, <2>2 DEF IInv, VideoHeldBack, f
<1>15. TimeInv'
  BY <1>4 DEF TimeInv
<1> QED
  BY <1>3, <1>10, <1>11, <1>12, <1>13, <1>14, <1>15 DEF IInv

-----------------------------------------------------------------------------
(* The other steps.                                                        *)

\* An empty packet from the video encoder only unsets the clock of its stream;
\* one from the audio encoder may get into the file, which shows nothing of it.
LEMMA EmptyStep ==
  ASSUME IInv, NEW s \in Streams, SendEmpty(s)
  PROVE  IInv'
<1> USE DEF SendEmpty
<1>1. /\ TypeInv /\ mux \in MuxerState /\ mux.file \in Seq(Packet)
      /\ mux.packet_buffer \in Seq(Packet) /\ made \in [Streams -> 0 .. MaxPackets]
  BY Elements DEF IInv, TypeInv
<1>2. EmptyPacket(s) \in Packet /\ ~HasData(EmptyPacket(s)) /\ EmptyPacket(s).stream = s
      /\ EmptyPacket(s).dts = NoPts /\ EmptyPacket(s).pts = NoPts
  BY Constants DEF EmptyPacket, Packet, HasData
<1>3. UNCHANGED <<call, made>> /\ call = Recorders /\ call # Proper /\ ~mux.finished
  BY Constants DEF Recorders, Proper
<1>4. PICK p \in Packet : p = EmptyPacket(s)
  BY <1>2
<1>5. ~HasData(p) /\ p.stream = s /\ p.dts = NoPts /\ p.pts = NoPts
  BY <1>2, <1>4
<1>6. /\ mux' \in MuxerState /\ mux'.finished = mux.finished
      /\ mux'.packet_buffer = mux.packet_buffer
      /\ mux'.file = mux.file \/ \E x \in Packet : ~HasData(x) /\ mux'.file = Append(mux.file, x)
      /\ ~mux'.error => ~mux.error
      /\ \A u \in Streams : mux'.cur_dts[u] \in {0, NoPts} \/ mux'.cur_dts[u] = mux.cur_dts[u]
      /\ made[AUDIO_STREAM] = 0 => mux'.priv_pts = 0
  <2> DEFINE q == WithTimestamps(mux, p)
  <2>1. /\ q \in Packet /\ q.stream = s /\ q.size = p.size
        /\ s = VIDEO_STREAM => q = p
    BY <1>1, <1>4, <1>5, AdvanceShape
  <2>2. ~HasData(q)
    BY <1>5, <2>1 DEF HasData
  <2>3. mux.cur_dts \in [Streams -> Int]
    BY <1>1 DEF MuxerState
  <2>4. CASE s = VIDEO_STREAM
    <3>1. call[p.stream] = "interleaved"
      BY <1>3, <1>5, <2>4, Constants DEF Recorders
    <3>2. Hand(p)
      BY <1>4
    <3>3. PICK good \in Takes(Len(mux.packet_buffer) + 1) :
            mux' = av_interleaved_write_frame(mux, p, good)
      BY <3>1, <3>2 DEF Hand
    <3>4. good \in Nat
      BY <1>1, LenProperties DEF Takes
    <3> DEFINE r == av_interleaved_write_frame(mux, p, good)
    <3>50. mux \in MuxerState /\ p \in Packet
      BY <1>1
    <3>5. /\ r \in MuxerState /\ r.finished = mux.finished
          /\ ~Accepts(mux, p) => r = mux
          /\ Accepts(mux, p) => r.cur_dts = [mux.cur_dts EXCEPT ![p.stream] = q.dts]
          /\ Accepts(mux, p) => r.priv_pts = NextPts(mux, q)
          /\ ~Accepts(mux, p) \/ q.dts = NoPts =>
               r.file = mux.file /\ r.packet_buffer = mux.packet_buffer /\ r.error = mux.error
      BY ONLY <3>50, <3>4, InterleavedShape
    <3> HIDE DEF r, q
    <3>6. q.dts = NoPts
      BY <1>5, <2>1, <2>4
    <3>7. NextPts(mux, q) = mux.priv_pts
      BY <2>1, <2>4, Constants DEF NextPts
    <3>8. \A u \in Streams : r.cur_dts[u] \in {0, NoPts} \/ r.cur_dts[u] = mux.cur_dts[u]
      BY <1>5, <2>3, <3>5, <3>6
    <3>9. r.priv_pts = mux.priv_pts
      BY <3>5, <3>7
    <3>10. mux' = r
      BY <3>3 DEF r
    <3> QED
      BY <3>5, <3>6, <3>8, <3>9, <3>10 DEF IInv, ClockInv
  <2>5. CASE s = AUDIO_STREAM
    <3>1. call[p.stream] = "direct" /\ made[AUDIO_STREAM] = 0 /\ mux.priv_pts = 0
      BY <1>3, <1>5, <2>5, Constants DEF Recorders, IInv, ClockInv
    <3>2. Hand(p)
      BY <1>4
    <3>3. PICK works \in BOOLEAN : mux' = av_write_frame(mux, p, works)
      BY <3>1, <3>2 DEF Hand
    <3> DEFINE r == av_write_frame(mux, p, works)
    <3>5. /\ r \in MuxerState /\ r.finished = mux.finished
          /\ r.packet_buffer = mux.packet_buffer
          /\ ~Accepts(mux, p) => r = mux
          /\ Accepts(mux, p) => r.cur_dts = [mux.cur_dts EXCEPT ![p.stream] = q.dts]
          /\ Accepts(mux, p) => r.priv_pts = NextPts(mux, q)
          /\ r.file = mux.file \/ (Accepts(mux, p) /\ r.file = Append(mux.file, q))
          /\ ~r.error /\ Accepts(mux, p) => ~mux.error /\ r.file = Append(mux.file, q)
      BY <1>1, DirectShape
    <3>6. q.dts = 0
      BY <1>5, <2>5, <3>1 DEF WithTimestamps
    <3> HIDE DEF r, q
    <3>7. NextPts(mux, q) = 0
      BY <2>1, <2>2, <2>5, <3>6, Constants DEF NextPts, HasData, Packet
    <3>8. \A u \in Streams : r.cur_dts[u] \in {0, NoPts} \/ r.cur_dts[u] = mux.cur_dts[u]
      BY <1>5, <2>3, <3>5, <3>6
    <3>9. r.priv_pts = 0
      BY <3>1, <3>5, <3>7
    <3>10. mux' = r
      BY <3>3 DEF r
    <3>11. ~r.error => ~mux.error
      BY <3>5
    <3> QED
      BY <2>1, <2>2, <3>5, <3>8, <3>9, <3>10, <3>11
  <2> QED
    BY <2>4, <2>5, Constants
<1>7. ToSet(mux.file) \subseteq ToSet(mux'.file)
      /\ \A x \in ToSet(mux'.file) : x \in ToSet(mux.file) \/ ~HasData(x)
  <2>1. CASE mux'.file = mux.file
    BY <2>1
  <2>2. ASSUME NEW x \in Packet, ~HasData(x), mux'.file = Append(mux.file, x)
        PROVE  ToSet(mux'.file) = ToSet(mux.file) \cup {x}
    <3>1. /\ Append(mux.file, x) = InsertAt(mux.file, Len(mux.file) + 1, x)
          /\ Len(mux.file) + 1 \in 1 .. Len(mux.file) + 1
      BY <1>1, AppendedAtEnd, LenProperties
    <3>2. mux.file \in Seq(Packet)
      BY <1>1
    <3>3. ToSet(InsertAt(mux.file, Len(mux.file) + 1, x)) = ToSet(mux.file) \cup {x}
      BY <2>2, <3>1, <3>2, InsertAtSet
    <3> QED
      BY <2>2, <3>1, <3>3
  <2> QED
    BY <1>6, <2>1, <2>2
<1>8. TypeInv' /\ ClockInv'
  BY <1>1, <1>3, <1>6 DEF TypeInv, IInv, ClockInv
<1>9. ElementInv'
  BY <1>3, <1>6, <1>7 DEF IInv, ElementInv, Good
<1>10. StreamInv'
  <2>1. InOrder(mux.file, mux.packet_buffer, InStreamOrder)
    BY DEF IInv, StreamInv
  <2>2. ASSUME NEW x \in Packet, ~HasData(x)
        PROVE  InOrder(Append(mux.file, x), mux.packet_buffer, InStreamOrder)
    <3>1. /\ \A i \in 1 .. Len(mux.file) : mux.file[i] \in Packet
          /\ \A i \in 1 .. Len(mux.packet_buffer) : mux.packet_buffer[i] \in Packet
      BY <1>1, Elements
    <3>2. /\ \A i \in 1 .. Len(mux.file) : <<mux.file[i], x>> \in InStreamOrder
          /\ \A i \in 1 .. Len(mux.packet_buffer) : <<x, mux.packet_buffer[i]>> \in InStreamOrder
      BY <2>2, <3>1 DEF InStreamOrder
    <3> QED
      BY <1>1, <2>1, <3>2, AppendInOrder
  <2>3. InOrder(mux'.file, mux.packet_buffer, InStreamOrder)
    BY <1>6, <2>1, <2>2
  <2> QED
    BY <1>6, <2>3 DEF StreamInv
<1>11. HeldInv' /\ ReadyInv'
  BY <1>6 DEF IInv, HeldInv, ReadyInv
<1>12. LostInv'
  BY <1>3, <1>6, <1>7 DEF IInv, LostInv
<1>13. VideoHeldBack'
  <2>1. Shown(mux.file, VIDEO_STREAM) = {} => Shown(mux'.file, VIDEO_STREAM) = {}
    BY <1>7 DEF Shown
  <2> QED
    BY <1>3, <1>6, <2>1 DEF IInv, VideoHeldBack
<1>14. TimeInv'
  BY <1>3 DEF TimeInv
<1> QED
  BY <1>8, <1>9, <1>10, <1>11, <1>12, <1>13, <1>14 DEF IInv

\* The trailer moves what is held to the file, as far as the device goes.
LEMMA TrailerStep == IInv /\ WriteTrailer => IInv'
<1> SUFFICES ASSUME IInv, WriteTrailer PROVE IInv'
  OBVIOUS
<1> DEFINE b == mux.packet_buffer
           B == ToSet(b)
           F == ToSet(mux.file)
           B1 == ToSet(mux'.packet_buffer)
           F1 == ToSet(mux'.file)
<1>1. TypeInv /\ mux \in MuxerState /\ b \in Seq(Packet) /\ Len(b) \in Nat
  BY Elements DEF IInv, TypeInv
<1>2. PICK good \in Takes(Len(b)) : mux' = av_write_trailer(mux, good)
  BY DEF WriteTrailer
<1>3. good \in Nat
  BY <1>1 DEF Takes
<1>4. /\ mux' \in MuxerState /\ mux'.finished /\ mux'.cur_dts = mux.cur_dts
      /\ mux'.priv_pts = mux.priv_pts
      /\ \E t, g \in 0 .. Len(b) : Moves(mux, mux', b, Len(b), t, g)
  BY <1>1, <1>2, <1>3, TrailerShape
<1>5. PICK t \in 0 .. Len(b), g \in 0 .. Len(b) : Moves(mux, mux', b, Len(b), t, g)
  BY <1>4
<1>6. UNCHANGED <<call, made>>
  BY DEF WriteTrailer
<1>7. Len(b) \in 0 .. Len(b)
  BY <1>1
<1> HIDE DEF b
<1>8. /\ F \subseteq F1 /\ F1 \subseteq F \cup B /\ B1 \subseteq B
      /\ ~mux'.error => F \cup B = F1 \cup B1
  BY <1>1, <1>4, <1>5, <1>7, MovesSets
<1>9. /\ Len(mux'.packet_buffer) = Len(b) - g
      /\ \A j \in 1 .. Len(b) - g : mux'.packet_buffer[j] = b[g + j]
  <2>1. PICK n \in 0 .. Len(b) : n = Len(b)
    BY <1>7
  <2>2. mux \in MuxerState /\ mux' \in MuxerState /\ b \in Seq(Packet)
    BY <1>1, <1>4
  <2>3. t \in 0 .. n /\ g \in 0 .. n /\ Moves(mux, mux', b, n, t, g)
    BY <1>5, <2>1
  <2> QED
    BY <2>2, <2>3, MovesShape
<1>10. ~mux'.error => mux'.packet_buffer = << >> /\ ~mux.error
  <2> SUFFICES ASSUME ~mux'.error PROVE mux'.packet_buffer = << >> /\ ~mux.error
    OBVIOUS
  <2>1. g = Len(b) /\ ~mux.error
    BY <1>5 DEF Moves
  <2>2. Len(mux'.packet_buffer) = 0 /\ mux'.packet_buffer \in Seq(Packet)
    BY <1>1, <1>4, <1>9, <2>1 DEF MuxerState
  <2> QED
    BY <2>1, <2>2, EmptySeq
<1> HIDE DEF B, F, B1, F1
<1>11. TypeInv' /\ ClockInv'
  BY <1>1, <1>4, <1>6 DEF TypeInv, IInv, ClockInv
<1>12. ElementInv'
  <2>1. \A x \in B : Good(x) /\ (call = Recorders => x.stream = VIDEO_STREAM)
    BY DEF IInv, ElementInv, B, b
  <2>2. \A x \in F : HasData(x) \/ call = Proper => Good(x)
    BY DEF IInv, ElementInv, F
  <2>3. \A x : Good(x) => Good(x)'
    BY <1>6 DEF Good
  <2>4. \A x \in B1 : Good(x)' /\ (call = Recorders => x.stream = VIDEO_STREAM)
    BY <1>8, <2>1, <2>3
  <2>5. \A x \in F1 : HasData(x) \/ call = Proper => Good(x)'
    BY <1>8, <2>1, <2>2, <2>3
  <2> QED
    BY <1>6, <2>4, <2>5 DEF ElementInv, B1, F1
<1>13. StreamInv'
  <2>1. InOrder(mux.file, b, InStreamOrder)
    BY DEF IInv, StreamInv, b
  <2> QED
    BY <1>1, <1>4, <1>5, <1>7, <2>1, MovesInOrder DEF StreamInv
<1>14. HeldInv'
  <2>1. Len(<< >>) = 0
    OBVIOUS
  <2>2. \A i, j \in 1 .. Len(b) : i < j => <<b[i], b[j]>> \in InTimeOrder
    BY DEF IInv, HeldInv, InOrder, b
  <2>3. ASSUME NEW i \in 1 .. Len(mux'.packet_buffer), NEW j \in 1 .. Len(mux'.packet_buffer), i < j
        PROVE  <<mux'.packet_buffer[i], mux'.packet_buffer[j]>> \in InTimeOrder
    <3>1. g \in Nat /\ g + i \in 1 .. Len(b) /\ g + j \in 1 .. Len(b) /\ g + i < g + j
      BY <1>1, <1>9, <2>3
    <3> QED
      BY <1>9, <2>2, <3>1
  <2> QED
    BY <2>1, <2>3 DEF HeldInv, InOrder
<1>15. LostInv'
  <2> SUFFICES ASSUME ~mux'.error, NEW u \in Streams, NEW n \in 0 .. made[u] - 1
               PROVE  \E x \in F1 \cup B1 : x.stream = u /\ HasData(x) /\ x.frame = n
    BY <1>6, <1>10 DEF LostInv, F1, B1
  <2>1. \E x \in F \cup B : x.stream = u /\ HasData(x) /\ x.frame = n
    BY <1>10 DEF IInv, LostInv, F, B, b
  <2> QED
    BY <1>8, <2>1
<1>16. ReadyInv'
  <2>1. ~Ready(<< >>)
    BY DEF Ready
  <2> QED
    BY <1>10, <2>1 DEF ReadyInv
<1>17. VideoHeldBack'
  <2>1. mux'.finished
    BY <1>4
  <2> QED
    BY <2>1 DEF VideoHeldBack
<1>18. TimeInv'
  <2> SUFFICES ASSUME call = Proper, WithinDelta
               PROVE  InOrder(mux'.file, mux'.packet_buffer, InTimeOrder)
    BY <1>4, <1>6 DEF TimeInv, WithinDelta
  <2>1. InOrder(mux.file, b, InTimeOrder)
    BY DEF IInv, TimeInv, b
  <2> QED
    BY <1>1, <1>4, <1>5, <1>7, <2>1, MovesInOrder
<1> QED
  BY <1>11, <1>12, <1>13, <1>14, <1>15, <1>16, <1>17, <1>18 DEF IInv

\* Nothing has been handed over at first.
LEMMA InitIInv == Init => IInv
<1> SUFFICES ASSUME Init PROVE IInv
  OBVIOUS
<1> USE Constants DEF Init
<1>1. /\ mux.packet_buffer = << >> /\ mux.file = << >> /\ mux.priv_pts = 0
      /\ mux.error = FALSE /\ mux.finished = FALSE
      /\ mux.cur_dts = [s \in Streams |-> NoPts] /\ mux \in MuxerState
  BY DEF NewMuxer, MuxerState
<1>2. ToSet(<< >>) = {} /\ Len(<< >>) = 0
  BY DEF ToSet
<1>3. ~Ready(<< >>)
  BY DEF Ready
<1>4. TypeInv /\ ClockInv
  BY <1>1 DEF TypeInv, ClockInv
<1>5. ElementInv /\ StreamInv /\ HeldInv
  BY <1>1, <1>2 DEF ElementInv, StreamInv, HeldInv, InOrder
<1>6. LostInv /\ ReadyInv
  BY <1>1, <1>3 DEF LostInv, ReadyInv
<1>7. VideoHeldBack /\ TimeInv
  BY <1>1, <1>2 DEF VideoHeldBack, Shown, TimeInv, InOrder
<1> QED
  BY <1>4, <1>5, <1>6, <1>7 DEF IInv

\* Every step of the encoders and of the recorder preserves it.
LEMMA NextIInv == IInv /\ [Next]_muxVars => IInv'
<1> SUFFICES ASSUME IInv, [Next]_muxVars PROVE IInv'
  OBVIOUS
<1>1. ASSUME NEW s \in Streams, ~mux.finished, made[s] < MaxPackets,
             Hand(DataPacket(s, made[s])), made' = [made EXCEPT ![s] = @ + 1], UNCHANGED call
      PROVE  IInv'
  <2>1. call[s] \in {"interleaved", "direct"}
    BY DEF IInv, TypeInv, Recorders, Proper
  <2> QED
    BY <1>1, <2>1, SendInterleaved, SendDirect
<1>2. CASE SendVideo
  <2>1. DataPacket(VIDEO_STREAM, made[VIDEO_STREAM]) = VideoPacket(made[VIDEO_STREAM])
        /\ VIDEO_STREAM \in Streams
    BY DEF DataPacket, Streams
  <2> QED
    BY <1>1, <1>2, <2>1 DEF SendVideo
<1>3. CASE SendAudio
  <2>1. DataPacket(AUDIO_STREAM, made[AUDIO_STREAM]) = AudioPacket(made[AUDIO_STREAM])
        /\ AUDIO_STREAM \in Streams
    BY Constants DEF DataPacket
  <2> QED
    BY <1>1, <1>3, <2>1 DEF SendAudio
<1>4. CASE UNCHANGED muxVars
  BY <1>4 DEF muxVars, IInv, TypeInv, ClockInv, ElementInv, Good, StreamInv, HeldInv, LostInv,
              ReadyInv, VideoHeldBack, TimeInv, WithinDelta
<1> QED
  BY <1>2, <1>3, <1>4, EmptyStep, TrailerStep DEF Next

\* The invariant holds in every reachable state.
LEMMA Inductive == Spec => []IInv
  BY InitIInv, NextIInv, PTL DEF Spec

-----------------------------------------------------------------------------
\* The context keeps its type, and a packet without a dts is never held.
THEOREM TypeCorrect == Spec => []TypeOK
<1>1. IInv => TypeOK
  <2> SUFFICES ASSUME IInv, NEW i \in DOMAIN mux.packet_buffer
               PROVE  mux.packet_buffer[i].dts # NoPts
    BY DEF IInv, TypeInv, TypeOK
  <2> DEFINE p == mux.packet_buffer[i]
  <2>1. p \in Packet /\ Good(p)
    BY Elements DEF IInv, ElementInv
  <2> HIDE DEF p
  <2>2. p.dts = Dts(p.stream, p.frame) /\ p.stream \in Streams /\ p.frame \in Nat
    BY <2>1 DEF Good, Packet
  <2>3. NoPts < p.dts /\ p.dts \in Int
    BY <2>2, DtsOrder
  <2> QED
    BY <2>3, Constants DEF p
<1> QED
  BY <1>1, Inductive, PTL

\* ff_interleave_add_packet keeps what is held in dts order, however the two
\* encoders alternate.
THEOREM HeldSorted == Spec => []HeldInOrder
<1>1. IInv => HeldInOrder
  <2> SUFFICES ASSUME IInv PROVE HeldInOrder
    OBVIOUS
  <2>1. DOMAIN mux.packet_buffer = 1 .. Len(mux.packet_buffer)
    BY Elements DEF IInv
  <2> QED
    BY <2>1 DEF IInv, HeldInv, InOrder, InTimeOrder, HeldInOrder, Sorted
<1> QED
  BY <1>1, Inductive, PTL

\* In the file the packets of a stream come in the order of their encoder, even
\* across the gaps in the check of dts and the failures of the device.
THEOREM StreamsKept == Spec => []StreamsInOrder
<1>1. IInv => StreamsInOrder
  <2> SUFFICES ASSUME IInv, NEW i \in DOMAIN mux.file, NEW j \in DOMAIN mux.file, i < j,
                      mux.file[i].stream = mux.file[j].stream,
                      HasData(mux.file[i]), HasData(mux.file[j])
               PROVE  mux.file[i].frame < mux.file[j].frame /\ mux.file[i].dts < mux.file[j].dts
    BY DEF StreamsInOrder
  <2> DEFINE p == mux.file[i]
             q == mux.file[j]
  <2>1. i \in 1 .. Len(mux.file) /\ j \in 1 .. Len(mux.file)
    BY Elements DEF IInv
  <2>2. p \in Packet /\ q \in Packet /\ Good(p) /\ Good(q)
    BY <2>1, Elements DEF IInv, ElementInv
  <2>3. p.frame < q.frame
    BY <2>1 DEF IInv, StreamInv, InOrder, InStreamOrder
  <2>4. p.stream = q.stream
    OBVIOUS
  <2> HIDE DEF p, q
  <2>5. /\ p.stream \in Streams /\ p.frame \in Nat /\ q.frame \in Nat
        /\ p.dts = Dts(p.stream, p.frame) /\ q.dts = Dts(p.stream, q.frame)
    BY <2>2, <2>4 DEF Good, Packet
  <2>6. p.dts < q.dts
    BY <2>3, <2>5, DtsOrder
  <2> QED
    BY <2>3, <2>6 DEF p, q
<1> QED
  BY <1>1, Inductive, PTL

\* While the device works every packet with data is in the file or held for it,
\* and after the trailer it is in the file.
THEOREM AllKept == Spec => []NothingLost
<1>1. IInv => NothingLost
  <2> SUFFICES ASSUME IInv, ~mux.error, NEW s \in Streams, NEW n \in 0 .. made[s] - 1
               PROVE  \E p \in Shown(mux.file, s) \cup Shown(mux.packet_buffer, s) :
                        p.frame = n /\ (mux.finished => p \in Shown(mux.file, s))
    BY DEF NothingLost
  <2>1. PICK p \in ToSet(mux.file) \cup ToSet(mux.packet_buffer) :
          p.stream = s /\ HasData(p) /\ p.frame = n
    BY DEF IInv, LostInv
  <2>2. mux.finished => ToSet(mux.packet_buffer) = {}
    BY DEF IInv, LostInv, ToSet
  <2> QED
    BY <2>1, <2>2 DEF Shown
<1> QED
  BY <1>1, Inductive, PTL

\* While the device works what is held spans no more than max_interleave_delta,
\* whatever the two encoders do.
THEOREM SpanBounded == Spec => []HeldSpanBounded
<1>1. IInv => HeldSpanBounded
  <2> DEFINE b == mux.packet_buffer
  <2> SUFFICES ASSUME IInv, ~mux.error, NEW i \in DOMAIN b, NEW j \in DOMAIN b
               PROVE  b[j].dts - b[i].dts <= MaxInterleaveDelta
    BY DEF HeldSpanBounded
  <2>1. /\ b \in Seq(Packet) /\ DOMAIN b = 1 .. Len(b) /\ 1 \in DOMAIN b /\ b # << >>
        /\ \A k \in DOMAIN b : b[k] \in Packet
    BY Elements, LenProperties DEF IInv
  <2>2. b[i].dts \in Int /\ b[j].dts \in Int /\ b[1].dts \in Int
    BY <2>1 DEF Packet
  <2>3. b[1].dts <= b[i].dts
    <3>1. CASE i = 1
      BY <2>2, <3>1
    <3>2. CASE i # 1
      <4>1. 1 < i
        BY <2>1, <3>2
      <4>2. ~Before(b[i], b[1])
        BY <2>1, <4>1 DEF IInv, HeldInv, InOrder, InTimeOrder
      <4> QED
        BY <2>2, <4>2 DEF Before
    <3> QED
      BY <3>1, <3>2
  <2>4. ~(b[j].dts - b[1].dts > MaxInterleaveDelta)
    BY <2>1 DEF IInv, ReadyInv, Ready
  <2> HIDE DEF b
  <2> QED
    BY <2>2, <2>3, <2>4, Constants
<1> QED
  BY <1>1, Inductive, PTL

\* When both encoders call av_interleaved_write_frame the file is in dts order.
THEOREM ProperlyInterleaved == Spec => []FileInterleaved
<1>1. IInv => FileInterleaved
  <2> SUFFICES ASSUME IInv, call = Proper, WithinDelta PROVE InDtsOrder
    BY DEF FileInterleaved, InDtsOrder
  <2>1. DOMAIN mux.file = 1 .. Len(mux.file)
    BY Elements DEF IInv
  <2> QED
    BY <2>1 DEF IInv, TimeInv, InOrder, InTimeOrder, InDtsOrder
<1> QED
  BY <1>1, Inductive, PTL

\* When they call the functions the recorder calls, no video reaches the file
\* before the trailer or the end of max_interleave_delta.
THEOREM VideoWaits == Spec => []VideoHeldBack
<1>1. IInv => VideoHeldBack
  BY DEF IInv
<1> QED
  BY <1>1, Inductive, PTL

=============================================================================
