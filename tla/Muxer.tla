------------------------------- MODULE Muxer --------------------------------
(***************************************************************************)
(* The muxing calls of libavformat/mux.c as the recorder uses them: the    *)
(* mp4 muxer, one video and one audio stream.  A muxer is a record; each   *)
(* call is an operator from the muxer before to the muxer after.           *)
(*                                                                         *)
(* Timestamps of both streams are counted in one unit, so av_compare_ts is *)
(* the comparison of integers.  Of a packet only its stream, timestamps,   *)
(* size (0 or 1: is there data?) and the frame it encodes are kept.        *)
(***************************************************************************)
EXTENDS Integers, Sequences, FiniteSets, SequencesExt

CONSTANTS NoPts,                \* AV_NOPTS_VALUE, smaller than every timestamp
          MaxInterleaveDelta,   \* AVFormatContext.max_interleave_delta
          AudioPeriod           \* duration of an audio packet

ASSUME NoPtsAssumption == NoPts \in Int /\ NoPts < 0
ASSUME DeltaAssumption == MaxInterleaveDelta \in Nat \ {0}
ASSUME AudioPeriodAssumption == AudioPeriod \in Nat \ {0}

VIDEO_STREAM == 0
AUDIO_STREAM == 1
Streams == {VIDEO_STREAM, AUDIO_STREAM}

\* The context after avformat_write_header.
NewMuxer == [packet_buffer |-> << >>,   \* packets held for interleaving
             file |-> << >>,            \* packets given to the mp4 muxer, in order
             cur_dts |-> [s \in Streams |-> NoPts],
             priv_pts |-> 0,            \* of the audio stream: its next dts
             error |-> FALSE,           \* pb->error: the output device failed
             finished |-> FALSE]        \* av_write_trailer has been called

Packet == [stream : Streams, pts : Int, dts : Int, size : {0, 1}, frame : Nat]

MuxerState == [packet_buffer : Seq(Packet), file : Seq(Packet),
               cur_dts : [Streams -> Int], priv_pts : Int,
               error : BOOLEAN, finished : BOOLEAN]

EmptyPacket(s) == [stream |-> s, pts |-> NoPts, dts |-> NoPts, size |-> 0, frame |-> 0]

-----------------------------------------------------------------------------
(* compute_muxer_pkt_fields                                                *)

\* An audio packet without timestamps (the encoder returned nothing yet) is
\* given the next dts of its stream.  The video stream reorders frames (its
\* delay is not 0), so there such a packet stays without.
WithTimestamps(m, p) ==
    IF p.stream = AUDIO_STREAM /\ p.dts = NoPts /\ p.pts = NoPts
    THEN [p EXCEPT !.dts = m.priv_pts, !.pts = m.priv_pts]
    ELSE p

\* Here and below, a definition whose comment calls it a bug is a wrong variant of
\* the next one, kept to see that the properties notice it.

\* Bug: a cur_dts of 0 does not compare as "unset".
DtsIncreases(cur, p) ==
    /\ cur = NoPts \/ cur < p.dts
    /\ NoPts \in {p.dts, p.pts} \/ p.dts <= p.pts

\* The dts of a stream must increase; but a cur_dts of 0 compares as "unset".
DtsAccepted(cur, p) ==
    /\ cur \in {0, NoPts} \/ cur < p.dts
    /\ NoPts \in {p.dts, p.pts} \/ p.dts <= p.pts

Accepts(m, p) == DtsAccepted(m.cur_dts[p.stream], WithTimestamps(m, p))

\* The first empty audio packets are not counted: they are the encoder delay.
NextPts(m, p) ==
    IF p.stream # AUDIO_STREAM THEN m.priv_pts
    ELSE IF p.size = 0 /\ p.dts = 0 THEN p.dts
    ELSE p.dts + AudioPeriod

Advance(m, p) == [m EXCEPT !.cur_dts[p.stream] = p.dts, !.priv_pts = NextPts(m, p)]

-----------------------------------------------------------------------------
(* write_packet: a packet written to a failed device is lost.              *)

Written(m, ps) == [m EXCEPT !.file = @ \o ps]

\* The mp4 muxer discards packets without data.
HasData(p) == p.size # 0

\* What a reader of the file finds of one stream.
Shown(ps, s) == {p \in ToSet(ps) : p.stream = s /\ HasData(p)}

\* av_write_frame writes at once, whatever is being held for interleaving.
\* `works` says whether the device takes the packet.
av_write_frame(m, p, works) ==
    LET q == WithTimestamps(m, p) IN
    IF ~Accepts(m, p) THEN m
    ELSE IF m.error \/ ~works THEN [Advance(m, q) EXCEPT !.error = TRUE]
    ELSE Written(Advance(m, q), <<q>>)

-----------------------------------------------------------------------------
(* ff_interleave_packet_per_dts                                            *)

\* interleave_compare_dts(q, p): p belongs before q.
Before(p, q) == p.dts < q.dts \/ (p.dts = q.dts /\ p.stream < q.stream)

\* Bug: every packet goes to the end.
PlaceLast(b, p) == Len(b) + 1

\* Where ff_interleave_add_packet puts p: after the last packet of its own
\* stream, and there before the first packet p belongs before.
Place(b, p) ==
    LET later == {i \in DOMAIN b : /\ Before(p, b[i])
                                   /\ \A j \in i .. Len(b) : b[j].stream # p.stream}
    IN  IF b # << >> /\ Before(p, Last(b)) /\ later # {}
        THEN CHOOSE i \in later : \A j \in later : i <= j
        ELSE Len(b) + 1

ff_interleave_add_packet(b, p) == InsertAt(b, Place(b, p), p)

\* Bug: the head goes out without waiting for the other stream.
ReadyAtOnce(b) == b # << >>

\* Bug: a silent stream holds the other one for ever.
ReadyWhenAll(b) == b # << >> /\ \A s \in Streams : \E i \in DOMAIN b : b[i].stream = s

\* The head of the buffer may go out when each stream has a packet waiting,
\* or when the buffer spans more time than the muxer is willing to hold.
Ready(b) ==
    /\ b # << >>
    /\ \/ \A s \in Streams : \E i \in DOMAIN b : b[i].stream = s
       \/ \E i \in DOMAIN b : b[i].dts - b[1].dts > MaxInterleaveDelta

\* Bug: the last packet that was written stays in the buffer.
RestTooLong(b, n) == SubSeq(b, IF n = 0 THEN 1 ELSE n, Len(b))

Rest(b, n) == SubSeq(b, n + 1, Len(b))

\* How many packets leave the buffer before interleaving stops.
ReadyCount(b) == CHOOSE n \in 0 .. Len(b) :
                    /\ ~Ready(Rest(b, n))
                    /\ \A k \in 0 .. n - 1 : Ready(Rest(b, k))

\* n packets leave the buffer of m, of which the device takes the first
\* `good`; the one it fails on is lost and ends the loop.
Output(m, n, good) ==
    LET taken == IF m.error THEN 0 ELSE good
        gone == IF taken < n THEN taken + 1 ELSE n
    IN  [Written(m, SubSeq(m.packet_buffer, 1, IF taken < n THEN taken ELSE n))
           EXCEPT !.packet_buffer = Rest(m.packet_buffer, gone),
                  !.error = @ \/ taken < n]

\* Bug: a packet without a dts is held.
hold_any_packet(m, p, good) ==
    LET q == WithTimestamps(m, p)
        held == [Advance(m, q) EXCEPT !.packet_buffer = ff_interleave_add_packet(@, q)]
    IN  IF ~Accepts(m, p) THEN m ELSE Output(held, ReadyCount(held.packet_buffer), good)

\* A packet that cannot be ordered in time is refused.  Its dts has then
\* already been recorded, unless the refusal came from compute_muxer_pkt_fields.
av_interleaved_write_frame(m, p, good) ==
    LET q == WithTimestamps(m, p)
        held == [Advance(m, q) EXCEPT !.packet_buffer = ff_interleave_add_packet(@, q)]
    IN  IF ~Accepts(m, p) THEN m
        ELSE IF q.dts = NoPts THEN Advance(m, q)
        ELSE Output(held, ReadyCount(held.packet_buffer), good)

\* What that call returns is negative when the packet was refused, or when the
\* device failed on one that left the buffer during the call (`after`).
write_failed(m, p, after) ==
    \/ ~Accepts(m, p)
    \/ WithTimestamps(m, p).dts = NoPts
    \/ after.error /\ Len(after.packet_buffer) <= Len(m.packet_buffer)

\* Bug: what is still held is dropped.
trailer_without_drain(m, good) == [m EXCEPT !.finished = TRUE]

\* av_write_trailer writes what is still held, then finalises the file, and
\* frees the muxer's private data whether or not that succeeded.
av_write_trailer(m, good) ==
    [Output(m, Len(m.packet_buffer), good) EXCEPT !.finished = TRUE]

=============================================================================
