---------------------------- MODULE MuxContext ------------------------------
(***************************************************************************)
(* One AVFormatContext under a video encoder and an audio encoder that     *)
(* hand it packets in any relative order, until av_write_trailer.          *)
(* `call` says which of the two writing functions each encoder uses, for   *)
(* good: the recorder calls av_interleaved_write_frame for video           *)
(* (native-lib.cpp:333) and av_write_frame for audio (native-lib.cpp:414); *)
(* avformat.h wants the same function for both.                            *)
(***************************************************************************)
EXTENDS Muxer

CONSTANTS VideoPeriod,    \* duration of a video frame
          Reorder,        \* by how many frames dts runs behind pts
          AudioDelay,     \* packets of sound before time 0: the encoder's delay
          MaxPackets,     \* bound: packets with data, per stream
          MayFail         \* may the output device fail?

ASSUME EncoderAssumption ==
    /\ VideoPeriod \in Nat \ {0} /\ Reorder \in Nat /\ AudioDelay \in Nat
    /\ NoPts < -(Reorder * VideoPeriod) /\ NoPts < -(AudioDelay * AudioPeriod)
ASSUME MuxBoundAssumption == MaxPackets \in Nat /\ MayFail \in BOOLEAN

VARIABLES call,   \* the function each encoder calls
          mux,    \* the muxing context
          made    \* made[s]: packets with data that encoder s has handed over

muxVars == <<call, mux, made>>

Recorders == [s \in Streams |-> IF s = VIDEO_STREAM THEN "interleaved" ELSE "direct"]
Proper == [s \in Streams |-> "interleaved"]

Init == /\ call \in {Recorders, Proper}
        /\ mux = NewMuxer
        /\ made = [s \in Streams |-> 0]

\* How many of at most n packets the device takes during a call.
Takes(n) == IF MayFail THEN 0 .. n ELSE {n}

Hand(p) ==
    \/ /\ call[p.stream] = "interleaved"
       /\ \E good \in Takes(Len(mux.packet_buffer) + 1) :
            mux' = av_interleaved_write_frame(mux, p, good)
    \/ /\ call[p.stream] = "direct"
       /\ \E good \in Takes(1) : mux' = av_write_frame(mux, p, good = 1)

\* Packets leave the video encoder with a dts that runs behind their pts.
VideoPacket(n) == [stream |-> VIDEO_STREAM, pts |-> n * VideoPeriod,
                   dts |-> (n - Reorder) * VideoPeriod, size |-> 1, frame |-> n]

AudioPacket(n) == [stream |-> AUDIO_STREAM, pts |-> (n - AudioDelay) * AudioPeriod,
                   dts |-> (n - AudioDelay) * AudioPeriod, size |-> 1, frame |-> n]

SendVideo == /\ ~mux.finished
             /\ made[VIDEO_STREAM] < MaxPackets
             /\ Hand(VideoPacket(made[VIDEO_STREAM]))
             /\ made' = [made EXCEPT ![VIDEO_STREAM] = @ + 1]
             /\ UNCHANGED call

SendAudio == /\ ~mux.finished
             /\ made[AUDIO_STREAM] < MaxPackets
             /\ Hand(AudioPacket(made[AUDIO_STREAM]))
             /\ made' = [made EXCEPT ![AUDIO_STREAM] = @ + 1]
             /\ UNCHANGED call

\* The encoder took a frame and returned none; the recorder hands the empty
\* packet on all the same.  The audio encoder returns none only while it fills
\* up.  (Bound: it fills up with one frame.)
SendEmpty(s) == /\ ~mux.finished /\ call = Recorders
                /\ s = AUDIO_STREAM =>
                     made[s] = 0 /\ \A p \in ToSet(mux.file) : HasData(p)
                /\ Hand(EmptyPacket(s))
                /\ UNCHANGED <<call, made>>

WriteTrailer == /\ ~mux.finished
                /\ \E good \in Takes(Len(mux.packet_buffer)) :
                     mux' = av_write_trailer(mux, good)
                /\ UNCHANGED <<call, made>>

Next == \/ SendVideo
        \/ SendAudio
        \/ \E s \in Streams : SendEmpty(s)
        \/ WriteTrailer

Spec == Init /\ [][Next]_muxVars

-----------------------------------------------------------------------------
(* Properties.                                                             *)

\* The type of the context; a packet without a dts is never held, whose place
\* in the buffer would mean nothing.
TypeOK == /\ call \in {Recorders, Proper}
          /\ mux \in MuxerState
          /\ made \in [Streams -> 0 .. MaxPackets]
          /\ \A i \in DOMAIN mux.packet_buffer : mux.packet_buffer[i].dts # NoPts

Sorted(ps) == \A i, j \in DOMAIN ps : i < j => ~Before(ps[j], ps[i])

\* ff_interleave_add_packet keeps the packets it holds in dts order, though it
\* looks for a place only behind the last packet of the same stream.
HeldInOrder == Sorted(mux.packet_buffer)

\* In the file the packets of each stream come in the order of their encoder:
\* none is doubled, and none overtaken by a later one.
StreamsInOrder == \A i, j \in DOMAIN mux.file :
    LET p == mux.file[i]
        q == mux.file[j]
    IN  i < j /\ p.stream = q.stream /\ HasData(p) /\ HasData(q)
          => p.frame < q.frame /\ p.dts < q.dts

\* While the device works, every packet with data is in the file or held for it;
\* after the trailer it is in the file.  So no packet is refused for its dts,
\* and the gaps in that check let none through that is out of order.
NothingLost == ~mux.error =>
    \A s \in Streams : \A n \in 0 .. made[s] - 1 :
        \E p \in Shown(mux.file, s) \cup Shown(mux.packet_buffer, s) :
            p.frame = n /\ (mux.finished => p \in Shown(mux.file, s))

\* While the device works, what is held spans no more than max_interleave_delta:
\* one stream falling silent does not make the muxer hold the other for ever.
HeldSpanBounded == ~mux.error =>
    \A i, j \in DOMAIN mux.packet_buffer :
        mux.packet_buffer[j].dts - mux.packet_buffer[i].dts <= MaxInterleaveDelta

\* The packets of neither stream span more than the muxer is willing to hold.
WithinDelta == /\ (made[VIDEO_STREAM] - 1) * VideoPeriod <= MaxInterleaveDelta
               /\ (made[AUDIO_STREAM] - 1) * AudioPeriod <= MaxInterleaveDelta

\* "the packets in the output file are properly interleaved in the order of
\* increasing dts" (avformat.h:2426), whichever encoder is ahead ...
InDtsOrder == WithinDelta =>
    \A i, j \in DOMAIN mux.file :
        i < j /\ HasData(mux.file[i]) /\ HasData(mux.file[j])
          => ~Before(mux.file[j], mux.file[i])

\* ... which holds when both encoders call av_interleaved_write_frame.
FileInterleaved == call = Proper => InDtsOrder

\* The recorder's mixture of calls: the audio stream never has a packet waiting,
\* so video reaches the file only through max_interleave_delta or the trailer.
VideoHeldBack ==
    call = Recorders /\ ~mux.finished
      /\ (made[VIDEO_STREAM] - 1) * VideoPeriod <= MaxInterleaveDelta
        => Shown(mux.file, VIDEO_STREAM) = {}
=============================================================================
