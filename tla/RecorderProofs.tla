--------------------------- MODULE RecorderProofs ---------------------------
(***************************************************************************)
(* What holds of the recording pipeline for every frame limit, every       *)
(* number of recordings, frames and microphone buffers, and whatever the   *)
(* encoders and the muxer do: the variables keep their types, and a        *)
(* recording stops at its limit.                                           *)
(*                                                                         *)
(* None of this depends on what becomes of a packet, so the muxing context *)
(* is never expanded.                                                      *)
(***************************************************************************)
EXTENDS Recorder, SequenceTheorems, TLAPS

-----------------------------------------------------------------------------
(* The encoders.                                                           *)

Inside == [frame : Nat, count : Nat]

\* EncoderState in terms of Inside.
LEMMA EncoderType == EncoderState = [pending : Seq(Inside), out : Nat]
  BY DEF EncoderState, Inside

\* The entry for a frame fed to the encoder is what Inside says.
LEMMA FeedHolds ==
  ASSUME NEW e \in EncoderState, NEW f \in Nat, NEW c \in Nat
  PROVE  /\ Feed(e, f, c) \in EncoderState
         /\ Held(Feed(e, f, c)) = Held(e) + 1
<1> DEFINE x == [frame |-> f, count |-> c]
<1>1. Append(e.pending, x) \in Seq(Inside) /\ Len(Append(e.pending, x)) = Len(e.pending) + 1
  BY DEF EncoderState, Inside
<1>2. Feed(e, f, c) = [e EXCEPT !.pending = Append(@, x)]
  BY DEF Feed
<1> HIDE DEF x
<1>3. Feed(e, f, c).pending = Append(e.pending, x) /\ Feed(e, f, c).out = e.out
  BY <1>2 DEF EncoderState, Inside
<1>4. Feed(e, f, c) \in EncoderState
  BY <1>1, <1>2 DEF EncoderState, Inside
<1> QED
  BY <1>1, <1>3, <1>4 DEF EncoderState, Inside, Held

\* Taking one element out of a sequence leaves one less.
LEMMA RemoveAtOne ==
  ASSUME NEW S, NEW q \in Seq(S), NEW i \in 1 .. Len(q)
  PROVE  RemoveAt(q, i) \in Seq(S) /\ Len(RemoveAt(q, i)) = Len(q) - 1
<1>1. SubSeq(q, 1, i - 1) \in Seq(S) /\ Len(SubSeq(q, 1, i - 1)) = i - 1
  BY SubSeqProperties
<1>2. SubSeq(q, i + 1, Len(q)) \in Seq(S) /\ Len(SubSeq(q, i + 1, Len(q))) = Len(q) - i
  BY SubSeqProperties
<1> DEFINE a == SubSeq(q, 1, i - 1)
           b == SubSeq(q, i + 1, Len(q))
<1>3. RemoveAt(q, i) = a \o b
  BY DEF RemoveAt
<1>4. Len(a) + Len(b) = Len(q) - 1
  <2>1. Len(q) \in Nat /\ i \in Nat
    BY LenProperties
  <2>2. Len(a) = i - 1 /\ Len(b) = Len(q) - i
    BY <1>1, <1>2
  <2> HIDE DEF a, b
  <2> QED
    BY <2>1, <2>2
<1> HIDE DEF a, b
<1>5. a \o b \in Seq(S) /\ Len(a \o b) = Len(a) + Len(b)
  BY <1>1, <1>2, ConcatProperties DEF a, b
<1> QED
  BY <1>3, <1>4, <1>5

\* A packet that comes out leaves the number of frames taken as it was.
LEMMA EmitHolds ==
  ASSUME NEW e \in EncoderState, NEW i \in DOMAIN e.pending
  PROVE  /\ Emit(e, i) \in EncoderState
         /\ Held(Emit(e, i)) = Held(e)
<1>1. e.pending \in Seq(Inside) /\ e.out \in Nat
  BY DEF EncoderState, Inside
<1>2. RemoveAt(e.pending, i) \in Seq(Inside) /\ Len(RemoveAt(e.pending, i)) = Len(e.pending) - 1
  <2>1. i \in 1 .. Len(e.pending)
    BY <1>1
  <2> QED
    BY <1>1, <2>1, RemoveAtOne
<1> DEFINE q == RemoveAt(e.pending, i)
<1>3. Emit(e, i) = [pending |-> q, out |-> e.out + 1]
  BY DEF Emit
<1>4. Len(e.pending) \in Nat /\ Len(q) = Len(e.pending) - 1 /\ q \in Seq(Inside)
  BY <1>1, <1>2
<1> HIDE DEF q
<1>5. Emit(e, i) \in EncoderState
  BY <1>1, <1>3, <1>4, EncoderType
<1>6. Held(Emit(e, i)) = Held(e)
  BY <1>1, <1>3, <1>4 DEF Held
<1> QED
  BY <1>5, <1>6

\* A frame that is fed leaves room for one more, and whatever comes out was inside.
LEMMA FedPending ==
  ASSUME NEW e \in EncoderState, NEW f \in Nat, NEW c \in Nat
  PROVE  /\ Feed(e, f, c).pending # << >>
         /\ Feed(e, f, c).pending[1].frame \in Nat
<1> DEFINE x == [frame |-> f, count |-> c]
           q == Append(e.pending, x)
<1>1. e.pending \in Seq(Inside) /\ x \in Inside
  BY DEF EncoderState, Inside
<1>2. Feed(e, f, c).pending = q
  BY DEF Feed, EncoderState
<1> HIDE DEF x
<1>3. q \in Seq(Inside) /\ Len(q) = Len(e.pending) + 1
  BY <1>1
<1>4. 1 \in 1 .. Len(q)
  BY <1>1, <1>3, LenProperties
<1> HIDE DEF q
<1>5. q # << >> /\ q[1] \in Inside
  BY <1>3, <1>4
<1> QED
  BY <1>2, <1>5 DEF Inside

\* An empty packet of the audio stream is a packet of it, and so is every packet
\* whose frame is a number.
LEMMA AudioPacketType ==
  /\ EmptyPacket(AUDIO_STREAM) \in AudioPackets
  /\ \A e \in EncoderState : e.pending[1].frame \in Nat => AudioPacket(e) \in AudioPackets
<1>1. NoPts \in Int /\ AudioDelay \in Nat /\ AudioPeriod \in Nat
  BY NoPtsAssumption, RecorderAssumption, AudioPeriodAssumption DEF RecorderAssumption
<1>2. EmptyPacket(AUDIO_STREAM) \in AudioPackets
  BY <1>1 DEF EmptyPacket, AudioPackets, Packet, AUDIO_STREAM, VIDEO_STREAM, Streams
<1>3. ASSUME NEW e \in EncoderState, e.pending[1].frame \in Nat
      PROVE  AudioPacket(e) \in AudioPackets
  <2>1. e.out \in Nat
    BY DEF EncoderState
  <2>2. PICK t : t = (e.out - AudioDelay) * AudioPeriod
    OBVIOUS
  <2>3. t \in Int
    BY <1>1, <2>1, <2>2
  <2>4. AudioPacket(e) = [stream |-> AUDIO_STREAM, pts |-> t, dts |-> t, size |-> 1,
                          frame |-> e.pending[1].frame]
    BY <2>2 DEF AudioPacket
  <2> QED
    BY <1>3, <2>3, <2>4 DEF AudioPackets, Packet, AUDIO_STREAM, VIDEO_STREAM, Streams
<1> QED
  BY <1>2, <1>3

-----------------------------------------------------------------------------
(* The inductive invariant.                                                *)

\* The bounds and the limit, one by one.
LEMMA Bounds == /\ FrameLimit \in Nat /\ MaxSessions \in Nat
                /\ MaxFrames \in Nat /\ MaxSounds \in Nat
  BY RecorderAssumption DEF RecorderAssumption

\* The button is down only during a recording, and a recording that has not been
\* started has no threads.
StartInv == /\ isPushing => session > 0
            /\ \A s \in Sessions : s > session => vpc[s] = "none" /\ apc[s] = "none"

\* The video thread counts up to FrameLimit before each test of the limit, and
\* the frame that exceeds it is the last one.
CountInv == \A s \in Sessions :
    /\ vpc[s] \in {"none", "loop", "pop", "encode"} => vcount[s] <= FrameLimit
    /\ vpc[s] = "end" => vcount[s] = FrameLimit + 1

\* Where a video thread is once it has seen, or caused, the end.
Past == {"flush", "trailer", "trailing", "close", "done", "failed"}

\* The flag is up when a full recording has raised it, and not before.
EndInv == isEnd <=> \E s \in Sessions : vcount[s] = FrameLimit + 1 /\ vpc[s] \in Past

\* The audio encoder takes at most one frame per frame counted, and no more than
\* FrameLimit before each test of the limit.
AudioInv == \A s \in Sessions :
    /\ Held(aenc[s]) <= FrameLimit + 1
    /\ apc[s] # "done" => Held(aenc[s]) <= acount[s]
    /\ apc[s] \notin {"write", "done"} => Held(aenc[s]) <= FrameLimit

IInv == TypeOK /\ StartInv /\ CountInv /\ EndInv /\ AudioInv

-----------------------------------------------------------------------------
\* Nothing has been started, counted or encoded at first.
LEMMA InitIInv == Init => IInv
<1> SUFFICES ASSUME Init PROVE IInv
  OBVIOUS
<1> USE Bounds DEF Init, PerSession, Sessions
<1>1. NewEncoder \in EncoderState /\ Held(NewEncoder) = 0
  BY DEF NewEncoder, EncoderState, Held
<1>2. << >> \in Seq(1 .. MaxFrames) /\ << >> \in Seq(1 .. MaxSounds)
  OBVIOUS
<1>3. TypeOK
  <2>0. isPushing \in BOOLEAN /\ isEnd \in BOOLEAN /\ alive \in BOOLEAN
    OBVIOUS
  <2>1. /\ session \in 0 .. MaxSessions /\ shots \in 0 .. MaxFrames /\ heard \in 0 .. MaxSounds
        /\ spoiled \subseteq Sessions /\ apacket \in [Sessions -> AudioPackets]
    BY AudioPacketType
  <2>2. /\ video_frame_queue \in Seq(1 .. MaxFrames) /\ audio_frame_queue \in Seq(1 .. MaxSounds)
    BY <1>2
  <2>3. /\ vframe \in [Sessions -> 0 .. MaxFrames] /\ aframe \in [Sessions -> 0 .. MaxSounds]
        /\ vcount \in [Sessions -> 0 .. FrameLimit + 1] /\ acount \in [Sessions -> Nat]
    OBVIOUS
  <2>4. venc \in [Sessions -> EncoderState] /\ aenc \in [Sessions -> EncoderState]
    BY <1>1
  <2> QED
    BY <2>0, <2>1, <2>2, <2>3, <2>4 DEF TypeOK, SharedType, VideoType, AudioType
<1> QED
  BY <1>1, <1>3 DEF IInv, StartInv, CountInv, EndInv, Past, AudioInv

-----------------------------------------------------------------------------
(* Every step preserves it.  The parts of the invariant concern different  *)
(* threads, so most actions leave most of them alone.                      *)

\* The UI thread.
LEMMA UIStep ==
  ASSUME IInv, StartRecord \/ StopRecord \/ PreviewFrame
  PROVE  IInv'
<1> USE Bounds DEF IInv, TypeOK, Sessions, ui, queues, video, audio, mic
<1>1. CASE StartRecord
  <2> USE <1>1 DEF StartRecord
  <2>1. PICK opened \in Outcomes :
          /\ vpc' = [vpc EXCEPT ![session'] = IF opened THEN "loop" ELSE "none"]
          /\ apc' = [apc EXCEPT ![session'] = IF opened THEN "start" ELSE "none"]
    OBVIOUS
  <2>2. session' \in Sessions /\ session' > session /\ isPushing' \in BOOLEAN
    BY DEF SharedType
  <2>3. SharedType'
    BY <2>2 DEF SharedType
  <2>4. VideoType'
    BY <2>1, <2>2 DEF VideoType
  <2>5. AudioType'
    BY <2>1, <2>2 DEF AudioType
  <2>6. vpc[session'] = "none" /\ apc[session'] = "none"
    BY <2>2 DEF StartInv
  <2>7. StartInv'
    <3>1. session' > 0
      BY <2>2 DEF SharedType
    <3>2. ASSUME NEW s \in Sessions, s > session' PROVE vpc'[s] = "none" /\ apc'[s] = "none"
      <4>1. s > session /\ s # session'
        BY <2>2, <3>2 DEF SharedType
      <4> QED
        BY <2>1, <4>1 DEF StartInv, VideoType, AudioType
    <3> QED
      BY <3>1, <3>2 DEF StartInv
  <2>8. CountInv'
    BY <2>1, <2>2, <2>6 DEF VideoType, CountInv
  <2>9. EndInv'
    BY <2>1, <2>2, <2>6 DEF VideoType, EndInv, Past
  <2>10. AudioInv'
    BY <2>1, <2>2, <2>6 DEF AudioType, AudioInv
  <2> QED
    BY <2>3, <2>4, <2>5, <2>7, <2>8, <2>9, <2>10
<1>2. CASE StopRecord
  <2> USE <1>2 DEF StopRecord
  <2>1. SharedType' /\ VideoType' /\ AudioType'
    BY DEF SharedType, VideoType, AudioType
  <2> QED
    BY <2>1 DEF StartInv, CountInv, EndInv, AudioInv
<1>3. CASE PreviewFrame
  <2> USE <1>3 DEF PreviewFrame
  <2>2. shots' \in 1 .. MaxFrames
    BY DEF SharedType
  <2>3. video_frame_queue' \in Seq(1 .. MaxFrames)
    BY <2>2, AppendProperties DEF SharedType
  <2>4. SharedType'
    BY <2>2, <2>3 DEF SharedType
  <2>5. VideoType' /\ AudioType'
    BY DEF VideoType, AudioType
  <2> QED
    BY <2>4, <2>5 DEF StartInv, CountInv, EndInv, AudioInv
<1> QED
  BY <1>1, <1>2, <1>3

\* The microphone thread only queues sound.
LEMMA MicStep ==
  ASSUME IInv, NEW s \in Sessions, MicThread(s)
  PROVE  IInv'
<1> USE Bounds DEF IInv, TypeOK, ui, queues, video, audio, mic, MicAt
<1>1. CASE MicRead(s)
  <2> USE <1>1 DEF MicRead
  <2>1. heard' \in 1 .. MaxSounds
    BY DEF SharedType
  <2>2. audio_frame_queue' \in Seq(1 .. MaxSounds)
    BY <2>1, AppendProperties DEF SharedType
  <2>3. SharedType'
    BY <2>1, <2>2 DEF SharedType
  <2>4. VideoType' /\ AudioType'
    BY DEF VideoType, AudioType
  <2> QED
    BY <2>3, <2>4 DEF StartInv, CountInv, EndInv, AudioInv
<1>2. CASE MicQuit(s)
  <2> USE <1>2 DEF MicQuit
  <2>1. SharedType' /\ VideoType' /\ AudioType'
    BY DEF SharedType, VideoType, AudioType
  <2> QED
    BY <2>1 DEF StartInv, CountInv, EndInv, AudioInv
<1> QED
  BY <1>1, <1>2 DEF MicThread

\* The steps of a video thread that neither count a frame nor touch the queue or
\* the flag: it moves on, its encoder may return a packet, and the rest is left
\* to the muxer.
QuietVideoStep(s, to) ==
    /\ vpc' = [vpc EXCEPT ![s] = to]
    /\ alive' \in BOOLEAN
    /\ \E e \in EncoderState : venc' = [venc EXCEPT ![s] = e]
    /\ UNCHANGED <<ui, queues, isEnd, vframe, vcount, audio, mic, spoiled>>

\* Such a step is harmless if it does not lead a full recording back to the loop
\* and a recording before its limit does not claim to be full.
LEMMA QuietVideo ==
  ASSUME IInv, NEW s \in Sessions, NEW to, QuietVideoStep(s, to), s <= session,
         \/ vpc[s] = "loop" /\ to = "pop"
         \/ vpc[s] = "encode" /\ to = "loop"
         \/ vpc[s] = "loop" /\ to = "flush"
         \/ vpc[s] \in Past /\ to \in Past
  PROVE  IInv'
<1> USE Bounds DEF IInv, TypeOK, QuietVideoStep, ui, queues, video, audio, mic
<1>1. SharedType'
  BY DEF SharedType
<1>2. VideoType'
  BY DEF VideoType, Past
<1>3. AudioType' /\ AudioInv'
  BY DEF AudioType, AudioInv
<1>4. StartInv'
  BY DEF StartInv, VideoType, SharedType, Sessions
<1>5. CountInv'
  BY DEF CountInv, VideoType, Past
<1>6. EndInv'
  BY DEF EndInv, CountInv, VideoType, Past
<1> QED
  BY <1>1, <1>2, <1>3, <1>4, <1>5, <1>6

\* startVideoEncode.
LEMMA VideoStep ==
  ASSUME IInv, NEW s \in Sessions, VideoThread(s)
  PROVE  IInv'
<1> USE Bounds DEF IInv, TypeOK, ui, queues, video, audio, mic, VideoAt, VideoUses
<1>1. vpc[s] # "none"
  BY DEF VideoThread, VideoTest, VideoPop, VideoEncode, VideoEncodeFails, VideoEnd,
         VideoFlush, VideoFlushFails, VideoFlushed, VideoTrailer, VideoTrailerEnd, VideoClose,
         VideoUnopened
<1>2. s <= session
  BY <1>1 DEF StartInv, SharedType, Sessions
<1>3. venc[s] \in EncoderState /\ venc = [venc EXCEPT ![s] = venc[s]]
  BY DEF VideoType
<1>4. alive \in BOOLEAN
  BY DEF SharedType
<1>5. CASE VideoTest(s)
  <2>1. PICK to \in {"pop", "flush"} : QuietVideoStep(s, to)
    BY <1>3, <1>4, <1>5 DEF VideoTest, QuietVideoStep
  <2> QED
    BY <1>2, <1>5, <2>1, QuietVideo DEF VideoTest
<1>6. CASE VideoPop(s)
  <2> USE <1>6 DEF VideoPop
  <2>1. /\ Head(video_frame_queue) \in 1 .. MaxFrames
        /\ Tail(video_frame_queue) \in Seq(1 .. MaxFrames)
    BY HeadTailProperties DEF SharedType
  <2>2. SharedType'
    BY <2>1 DEF SharedType
  <2>3. VideoType'
    BY <2>1 DEF VideoType
  <2>4. StartInv' /\ CountInv'
    BY <1>2 DEF StartInv, CountInv, VideoType, SharedType, Sessions
  <2>5. EndInv'
    BY DEF EndInv, VideoType, Past
  <2> QED
    BY <2>2, <2>3, <2>4, <2>5 DEF AudioType, AudioInv
<1>7. CASE VideoEncode(s)
  <2> USE <1>7 DEF VideoEncode
  <2>1. PICK e \in EncoderState : venc' = [venc EXCEPT ![s] = e]
    <3>1. Feed(venc[s], vframe[s], vcount[s]) \in EncoderState
      BY <1>3, FeedHolds DEF VideoType
    <3>2. ASSUME NEW i \in Candidates(Feed(venc[s], vframe[s], vcount[s]), Reorder)
          PROVE  Emit(Feed(venc[s], vframe[s], vcount[s]), i) \in EncoderState
      BY <3>1, EmitHolds DEF Candidates
    <3> QED
      BY <3>1, <3>2
  <2>2. vcount[s] \in Nat /\ vcount[s] <= FrameLimit
    BY DEF VideoType, CountInv
  <2>3. /\ vcount' = [vcount EXCEPT ![s] = @ + 1]
        /\ vpc' = [vpc EXCEPT ![s] = IF vcount'[s] > FrameLimit THEN "end" ELSE "loop"]
    BY DEF Full
  <2>4. vcount'[s] = vcount[s] + 1
    BY <2>3 DEF VideoType
  <2>5. SharedType'
    BY DEF SharedType
  <2>6. VideoType'
    BY <2>1, <2>2, <2>3, <2>4 DEF VideoType
  <2>7. StartInv'
    BY <1>2, <2>3 DEF StartInv, VideoType, SharedType, Sessions
  <2>8. CountInv'
    BY <2>2, <2>3, <2>4 DEF CountInv, VideoType
  <2>9. EndInv'
    BY <2>2, <2>3, <2>4 DEF EndInv, VideoType, Past
  <2> QED
    BY <2>5, <2>6, <2>7, <2>8, <2>9 DEF AudioType, AudioInv
<1>8. CASE VideoEncodeFails(s)
  <2>1. QuietVideoStep(s, "loop")
    BY <1>3, <1>4, <1>8 DEF VideoEncodeFails, QuietVideoStep
  <2> QED
    BY <1>2, <1>8, <2>1, QuietVideo DEF VideoEncodeFails
<1>9. CASE VideoEnd(s)
  <2> USE <1>9 DEF VideoEnd
  <2>1. SharedType' /\ VideoType'
    BY DEF SharedType, VideoType
  <2>2. StartInv' /\ CountInv'
    BY <1>2 DEF StartInv, CountInv, VideoType, SharedType, Sessions
  <2>3. vcount'[s] = FrameLimit + 1 /\ vpc'[s] \in Past
    BY DEF CountInv, VideoType, Past
  <2>4. EndInv'
    BY <2>3 DEF EndInv
  <2> QED
    BY <2>1, <2>2, <2>4 DEF AudioType, AudioInv
<1>10. CASE VideoFlush(s)
  <2>1. ASSUME NEW i \in Candidates(venc[s], Reorder) PROVE Emit(venc[s], i) \in EncoderState
    BY <1>3, EmitHolds DEF Candidates
  <2>2. PICK to \in {"failed", "flush"} : QuietVideoStep(s, to)
    BY <1>3, <1>4, <1>10, <2>1 DEF VideoFlush, QuietVideoStep
  <2> QED
    BY <1>2, <1>10, <2>2, QuietVideo DEF VideoFlush, Past
<1>11. CASE \/ VideoFlushFails(s) \/ VideoFlushed(s) \/ VideoTrailer(s) \/ VideoTrailerEnd(s)
            \/ VideoClose(s)
  <2>1. vpc[s] \in Past
    BY <1>11 DEF VideoFlushFails, VideoFlushed, VideoTrailer, VideoTrailerEnd, VideoClose, Past
  <2>2. PICK to \in Past : QuietVideoStep(s, to)
    BY <1>3, <1>4, <1>11
       DEF VideoFlushFails, VideoFlushed, VideoTrailer, VideoTrailerEnd, VideoClose, Past,
           QuietVideoStep
  <2> QED
    BY <1>2, <2>1, <2>2, QuietVideo
<1>12. CASE VideoUnopened(s)
  <2> USE <1>12 DEF VideoUnopened
  <2>1. SharedType' /\ VideoType' /\ AudioType'
    BY DEF SharedType, VideoType, AudioType
  <2> QED
    BY <2>1 DEF StartInv, CountInv, EndInv, AudioInv
<1> QED
  BY <1>5, <1>6, <1>7, <1>8, <1>9, <1>10, <1>11, <1>12 DEF VideoThread

\* startAudioEncode.
LEMMA AudioStep ==
  ASSUME IInv, NEW s \in Sessions, AudioThread(s)
  PROVE  IInv'
<1> USE Bounds DEF IInv, TypeOK, ui, queues, video, audio, mic, AudioAt, AudioUses
<1>1. apc[s] # "none" /\ apc[s] # "done"
  BY DEF AudioThread, AudioStart, AudioTest, AudioPop, AudioEncode, AudioEncodeFails, AudioWrite,
         AudioWriteRaces, AudioLateWrite, AudioUseAfterFree, AudioUnopened
<1>2. s <= session
  BY <1>1 DEF StartInv, SharedType, Sessions
<1>3. /\ apc[s] # "write" => Held(aenc[s]) <= FrameLimit
      /\ Held(aenc[s]) <= acount[s]
      /\ acount[s] \in Nat /\ aenc[s] \in EncoderState /\ Held(aenc[s]) \in Nat
  <2>1. aenc[s] \in EncoderState
    BY DEF AudioType
  <2>2. Held(aenc[s]) \in Nat
    BY <2>1, EncoderType, LenProperties DEF Held
  <2> QED
    BY <1>1, <2>1, <2>2 DEF AudioInv, AudioType
<1>4. CASE AudioStart(s) \/ AudioTest(s)
  <2>1. /\ apc[s] # "write"
        /\ \E to \in {"loop", "pop", "done"} : apc' = [apc EXCEPT ![s] = to]
        /\ UNCHANGED <<ui, queues, isEnd, video, aframe, acount, aenc, apacket, mic, mux, spoiled>>
        /\ alive' \in BOOLEAN
    BY <1>4 DEF AudioStart, AudioTest, SharedType
  <2>2. AudioType'
    BY <2>1 DEF AudioType
  <2>3. AudioInv'
    BY <1>3, <2>1 DEF AudioType, AudioInv
  <2>4. StartInv'
    BY <1>2, <2>1 DEF AudioType, StartInv, SharedType, Sessions
  <2> QED
    BY <2>1, <2>2, <2>3, <2>4 DEF SharedType, VideoType, CountInv, EndInv
<1>5. CASE AudioPop(s)
  <2> USE <1>5 DEF AudioPop
  <2>1. /\ Head(audio_frame_queue) \in 1 .. MaxSounds
        /\ Tail(audio_frame_queue) \in Seq(1 .. MaxSounds)
    BY HeadTailProperties DEF SharedType
  <2>2. SharedType'
    BY <2>1 DEF SharedType
  <2>3. AudioType'
    BY <2>1 DEF AudioType
  <2>4. AudioInv'
    BY <1>3 DEF AudioType, AudioInv
  <2>5. StartInv'
    BY <1>2 DEF AudioType, StartInv, SharedType, Sessions
  <2> QED
    BY <2>2, <2>3, <2>4, <2>5 DEF VideoType, CountInv, EndInv
<1>6. CASE AudioEncode(s)
  <2> USE <1>6 DEF AudioEncode
  <2>1. PICK e \in EncoderState, p \in AudioPackets :
          /\ aenc' = [aenc EXCEPT ![s] = e] /\ Held(e) = Held(aenc[s]) + 1
          /\ apacket' = [apacket EXCEPT ![s] = p]
    <3>0. PICK fed : fed = Feed(aenc[s], aframe[s], acount[s])
      OBVIOUS
    <3>1. fed \in EncoderState /\ Held(fed) = Held(aenc[s]) + 1
      BY <1>3, <3>0, FeedHolds DEF AudioType
    <3>2. /\ aenc' = [aenc EXCEPT ![s] =
                        IF Len(fed.pending) > AudioDelay THEN Emit(fed, 1) ELSE fed]
          /\ apacket' = [apacket EXCEPT ![s] =
               IF Len(fed.pending) > AudioDelay THEN AudioPacket(fed)
               ELSE EmptyPacket(AUDIO_STREAM)]
      BY <3>0
    <3>3. AudioPacket(fed) \in AudioPackets /\ EmptyPacket(AUDIO_STREAM) \in AudioPackets
      <4>1. fed.pending[1].frame \in Nat
        BY <1>3, <3>0, FedPending DEF AudioType
      <4> QED
        BY <3>1, <4>1, AudioPacketType
    <3>4. CASE Len(fed.pending) > AudioDelay
      <4>1. 1 \in DOMAIN fed.pending
        BY <3>1, <3>4, EncoderType, RecorderAssumption, LenProperties DEF RecorderAssumption
      <4>2. Emit(fed, 1) \in EncoderState /\ Held(Emit(fed, 1)) = Held(fed)
        BY <3>1, <4>1, EmitHolds
      <4> QED
        BY <3>1, <3>2, <3>3, <3>4, <4>2
    <3>5. CASE ~(Len(fed.pending) > AudioDelay)
      BY <3>1, <3>2, <3>3, <3>5
    <3> QED
      BY <3>4, <3>5
  <2>2. /\ acount' = [acount EXCEPT ![s] = @ + 1]
        /\ apc' = [apc EXCEPT ![s] = "write"]
    OBVIOUS
  <2>3. acount'[s] = acount[s] + 1
    BY <2>2 DEF AudioType
  <2>4. SharedType'
    BY DEF SharedType
  <2>5. AudioType'
    BY <2>1, <2>2, <2>3 DEF AudioType
  <2>6. Held(aenc'[s]) = Held(aenc[s]) + 1
    BY <2>1 DEF AudioType
  <2>7. AudioInv'
    BY <1>3, <2>1, <2>2, <2>3, <2>6 DEF AudioInv, AudioType
  <2>8. StartInv'
    BY <1>2, <2>2 DEF AudioType, StartInv, SharedType, Sessions
  <2> QED
    BY <2>4, <2>5, <2>7, <2>8 DEF VideoType, CountInv, EndInv
<1>7. CASE AudioEncodeFails(s) \/ AudioUseAfterFree(s)
  <2>1. /\ acount' = [acount EXCEPT ![s] = @ + 1]
        /\ apc[s] # "write"
        /\ \E to \in {"loop", "done"} : apc' = [apc EXCEPT ![s] = to]
        /\ UNCHANGED <<ui, queues, isEnd, video, aframe, aenc, apacket, mic, spoiled>>
        /\ alive' \in BOOLEAN
    BY <1>7 DEF AudioEncodeFails, AudioUseAfterFree, SharedType
  <2>2. AudioType'
    BY <2>1 DEF AudioType
  <2>3. AudioInv'
    BY <1>3, <2>1 DEF AudioInv, AudioType
  <2>4. StartInv'
    BY <1>2, <2>1 DEF AudioType, StartInv, SharedType, Sessions
  <2> QED
    BY <2>1, <2>2, <2>3, <2>4 DEF SharedType, VideoType, CountInv, EndInv
<1>8. CASE AudioUnopened(s)
  <2> USE <1>8 DEF AudioUnopened
  <2>1. SharedType' /\ VideoType' /\ AudioType'
    BY DEF SharedType, VideoType, AudioType
  <2> QED
    BY <2>1 DEF StartInv, CountInv, EndInv, AudioInv
<1>9. CASE AudioWrite(s) \/ AudioWriteRaces(s) \/ AudioLateWrite(s)
  <2>1. /\ apacket' = [apacket EXCEPT ![s] = EmptyPacket(AUDIO_STREAM)]
        /\ apc' = [apc EXCEPT ![s] = IF acount[s] > FrameLimit THEN "done" ELSE "loop"]
        /\ UNCHANGED <<ui, queues, isEnd, video, aframe, acount, aenc, mic>>
        /\ alive' \in BOOLEAN /\ spoiled' \subseteq Sessions
    BY <1>9 DEF AudioWrite, AudioWriteRaces, AudioLateWrite, AudioWritten, Full, SharedType
  <2>2. AudioType'
    BY <2>1, AudioPacketType DEF AudioType
  <2>3. AudioInv'
    BY <1>3, <2>1 DEF AudioInv, AudioType
  <2>4. StartInv'
    BY <1>2, <2>1 DEF AudioType, StartInv, SharedType, Sessions
  <2> QED
    BY <2>1, <2>2, <2>3, <2>4 DEF SharedType, VideoType, CountInv, EndInv
<1> QED
  BY <1>4, <1>5, <1>6, <1>7, <1>8, <1>9 DEF AudioThread

\* Every step of the system.
LEMMA NextIInv == IInv /\ [Next]_vars => IInv'
<1> SUFFICES ASSUME IInv, [Next]_vars PROVE IInv'
  OBVIOUS
<1>1. CASE Next
  BY <1>1, UIStep, MicStep, VideoStep, AudioStep DEF Next
<1>2. CASE UNCHANGED vars
  BY <1>2 DEF vars, ui, queues, video, audio, mic, IInv, TypeOK, SharedType, VideoType,
              AudioType, StartInv, CountInv, EndInv, AudioInv
<1> QED
  BY <1>1, <1>2

\* The invariant holds in every reachable state.
LEMMA Inductive == Spec => []IInv
  BY InitIInv, NextIInv, PTL DEF Spec

-----------------------------------------------------------------------------
\* Every variable but the muxing context keeps its type; in particular no thread
\* ever counts more than FrameLimit + 1 frames of video.
THEOREM TypeCorrect == Spec => []TypeOK
<1>1. IInv => TypeOK
  BY DEF IInv
<1> QED
  BY <1>1, Inductive, PTL

\* However the threads of however many recordings interleave, and whatever fails,
\* the test of frameCount after counting lets no recording encode more than
\* FrameLimit + 1 frames of either kind, and isEnd goes up only when one is full.
THEOREM LimitKept == Spec => []StopsAtLimit
<1>1. IInv => StopsAtLimit
  BY Bounds DEF IInv, TypeOK, VideoType, AudioInv, EndInv, Past, StopsAtLimit
<1> QED
  BY <1>1, Inductive, PTL

=============================================================================
