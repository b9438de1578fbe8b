------------------------------ MODULE Recorder ------------------------------
(***************************************************************************)
(* The recording pipeline of native-lib.cpp and the Java code that feeds   *)
(* it.  The UI thread starts and stops recordings and delivers preview     *)
(* frames; a pool thread per recording reads the microphone; prepareRecord *)
(* starts, per recording, a thread that encodes video and one that encodes *)
(* audio.  All of them share the two frame queues and the flag isEnd;      *)
(* the two encoding threads of a recording share its muxing context.       *)
(*                                                                         *)
(* The queues are the first-in first-out queues that ThreadsafeQueue       *)
(* implements, and the context is a Muxer.  A session is one call of       *)
(* prepareRecord; all per-thread state is indexed by it.                   *)
(*                                                                         *)
(* Nothing locks the context.  Until the trailer that does no harm: the    *)
(* video thread's av_interleaved_write_frame touches the video stream and  *)
(* the interleaving buffer, the audio thread's av_write_frame the audio    *)
(* stream and the file, so whole calls are steps.  (No packet leaves the   *)
(* buffer before the trailer: RecorderAssumption and VideoOnlyAtTrailer.)  *)
(* av_write_trailer touches everything: it has a beginning and an end.     *)
(***************************************************************************)
EXTENDS Muxer, Encoder

CONSTANTS FrameLimit,     \* 100 in native-lib.cpp:336 and :420
          VideoPeriod,    \* duration of a video frame
          Reorder,        \* by how many frames the video dts runs behind
          VideoDelay,     \* most frames that wait inside the video encoder
          AudioDelay,     \* frames that wait inside the audio encoder
          MaxSessions,    \* bound: recordings started
          MaxFrames,      \* bound: preview frames captured
          MaxSounds,      \* bound: microphone buffers read
          MayStop,        \* may the user stop a recording?
          MayFail         \* may opening, encoding and writing fail?

ASSUME RecorderAssumption ==
    /\ {FrameLimit, Reorder, VideoDelay, AudioDelay, MaxSessions, MaxFrames, MaxSounds}
         \subseteq Nat
    /\ VideoPeriod \in Nat \ {0}
    /\ NoPts < -(Reorder * VideoPeriod) /\ NoPts < -(AudioDelay * AudioPeriod)
    /\ (FrameLimit + 1) * VideoPeriod <= MaxInterleaveDelta   \* 101 * 40 ms and 10 s
    /\ {MayStop, MayFail} \subseteq BOOLEAN

VARIABLES
    isPushing,            \* the button, and isPushing of both pushers
    session,              \* recordings started so far
    shots,                \* preview frames captured so far
    heard,                \* microphone buffers read so far
    video_frame_queue,    \* captured frames, by number
    audio_frame_queue,    \* microphone buffers, by number
    isEnd,                \* the global flag of native-lib.cpp:179
    vpc, apc, wpc,        \* per session: statement of the video encoding, the
                          \* audio encoding, and the microphone thread
    vframe, aframe,       \* per session: the frame popped from the queue
    vcount, acount,       \* per session: frameCount of either thread
    venc, aenc,           \* per session: the encoders
    apacket,              \* per session: the packet the audio thread is to write
    mux,                  \* per session: the muxing context
    spoiled,              \* recordings whose trailer and a packet were written at once
    unopened,             \* per session: streams whose encoder failed to open
    alive                 \* FALSE once the process has crashed

ui == <<isPushing, session, shots, unopened>>
queues == <<video_frame_queue, audio_frame_queue>>
video == <<vpc, vframe, vcount, venc>>
audio == <<apc, aframe, acount, aenc, apacket>>
mic == <<wpc, heard>>
vars == <<ui, queues, isEnd, video, audio, mic, mux, spoiled, alive>>

Sessions == 1 .. MaxSessions

PerSession(x) == [s \in Sessions |-> x]

Init ==
    /\ isPushing = FALSE /\ session = 0 /\ shots = 0 /\ heard = 0
    /\ video_frame_queue = << >> /\ audio_frame_queue = << >>
    /\ isEnd = FALSE /\ alive = TRUE /\ spoiled = {}
    /\ vpc = PerSession("none") /\ apc = PerSession("none") /\ wpc = PerSession("none")
    /\ vframe = PerSession(0) /\ aframe = PerSession(0)
    /\ vcount = PerSession(0) /\ acount = PerSession(0)
    /\ venc = PerSession(NewEncoder) /\ aenc = PerSession(NewEncoder)
    /\ apacket = PerSession(EmptyPacket(AUDIO_STREAM))
    /\ mux = PerSession(NewMuxer) /\ unopened = PerSession({})

Outcomes == IF MayFail THEN {TRUE, FALSE} ELSE {TRUE}

\* The thread of session s is at the given statement, in a process that lives.
VideoAt(s, label) == alive /\ vpc[s] = label
AudioAt(s, label) == alive /\ apc[s] = label
MicAt(s, label) == alive /\ wpc[s] = label

\* ... and, if it is about to use the encoder, the encoder is open.
VideoUses(s, label) == VideoAt(s, label) /\ VIDEO_STREAM \notin unopened[s]
AudioUses(s, label) == AudioAt(s, label) /\ AUDIO_STREAM \notin unopened[s]

\* How many of n packets the output device takes during a call.
Takes(n) == IF MayFail THEN 0 .. n ELSE {n}

-----------------------------------------------------------------------------
(* The UI thread: the record button and the camera's preview callback.     *)

\* recordControl, LiveEngine.startRecord and prepareRecord.  When avio_open
\* fails prepareRecord returns before it has started any thread; the pushers
\* are started all the same.  When create_avstream fails nobody notices.
StartRecord ==
    /\ alive /\ ~isPushing /\ session < MaxSessions
    /\ isPushing' = TRUE
    /\ session' = session + 1
    /\ \E opened \in Outcomes :
         /\ vpc' = [vpc EXCEPT ![session'] = IF opened THEN "loop" ELSE "none"]
         /\ apc' = [apc EXCEPT ![session'] = IF opened THEN "start" ELSE "none"]
         /\ \E failed \in IF opened /\ MayFail THEN SUBSET Streams ELSE {{}} :
              unopened' = [unopened EXCEPT ![session'] = failed]
    /\ wpc' = [wpc EXCEPT ![session'] = "on"]
    /\ UNCHANGED <<shots, heard, queues, isEnd, vframe, vcount, venc,
                   aframe, acount, aenc, apacket, mux, spoiled, alive>>

\* recordControl and LiveEngine.stopRecord stop the pushers, nothing else.
StopRecord ==
    /\ alive /\ isPushing /\ MayStop
    /\ isPushing' = FALSE
    /\ UNCHANGED <<session, shots, unopened, queues, isEnd, video, audio, mic, mux, spoiled, alive>>

\* onPreviewFrame, pushData and startSendOneVideoFrame: a copy of the frame is
\* queued while the recording is on.
PreviewFrame ==
    /\ alive /\ isPushing /\ shots < MaxFrames
    /\ shots' = shots + 1
    /\ video_frame_queue' = Append(video_frame_queue, shots')
    /\ UNCHANGED <<isPushing, session, unopened, audio_frame_queue, isEnd, video, audio,
                   mic, mux, spoiled, alive>>

-----------------------------------------------------------------------------
(* The microphone thread of session s (AudioPusher.encodeRecordData).      *)

(* while (isPushing): the thread reads the flag, blocks in read(), and      *)
(* queues the buffer.                                                      *)

\* The buffer is queued although the recording may have been stopped since the
\* flag was read; the thread goes on if the flag is up when it looks again.
MicRead(s) ==
    /\ MicAt(s, "on") /\ heard < MaxSounds
    /\ heard' = heard + 1
    /\ audio_frame_queue' = Append(audio_frame_queue, heard')
    /\ wpc' = [wpc EXCEPT ![s] = IF isPushing THEN "on" ELSE "done"]
    /\ UNCHANGED <<ui, video_frame_queue, isEnd, video, audio, mux, spoiled, alive>>

\* It finds the flag down before it reads.
MicQuit(s) ==
    /\ MicAt(s, "on") /\ ~isPushing
    /\ wpc' = [wpc EXCEPT ![s] = "done"]
    /\ UNCHANGED <<ui, heard, queues, isEnd, video, audio, mux, spoiled, alive>>

-----------------------------------------------------------------------------
(* startVideoEncode of session s.                                          *)

\* while (!isEnd)
VideoTest(s) ==
    /\ VideoAt(s, "loop")
    /\ vpc' = [vpc EXCEPT ![s] = IF isEnd THEN "flush" ELSE "pop"]
    /\ UNCHANGED <<ui, queues, isEnd, vframe, vcount, venc, audio, mic, mux, spoiled, alive>>

\* Bug: the frame is looked at but stays in the queue.
VideoPeek(s) ==
    /\ VideoAt(s, "pop") /\ video_frame_queue # << >>
    /\ vframe' = [vframe EXCEPT ![s] = Head(video_frame_queue)]
    /\ vpc' = [vpc EXCEPT ![s] = "encode"]
    /\ UNCHANGED <<ui, queues, isEnd, vcount, venc, audio, mic, mux, spoiled, alive>>

\* video_frame_queue.wait_and_pop()
VideoPop(s) ==
    /\ VideoAt(s, "pop") /\ video_frame_queue # << >>
    /\ vframe' = [vframe EXCEPT ![s] = Head(video_frame_queue)]
    /\ video_frame_queue' = Tail(video_frame_queue)
    /\ vpc' = [vpc EXCEPT ![s] = "encode"]
    /\ UNCHANGED <<ui, audio_frame_queue, isEnd, vcount, venc, audio, mic, mux, spoiled, alive>>

\* Bug (native-lib.cpp:323 has it, commented out): the packet is stamped with a
\* counter of its own.
VideoPacketRestamped(e, i) ==
    [stream |-> VIDEO_STREAM, pts |-> e.out * VideoPeriod, dts |-> e.out * VideoPeriod,
     size |-> 1, frame |-> e.pending[i].frame]

\* The packet for a frame that leaves the video encoder.
VideoPacket(e, i) ==
    [stream |-> VIDEO_STREAM, pts |-> e.pending[i].count * VideoPeriod,
     dts |-> (e.out - Reorder) * VideoPeriod, size |-> 1, frame |-> e.pending[i].frame]

\* avcodec_encode_video2 fails: the frame is dropped and not counted.
VideoEncodeFails(s) ==
    /\ VideoUses(s, "encode") /\ MayFail
    /\ vpc' = [vpc EXCEPT ![s] = "loop"]
    /\ UNCHANGED <<ui, queues, isEnd, vframe, vcount, venc, audio, mic, mux, spoiled, alive>>

\* Bug: the limit is one frame too late.
FullTooLate(n) == n > FrameLimit + 1

\* Bug: there is no limit.
FullNever(n) == FALSE

\* frameCount > 100, after counting.
Full(n) == n > FrameLimit

\* An encoder that failed to open has no codec (avcodec_open2 clears it): the
\* first call that uses it crashes.
VideoUnopened(s) ==
    /\ VideoAt(s, "encode") \/ VideoAt(s, "flush")
    /\ VIDEO_STREAM \in unopened[s]
    /\ alive' = FALSE
    /\ UNCHANGED <<ui, queues, isEnd, video, audio, mic, mux, spoiled>>

\* It takes the frame, with a pts computed from frameCount, and returns a packet
\* or none: the test of got_packet_ptr (native-lib.cpp:311) holds either way, so
\* the frame is counted and enc_pkt is written either way.  The result of
\* av_interleaved_write_frame is ignored.  (Encoding, counting and comparing are
\* private to the thread, so they and the write between them are one step.)
VideoEncode(s) ==
    /\ VideoUses(s, "encode")
    /\ LET e == Feed(venc[s], vframe[s], vcount[s])
           write(p) == \E good \in Takes(Len(mux[s].packet_buffer) + 1) :
               mux' = [mux EXCEPT ![s] = av_interleaved_write_frame(@, p, good)]
       IN  \/ /\ Len(e.pending) <= VideoDelay
              /\ venc' = [venc EXCEPT ![s] = e]
              /\ write(EmptyPacket(VIDEO_STREAM))
           \/ \E i \in Candidates(e, Reorder) :
              /\ venc' = [venc EXCEPT ![s] = Emit(e, i)]
              /\ write(VideoPacket(e, i))
    /\ vcount' = [vcount EXCEPT ![s] = @ + 1]
    /\ vpc' = [vpc EXCEPT ![s] = IF Full(vcount'[s]) THEN "end" ELSE "loop"]
    /\ UNCHANGED <<ui, queues, isEnd, vframe, audio, mic, spoiled, alive>>

\* Past the limit the thread ends the recording for everyone.
VideoEnd(s) ==
    /\ VideoAt(s, "end")
    /\ isEnd' = TRUE
    /\ vpc' = [vpc EXCEPT ![s] = "flush"]
    /\ UNCHANGED <<ui, queues, vframe, vcount, venc, audio, mic, mux, spoiled, alive>>

\* One turn of flush_encoder: a packet comes out and is written.
VideoFlush(s) ==
    /\ VideoUses(s, "flush")
    /\ \E i \in Candidates(venc[s], Reorder) :
         /\ venc' = [venc EXCEPT ![s] = Emit(@, i)]
         /\ \E good \in Takes(Len(mux[s].packet_buffer) + 1) :
              mux' = [mux EXCEPT ![s] =
                        av_interleaved_write_frame(@, VideoPacket(venc[s], i), good)]
         /\ vpc' = [vpc EXCEPT ![s] =
                      IF write_failed(mux[s], VideoPacket(venc[s], i), mux'[s])
                      THEN "failed" ELSE "flush"]
    /\ UNCHANGED <<ui, queues, isEnd, vframe, vcount, audio, mic, spoiled, alive>>

\* The encoder fails while it is flushed: no trailer is written.
VideoFlushFails(s) ==
    /\ VideoUses(s, "flush") /\ MayFail
    /\ vpc' = [vpc EXCEPT ![s] = "failed"]
    /\ UNCHANGED <<ui, queues, isEnd, vframe, vcount, venc, audio, mic, mux, spoiled, alive>>

\* Bug: the encoder is not flushed.
VideoNotFlushed(s) ==
    /\ VideoUses(s, "flush")
    /\ vpc' = [vpc EXCEPT ![s] = "trailer"]
    /\ UNCHANGED <<ui, queues, isEnd, vframe, vcount, venc, audio, mic, mux, spoiled, alive>>

\* Nothing is left in the encoder.
VideoFlushed(s) ==
    /\ VideoUses(s, "flush") /\ venc[s].pending = << >>
    /\ vpc' = [vpc EXCEPT ![s] = "trailer"]
    /\ UNCHANGED <<ui, queues, isEnd, vframe, vcount, venc, audio, mic, mux, spoiled, alive>>

\* av_write_trailer begins to drain the buffer and to write the index.
VideoTrailer(s) ==
    /\ VideoAt(s, "trailer")
    /\ vpc' = [vpc EXCEPT ![s] = "trailing"]
    /\ UNCHANGED <<ui, queues, isEnd, vframe, vcount, venc, audio, mic, mux, spoiled, alive>>

\* ... and has done so.
VideoTrailerEnd(s) ==
    /\ VideoAt(s, "trailing")
    /\ \E good \in Takes(Len(mux[s].packet_buffer)) :
         mux' = [mux EXCEPT ![s] = av_write_trailer(@, good)]
    /\ vpc' = [vpc EXCEPT ![s] = "close"]
    /\ UNCHANGED <<ui, queues, isEnd, vframe, vcount, venc, audio, mic, spoiled, alive>>

\* The frame is freed twice (data is the first field of AVFrame): the allocator
\* may abort, or not notice.  Then the streams and the context are freed.
VideoClose(s) ==
    /\ VideoAt(s, "close")
    /\ vpc' = [vpc EXCEPT ![s] = "done"]
    /\ alive' \in BOOLEAN
    /\ UNCHANGED <<ui, queues, isEnd, vframe, vcount, venc, audio, mic, mux, spoiled>>

-----------------------------------------------------------------------------
(* startAudioEncode of session s.                                          *)

\* The thread looks up its encoder in the context before it looks at isEnd.  If a
\* recording is already over, the video thread may have freed both: what is read
\* then is garbage, if reading it does not crash, and the loop is not entered.
AudioStart(s) ==
    /\ AudioAt(s, "start")
    /\ apc' = [apc EXCEPT ![s] = "loop"]
    /\ alive' \in IF vpc[s] = "done" THEN BOOLEAN ELSE {TRUE}
    /\ UNCHANGED <<ui, queues, isEnd, video, aframe, acount, aenc, apacket, mic, mux, spoiled>>

\* while (!isEnd)
AudioTest(s) ==
    /\ AudioAt(s, "loop")
    /\ apc' = [apc EXCEPT ![s] = IF isEnd THEN "done" ELSE "pop"]
    /\ UNCHANGED <<ui, queues, isEnd, video, aframe, acount, aenc, apacket, mic, mux, spoiled, alive>>

\* Bug: the buffer is looked at but stays in the queue.
AudioPeek(s) ==
    /\ AudioAt(s, "pop") /\ audio_frame_queue # << >>
    /\ aframe' = [aframe EXCEPT ![s] = Head(audio_frame_queue)]
    /\ apc' = [apc EXCEPT ![s] = "encode"]
    /\ UNCHANGED <<ui, queues, isEnd, video, acount, aenc, apacket, mic, mux, spoiled, alive>>

\* audio_frame_queue.wait_and_pop()
AudioPop(s) ==
    /\ AudioAt(s, "pop") /\ audio_frame_queue # << >>
    /\ aframe' = [aframe EXCEPT ![s] = Head(audio_frame_queue)]
    /\ audio_frame_queue' = Tail(audio_frame_queue)
    /\ apc' = [apc EXCEPT ![s] = "encode"]
    /\ UNCHANGED <<ui, video_frame_queue, isEnd, video, acount, aenc, apacket, mic, mux, spoiled, alive>>

\* The packet for the buffer that leaves the audio encoder.  Its timestamp is the
\* oldest in the wrapper's queue (audio_frame_queue.c).  Every frameCount gets into
\* that queue, that of a failing buffer too, after AudioDelay frames of padding; so
\* packet number n is dated n - AudioDelay, whichever buffer it holds.
AudioPacket(e) ==
    LET t == (e.out - AudioDelay) * AudioPeriod
    IN  [stream |-> AUDIO_STREAM, pts |-> t, dts |-> t, size |-> 1,
         frame |-> e.pending[1].frame]

AudioUnopened(s) ==
    /\ AudioAt(s, "encode") /\ vpc[s] # "done" /\ AUDIO_STREAM \in unopened[s]
    /\ alive' = FALSE
    /\ UNCHANGED <<ui, queues, isEnd, video, audio, mic, mux, spoiled>>

\* frameCount is incremented before the frame is encoded, so a frame that fails
\* is counted all the same.
AudioEncodeFails(s) ==
    /\ AudioUses(s, "encode") /\ vpc[s] # "done" /\ MayFail
    /\ acount' = [acount EXCEPT ![s] = @ + 1]
    /\ apc' = [apc EXCEPT ![s] = "loop"]
    /\ UNCHANGED <<ui, queues, isEnd, video, aframe, aenc, apacket, mic, mux, spoiled, alive>>

\* The encoder takes the buffer, and returns a packet or an empty one.  It is
\* intact until the video thread frees it, so it takes a buffer after the trailer.
AudioEncode(s) ==
    /\ AudioUses(s, "encode") /\ vpc[s] # "done"
    /\ LET e == Feed(aenc[s], aframe[s], acount[s])
           full == Len(e.pending) > AudioDelay
       IN  /\ aenc' = [aenc EXCEPT ![s] = IF full THEN Emit(e, 1) ELSE e]
           /\ apacket' = [apacket EXCEPT ![s] =
                            IF full THEN AudioPacket(e) ELSE EmptyPacket(AUDIO_STREAM)]
    /\ acount' = [acount EXCEPT ![s] = @ + 1]
    /\ apc' = [apc EXCEPT ![s] = "write"]
    /\ UNCHANGED <<ui, queues, isEnd, video, aframe, mic, mux, spoiled, alive>>

\* After av_write_frame: av_free_packet, and the limit.
AudioWritten(s) ==
    /\ apacket' = [apacket EXCEPT ![s] = EmptyPacket(AUDIO_STREAM)]
    /\ apc' = [apc EXCEPT ![s] = IF Full(acount[s]) THEN "done" ELSE "loop"]
    /\ UNCHANGED <<ui, queues, isEnd, video, aframe, acount, aenc, mic>>

\* The packet, empty or not, goes to av_write_frame.
AudioWrite(s) ==
    /\ AudioAt(s, "write") /\ vpc[s] \notin {"trailing", "close", "done"}
    /\ \E works \in Outcomes :
         mux' = [mux EXCEPT ![s] = av_write_frame(@, apacket[s], works)]
    /\ AudioWritten(s)
    /\ UNCHANGED <<spoiled, alive>>

\* Both threads write to the file and its tables at once: what becomes of them, or
\* of the process, is open, and nothing more is said of this file.
AudioWriteRaces(s) ==
    /\ AudioAt(s, "write") /\ vpc[s] = "trailing"
    /\ alive' \in BOOLEAN
    /\ spoiled' = spoiled \cup {s}
    /\ AudioWritten(s)
    /\ UNCHANGED mux

\* av_write_trailer has freed the muxer's data, or the video thread all of the
\* context: the thread may crash, or get away with it; the packet is lost.
AudioLateWrite(s) ==
    /\ AudioAt(s, "write") /\ vpc[s] \in {"close", "done"}
    /\ alive' \in BOOLEAN
    /\ AudioWritten(s)
    /\ UNCHANGED <<mux, spoiled>>

\* The video thread has freed the encoder and the context, and this thread uses
\* the one and then, if that appears to work, the other.
AudioUseAfterFree(s) ==
    /\ AudioAt(s, "encode") /\ vpc[s] = "done"
    /\ alive' \in BOOLEAN
    /\ acount' = [acount EXCEPT ![s] = @ + 1]
    /\ \E to \in {"loop", IF Full(acount'[s]) THEN "done" ELSE "loop"} :
         apc' = [apc EXCEPT ![s] = to]
    /\ UNCHANGED <<ui, queues, isEnd, video, aframe, aenc, apacket, mic, mux, spoiled>>

-----------------------------------------------------------------------------
MicThread(s) == MicRead(s) \/ MicQuit(s)

VideoThread(s) ==
    \/ VideoTest(s) \/ VideoPop(s) \/ VideoEncode(s) \/ VideoEncodeFails(s)
    \/ VideoEnd(s) \/ VideoFlush(s) \/ VideoFlushFails(s) \/ VideoFlushed(s)
    \/ VideoTrailer(s) \/ VideoTrailerEnd(s) \/ VideoClose(s) \/ VideoUnopened(s)

AudioThread(s) ==
    \/ AudioStart(s) \/ AudioTest(s) \/ AudioPop(s) \/ AudioEncode(s) \/ AudioEncodeFails(s)
    \/ AudioWrite(s) \/ AudioWriteRaces(s) \/ AudioLateWrite(s) \/ AudioUseAfterFree(s)
    \/ AudioUnopened(s)

Next == \/ StartRecord
        \/ StopRecord
        \/ PreviewFrame
        \/ \E s \in Sessions : MicThread(s) \/ VideoThread(s) \/ AudioThread(s)

Spec == Init /\ [][Next]_vars

(***************************************************************************)
(* The encoding threads run when they can; while a recording is on, the    *)
(* camera keeps delivering frames and the microphone buffers.  The user    *)
(* need not ever press the button.                                         *)
(***************************************************************************)
FairSpec ==
    /\ Spec
    /\ WF_vars(PreviewFrame)
    /\ \A s \in Sessions : /\ WF_vars(MicThread(s))
                           /\ WF_vars(VideoThread(s))
                           /\ WF_vars(AudioThread(s))

-----------------------------------------------------------------------------
(* Properties.                                                             *)

\* The types of the shared variables and of those of each kind of thread.
SharedType ==
    /\ isPushing \in BOOLEAN /\ isEnd \in BOOLEAN /\ alive \in BOOLEAN
    /\ session \in 0 .. MaxSessions /\ shots \in 0 .. MaxFrames /\ heard \in 0 .. MaxSounds
    /\ unopened \in [Sessions -> SUBSET Streams] /\ spoiled \subseteq Sessions
    /\ video_frame_queue \in Seq(1 .. MaxFrames) /\ audio_frame_queue \in Seq(1 .. MaxSounds)
VideoType ==
    /\ vpc \in [Sessions -> {"none", "loop", "pop", "encode", "end", "flush",
                             "trailer", "trailing", "close", "done", "failed"}]
    /\ vframe \in [Sessions -> 0 .. MaxFrames] /\ venc \in [Sessions -> EncoderState]
    /\ vcount \in [Sessions -> 0 .. FrameLimit + 1]
AudioPackets == {p \in Packet : p.stream = AUDIO_STREAM}
AudioType ==
    /\ apc \in [Sessions -> {"none", "start", "loop", "pop", "encode", "write", "done"}]
    /\ wpc \in [Sessions -> {"none", "on", "done"}]
    /\ aframe \in [Sessions -> 0 .. MaxSounds] /\ aenc \in [Sessions -> EncoderState]
    /\ acount \in [Sessions -> Nat] /\ apacket \in [Sessions -> AudioPackets]

\* The type of every variable but the muxing context, which MuxContext treats.
TypeOK == SharedType /\ VideoType /\ AudioType

\* The recordings whose file is what one thread at a time has made it.
Readable == Sessions \ spoiled

VideoInFile(s) == Shown(mux[s].file, VIDEO_STREAM)
VideoOut(s) == VideoInFile(s) \cup Shown(mux[s].packet_buffer, VIDEO_STREAM)

\* What a file shows, it shows in the order in which it was captured, although
\* packets travel in decoding order: the timestamps made from frameCount keep
\* the order in which the two threads used the queue.
PresentationOrder == \A s \in Readable : \A p, q \in VideoOut(s) :
    /\ p.pts < q.pts <=> p.frame < q.frame
    /\ p.pts = q.pts => p = q

\* No captured frame gets into two recordings, or into one while it still waits
\* in the queue, even when two recordings encode at the same time.
NoFrameTwice ==
    LET frames(s) == {p.frame : p \in VideoOut(s)} \cup
                     {x.frame : x \in ToSet(venc[s].pending)}
    IN  \A s \in Readable :
          /\ frames(s) \cap ToSet(video_frame_queue) = {}
          /\ \A u \in Readable \ {s} : frames(s) \cap frames(u) = {}

\* The frames of a recording: one just taken from the queue, those inside the
\* encoder and those in packets; once it is finished, those its file shows.
FramesOf(s) ==
    IF mux[s].finished THEN {p.frame : p \in VideoInFile(s)}
    ELSE {p.frame : p \in VideoOut(s)} \cup {x.frame : x \in ToSet(venc[s].pending)}
           \cup (IF vpc[s] = "encode" THEN {vframe[s]} ELSE {})

\* The pipeline implements what Segments promises: through two threads per
\* recording, a shared queue, reordering encoders and the interleaving buffer no
\* frame is skipped, doubled or moved to another recording, none is lost but by a
\* failure, and nothing changes a finished file.  (A spoiled one never counts as
\* finished.)
Picture == INSTANCE Segments
    WITH captured <- shots, claimed <- shots - Len(video_frame_queue),
         segment <- [s \in Sessions |-> FramesOf(s)],
         finished <- [s \in Sessions |-> mux[s].finished /\ s \in Readable]
ImplementsSegments == Picture!Spec

\* A finished file shows every frame its thread has counted, at the time it was
\* counted for: nothing is left in the encoder or in the interleaving buffer by
\* the flush and the trailer, and the muxer refuses no packet of the encoder.
FileComplete == \A s \in Readable :
    mux[s].finished /\ ~mux[s].error =>
        {p.pts : p \in VideoInFile(s)} = {n * VideoPeriod : n \in 0 .. vcount[s] - 1}

\* Frames an encoder has taken, whether or not their packets are out yet.
Held(e) == e.out + Len(e.pending)

\* The limit is checked after counting: a recording has at most FrameLimit + 1
\* frames of either kind, and the shared flag goes up only when one is full.
\* (Failed audio frames are counted too, so acount itself is not bounded.)
StopsAtLimit ==
    /\ \A s \in Sessions : /\ vcount[s] <= FrameLimit + 1
                           /\ Held(aenc[s]) <= FrameLimit + 1
    /\ isEnd <=> \E s \in Sessions :
                   /\ vcount[s] = FrameLimit + 1
                   /\ vpc[s] \in {"flush", "trailer", "trailing", "close", "done", "failed"}

\* Where the sound is in the file of recording s.
SoundAt(s) == {i \in DOMAIN mux[s].file :
                 mux[s].file[i].stream = AUDIO_STREAM /\ HasData(mux[s].file[i])}

\* The sound of a file is in the order in which it was heard, and consists of what
\* the encoder has returned, which holds back AudioDelay buffers and is never
\* flushed: the muxer refuses no packet of it, although the empty packets written
\* while the encoder fills advance the clock of the stream past the first
\* timestamps.  Besides a packet still in hand, at most one is missing: the one the
\* audio thread is about to write when the trailer begins.
SoundComplete == \A s \in Readable :
    LET f == mux[s].file
        e == aenc[s]
        inhand == IF HasData(apacket[s]) THEN 1 ELSE 0
        written == Cardinality(SoundAt(s)) + inhand
    IN  /\ \A i, j \in SoundAt(s) : i < j => f[i].frame < f[j].frame /\ f[i].dts < f[j].dts
        /\ e.out = IF Held(e) > AudioDelay THEN Held(e) - AudioDelay ELSE 0
        /\ ~mux[s].error =>
             \/ written = e.out
             \/ written = e.out - 1 /\ vpc[s] \in {"close", "done"}

\* No buffer of sound gets into two recordings, or into one while it still waits
\* in the queue, even when two recordings encode at the same time.
NoSoundTwice ==
    LET sound(s) == {mux[s].file[i].frame : i \in SoundAt(s)} \cup
                    {x.frame : x \in ToSet(aenc[s].pending)} \cup
                    (IF HasData(apacket[s]) THEN {apacket[s].frame} ELSE {})
    IN  \A s \in Readable :
          /\ sound(s) \cap ToSet(audio_frame_queue) = {}
          /\ \A u \in Readable \ {s} : sound(s) \cap sound(u) = {}

\* Until its trailer is written a file holds sound only: a recording that never
\* gets that far has lost its whole picture.
VideoOnlyAtTrailer == \A s \in Sessions :
    ~mux[s].finished /\ vpc[s] # "trailing" => VideoInFile(s) = {}

\* A recording that is left running is finished: both threads come to their end,
\* though neither can be woken but by another frame of its own queue.
RunsToItsEnd == \A s \in Sessions :
    vpc[s] = "loop" ~> ~alive \/ (vpc[s] = "done" /\ apc[s] = "done")

\* "Once all the data has been written, the caller must call av_write_trailer()"
\* (avformat.h:240): the audio thread has nothing more to write by then.
TrailerIsLast == \A s \in Sessions : mux[s].finished => apc[s] \notin {"encode", "write"}

\* Recording is to write an mp4 (the notes, line 4): a recording the user stops
\* gets its trailer.
StopFinishesFile == \A s \in Sessions :
    session = s /\ ~isPushing ~> mux[s].finished \/ ~alive

\* Several segments are to be recorded (the notes, line 1): each finished one
\* shows something.
EverySegmentHasVideo == \A s \in Readable :
    mux[s].finished => VideoInFile(s) # {}
=============================================================================
