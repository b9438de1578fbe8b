---------------------------- MODULE FrameProofs -----------------------------
(***************************************************************************)
(* What becomes of the frames, for every limit, delay and number of        *)
(* recordings, and whatever fails: each frame taken from the queue belongs *)
(* to one recording, is shown at its place in it or lost by a failure, and *)
(* a finished file is complete.  From that, the recorder implements        *)
(* Segments.  Then the same for the sound.                                 *)
(***************************************************************************)
EXTENDS TrackingProofs

-----------------------------------------------------------------------------
(* The inductive invariant, on top of the one of RecorderProofs.           *)

\* How many frames the recordings have taken from the queue.
Taken == shots - Len(video_frame_queue)

MarksOf(s) == Marks(venc[s], mux[s])

\* The frames of recording s: those of its encoder and packets, and the one its
\* thread has just taken.
Owned(s) == {x.frame : x \in MarksOf(s)} \cup (IF vpc[s] = "encode" THEN {vframe[s]} ELSE {})

\* The queue holds the frames nobody has taken, in order.
QueueInv == /\ Len(video_frame_queue) <= shots
            /\ \A i \in 1 .. Len(video_frame_queue) : video_frame_queue[i] = Taken + i

\* The rest have been taken, each by one recording, and a recording takes them in
\* order.
OwnInv == /\ \A s \in Sessions : Owned(s) \subseteq 1 .. Taken
          /\ \A s, u \in Sessions : s # u => Owned(s) \cap Owned(u) = {}
          /\ \A s \in Sessions : vpc[s] = "encode" =>
               \A x \in MarksOf(s) : x.frame < vframe[s]

TrackInv == /\ mux \in [Sessions -> MuxerState]
            /\ \A s \in Sessions : Tracked(venc[s], mux[s], vcount[s])

\* The trailer comes after the flush.
Phase(s) ==
    /\ mux[s].finished <=> vpc[s] \in {"close", "done"}
    /\ vpc[s] \in {"trailer", "trailing", "close", "done"} => venc[s].pending = << >>
    /\ ~MayFail => ~mux[s].error

PhaseInv == \A s \in Sessions : Phase(s)

FInv == IInv /\ QueueInv /\ OwnInv /\ TrackInv /\ PhaseInv

-----------------------------------------------------------------------------
\* Nothing has been captured at first.
LEMMA InitFInv == Init => FInv
<1> SUFFICES ASSUME Init PROVE FInv
  OBVIOUS
<1>1. IInv
  BY InitIInv
<1> USE DEF Init, PerSession
<1> DEFINE e == NewEncoder
           m == NewMuxer
<1>2. /\ e \in EncoderState /\ e.pending = << >> /\ e.out = 0
      /\ m \in MuxerState /\ m.file = << >> /\ m.packet_buffer = << >>
      /\ m.cur_dts[VIDEO_STREAM] = NoPts /\ ~m.finished /\ ~m.error
  BY RecorderConstants DEF NewEncoder, NewMuxer, EncoderState, MuxerState, Streams
<1> HIDE DEF e, m
<1>3. ToSet(<< >>) = {}
  BY DEF ToSet
<1>4. Data(m) = {} /\ Marks(e, m) = {}
  BY <1>2, <1>3 DEF Data, Marks, Shown
<1>5. Fed(e, 0)
  BY <1>2 DEF Fed
<1>6. PacketInv(e, m, 0) /\ BufferInv(e, m, 0)
  BY <1>2, <1>3, <1>4 DEF PacketInv, BufferInv, Chain, Shown
<1>7. \A s \in Sessions : venc[s] = e /\ mux[s] = m /\ vcount[s] = 0 /\ vpc[s] = "none"
  BY DEF e, m
<1>8. TrackInv
  <2>1. mux \in [Sessions -> MuxerState]
    BY <1>2 DEF m
  <2> QED
    BY <1>2, <1>5, <1>6, <1>7, <2>1 DEF TrackInv, Tracked
<1>9. PhaseInv
  BY <1>2, <1>7 DEF PhaseInv, Phase
<1>10. \A s \in Sessions : Owned(s) = {} /\ MarksOf(s) = {}
  BY <1>4, <1>7 DEF Owned, MarksOf
<1>11. QueueInv /\ OwnInv
  BY <1>7, <1>10 DEF QueueInv, OwnInv, Taken
<1> QED
  BY <1>1, <1>8, <1>9, <1>11 DEF FInv

-----------------------------------------------------------------------------
(* Steps.                                                                  *)

\* A step that concerns the packets of recording s alone, and takes no frame.
Within(s) ==
    /\ UNCHANGED <<shots, video_frame_queue, vframe>>
    /\ mux' \in [Sessions -> MuxerState]
    /\ \A u \in Sessions \ {s} : /\ vpc'[u] = vpc[u] /\ venc'[u] = venc[u]
                                 /\ vcount'[u] = vcount[u] /\ mux'[u] = mux[u]

\* It keeps the invariant if it follows recording s and gives it no frame it did
\* not have.
LEMMA WithinKeeps ==
  ASSUME FInv, IInv', NEW s \in Sessions, Within(s),
         Tracked(venc'[s], mux'[s], vcount'[s]), Phase(s)', Owned(s)' \subseteq Owned(s),
         vpc'[s] = "encode" => vpc[s] = "encode" /\ MarksOf(s)' \subseteq MarksOf(s)
  PROVE  FInv'
<1>1. Taken' = Taken /\ QueueInv'
  BY DEF FInv, QueueInv, Taken, Within
<1>2. \A u \in Sessions \ {s} : Owned(u)' = Owned(u) /\ MarksOf(u)' = MarksOf(u)
  BY DEF Owned, MarksOf, Within
<1>3. \A u \in Sessions : Owned(u)' \subseteq Owned(u)
  BY <1>2
<1>4. OwnInv'
  <2>1. \A u \in Sessions : Owned(u)' \subseteq 1 .. Taken'
    BY <1>1, <1>3 DEF FInv, OwnInv
  <2>2. \A t, u \in Sessions : t # u => Owned(t)' \cap Owned(u)' = {}
    BY <1>3 DEF FInv, OwnInv
  <2>3. ASSUME NEW u \in Sessions, vpc'[u] = "encode", NEW x \in MarksOf(u)'
        PROVE  x.frame < vframe'[u]
    BY <1>2, <2>3 DEF FInv, OwnInv, Within
  <2> QED
    BY <2>1, <2>2, <2>3 DEF OwnInv
<1>5. TrackInv'
  BY DEF FInv, TrackInv, Within
<1>6. PhaseInv'
  BY DEF FInv, PhaseInv, Phase, Within
<1> QED
  BY <1>1, <1>4, <1>5, <1>6 DEF FInv

\* A step that neither takes a frame nor touches a packet.
LEMMA StillKeeps ==
  ASSUME FInv, IInv', UNCHANGED <<shots, video_frame_queue, video, mux>>
  PROVE  FInv'
<1>1. Taken' = Taken /\ \A s \in Sessions : Owned(s)' = Owned(s) /\ MarksOf(s)' = MarksOf(s)
  BY DEF Taken, Owned, MarksOf, video
<1>2. QueueInv' /\ OwnInv'
  BY <1>1 DEF FInv, QueueInv, OwnInv, video
<1>3. TrackInv' /\ PhaseInv'
  BY DEF FInv, TrackInv, PhaseInv, Phase, video
<1> QED
  BY <1>2, <1>3 DEF FInv

\* The UI thread and the microphone: a new frame joins the end of the queue, and a
\* recording begins without any.
LEMMA UIFrames ==
  ASSUME FInv, IInv', StartRecord \/ StopRecord \/ PreviewFrame
  PROVE  FInv'
<1> USE DEF queues, mic, audio
<1>1. CASE StartRecord
  <2>1. PICK start \in {"loop", "none"} : vpc' = [vpc EXCEPT ![session'] = start]
    BY <1>1 DEF StartRecord
  <2>2. /\ session \in 0 .. MaxSessions /\ MaxSessions \in Nat /\ session < MaxSessions
        /\ session' = session + 1 /\ vpc \in [Sessions -> {"none", "loop", "pop", "encode", "end",
                                         "flush", "trailer", "trailing", "close", "done", "failed"}]
    BY <1>1, Bounds DEF FInv, IInv, TypeOK, SharedType, VideoType, StartRecord
  <2>3. session' \in Sessions /\ session' > session
    BY <2>2 DEF Sessions
  <2>4. UNCHANGED <<shots, video_frame_queue, vframe, vcount, venc, mux>>
    BY <1>1 DEF StartRecord
  <2> DEFINE s == session'
  <2> HIDE DEF s
  <2>5. PICK u \in Sessions : u = s
    BY <2>3 DEF s
  <2>6. vpc[u] = "none" /\ vpc'[u] = start /\ \A t \in Sessions \ {u} : vpc'[t] = vpc[t]
    <3>1. vpc[u] = "none"
      BY <2>3, <2>5 DEF FInv, IInv, StartInv, s
    <3> QED
      BY <2>1, <2>2, <2>5, <3>1 DEF s
  <2>7. Within(u)
    BY <2>4, <2>6 DEF Within, FInv, TrackInv
  <2>8. Tracked(venc'[u], mux'[u], vcount'[u]) /\ MarksOf(u)' = MarksOf(u)
    BY <2>4 DEF FInv, TrackInv, MarksOf
  <2>9. Owned(u)' \subseteq Owned(u) /\ vpc'[u] # "encode"
    BY <2>1, <2>6, <2>8 DEF Owned
  <2>10. Phase(u)'
    BY <2>1, <2>4, <2>6 DEF FInv, PhaseInv, Phase
  <2> QED
    BY <2>7, <2>8, <2>9, <2>10, WithinKeeps
<1>2. CASE StopRecord
  <2>1. UNCHANGED <<shots, video_frame_queue, video, mux>>
    BY <1>2 DEF StopRecord
  <2> QED
    BY <2>1, StillKeeps
<1>3. CASE PreviewFrame
  <2>1. /\ shots \in Nat /\ shots' = shots + 1 /\ shots' \in 1 .. MaxFrames
        /\ video_frame_queue \in Seq(1 .. MaxFrames)
        /\ video_frame_queue' = Append(video_frame_queue, shots')
    BY <1>3, Bounds DEF PreviewFrame, FInv, IInv, TypeOK, SharedType
  <2>2. UNCHANGED <<video, mux>>
    BY <1>3 DEF PreviewFrame
  <2> DEFINE q == video_frame_queue
             r == video_frame_queue'
             l == Len(q)
             n == shots
  <2>3. n \in Nat /\ shots' = n + 1 /\ n + 1 \in Nat
    BY <2>1
  <2>4. l \in Nat /\ Len(r) = l + 1 /\ r[l + 1] = n + 1 /\ \A i \in 1 .. l : r[i] = q[i]
    <3> DEFINE S == 1 .. MaxFrames
    <3>1. q \in Seq(S) /\ r = Append(q, n + 1) /\ n + 1 \in S
      BY <2>1, <2>3
    <3> HIDE DEF S
    <3> HIDE DEF q, r
    <3> QED
      BY <2>3, <3>1, AppendProperties, LenProperties
  <2>5. l <= n /\ \A i \in 1 .. l : q[i] = n - l + i
    BY DEF FInv, QueueInv, Taken
  <2>6. Taken = n - l /\ Taken' = (n + 1) - (l + 1)
    BY <2>3, <2>4 DEF Taken
  <2> HIDE DEF q, r, l, n
  <2>7. Taken' = Taken
    BY <2>3, <2>4, <2>6
  <2>8. ASSUME NEW i \in 1 .. l + 1 PROVE r[i] = Taken' + i
    <3>1. i \in 1 .. l \/ i = l + 1
      BY <2>4
    <3> QED
      BY <2>3, <2>4, <2>5, <2>6, <3>1
  <2>9. QueueInv'
    BY <2>3, <2>4, <2>5, <2>8 DEF QueueInv, l, n, r, q
  <2>10. \A s \in Sessions : Owned(s)' = Owned(s) /\ MarksOf(s)' = MarksOf(s)
    BY <2>2 DEF Owned, MarksOf, video
  <2>11. OwnInv'
    BY <2>2, <2>7, <2>10 DEF FInv, OwnInv, video
  <2>12. TrackInv' /\ PhaseInv'
    BY <2>2 DEF FInv, TrackInv, PhaseInv, Phase, video
  <2> QED
    BY <2>9, <2>11, <2>12 DEF FInv
<1> QED
  BY <1>1, <1>2, <1>3

\* A video thread takes the head of the queue, the oldest frame nobody has taken.
LEMMA PopFrames ==
  ASSUME FInv, IInv', NEW s \in Sessions, VideoPop(s)
  PROVE  /\ FInv'
         /\ Taken' = Taken + 1 /\ Taken \in Nat /\ Taken < shots /\ vframe'[s] = Taken + 1
<1> DEFINE q == video_frame_queue
           r == video_frame_queue'
           l == Len(q)
           n == shots
<1>1. /\ q \in Seq(1 .. MaxFrames) /\ q # << >> /\ r = Tail(q) /\ n \in Nat /\ l \in Nat
      /\ shots' = shots /\ vframe' = [vframe EXCEPT ![s] = Head(q)]
      /\ vframe \in [Sessions -> 0 .. MaxFrames]
  BY LenProperties, Bounds DEF VideoPop, VideoAt, ui, FInv, IInv, TypeOK, SharedType, VideoType
<1>2. /\ vpc' = [vpc EXCEPT ![s] = "encode"] /\ vpc[s] = "pop" /\ UNCHANGED <<venc, vcount, mux>>
      /\ vpc \in [Sessions -> {"none", "loop", "pop", "encode", "end", "flush",
                               "trailer", "trailing", "close", "done", "failed"}]
  BY DEF VideoPop, VideoAt, FInv, IInv, TypeOK, VideoType
<1>3. l <= n /\ \A i \in 1 .. l : q[i] = n - l + i
  BY DEF FInv, QueueInv, Taken
<1>4. Taken = n - l
  BY DEF Taken
<1>5. Taken' = n - Len(r)
  BY <1>1 DEF Taken
<1> HIDE DEF q, r, l, n
<1>6. l > 0 /\ Head(q) = q[1] /\ Len(r) = l - 1 /\ \A i \in 1 .. l - 1 : r[i] = q[i + 1]
  BY <1>1, HeadTailProperties, EmptySeq DEF l
<1>7. Taken' = Taken + 1 /\ Taken \in Nat /\ Taken < n /\ Head(q) = Taken + 1
  <2>1. 1 \in 1 .. l /\ l \in Int /\ n \in Int
    BY <1>1, <1>6
  <2>2. Head(q) = n - l + 1
    BY <1>3, <1>6, <2>1
  <2>3. Taken' = n - (l - 1)
    BY <1>5, <1>6
  <2>4. n - (l - 1) = (n - l) + 1 /\ n - l + 1 = (n - l) + 1 /\ n - l \in Nat /\ n - l < n
    BY <1>1, <1>3, <1>6
  <2> QED
    BY <1>4, <2>2, <2>3, <2>4
<1>8. vframe'[s] = Taken + 1 /\ \A u \in Sessions \ {s} : vframe'[u] = vframe[u]
  BY <1>1, <1>7
<1>9. QueueInv'
  <2>1. ASSUME NEW i \in 1 .. l - 1 PROVE r[i] = Taken' + i
    <3>1. i + 1 \in 1 .. l /\ r[i] = q[i + 1]
      BY <1>1, <1>6
    <3>2. r[i] = n - l + (i + 1)
      BY <1>3, <3>1
    <3>3. n - l + (i + 1) = ((n - l) + 1) + i
      BY <1>1
    <3> QED
      BY <1>4, <1>7, <3>2, <3>3
  <2>2. Len(r) <= n
    BY <1>1, <1>3, <1>6
  <2> QED
    BY <1>1, <1>6, <2>1, <2>2 DEF QueueInv, r, n
<1>10. \A u \in Sessions : MarksOf(u)' = MarksOf(u)
  BY <1>2 DEF MarksOf
<1>11. \A u \in Sessions \ {s} : vpc'[u] = vpc[u] /\ Owned(u)' = Owned(u)
  BY <1>2, <1>8, <1>10 DEF Owned
<1>12. \A x : x \in Owned(s)' => x \in Owned(s) \/ x = Taken + 1
  BY <1>2, <1>8, <1>10 DEF Owned
<1>13. \A u \in Sessions : Owned(u) \subseteq 1 .. Taken
  BY DEF FInv, OwnInv
<1>14. Taken + 1 \notin 1 .. Taken /\ 1 .. Taken \subseteq 1 .. Taken' /\ Taken + 1 \in 1 .. Taken'
  BY <1>7
<1>15. OwnInv'
  <2>1. \A u \in Sessions : Owned(u)' \subseteq 1 .. Taken'
    BY <1>11, <1>12, <1>13, <1>14
  <2>2. ASSUME NEW t \in Sessions, NEW u \in Sessions, t # u, NEW x, x \in Owned(t)', x \in Owned(u)'
        PROVE  FALSE
    <3>1. ~(x \in Owned(t) /\ x \in Owned(u))
      BY <2>2 DEF FInv, OwnInv
    <3>2. CASE t = s
      BY <1>11, <1>12, <1>13, <1>14, <2>2, <3>1, <3>2
    <3>3. CASE u = s
      BY <1>11, <1>12, <1>13, <1>14, <2>2, <3>1, <3>3
    <3>4. CASE t # s /\ u # s
      BY <1>11, <2>2, <3>1, <3>4
    <3> QED
      BY <3>2, <3>3, <3>4
  <2>3. ASSUME NEW u \in Sessions, vpc'[u] = "encode", NEW x \in MarksOf(u)'
        PROVE  x.frame < vframe'[u]
    <3>1. CASE u = s
      <4>1. x.frame \in 1 .. Taken
        BY <1>10, <1>13, <2>3 DEF Owned
      <4> QED
        BY <1>7, <1>8, <3>1, <4>1
    <3>2. CASE u # s
      BY <1>8, <1>10, <1>11, <2>3, <3>2 DEF FInv, OwnInv
    <3> QED
      BY <3>1, <3>2
  <2> QED
    BY <2>1, <2>2, <2>3 DEF OwnInv
<1>16. TrackInv' /\ PhaseInv'
  BY <1>2 DEF FInv, TrackInv, PhaseInv, Phase
<1> QED
  BY <1>7, <1>8, <1>9, <1>15, <1>16 DEF FInv, n

\* How many packets the device takes: all of them, unless it may fail.
LEMMA TakesShape ==
  ASSUME NEW k \in Nat, NEW good \in Takes(k)
  PROVE  good \in Nat /\ (~MayFail => good = k)
  BY DEF Takes

\* The variables of recording s.
LEMMA OfRecording ==
  ASSUME FInv, NEW s \in Sessions
  PROVE  /\ Tracked(venc[s], mux[s], vcount[s]) /\ Fed(venc[s], vcount[s]) /\ Phase(s)
         /\ venc[s] \in EncoderState /\ mux[s] \in MuxerState /\ vcount[s] \in Nat
         /\ Len(mux[s].packet_buffer) \in Nat /\ vframe[s] \in Nat
         /\ mux \in [Sessions -> MuxerState] /\ venc \in [Sessions -> EncoderState]
         /\ vcount \in [Sessions -> 0 .. FrameLimit + 1]
         /\ vpc \in [Sessions -> {"none", "loop", "pop", "encode", "end", "flush",
                                  "trailer", "trailing", "close", "done", "failed"}]
<1>1. /\ vframe \in [Sessions -> 0 .. MaxFrames] /\ venc \in [Sessions -> EncoderState]
      /\ vcount \in [Sessions -> 0 .. FrameLimit + 1]
      /\ vpc \in [Sessions -> {"none", "loop", "pop", "encode", "end", "flush",
                               "trailer", "trailing", "close", "done", "failed"}]
  BY DEF FInv, IInv, TypeOK, VideoType
<1>2. /\ mux \in [Sessions -> MuxerState] /\ Tracked(venc[s], mux[s], vcount[s]) /\ Phase(s)
  BY DEF FInv, TrackInv, PhaseInv
<1>3. vframe[s] \in Nat /\ vcount[s] \in Nat /\ mux[s] \in MuxerState /\ venc[s] \in EncoderState
  BY <1>1, <1>2, Bounds
<1>4. Len(mux[s].packet_buffer) \in Nat
  BY <1>3, LenProperties DEF MuxerState
<1> QED
  BY <1>1, <1>2, <1>3, <1>4 DEF Tracked

\* A frame is encoded: its entry joins the others, and whatever comes out is held.
LEMMA EncodeFrames ==
  ASSUME FInv, NEW s \in Sessions, VideoEncode(s)
  PROVE  LET K == MarksOf(s) \cup {Entry(vframe[s], vcount[s])} IN
         /\ Within(s) /\ vcount'[s] = vcount[s] + 1
         /\ vpc[s] = "encode" /\ vpc'[s] \in {"end", "loop"}
         /\ Tracked(venc'[s], mux'[s], vcount'[s])
         /\ MarksOf(s)' \subseteq K /\ (~mux'[s].error => K \subseteq MarksOf(s)')
         /\ ~mux[s].finished /\ ~mux'[s].finished /\ (~MayFail => ~mux'[s].error)
<1> DEFINE K == MarksOf(s) \cup {Entry(vframe[s], vcount[s])}
           k == Len(mux[s].packet_buffer) + 1
           write(p, good) == mux' = [mux EXCEPT ![s] = av_interleaved_write_frame(@, p, good)]
<1>1. PICK e, m, n, f : e = venc[s] /\ m = mux[s] /\ n = vcount[s] /\ f = vframe[s]
  OBVIOUS
<1>2. /\ Tracked(e, m, n) /\ m \in MuxerState /\ n \in Nat /\ f \in Nat /\ k \in Nat
      /\ vpc[s] = "encode" /\ ~m.finished /\ (~MayFail => ~m.error)
      /\ \A x \in Marks(e, m) : x.frame < f
  <2>1. vpc[s] = "encode"
    BY DEF VideoEncode, VideoUses, VideoAt
  <2>2. \A x \in Marks(e, m) : x.frame < f
    BY <1>1, <2>1 DEF FInv, OwnInv, MarksOf
  <2> QED
    BY <1>1, <2>1, <2>2, OfRecording DEF Phase
<1> DEFINE g == Feed(e, f, n)
<1>3. Tracked(g, m, n + 1) /\ Marks(g, m) = K
  BY <1>1, <1>2, FeedTracked DEF MarksOf
<1>4. \/ \E good \in Takes(k) : /\ venc' = [venc EXCEPT ![s] = g]
                                /\ write(EmptyPacket(VIDEO_STREAM), good)
      \/ \E i \in Candidates(g, Reorder), good \in Takes(k) :
           venc' = [venc EXCEPT ![s] = Emit(g, i)] /\ write(VideoPacket(g, i), good)
  BY <1>1 DEF VideoEncode
<1> HIDE DEF g, K
<1> DEFINE Done ==
        \E h, r : /\ venc' = [venc EXCEPT ![s] = h] /\ mux' = [mux EXCEPT ![s] = r]
                /\ Tracked(h, r, n + 1) /\ Marks(h, r) \subseteq K
                /\ (~r.error => K \subseteq Marks(h, r))
                /\ ~r.finished /\ (~MayFail => ~r.error)
<1>5. Done
  <2>1. ASSUME NEW good \in Takes(k), venc' = [venc EXCEPT ![s] = g],
               write(EmptyPacket(VIDEO_STREAM), good)
        PROVE  Done
    <3> DEFINE r == av_interleaved_write_frame(m, EmptyPacket(VIDEO_STREAM), good)
    <3>1. good \in Nat
      BY <1>2, TakesShape
    <3>2. Tracked(g, r, n + 1) /\ Marks(g, r) = Marks(g, m) /\ r.finished = m.finished
          /\ r.error = m.error
      BY <1>3, <3>1, EmptyTracked
    <3>3. mux' = [mux EXCEPT ![s] = r]
      BY <1>1, <2>1
    <3> HIDE DEF r
    <3> QED
      BY <1>2, <1>3, <2>1, <3>2, <3>3
  <2>2. ASSUME NEW i \in Candidates(g, Reorder), NEW good \in Takes(k),
               venc' = [venc EXCEPT ![s] = Emit(g, i)], write(VideoPacket(g, i), good)
        PROVE  Done
    <3> DEFINE h == Emit(g, i)
               r == av_interleaved_write_frame(m, VideoPacket(g, i), good)
    <3>1. good \in Nat /\ (~MayFail => good >= Len(m.packet_buffer) + 1)
      BY <1>1, <1>2, TakesShape
    <3>2. /\ Tracked(h, r, n + 1) /\ Marks(h, r) \subseteq Marks(g, m) /\ ~r.finished
          /\ (~m.error /\ good >= Len(m.packet_buffer) + 1 => ~r.error)
          /\ (~r.error => Marks(g, m) \subseteq Marks(h, r))
      BY <1>2, <1>3, <3>1, EmitTracked
    <3>3. mux' = [mux EXCEPT ![s] = r] /\ venc' = [venc EXCEPT ![s] = h]
      BY <1>1, <2>2
    <3> HIDE DEF r, h
    <3> QED
      BY <1>2, <1>3, <3>1, <3>2, <3>3
  <2> QED
    BY <1>4, <2>1, <2>2
<1>6. PICK h, r : /\ venc' = [venc EXCEPT ![s] = h] /\ mux' = [mux EXCEPT ![s] = r]
                  /\ Tracked(h, r, n + 1) /\ Marks(h, r) \subseteq K
                  /\ (~r.error => K \subseteq Marks(h, r))
                  /\ ~r.finished /\ (~MayFail => ~r.error)
  BY <1>5
<1>7. /\ venc'[s] = h /\ mux'[s] = r /\ MarksOf(s)' = Marks(h, r)
      /\ mux' \in [Sessions -> MuxerState]
      /\ \A u \in Sessions \ {s} : venc'[u] = venc[u] /\ mux'[u] = mux[u]
  <2>1. r \in MuxerState
    BY <1>6 DEF Tracked
  <2> QED
    BY <1>6, <2>1, OfRecording DEF MarksOf
<1>8. /\ vcount' = [vcount EXCEPT ![s] = @ + 1] /\ UNCHANGED <<shots, video_frame_queue, vframe>>
      /\ \E to \in {"end", "loop"} : vpc' = [vpc EXCEPT ![s] = to]
  BY DEF VideoEncode, ui, queues
<1>9. /\ vcount'[s] = n + 1 /\ vpc'[s] \in {"end", "loop"}
      /\ \A u \in Sessions \ {s} : vpc'[u] = vpc[u] /\ vcount'[u] = vcount[u]
  BY <1>1, <1>8, OfRecording
<1>10. Within(s)
  BY <1>7, <1>8, <1>9 DEF Within
<1> QED
  BY <1>1, <1>2, <1>6, <1>7, <1>9, <1>10 DEF K

\* A step by a thread of recording s: it may lose frames if something can fail, and
\* gets none; it may spoil a file that is not finished; and it may finish the file,
\* after which nothing changes that.
StepOf(s) ==
    /\ Within(s)
    /\ Owned(s)' \subseteq Owned(s) /\ (~MayFail => Owned(s)' = Owned(s))
    /\ \A u \in Sessions : u # s \/ mux[u].finished \/ mux'[u].finished =>
                             (u \in spoiled' <=> u \in spoiled)
    /\ \/ (mux'[s].finished <=> mux[s].finished) /\ (mux[s].finished => mux'[s] = mux[s])
       \/ ~mux[s].finished /\ mux'[s].finished

\* A step of the video thread that leaves the encoder and the context alone.
LEMMA QuietFrames ==
  ASSUME FInv, IInv', NEW s \in Sessions, NEW to, vpc' = [vpc EXCEPT ![s] = to],
         UNCHANGED <<shots, video_frame_queue, vframe, vcount, venc, mux, spoiled>>,
         to # "encode", vpc[s] = "encode" => MayFail,
         vpc[s] \in {"close", "done"} <=> to \in {"close", "done"},
         to \in {"trailer", "trailing", "close", "done"} => venc[s].pending = << >>
  PROVE  FInv' /\ StepOf(s)
<1>1. vpc'[s] = to /\ \A u \in Sessions \ {s} : vpc'[u] = vpc[u]
  BY OfRecording
<1>2. Within(s)
  BY <1>1, OfRecording DEF Within
<1>3. Tracked(venc'[s], mux'[s], vcount'[s]) /\ MarksOf(s)' = MarksOf(s)
  BY OfRecording DEF MarksOf
<1>4. Owned(s)' \subseteq Owned(s) /\ (~MayFail => Owned(s)' = Owned(s))
  BY <1>1, <1>3 DEF Owned
<1>5. Phase(s)'
  BY <1>1, OfRecording DEF Phase
<1>6. FInv'
  BY <1>1, <1>2, <1>3, <1>4, <1>5, WithinKeeps
<1> QED
  BY <1>2, <1>4, <1>6 DEF StepOf

\* A step that takes no frame and touches no packet is nothing here, but may spoil a
\* file that is not finished.
LEMMA StillFrames ==
  ASSUME FInv, IInv', NEW s \in Sessions, UNCHANGED <<shots, video_frame_queue, video, mux>>,
         spoiled' = spoiled \/ (spoiled' = spoiled \cup {s} /\ ~mux[s].finished)
  PROVE  FInv' /\ StepOf(s)
<1>1. FInv'
  BY StillKeeps
<1>2. Within(s)
  BY OfRecording DEF Within, video
<1>3. Owned(s)' = Owned(s)
  BY DEF Owned, MarksOf, video
<1> QED
  BY <1>1, <1>2, <1>3 DEF StepOf

\* The frame just taken gets into the encoder.
LEMMA EncodeStep ==
  ASSUME FInv, IInv', NEW s \in Sessions, VideoEncode(s)
  PROVE  FInv' /\ StepOf(s)
<1> DEFINE x == Entry(vframe[s], vcount[s])
           K == MarksOf(s) \cup {x}
<1>1. /\ Within(s) /\ vcount'[s] = vcount[s] + 1
      /\ vpc[s] = "encode" /\ vpc'[s] \in {"end", "loop"}
      /\ Tracked(venc'[s], mux'[s], vcount'[s])
      /\ MarksOf(s)' \subseteq K /\ (~mux'[s].error => K \subseteq MarksOf(s)')
      /\ ~mux[s].finished /\ ~mux'[s].finished /\ (~MayFail => ~mux'[s].error)
  BY EncodeFrames
<1>2. x.frame = vframe[s]
  BY DEF Entry
<1> HIDE DEF x
<1>3. Owned(s) = {y.frame : y \in K} /\ Owned(s)' = {y.frame : y \in MarksOf(s)'}
  BY <1>1, <1>2 DEF Owned
<1>4. Owned(s)' \subseteq Owned(s) /\ (~MayFail => Owned(s)' = Owned(s))
  BY <1>1, <1>3
<1>5. Phase(s)'
  BY <1>1 DEF Phase
<1>6. FInv'
  BY <1>1, <1>4, <1>5, WithinKeeps
<1>7. spoiled' = spoiled
  BY DEF VideoEncode
<1> QED
  BY <1>1, <1>4, <1>6, <1>7 DEF StepOf

\* One turn of the flush.
LEMMA FlushStep ==
  ASSUME FInv, IInv', NEW s \in Sessions, VideoFlush(s)
  PROVE  FInv' /\ StepOf(s)
<1> DEFINE k == Len(mux[s].packet_buffer) + 1
<1>1. PICK i \in Candidates(venc[s], Reorder), good \in Takes(k) :
         /\ venc' = [venc EXCEPT ![s] = Emit(@, i)]
         /\ mux' = [mux EXCEPT ![s] =
                        av_interleaved_write_frame(@, VideoPacket(venc[s], i), good)]
  BY DEF VideoFlush
<1>2. /\ vpc[s] = "flush" /\ UNCHANGED <<shots, video_frame_queue, vframe, vcount, spoiled>>
      /\ \E to \in {"failed", "flush"} : vpc' = [vpc EXCEPT ![s] = to]
  BY DEF VideoFlush, VideoUses, VideoAt, ui, queues
<1>3. PICK e, m, n : e = venc[s] /\ m = mux[s] /\ n = vcount[s]
  OBVIOUS
<1>4. Tracked(e, m, n) /\ k \in Nat /\ ~m.finished /\ (~MayFail => ~m.error)
  BY <1>2, <1>3, OfRecording DEF Phase
<1> DEFINE h == Emit(e, i)
           r == av_interleaved_write_frame(m, VideoPacket(e, i), good)
<1>5. good \in Nat /\ (~MayFail => good >= Len(m.packet_buffer) + 1)
  BY <1>3, <1>4, TakesShape
<1>6. /\ Tracked(h, r, n) /\ Marks(h, r) \subseteq Marks(e, m) /\ ~r.finished
      /\ (~m.error /\ good >= Len(m.packet_buffer) + 1 => ~r.error)
      /\ (~r.error => Marks(e, m) \subseteq Marks(h, r))
  BY <1>3, <1>4, <1>5, EmitTracked
<1>7. venc' = [venc EXCEPT ![s] = h] /\ mux' = [mux EXCEPT ![s] = r]
  BY <1>1, <1>3
<1> HIDE DEF h, r
<1>8. /\ venc'[s] = h /\ mux'[s] = r /\ vcount'[s] = n /\ vpc'[s] \in {"failed", "flush"}
      /\ \A u \in Sessions \ {s} : /\ venc'[u] = venc[u] /\ mux'[u] = mux[u]
                                   /\ vcount'[u] = vcount[u] /\ vpc'[u] = vpc[u]
  BY <1>2, <1>3, <1>7, OfRecording
<1>9. MarksOf(s) = Marks(e, m) /\ MarksOf(s)' = Marks(h, r)
  BY <1>3, <1>8 DEF MarksOf
<1>10. Within(s)
  <2>1. r \in MuxerState
    BY <1>6 DEF Tracked
  <2> QED
    BY <1>2, <1>7, <1>8, <2>1, OfRecording DEF Within
<1>11. Owned(s)' \subseteq Owned(s) /\ (~MayFail => Owned(s)' = Owned(s))
  BY <1>2, <1>4, <1>5, <1>6, <1>8, <1>9 DEF Owned
<1>12. Phase(s)'
  BY <1>4, <1>5, <1>6, <1>8 DEF Phase
<1>13. FInv'
  BY <1>6, <1>8, <1>10, <1>11, <1>12, WithinKeeps
<1> QED
  BY <1>2, <1>3, <1>4, <1>6, <1>8, <1>10, <1>11, <1>13 DEF StepOf

\* The trailer.
LEMMA TrailerFrames ==
  ASSUME FInv, IInv', NEW s \in Sessions, VideoTrailerEnd(s)
  PROVE  FInv' /\ StepOf(s)
<1> DEFINE k == Len(mux[s].packet_buffer)
<1>1. PICK good \in Takes(k) : mux' = [mux EXCEPT ![s] = av_write_trailer(@, good)]
  BY DEF VideoTrailerEnd
<1>2. /\ vpc[s] = "trailing" /\ UNCHANGED <<shots, video_frame_queue, vframe, vcount, venc, spoiled>>
      /\ vpc' = [vpc EXCEPT ![s] = "close"]
  BY DEF VideoTrailerEnd, VideoAt, ui, queues
<1>3. PICK e, m, n : e = venc[s] /\ m = mux[s] /\ n = vcount[s]
  OBVIOUS
<1>4. /\ Tracked(e, m, n) /\ k \in Nat /\ ~m.finished /\ (~MayFail => ~m.error)
      /\ e.pending = << >>
  BY <1>2, <1>3, OfRecording DEF Phase
<1> DEFINE r == av_write_trailer(m, good)
<1>5. good \in Nat /\ (~MayFail => good >= Len(m.packet_buffer))
  BY <1>3, <1>4, TakesShape
<1>6. /\ Tracked(e, r, n) /\ Marks(e, r) \subseteq Marks(e, m) /\ r.finished
      /\ (~m.error /\ good >= Len(m.packet_buffer) => ~r.error)
      /\ (~r.error => Marks(e, m) \subseteq Marks(e, r))
  BY <1>4, <1>5, TrailerTracked
<1>7. mux' = [mux EXCEPT ![s] = r]
  BY <1>1, <1>3
<1> HIDE DEF r
<1>8. /\ venc'[s] = e /\ mux'[s] = r /\ vcount'[s] = n /\ vpc'[s] = "close"
      /\ \A u \in Sessions \ {s} : /\ venc'[u] = venc[u] /\ mux'[u] = mux[u]
                                   /\ vcount'[u] = vcount[u] /\ vpc'[u] = vpc[u]
  BY <1>2, <1>3, <1>7, OfRecording
<1>9. MarksOf(s) = Marks(e, m) /\ MarksOf(s)' = Marks(e, r)
  BY <1>3, <1>8 DEF MarksOf
<1>10. Within(s)
  <2>1. r \in MuxerState
    BY <1>6 DEF Tracked
  <2> QED
    BY <1>2, <1>7, <1>8, <2>1, OfRecording DEF Within
<1>11. Owned(s)' \subseteq Owned(s) /\ (~MayFail => Owned(s)' = Owned(s))
  BY <1>2, <1>4, <1>5, <1>6, <1>8, <1>9 DEF Owned
<1>12. Phase(s)'
  BY <1>4, <1>5, <1>6, <1>8 DEF Phase
<1>13. FInv'
  BY <1>6, <1>8, <1>10, <1>11, <1>12, WithinKeeps
<1> QED
  BY <1>2, <1>3, <1>4, <1>6, <1>8, <1>10, <1>11, <1>13 DEF StepOf

\* startVideoEncode.
LEMMA VideoFrames ==
  ASSUME FInv, IInv', NEW s \in Sessions, VideoThread(s), ~VideoPop(s)
  PROVE  FInv' /\ StepOf(s)
<1> USE DEF VideoAt, VideoUses, ui, queues
<1>1. CASE VideoTest(s)
  <2>1. PICK to \in {"flush", "pop"} : vpc' = [vpc EXCEPT ![s] = to]
    BY <1>1 DEF VideoTest
  <2>2. vpc[s] = "loop" /\ UNCHANGED <<shots, video_frame_queue, vframe, vcount, venc, mux, spoiled>>
    BY <1>1 DEF VideoTest
  <2> QED
    BY <2>1, <2>2, QuietFrames
<1>2. CASE VideoEncode(s)
  BY <1>2, EncodeStep
<1>3. CASE VideoEncodeFails(s)
  <2>1. /\ vpc[s] = "encode" /\ vpc' = [vpc EXCEPT ![s] = "loop"] /\ MayFail
        /\ UNCHANGED <<shots, video_frame_queue, vframe, vcount, venc, mux, spoiled>>
    BY <1>3 DEF VideoEncodeFails
  <2> QED
    BY <2>1, QuietFrames
<1>4. CASE VideoEnd(s)
  <2>1. /\ vpc[s] = "end" /\ vpc' = [vpc EXCEPT ![s] = "flush"]
        /\ UNCHANGED <<shots, video_frame_queue, vframe, vcount, venc, mux, spoiled>>
    BY <1>4 DEF VideoEnd
  <2> QED
    BY <2>1, QuietFrames
<1>5. CASE VideoFlush(s)
  BY <1>5, FlushStep
<1>6. CASE VideoFlushFails(s)
  <2>1. /\ vpc[s] = "flush" /\ vpc' = [vpc EXCEPT ![s] = "failed"]
        /\ UNCHANGED <<shots, video_frame_queue, vframe, vcount, venc, mux, spoiled>>
    BY <1>6 DEF VideoFlushFails
  <2> QED
    BY <2>1, QuietFrames
<1>7. CASE VideoFlushed(s)
  <2>1. /\ vpc[s] = "flush" /\ vpc' = [vpc EXCEPT ![s] = "trailer"] /\ venc[s].pending = << >>
        /\ UNCHANGED <<shots, video_frame_queue, vframe, vcount, venc, mux, spoiled>>
    BY <1>7 DEF VideoFlushed
  <2> QED
    BY <2>1, QuietFrames
<1>8. CASE VideoTrailerEnd(s)
  BY <1>8, TrailerFrames
<1>9. CASE VideoTrailer(s) \/ VideoClose(s)
  <2>1. /\ \/ vpc[s] = "trailer" /\ vpc' = [vpc EXCEPT ![s] = "trailing"]
           \/ vpc[s] = "close" /\ vpc' = [vpc EXCEPT ![s] = "done"]
        /\ UNCHANGED <<shots, video_frame_queue, vframe, vcount, venc, mux, spoiled>>
    BY <1>9 DEF VideoTrailer, VideoClose
  <2>2. venc[s].pending = << >>
    BY <2>1, OfRecording DEF Phase
  <2> QED
    BY <2>1, <2>2, QuietFrames
<1>10. CASE VideoUnopened(s)
  <2>1. UNCHANGED <<shots, video_frame_queue, video, mux, spoiled>>
    BY <1>10 DEF VideoUnopened
  <2> QED
    BY <2>1, StillFrames
<1> QED
  BY <1>1, <1>2, <1>3, <1>4, <1>5, <1>6, <1>7, <1>8, <1>9, <1>10 DEF VideoThread

\* startAudioEncode: what it writes goes past the video, and it may spoil the file
\* while the trailer is written.
LEMMA AudioFrames ==
  ASSUME FInv, IInv', NEW s \in Sessions, AudioThread(s)
  PROVE  FInv' /\ StepOf(s)
<1> USE DEF ui, queues
<1>1. CASE \/ AudioStart(s) \/ AudioTest(s) \/ AudioPop(s) \/ AudioEncode(s)
           \/ AudioEncodeFails(s) \/ AudioLateWrite(s) \/ AudioUseAfterFree(s) \/ AudioUnopened(s)
  <2>1. UNCHANGED <<shots, video_frame_queue, video, mux, spoiled>>
    BY <1>1 DEF AudioStart, AudioTest, AudioPop, AudioEncode, AudioEncodeFails,
                AudioLateWrite, AudioWritten, AudioUseAfterFree, AudioUnopened
  <2> QED
    BY <2>1, StillFrames
<1>2. CASE AudioWriteRaces(s)
  <2>1. /\ UNCHANGED <<shots, video_frame_queue, video, mux>>
        /\ spoiled' = spoiled \cup {s} /\ vpc[s] = "trailing"
    BY <1>2 DEF AudioWriteRaces, AudioWritten
  <2>2. ~mux[s].finished
    BY <2>1, OfRecording DEF Phase
  <2> QED
    BY <2>1, <2>2, StillFrames
<1>3. CASE AudioWrite(s)
  <2>1. PICK p, v, m, n : p = apacket[s] /\ v = venc[s] /\ m = mux[s] /\ n = vcount[s]
    OBVIOUS
  <2>2. p \in Packet /\ p.stream = AUDIO_STREAM
    BY <2>1 DEF FInv, IInv, TypeOK, AudioType, AudioPackets
  <2>3. PICK works \in Outcomes : mux' = [mux EXCEPT ![s] = av_write_frame(@, p, works)]
    BY <1>3, <2>1 DEF AudioWrite
  <2>4. works \in BOOLEAN /\ (~MayFail => works)
    BY DEF Outcomes
  <2>5. /\ Tracked(v, m, n) /\ ~m.finished /\ (~MayFail => ~m.error)
        /\ UNCHANGED <<shots, video_frame_queue, video, spoiled>>
    BY <1>3, <2>1, OfRecording DEF AudioWrite, AudioWritten, Phase
  <2> DEFINE r == av_write_frame(m, p, works)
  <2>6. /\ Tracked(v, r, n) /\ Marks(v, r) = Marks(v, m)
        /\ r.finished = m.finished /\ (works /\ ~m.error => ~r.error)
    BY <2>2, <2>4, <2>5, SoundTracked
  <2>7. mux' = [mux EXCEPT ![s] = r]
    BY <2>1, <2>3
  <2> HIDE DEF r
  <2>8. /\ mux'[s] = r /\ venc'[s] = v /\ vcount'[s] = n /\ vpc'[s] = vpc[s]
        /\ vframe'[s] = vframe[s]
        /\ \A u \in Sessions \ {s} : mux'[u] = mux[u]
    BY <2>1, <2>5, <2>7, OfRecording DEF video
  <2>9. MarksOf(s)' = MarksOf(s)
    BY <2>1, <2>6, <2>8 DEF MarksOf
  <2>10. Owned(s)' = Owned(s)
    BY <2>8, <2>9 DEF Owned
  <2>11. Within(s)
    <3>1. r \in MuxerState
      BY <2>6 DEF Tracked
    <3> QED
      BY <2>5, <2>7, <2>8, <3>1, OfRecording DEF Within, video
  <2>12. Phase(s)'
    BY <2>1, <2>4, <2>5, <2>6, <2>8, OfRecording DEF Phase
  <2>13. FInv'
    BY <2>6, <2>8, <2>9, <2>10, <2>11, <2>12, WithinKeeps
  <2> QED
    BY <2>1, <2>5, <2>6, <2>8, <2>10, <2>11, <2>13 DEF StepOf
<1> QED
  BY <1>1, <1>2, <1>3 DEF AudioThread

LEMMA NextFInv == FInv /\ [Next]_vars => FInv'
<1> SUFFICES ASSUME FInv, [Next]_vars PROVE FInv'
  OBVIOUS
<1>1. IInv'
  BY NextIInv DEF FInv
<1>2. CASE StartRecord \/ StopRecord \/ PreviewFrame
  BY <1>1, <1>2, UIFrames
<1>3. ASSUME NEW s \in Sessions, MicThread(s) PROVE FInv'
  <2>1. UNCHANGED <<shots, video_frame_queue, video, mux>>
    BY <1>3 DEF MicThread, MicRead, MicQuit, ui, queues
  <2> QED
    BY <1>1, <2>1, StillKeeps
<1>4. ASSUME NEW s \in Sessions, VideoThread(s) PROVE FInv'
  BY <1>1, <1>4, PopFrames, VideoFrames
<1>5. ASSUME NEW s \in Sessions, AudioThread(s) PROVE FInv'
  BY <1>1, <1>5, AudioFrames
<1>6. CASE UNCHANGED vars
  BY <1>1, <1>6, StillKeeps DEF vars, ui, queues
<1> QED
  BY <1>2, <1>3, <1>4, <1>5, <1>6 DEF Next

\* The invariant holds throughout.
LEMMA FramesInductive == Spec => []FInv
  BY InitFInv, NextFInv, PTL DEF Spec

-----------------------------------------------------------------------------
(* What follows for files and frames.                                      *)

\* Each packet carries the frame and count of an entry.
LEMMA EntryOfPacket ==
  ASSUME NEW e, NEW m, NEW n, Tracked(e, m, n), NEW p \in Data(m)
  PROVE  \E x \in Marks(e, m) : /\ Carries(p, x) /\ p.frame \in Nat /\ x.count \in 0 .. n - 1
                                /\ p.pts = Stamp(x.count) /\ x.frame = p.frame
<1>1. m \in MuxerState /\ n \in Nat
  BY DEF Tracked, Fed
<1>2. PICK c \in 0 .. n - 1 : p.pts = Stamp(c)
  BY DEF Tracked, PacketInv
<1>3. p.frame \in Nat
  BY <1>1, DataShape
<1> DEFINE x == Entry(p.frame, c)
<1>4. x \in Inside /\ x.count = c /\ x.frame = p.frame
  BY <1>1, <1>3 DEF Entry, Inside
<1> HIDE DEF x
<1>5. Carries(p, x)
  BY <1>2, <1>4 DEF Carries
<1>6. x \in Marks(e, m)
  BY <1>4, <1>5 DEF Marks
<1> QED
  BY <1>1, <1>2, <1>3, <1>4, <1>5, <1>6

\* The frames of the entries are those inside the encoder and those in packets.
LEMMA FramesShape ==
  ASSUME NEW e, NEW m, NEW n, Tracked(e, m, n)
  PROVE  {x.frame : x \in Marks(e, m)} =
           {p.frame : p \in Data(m)} \cup {x.frame : x \in ToSet(e.pending)}
<1>1. ASSUME NEW p \in Data(m) PROVE \E x \in Marks(e, m) : x.frame = p.frame
  BY EntryOfPacket
<1>2. ASSUME NEW x \in Marks(e, m)
      PROVE  x \in ToSet(e.pending) \/ \E p \in Data(m) : p.frame = x.frame
  BY DEF Marks, Carries
<1>3. ToSet(e.pending) \subseteq Marks(e, m)
  BY DEF Marks
<1> QED
  BY <1>1, <1>2, <1>3

\* The threads of a recording may be at any statement, frames may leave the encoder
\* in any order it can decode, and writing may fail: what a file shows is in the
\* order in which native-lib.cpp's frameCount numbered it.
THEOREM Presented == Spec => []PresentationOrder
<1>1. FInv => PresentationOrder
  <2> SUFFICES ASSUME FInv, NEW s \in Sessions, NEW p \in VideoOut(s), NEW q \in VideoOut(s)
               PROVE  (p.pts < q.pts <=> p.frame < q.frame) /\ (p.pts = q.pts => p = q)
    BY DEF PresentationOrder, Readable
  <2>1. PICK e, m, n : e = venc[s] /\ m = mux[s] /\ n = vcount[s]
    OBVIOUS
  <2>2. Tracked(e, m, n) /\ p \in Data(m) /\ q \in Data(m)
    BY <2>1, OfRecording DEF VideoOut, VideoInFile, Data
  <2>3. PICK x \in Marks(e, m) : p.pts = Stamp(x.count) /\ x.frame = p.frame /\ x.count \in 0 .. n - 1
    BY <2>2, EntryOfPacket
  <2>4. PICK y \in Marks(e, m) : q.pts = Stamp(y.count) /\ y.frame = q.frame /\ y.count \in 0 .. n - 1
    BY <2>2, EntryOfPacket
  <2>5. x.count < y.count <=> x.frame < y.frame
    BY <2>2 DEF Tracked, PacketInv, Chain
  <2>6. Stamp(x.count) < Stamp(y.count) <=> x.count < y.count
    <3>1. ASSUME NEW a \in Int, NEW b \in Int PROVE Stamp(a) < Stamp(b) <=> a < b
      BY StampOrder
    <3>2. x.count \in Int /\ y.count \in Int
      BY <2>3, <2>4
    <3> QED
      BY <3>1, <3>2
  <2>7. p.pts = q.pts => p = q
    BY <2>2 DEF Tracked, PacketInv
  <2> QED
    BY <2>3, <2>4, <2>5, <2>6, <2>7
<1> QED
  BY <1>1, FramesInductive, PTL

\* The recordings share video_frame_queue (native-lib.cpp:19) and may run at the same
\* time: still no frame gets into two of them.
THEOREM TakenOnce == Spec => []NoFrameTwice
<1>1. FInv => NoFrameTwice
  <2> SUFFICES ASSUME FInv PROVE NoFrameTwice
    OBVIOUS
  <2> DEFINE frames(s) == {p.frame : p \in VideoOut(s)} \cup {x.frame : x \in ToSet(venc[s].pending)}
  <2>1. ASSUME NEW s \in Sessions PROVE frames(s) \subseteq Owned(s)
    <3>1. VideoOut(s) = Data(mux[s])
      BY DEF VideoOut, VideoInFile, Data
    <3>2. frames(s) = {x.frame : x \in MarksOf(s)}
      BY <3>1, OfRecording, FramesShape DEF MarksOf
    <3> HIDE DEF frames
    <3> QED
      BY <3>2 DEF Owned
  <2> HIDE DEF frames
  <2>2. ASSUME NEW s \in Sessions, NEW f \in Owned(s) PROVE f \notin ToSet(video_frame_queue)
    <3>1. f \in 1 .. Taken
      BY DEF FInv, OwnInv
    <3>2. video_frame_queue \in Seq(1 .. MaxFrames) /\ shots \in Nat
      BY Bounds DEF FInv, IInv, TypeOK, SharedType
    <3>3. Len(video_frame_queue) \in Nat /\ Taken \in Int
      BY <3>2, LenProperties DEF Taken
    <3>4. ASSUME NEW i \in 1 .. Len(video_frame_queue) PROVE video_frame_queue[i] # f
      <4>1. video_frame_queue[i] = Taken + i
        BY DEF FInv, QueueInv
      <4> QED
        BY <3>1, <3>3, <4>1
    <3>5. ToSet(video_frame_queue) = {video_frame_queue[i] : i \in 1 .. Len(video_frame_queue)}
      BY <3>2, ToSetOfSeq
    <3> QED
      BY <3>4, <3>5
  <2>3. \A s, u \in Sessions : s # u => Owned(s) \cap Owned(u) = {}
    BY DEF FInv, OwnInv
  <2>4. ASSUME NEW s \in Sessions PROVE frames(s) \cap ToSet(video_frame_queue) = {}
    BY <2>1, <2>2
  <2>5. ASSUME NEW s \in Sessions, NEW u \in Sessions \ {s} PROVE frames(s) \cap frames(u) = {}
    BY <2>1, <2>3
  <2> QED
    BY <2>4, <2>5 DEF NoFrameTwice, Readable, frames
<1> QED
  BY <1>1, FramesInductive, PTL

\* The trailer (native-lib.cpp:350) comes after the flush and writes what the
\* interleaving buffer holds: nothing that was counted is missing in a finished file.
THEOREM Completed == Spec => []FileComplete
<1>1. FInv => FileComplete
  <2> SUFFICES ASSUME FInv, NEW s \in Sessions, mux[s].finished, ~mux[s].error
               PROVE  {p.pts : p \in VideoInFile(s)} =
                        {c * VideoPeriod : c \in 0 .. vcount[s] - 1}
    BY DEF FileComplete, Readable
  <2>1. PICK e, m, n : e = venc[s] /\ m = mux[s] /\ n = vcount[s]
    OBVIOUS
  <2>2. /\ Tracked(e, m, n) /\ m.finished /\ ~m.error /\ e.pending = << >>
        /\ m.packet_buffer = << >>
    <3>1. vpc[s] \in {"close", "done"}
      BY OfRecording DEF Phase
    <3> QED
      BY <2>1, <3>1, OfRecording DEF Phase, Tracked, BufferInv
  <2>3. ToSet(e.pending) = {} /\ Shown(m.packet_buffer, VIDEO_STREAM) = {}
    BY <2>2 DEF ToSet, Shown
  <2>4. Data(m) = VideoInFile(s)
    BY <2>1, <2>3 DEF Data, VideoInFile
  <2>5. ASSUME NEW p \in Data(m) PROVE \E c \in 0 .. n - 1 : p.pts = Stamp(c)
    BY <2>2 DEF Tracked, PacketInv
  <2>6. ASSUME NEW c \in 0 .. n - 1 PROVE \E p \in Data(m) : p.pts = Stamp(c)
    <3>1. PICK x \in Marks(e, m) : x.count = c
      BY <2>2 DEF Tracked, PacketInv
    <3>2. PICK p \in Data(m) : Carries(p, x)
      BY <2>3 DEF Marks
    <3> QED
      BY <3>1, <3>2 DEF Carries
  <2> QED
    BY <2>1, <2>4, <2>5, <2>6 DEF Stamp
<1> QED
  BY <1>1, FramesInductive, PTL

\* Sound bypasses the interleaving buffer (native-lib.cpp:414 calls av_write_frame),
\* and the picture waits in it for sound that never comes: all that a recording may
\* have is less than the muxer puts up with.
THEOREM PictureWaits == Spec => []VideoOnlyAtTrailer
<1>1. FInv => VideoOnlyAtTrailer
  <2> SUFFICES ASSUME FInv, NEW s \in Sessions, ~mux[s].finished PROVE VideoInFile(s) = {}
    BY DEF VideoOnlyAtTrailer
  <2>1. PICK n : n = vcount[s]
    OBVIOUS
  <2>2. /\ n \in Nat /\ n <= FrameLimit + 1 /\ FrameLimit \in Nat
        /\ VideoPeriod \in Nat \ {0} /\ MaxInterleaveDelta \in Nat
        /\ (FrameLimit + 1) * VideoPeriod <= MaxInterleaveDelta
    BY <2>1, OfRecording, Bounds, RecorderConstants, RecorderAssumption DEF RecorderAssumption
  <2>3. n * VideoPeriod <= (FrameLimit + 1) * VideoPeriod
    BY <2>2, TimesOrder
  <2>4. n * VideoPeriod \in Int /\ (FrameLimit + 1) * VideoPeriod \in Int
    BY <2>2
  <2>5. n * VideoPeriod <= MaxInterleaveDelta
    BY <2>2, <2>3, <2>4
  <2> QED
    BY <2>1, <2>5, OfRecording DEF Tracked, BufferInv, VideoInFile
<1> QED
  BY <1>1, FramesInductive, PTL

-----------------------------------------------------------------------------
(* The recorder implements Segments.  A frame is captured at PreviewFrame  *)
(* and claimed at VideoPop; a recording is finished at VideoTrailerEnd;    *)
(* every other step of its threads loses some of its frames or changes     *)
(* nothing.                                                                *)

\* Entries that share no count, and are in order, are no more than their counts.
LEMMA FewMarks ==
  ASSUME NEW K \in SUBSET Inside, Chain(K), NEW n \in Nat, \A x \in K : x.count \in 0 .. n - 1
  PROVE  LET F == {x.frame : x \in K} IN IsFiniteSet(F) /\ Cardinality(F) <= n
<1> DEFINE F == {x.frame : x \in K}
           C == {x.count : x \in K}
           f == [c \in C |-> CHOOSE a \in F : \E x \in K : x.count = c /\ x.frame = a]
<1>1. \A x \in K : x.count \in Nat /\ x.frame \in Nat
  BY DEF Inside
<1>2. ASSUME NEW x \in K, NEW y \in K, x.count = y.count PROVE x.frame = y.frame
  <2>1. ~(x.frame < y.frame) /\ ~(y.frame < x.frame)
    BY <1>1, <1>2 DEF Chain
  <2> QED
    BY <1>1, <2>1
<1>3. ASSUME NEW x \in K PROVE f[x.count] = x.frame
  <2>1. \E y \in K : y.count = x.count /\ y.frame = f[x.count]
    <3>1. x.count \in C /\ x.frame \in F
      OBVIOUS
    <3>2. \E a \in F : \E y \in K : y.count = x.count /\ y.frame = a
      BY <3>1
    <3> QED
      BY <3>1, <3>2
  <2> QED
    BY <1>2, <2>1
<1>4. f \in Surjection(C, F)
  <2>1. ASSUME NEW a \in F PROVE \E c \in C : f[c] = a
    <3>1. PICK x \in K : x.frame = a
      OBVIOUS
    <3>2. x.count \in C /\ f[x.count] = a
      BY <1>3, <3>1
    <3> QED
      BY <3>2
  <2>2. \A c \in C : f[c] \in F
    BY <1>3
  <2> QED
    BY <2>1, <2>2 DEF Surjection
<1>5. IsFiniteSet(C) /\ Cardinality(C) <= n
  <2> DEFINE I == 0 .. n - 1
  <2>1. IsFiniteSet(I) /\ Cardinality(I) = n
    <3>1. 0 \in Int /\ n - 1 \in Int /\ (0 > n - 1 => n = 0) /\ (n - 1) - 0 + 1 = n
      OBVIOUS
    <3> QED
      BY <3>1, FS_Interval
  <2>2. C \in SUBSET I
    OBVIOUS
  <2> HIDE DEF I, C
  <2> QED
    BY <2>1, <2>2, FS_Subset
<1> HIDE DEF F, C, f
<1>6. IsFiniteSet(F) /\ Cardinality(F) <= Cardinality(C)
  BY <1>4, <1>5, FS_Surjection
<1>7. Cardinality(F) \in Nat /\ Cardinality(C) \in Nat
  BY <1>5, <1>6, FS_CardinalityType
<1> QED
  BY <1>5, <1>6, <1>7 DEF F

\* The frames Segments is told of are those the recording owns, less what a failure
\* has kept from a finished file.
FramesInv == \A s \in Sessions :
    /\ FramesOf(s) \subseteq Owned(s)
    /\ ~mux[s].finished \/ ~MayFail => FramesOf(s) = Owned(s)

LEMMA FramesAreOwned == FInv => FramesInv
<1> SUFFICES ASSUME FInv, NEW s \in Sessions
             PROVE  /\ FramesOf(s) \subseteq Owned(s)
                    /\ ~mux[s].finished \/ ~MayFail => FramesOf(s) = Owned(s)
  BY DEF FramesInv
<1> DEFINE inside == {x.frame : x \in ToSet(venc[s].pending)}
           taken == IF vpc[s] = "encode" THEN {vframe[s]} ELSE {}
<1>1. VideoOut(s) = Data(mux[s]) /\ VideoInFile(s) \subseteq Data(mux[s])
  BY DEF VideoOut, VideoInFile, Data
<1>2. {x.frame : x \in MarksOf(s)} = {p.frame : p \in VideoOut(s)} \cup inside
  BY <1>1, OfRecording, FramesShape DEF MarksOf
<1>3. CASE ~mux[s].finished
  <2> HIDE DEF inside, taken
  <2>1. FramesOf(s) = {p.frame : p \in VideoOut(s)} \cup inside \cup taken
    BY <1>3 DEF FramesOf, inside, taken
  <2>2. Owned(s) = {x.frame : x \in MarksOf(s)} \cup taken
    BY DEF Owned, taken
  <2> QED
    BY <1>2, <2>1, <2>2
<1>4. CASE mux[s].finished
  <2>1. FramesOf(s) = {p.frame : p \in VideoInFile(s)}
    BY <1>4 DEF FramesOf
  <2>2. /\ vpc[s] \in {"close", "done"} /\ venc[s].pending = << >>
        /\ (~MayFail => mux[s].packet_buffer = << >>)
    BY <1>4, OfRecording DEF Phase, Tracked, BufferInv
  <2>3. inside = {} /\ taken = {}
    BY <2>2 DEF ToSet
  <2>4. Owned(s) = {p.frame : p \in VideoOut(s)}
    BY <1>2, <2>3 DEF Owned
  <2>5. ~MayFail => VideoOut(s) = VideoInFile(s)
    <3>1. ToSet(<< >>) = {}
      BY DEF ToSet
    <3> QED
      BY <2>2, <3>1 DEF VideoOut, Shown
  <2> QED
    BY <1>1, <1>4, <2>1, <2>4, <2>5
<1> QED
  BY <1>3, <1>4

\* A thread about to take a frame has not yet more than the limit allows.
LEMMA RoomForMore ==
  ASSUME FInv, NEW s \in Sessions, vpc[s] = "pop"
  PROVE  ~mux[s].finished /\ Cardinality(Owned(s)) <= FrameLimit
<1>1. ~mux[s].finished
  BY OfRecording DEF Phase
<1> DEFINE n == vcount[s]
<1>2. n \in Nat /\ n <= FrameLimit /\ FrameLimit \in Nat
  BY OfRecording, Bounds DEF FInv, IInv, CountInv
<1>3. Owned(s) = {x.frame : x \in MarksOf(s)}
  BY DEF Owned
<1>4. Chain(MarksOf(s)) /\ MarksOf(s) \subseteq Inside /\ \A x \in MarksOf(s) : x.count \in 0 .. n - 1
  BY OfRecording, MarksShape DEF Tracked, PacketInv, MarksOf
<1> HIDE DEF n
<1>5. IsFiniteSet(Owned(s)) /\ Cardinality(Owned(s)) <= n
  BY <1>2, <1>3, <1>4, FewMarks
<1>6. Cardinality(Owned(s)) \in Nat
  BY <1>5, FS_CardinalityType
<1> QED
  BY <1>1, <1>2, <1>5, <1>6

\* Nothing changes the frames of the recordings another thread serves.
LEMMA OthersKeep ==
  ASSUME NEW u \in Sessions, mux'[u] = mux[u], venc'[u] = venc[u],
         vpc'[u] = "encode" <=> vpc[u] = "encode", vpc[u] = "encode" => vframe'[u] = vframe[u]
  PROVE  FramesOf(u)' = FramesOf(u)
  BY DEF FramesOf, VideoOut, VideoInFile

LEMMA StepImplementsSegments ==
  FInv /\ FramesInv /\ FInv' /\ FramesInv' /\ [Next]_vars => [Picture!Next]_(Picture!segVars)
<1> SUFFICES ASSUME FInv, FramesInv, FInv', FramesInv', [Next]_vars
             PROVE  Picture!Next \/ UNCHANGED Picture!segVars
  OBVIOUS
<1> USE DEF ui, queues, mic
<1> DEFINE Same == /\ \A u \in Sessions : FramesOf(u)' = FramesOf(u)
                   /\ mux' = mux /\ spoiled' = spoiled
<1>1. ASSUME Same, UNCHANGED <<shots, video_frame_queue>> PROVE UNCHANGED Picture!segVars
  BY <1>1 DEF Picture!segVars, Readable
<1>2. ASSUME UNCHANGED <<vpc, vframe, venc, mux, spoiled>> PROVE Same
  BY <1>2, OthersKeep
\* The UI thread.
<1>3. CASE StartRecord
  <2>1. PICK start \in {"loop", "none"} : vpc' = [vpc EXCEPT ![session'] = start]
    BY <1>3 DEF StartRecord
  <2>2. /\ session' > session /\ UNCHANGED <<shots, video_frame_queue, vframe, venc, mux, spoiled>>
    BY <1>3 DEF StartRecord, FInv, IInv, TypeOK, SharedType
  <2>3. ASSUME NEW u \in Sessions PROVE vpc'[u] = "encode" <=> vpc[u] = "encode"
    <3>1. CASE u = session'
      <4>1. vpc[u] = "none"
        BY <2>2, <3>1 DEF FInv, IInv, StartInv
      <4> QED
        BY <2>1, <3>1, <4>1, OfRecording
    <3> QED
      BY <2>1, <3>1
  <2>4. Same
    BY <2>2, <2>3, OthersKeep
  <2> QED
    BY <1>1, <2>2, <2>4
<1>4. CASE StopRecord
  BY <1>1, <1>2, <1>4 DEF StopRecord, video
<1>5. CASE PreviewFrame
  <2>1. shots \in Nat /\ shots' = shots + 1 /\ shots < MaxFrames /\ UNCHANGED spoiled
    BY <1>5, Bounds DEF PreviewFrame, FInv, IInv, TypeOK, SharedType
  <2>2. /\ video_frame_queue \in Seq(1 .. MaxFrames) /\ shots' \in 1 .. MaxFrames
        /\ video_frame_queue' = Append(video_frame_queue, shots')
    BY <1>5, <2>1, Bounds DEF PreviewFrame, FInv, IInv, TypeOK, SharedType
  <2>3. Len(video_frame_queue') = Len(video_frame_queue) + 1 /\ Len(video_frame_queue) \in Nat
    BY <2>2, AppendProperties, LenProperties
  <2>4. shots' - Len(video_frame_queue') = shots - Len(video_frame_queue)
    BY <2>1, <2>3
  <2>5. Same
    BY <1>2, <1>5 DEF PreviewFrame, video
  <2>6. Picture!Capture
    BY <2>1, <2>4, <2>5 DEF Picture!Capture, Readable
  <2> QED
    BY <2>6 DEF Picture!Next
<1>6. ASSUME NEW s \in Sessions, MicThread(s)
      PROVE  Picture!Next \/ UNCHANGED Picture!segVars
  BY <1>1, <1>2, <1>6 DEF MicThread, MicRead, MicQuit, video
\* A frame is claimed.
<1>7. ASSUME NEW s \in Sessions, VideoPop(s)
      PROVE  Picture!Next \/ UNCHANGED Picture!segVars
  <2>1. /\ vpc[s] = "pop" /\ vpc' = [vpc EXCEPT ![s] = "encode"] /\ UNCHANGED <<shots, venc, mux, spoiled>>
        /\ vframe' = [vframe EXCEPT ![s] = Head(video_frame_queue)]
    BY <1>7 DEF VideoPop, VideoAt
  <2>2. Taken' = Taken + 1 /\ Taken < shots /\ vframe'[s] = Taken + 1
    BY <1>7, PopFrames DEF FInv
  <2>3. vpc'[s] = "encode" /\ \A u \in Sessions \ {s} : vpc'[u] = vpc[u] /\ vframe'[u] = vframe[u]
    BY <2>1, OfRecording
  <2>4. \A u \in Sessions \ {s} : FramesOf(u)' = FramesOf(u)
    BY <2>1, <2>3, OthersKeep
  <2>5. ~mux[s].finished /\ Cardinality(Owned(s)) <= FrameLimit
    BY <2>1, RoomForMore
  <2>6. FramesOf(s) = Owned(s) /\ FramesOf(s)' = Owned(s)'
    BY <2>1, <2>5 DEF FramesInv
  <2>7. Owned(s)' = Owned(s) \cup {Taken'}
    BY <2>1, <2>2, <2>3 DEF Owned, MarksOf
  <2>8. [u \in Sessions |-> FramesOf(u)'] =
          [[u \in Sessions |-> FramesOf(u)] EXCEPT ![s] = @ \cup {Taken'}]
    BY <2>4, <2>6, <2>7
  <2>9. Picture!Cardinality(FramesOf(s)) <= FrameLimit
    <3>1. \A S : Picture!Cardinality(S) = Cardinality(S)
      BY DEF Picture!Cardinality, Cardinality
    <3> QED
      BY <2>5, <2>6, <3>1
  <2>10. Picture!Claim(s)
    BY <2>1, <2>2, <2>5, <2>8, <2>9 DEF Picture!Claim, Picture!Sessions, Sessions, Taken, Readable
  <2> QED
    BY <2>10 DEF Picture!Next, Picture!Sessions, Sessions
\* The threads lose frames, or finish the file, or do nothing to the picture.
<1>8. ASSUME NEW s \in Sessions, StepOf(s)
      PROVE  Picture!Next \/ UNCHANGED Picture!segVars
  <2>1. /\ UNCHANGED <<shots, video_frame_queue, vframe>>
        /\ \A u \in Sessions \ {s} : vpc'[u] = vpc[u] /\ venc'[u] = venc[u] /\ mux'[u] = mux[u]
        /\ Owned(s)' \subseteq Owned(s) /\ (~MayFail => Owned(s)' = Owned(s))
    BY <1>8 DEF StepOf, Within
  <2>2. \A u \in Sessions \ {s} : FramesOf(u)' = FramesOf(u)
    BY <2>1, OthersKeep
  <2>3. mux[s].finished \in BOOLEAN /\ mux'[s].finished \in BOOLEAN
    <3>1. mux[s] \in MuxerState /\ mux'[s] \in MuxerState
      BY <1>8, OfRecording DEF StepOf, Within
    <3> QED
      BY <3>1 DEF MuxerState
  <2> DEFINE seg == [u \in Sessions |-> FramesOf(u)]
             fin == [u \in Sessions |-> mux[u].finished /\ u \in Readable]
             kept == FramesOf(s)'
  <2>4. seg' = [seg EXCEPT ![s] = kept] /\ seg[s] = FramesOf(s)
    BY <2>2
  <2>5. \A u \in Sessions \ {s} : fin'[u] = fin[u]
    BY <1>8, <2>1 DEF StepOf, Readable
  <2>6. shots' = shots /\ Len(video_frame_queue') = Len(video_frame_queue)
    BY <2>1
  <2>7. CASE mux[s].finished
    <3>1. mux'[s] = mux[s] /\ (s \in Readable' <=> s \in Readable)
      BY <1>8, <2>7 DEF StepOf, Readable
    <3>2. FramesOf(s)' = FramesOf(s)
      BY <2>7, <3>1 DEF FramesOf, VideoInFile
    <3>3. \A u \in Sessions : fin'[u] = fin[u] /\ seg'[u] = seg[u]
      BY <2>2, <2>5, <3>1, <3>2
    <3>4. seg' = seg /\ fin' = fin
      BY <3>3
    <3> QED
      BY <2>6, <3>4 DEF Picture!segVars
  <2>8. CASE ~mux[s].finished /\ ~(mux'[s].finished /\ s \in Readable')
    <3>1. FramesOf(s) = Owned(s) /\ kept \subseteq Owned(s)' /\ (~MayFail => kept = Owned(s)')
      BY <2>8 DEF FramesInv
    <3>2. fin[s] = FALSE /\ fin'[s] = FALSE
      BY <2>8
    <3>3. fin' = fin
      <4>1. \A u \in Sessions : fin'[u] = fin[u]
        BY <2>5, <3>2
      <4> QED
        BY <4>1
    <3>4. CASE MayFail
      <4>1. kept \in SUBSET seg[s]
        BY <2>1, <2>4, <3>1
      <4> HIDE DEF kept
      <4>2. Picture!Lose(s)
        BY <2>4, <2>6, <3>2, <3>3, <3>4, <4>1 DEF Picture!Lose, Picture!Sessions, Sessions
      <4> QED
        BY <4>2 DEF Picture!Next, Picture!Sessions, Sessions
    <3>5. CASE ~MayFail
      <4>1. \A u \in Sessions : FramesOf(u)' = FramesOf(u)
        BY <2>1, <2>2, <3>1, <3>5
      <4> QED
        BY <2>6, <3>3, <4>1 DEF Picture!segVars
    <3> QED
      BY <3>4, <3>5
  <2>9. CASE ~mux[s].finished /\ mux'[s].finished /\ s \in Readable'
    <3>1. FramesOf(s) = Owned(s) /\ kept \subseteq Owned(s)' /\ (~MayFail => kept = Owned(s)')
      BY <2>9 DEF FramesInv
    <3>2. kept \in IF MayFail THEN SUBSET seg[s] ELSE {seg[s]}
      BY <2>1, <2>4, <3>1
    <3> HIDE DEF kept
    <3>3. fin[s] = FALSE /\ fin'[s] = TRUE
      BY <2>3, <2>9
    <3>4. fin' = [fin EXCEPT ![s] = TRUE]
      BY <2>5, <3>3
    <3>5. Picture!Finish(s)
      BY <2>4, <2>6, <3>2, <3>3, <3>4 DEF Picture!Finish, Picture!Sessions, Sessions
    <3> QED
      BY <3>5 DEF Picture!Next, Picture!Sessions, Sessions
  <2> QED
    BY <2>7, <2>8, <2>9
<1>9. ASSUME NEW s \in Sessions, VideoThread(s) \/ AudioThread(s)
      PROVE  Picture!Next \/ UNCHANGED Picture!segVars
  <2>1. IInv'
    BY DEF FInv
  <2> QED
    BY <1>7, <1>8, <1>9, <2>1, VideoFrames, AudioFrames
<1>10. CASE UNCHANGED vars
  BY <1>1, <1>2, <1>10 DEF vars, video
<1> QED
  BY <1>3, <1>4, <1>5, <1>6, <1>9, <1>10 DEF Next

\* native-lib.cpp and the Java code above it share out the frames of the preview as
\* Segments says, for every limit, delay and number of recordings.
THEOREM SegmentsImplemented == Spec => ImplementsSegments
<1>1. Init => Picture!Init
  <2> SUFFICES ASSUME Init PROVE Picture!Init
    OBVIOUS
  <2>1. \A s \in Sessions : ~mux[s].finished /\ FramesOf(s) = {}
    <3>1. ToSet(<< >>) = {}
      BY DEF ToSet
    <3> QED
      BY <3>1 DEF Init, PerSession, NewMuxer, NewEncoder, FramesOf, VideoOut, VideoInFile, Shown
  <2>2. \A s \in Sessions : mux[s].finished = FALSE
    BY DEF Init, PerSession, NewMuxer
  <2>3. shots = 0 /\ Len(video_frame_queue) = 0
    BY DEF Init
  <2>4. [s \in Sessions |-> FramesOf(s)] = [s \in Sessions |-> {}]
    BY <2>1
  <2>5. [s \in Sessions |-> mux[s].finished /\ s \in Readable] = [s \in Sessions |-> FALSE]
    BY <2>2
  <2>6. Picture!Sessions = Sessions /\ 0 - 0 = 0
    BY DEF Picture!Sessions, Sessions
  <2> QED
    BY <2>3, <2>4, <2>5, <2>6 DEF Picture!Init
<1>2. FInv => FramesInv
  BY FramesAreOwned
<1> QED
  BY <1>1, <1>2, StepImplementsSegments, FramesInductive, PTL
  DEF Spec, ImplementsSegments, Picture!Spec

-----------------------------------------------------------------------------
(* Sound.  The other queue, and the audio threads of the recordings.       *)

\* How many buffers the recordings have taken from the queue.
SoundTaken == heard - Len(audio_frame_queue)

\* The buffers of recording s, and with the one its thread has just taken.
SoundOf(s) == SoundFrames(aenc[s], apacket[s], mux[s])
SoundOwned(s) == SoundOf(s) \cup (IF apc[s] = "encode" THEN {aframe[s]} ELSE {})

SoundQueueInv ==
    /\ Len(audio_frame_queue) <= heard
    /\ \A i \in 1 .. Len(audio_frame_queue) : audio_frame_queue[i] = SoundTaken + i

SoundOwnInv ==
    /\ \A s \in Sessions : SoundOwned(s) \subseteq 1 .. SoundTaken
    /\ \A s, u \in Sessions : s # u => SoundOwned(s) \cap SoundOwned(u) = {}
    /\ \A s \in Sessions : apc[s] = "encode" => \A x \in SoundOf(s) : x < aframe[s]

\* The thread may have written a packet too late.
Late(s) == apc[s] \in {"loop", "done"} /\ (vpc[s] \in {"close", "done"} \/ s \in spoiled)

\* A packet is in hand between encoding and writing only, and is empty only while
\* the encoder fills.
Sounded(s) ==
    /\ Sounding(aenc[s], apacket[s], mux[s], Late(s))
    /\ HasData(apacket[s]) => apc[s] = "write"
    /\ apc[s] = "write" /\ ~HasData(apacket[s]) => aenc[s].out = 0

SoundInv == \A s \in Sessions : Sounded(s)

\* A recording is past its end only when the flag is up, so a thread that has
\* written too late never takes another buffer; and only the trailer spoils a file.
EndedInv == \A s \in Sessions : /\ vpc[s] \in Past => isEnd
                                /\ s \in spoiled => vpc[s] \in {"trailing", "close", "done"}

SInv == FInv /\ EndedInv /\ SoundQueueInv /\ SoundOwnInv /\ SoundInv

LEMMA InitSInv == Init => SInv
<1> SUFFICES ASSUME Init PROVE SInv
  OBVIOUS
<1>1. FInv
  BY InitFInv
<1> USE DEF Init, PerSession
<1> DEFINE e == NewEncoder
           m == NewMuxer
           z == EmptyPacket(AUDIO_STREAM)
<1>2. AudioDelay \in Nat /\ AUDIO_STREAM \in Streams
  BY RecorderAssumption DEF RecorderAssumption, Streams
<1>3. /\ e \in EncoderState /\ e.pending = << >> /\ e.out = 0
      /\ m \in MuxerState /\ m.file = << >> /\ m.cur_dts[AUDIO_STREAM] = NoPts /\ m.priv_pts = 0
      /\ z \in Packet /\ ~HasData(z)
  BY <1>2, RecorderConstants
     DEF NewEncoder, NewMuxer, EncoderState, MuxerState, EmptyPacket, Packet, HasData
<1>4. \A s \in Sessions : /\ aenc[s] = e /\ mux[s] = m /\ apacket[s] = z /\ apc[s] = "none"
                          /\ vpc[s] = "none" /\ s \notin spoiled
  BY DEF e, m, z
<1>5. z = EmptyPacket(AUDIO_STREAM)
  OBVIOUS
<1> HIDE DEF e, m, z
<1>6. Sounds(m.file) = {} /\ Cardinality({}) = 0
  BY <1>3, FS_EmptySet DEF Sounds
<1>7. Len(e.pending) = 0 /\ Passed(e, z) = 0 /\ Behind(e, z) = {}
  BY <1>3 DEF Passed, Behind
<1>8. \A lost : Sounding(e, z, m, lost)
  <2>1. Waiting(e) /\ Returned(e, z)
    BY <1>2, <1>3, <1>5, <1>7 DEF Waiting, Returned
  <2>2. ClockInv(m, 0)
    BY <1>3 DEF ClockInv
  <2>3. \A lost : HeardInv(m, 0, {}, lost)
    BY <1>6 DEF HeardInv
  <2> QED
    BY <1>3, <1>7, <2>1, <2>2, <2>3 DEF Sounding
<1>9. SoundFrames(e, z, m) = {}
  BY <1>6, <1>7 DEF SoundFrames
<1>10. SoundInv
  BY <1>3, <1>4, <1>8 DEF SoundInv, Sounded
<1>11. SoundQueueInv /\ SoundOwnInv
  BY <1>4, <1>9 DEF SoundQueueInv, SoundOwnInv, SoundOwned, SoundOf, SoundTaken
<1>12. EndedInv
  BY <1>4 DEF EndedInv, Past
<1> QED
  BY <1>1, <1>10, <1>11, <1>12 DEF SInv

\* The variables of an audio thread.
LEMMA OfSound ==
  ASSUME SInv, NEW s \in Sessions
  PROVE  /\ Sounded(s) /\ aframe[s] \in Nat /\ acount[s] \in Nat
         /\ \A x \in ToSet(mux[s].packet_buffer) : x.stream = VIDEO_STREAM
         /\ aenc \in [Sessions -> EncoderState] /\ apacket \in [Sessions -> AudioPackets]
         /\ aframe \in [Sessions -> 0 .. MaxSounds] /\ mux \in [Sessions -> MuxerState]
         /\ apc \in [Sessions -> {"none", "start", "loop", "pop", "encode", "write", "done"}]
<1>1. FInv
  BY DEF SInv
<1>2. \A x \in ToSet(mux[s].packet_buffer) : x.stream = VIDEO_STREAM
  BY <1>1, OfRecording DEF Tracked, BufferInv
<1>3. /\ aenc \in [Sessions -> EncoderState] /\ apacket \in [Sessions -> AudioPackets]
      /\ aframe \in [Sessions -> 0 .. MaxSounds] /\ mux \in [Sessions -> MuxerState]
      /\ apc \in [Sessions -> {"none", "start", "loop", "pop", "encode", "write", "done"}]
      /\ acount \in [Sessions -> Nat]
  BY <1>1 DEF FInv, IInv, TypeOK, AudioType, TrackInv
<1>4. aframe[s] \in Nat /\ acount[s] \in Nat
  BY <1>3, Bounds
<1> QED
  BY <1>2, <1>3, <1>4 DEF SInv, SoundInv

\* Nobody lowers the flag, and a recording that has come to its end stays there.
LEMMA NextEnded == SInv /\ [Next]_vars => EndedInv'
<1> SUFFICES ASSUME SInv, [Next]_vars PROVE EndedInv'
  OBVIOUS
<1> DEFINE Labels == {"none", "loop", "pop", "encode", "end", "flush", "trailer",
                      "trailing", "close", "done", "failed"}
           Trail == {"trailing", "close", "done"}
<1>1. /\ EndedInv /\ vpc \in [Sessions -> Labels] /\ session \in 0 .. MaxSessions
      /\ spoiled \subseteq Sessions /\ isEnd \in BOOLEAN
      /\ \A s \in Sessions : s > session => vpc[s] = "none"
  BY DEF SInv, FInv, IInv, TypeOK, SharedType, VideoType, StartInv
<1> USE DEF ui, queues, video, audio, mic, VideoAt, VideoUses, AudioAt
<1>2. ASSUME UNCHANGED <<vpc, isEnd, spoiled>> PROVE EndedInv'
  BY <1>1, <1>2 DEF EndedInv
<1>3. ASSUME NEW s \in Sessions, NEW to, vpc' = [vpc EXCEPT ![s] = to], UNCHANGED spoiled,
             isEnd => isEnd', to \in Past => isEnd' \/ vpc[s] \in Past,
             vpc[s] \in Trail => to \in Trail
      PROVE  EndedInv'
  <2>1. vpc'[s] = to /\ \A u \in Sessions \ {s} : vpc'[u] = vpc[u]
    BY <1>1, <1>3
  <2> HIDE DEF Labels
  <2>2. ASSUME NEW u \in Sessions PROVE vpc'[u] \in Past => isEnd'
    BY <1>1, <1>3, <2>1 DEF EndedInv
  <2>3. ASSUME NEW u \in Sessions, u \in spoiled' PROVE vpc'[u] \in Trail
    BY <1>1, <1>3, <2>1, <2>3 DEF EndedInv
  <2> QED
    BY <2>2, <2>3 DEF EndedInv
<1>4. CASE StartRecord
  <2>1. PICK start \in {"loop", "none"} : vpc' = [vpc EXCEPT ![session'] = start]
    BY <1>4 DEF StartRecord
  <2>2. session' = session + 1 /\ session < MaxSessions /\ UNCHANGED <<isEnd, spoiled>>
    BY <1>4 DEF StartRecord
  <2>3. session' \in Sessions /\ session' > session
    BY <1>1, <2>2, Bounds DEF Sessions
  <2>4. PICK s \in Sessions : s = session'
    BY <2>3
  <2>5. vpc[s] = "none" /\ vpc' = [vpc EXCEPT ![s] = start]
    BY <1>1, <2>1, <2>3, <2>4
  <2> QED
    BY <1>3, <2>1, <2>2, <2>5 DEF Past
<1>5. CASE StopRecord \/ PreviewFrame \/ UNCHANGED vars
  BY <1>2, <1>5 DEF StopRecord, PreviewFrame, vars
<1>6. ASSUME NEW s \in Sessions, MicThread(s) PROVE EndedInv'
  BY <1>2, <1>6 DEF MicThread, MicRead, MicQuit
<1>7. ASSUME NEW s \in Sessions, VideoThread(s) PROVE EndedInv'
  <2>1. CASE VideoTest(s)
    <3>1. /\ vpc[s] = "loop" /\ UNCHANGED <<isEnd, spoiled>>
          /\ vpc' = [vpc EXCEPT ![s] = IF isEnd THEN "flush" ELSE "pop"]
      BY <2>1 DEF VideoTest
    <3>2. PICK to : to = IF isEnd THEN "flush" ELSE "pop"
      OBVIOUS
    <3> QED
      BY <1>3, <3>1, <3>2 DEF Past
  <2>2. CASE VideoEnd(s)
    <3>1. /\ vpc[s] = "end" /\ isEnd' = TRUE /\ UNCHANGED spoiled
          /\ vpc' = [vpc EXCEPT ![s] = "flush"]
      BY <2>2 DEF VideoEnd
    <3> QED
      BY <1>3, <3>1 DEF Past
  <2>3. CASE VideoPop(s) \/ VideoEncode(s) \/ VideoEncodeFails(s)
    <3>1. /\ vpc[s] \in {"pop", "encode"} /\ UNCHANGED <<isEnd, spoiled>>
          /\ \E to \in {"encode", "end", "loop"} : vpc' = [vpc EXCEPT ![s] = to]
      BY <2>3 DEF VideoPop, VideoEncode, VideoEncodeFails
    <3> QED
      BY <1>3, <3>1 DEF Past
  <2>4. CASE VideoFlush(s) \/ VideoFlushFails(s) \/ VideoFlushed(s)
    <3>1. /\ vpc[s] = "flush" /\ UNCHANGED <<isEnd, spoiled>>
          /\ \E to \in {"failed", "flush", "trailer"} : vpc' = [vpc EXCEPT ![s] = to]
      BY <2>4 DEF VideoFlush, VideoFlushFails, VideoFlushed
    <3> QED
      BY <1>3, <3>1 DEF Past
  <2>5. CASE VideoTrailer(s) \/ VideoTrailerEnd(s) \/ VideoClose(s)
    <3>1. /\ vpc[s] \in {"trailer", "trailing", "close"} /\ UNCHANGED <<isEnd, spoiled>>
          /\ \E to \in Trail : vpc' = [vpc EXCEPT ![s] = to]
      BY <2>5 DEF VideoTrailer, VideoTrailerEnd, VideoClose
    <3> QED
      BY <1>3, <3>1 DEF Past
  <2>6. CASE VideoUnopened(s)
    BY <1>2, <2>6 DEF VideoUnopened
  <2> QED
    BY <1>7, <2>1, <2>2, <2>3, <2>4, <2>5, <2>6 DEF VideoThread
<1>8. ASSUME NEW s \in Sessions, AudioThread(s) PROVE EndedInv'
  <2>1. CASE AudioWriteRaces(s)
    <3>1. vpc[s] = "trailing" /\ spoiled' = spoiled \cup {s} /\ UNCHANGED <<vpc, isEnd>>
      BY <2>1 DEF AudioWriteRaces, AudioWritten
    <3> QED
      BY <1>1, <3>1 DEF EndedInv
  <2>2. CASE ~AudioWriteRaces(s)
    BY <1>2, <1>8, <2>2
       DEF AudioThread, AudioStart, AudioTest, AudioPop, AudioEncode, AudioEncodeFails,
           AudioWrite, AudioLateWrite, AudioWritten, AudioUseAfterFree, AudioUnopened
  <2> QED
    BY <2>1, <2>2
<1> QED
  BY <1>4, <1>5, <1>6, <1>7, <1>8 DEF Next

\* A step that takes no buffer from the queue and gives no recording one it did not
\* have.
LEMMA SoundKeeps ==
  ASSUME SInv, UNCHANGED <<heard, audio_frame_queue, aframe>>,
         \A u \in Sessions : Sounded(u)',
         \A u \in Sessions : SoundOwned(u)' \subseteq SoundOwned(u),
         \A u \in Sessions : apc'[u] = "encode" =>
                               apc[u] = "encode" /\ SoundOf(u)' \subseteq SoundOf(u)
  PROVE  SoundQueueInv' /\ SoundOwnInv' /\ SoundInv'
<1>1. SoundTaken' = SoundTaken /\ SoundQueueInv'
  BY DEF SInv, SoundQueueInv, SoundTaken
<1>2. \A u \in Sessions : SoundOwned(u)' \subseteq 1 .. SoundTaken'
  BY <1>1 DEF SInv, SoundOwnInv
<1>3. \A t, u \in Sessions : t # u => SoundOwned(t)' \cap SoundOwned(u)' = {}
  BY DEF SInv, SoundOwnInv
<1>4. ASSUME NEW u \in Sessions, apc'[u] = "encode", NEW x \in SoundOf(u)'
      PROVE  x < aframe'[u]
  BY <1>4 DEF SInv, SoundOwnInv
<1>5. SoundInv'
  BY DEF SoundInv
<1> QED
  BY <1>1, <1>2, <1>3, <1>4, <1>5 DEF SoundOwnInv

\* A recording whose sound a step leaves alone.
LEMMA StaysSounded ==
  ASSUME NEW u \in Sessions, Sounded(u), UNCHANGED <<aenc[u], apacket[u], mux[u]>>,
         apc'[u] = "write" <=> apc[u] = "write", Late(u) => Late(u)'
  PROVE  Sounded(u)' /\ SoundOf(u)' = SoundOf(u)
<1>1. PICK e, p, m, l1, l2 : /\ e = aenc[u] /\ p = apacket[u] /\ m = mux[u]
                             /\ l1 = Late(u) /\ l2 = Late(u)'
  OBVIOUS
<1>2. Sounding(e, p, m, l1)
  BY <1>1 DEF Sounded
<1>3. Sounding(e, p, m, l2)
  BY <1>1, <1>2, MayBeLost
<1> QED
  BY <1>1, <1>3 DEF Sounded, SoundOf

\* A step that touches neither sound nor packets.
LEMMA SoundIdle ==
  ASSUME SInv, UNCHANGED <<heard, audio_frame_queue, aframe, aenc, apacket, mux>>,
         \A u \in Sessions : apc'[u] = "encode" => apc[u] = "encode",
         \A u \in Sessions : apc'[u] = "write" <=> apc[u] = "write",
         \A u \in Sessions : Late(u) => Late(u)'
  PROVE  SoundQueueInv' /\ SoundOwnInv' /\ SoundInv'
<1>1. \A u \in Sessions : Sounded(u)' /\ SoundOf(u)' = SoundOf(u)
  BY OfSound, StaysSounded
<1>2. \A u \in Sessions : SoundOwned(u)' \subseteq SoundOwned(u)
  BY <1>1 DEF SoundOwned
<1> QED
  BY <1>1, <1>2, SoundKeeps

\* What the video thread writes goes past the sound.
LEMMA SoundPassed ==
  ASSUME SInv, NEW s \in Sessions, VideoEncode(s) \/ VideoFlush(s) \/ VideoTrailerEnd(s)
  PROVE  SoundQueueInv' /\ SoundOwnInv' /\ SoundInv'
<1> DEFINE b == mux[s].packet_buffer
<1>1. PICK e, h, lost : e = aenc[s] /\ h = apacket[s] /\ lost = Late(s)
  OBVIOUS
<1> DEFINE Passes(r) == Sounding(e, h, r, lost) /\ SoundFrames(e, h, r) = SoundFrames(e, h, mux[s])
<1>2. UNCHANGED <<heard, audio_frame_queue, audio, spoiled>>
  BY DEF VideoEncode, VideoFlush, VideoTrailerEnd, queues, mic
<1>3. /\ Sounding(e, h, mux[s], lost) /\ \A x \in ToSet(b) : x.stream = VIDEO_STREAM
      /\ Fed(venc[s], vcount[s]) /\ vframe[s] \in Nat /\ Len(b) \in Nat
      /\ mux \in [Sessions -> MuxerState]
  BY <1>1, OfSound, OfRecording DEF SInv, Sounded
<1>4. \A p \in Packet, good \in Nat :
        p.stream = VIDEO_STREAM => Passes(av_interleaved_write_frame(mux[s], p, good))
  BY <1>3, VideoUnheard
<1>5. \E r : mux' = [mux EXCEPT ![s] = r] /\ Passes(r)
  <2>1. CASE VideoEncode(s)
    <3> DEFINE g == Feed(venc[s], vframe[s], vcount[s])
    <3>1. Fed(g, vcount[s] + 1)
      BY <1>3, FeedShape
    <3>2. PICK good, p :
            /\ good \in Takes(Len(b) + 1)
            /\ mux' = [mux EXCEPT ![s] = av_interleaved_write_frame(@, p, good)]
            /\ p = EmptyPacket(VIDEO_STREAM) \/ \E i \in Candidates(g, Reorder) : p = VideoPacket(g, i)
      BY <2>1 DEF VideoEncode
    <3> HIDE DEF g
    <3>3. p \in Packet /\ p.stream = VIDEO_STREAM
      <4>1. EmptyPacket(VIDEO_STREAM) \in Packet /\ EmptyPacket(VIDEO_STREAM).stream = VIDEO_STREAM
        BY RecorderConstants DEF EmptyPacket, Packet
      <4>2. \A i \in Candidates(g, Reorder) :
              VideoPacket(g, i) \in Packet /\ VideoPacket(g, i).stream = VIDEO_STREAM
        BY <3>1, PacketOfEntry
      <4> QED
        BY <3>2, <4>1, <4>2
    <3>4. good \in Nat
      BY <1>3, <3>2, TakesShape
    <3>5. Passes(av_interleaved_write_frame(mux[s], p, good))
      BY <1>4, <3>3, <3>4
    <3> HIDE DEF Passes
    <3> QED
      BY <3>2, <3>5
  <2>2. CASE VideoFlush(s)
    <3>1. PICK i \in Candidates(venc[s], Reorder), good \in Takes(Len(b) + 1) :
            mux' = [mux EXCEPT ![s] = av_interleaved_write_frame(@, VideoPacket(venc[s], i), good)]
      BY <2>2 DEF VideoFlush
    <3>2. VideoPacket(venc[s], i) \in Packet /\ VideoPacket(venc[s], i).stream = VIDEO_STREAM
      BY <1>3, PacketOfEntry
    <3>3. good \in Nat
      BY <1>3, TakesShape
    <3>4. Passes(av_interleaved_write_frame(mux[s], VideoPacket(venc[s], i), good))
      BY <1>4, <3>2, <3>3
    <3> HIDE DEF Passes
    <3> QED
      BY <3>1, <3>4
  <2>3. CASE VideoTrailerEnd(s)
    <3>1. PICK good \in Takes(Len(b)) : mux' = [mux EXCEPT ![s] = av_write_trailer(@, good)]
      BY <2>3 DEF VideoTrailerEnd
    <3>2. good \in Nat
      BY <1>3, TakesShape
    <3>3. Passes(av_write_trailer(mux[s], good))
      BY <1>3, <3>2, TrailerUnheard
    <3> QED
      BY <3>1, <3>3
  <2> QED
    BY <2>1, <2>2, <2>3
<1>6. PICK r : mux' = [mux EXCEPT ![s] = r] /\ Passes(r)
  BY <1>5
<1>7. mux'[s] = r /\ \A u \in Sessions \ {s} : mux'[u] = mux[u]
  BY <1>3, <1>6
<1>8. /\ vpc[s] \in {"encode", "flush", "trailing"}
      /\ \A u \in Sessions \ {s} : vpc'[u] = vpc[u]
  <2>1. vpc[s] \in {"encode", "flush", "trailing"} /\ \E to : vpc' = [vpc EXCEPT ![s] = to]
    BY DEF VideoEncode, VideoFlush, VideoTrailerEnd, VideoUses, VideoAt
  <2> QED
    BY <2>1, OfRecording DEF SInv
<1>9. \A u \in Sessions : Late(u) => Late(u)'
  BY <1>2, <1>8 DEF Late, audio
<1>10. \A u \in Sessions : Sounded(u)' /\ SoundOf(u)' = SoundOf(u)
  <2> SUFFICES ASSUME NEW u \in Sessions PROVE Sounded(u)' /\ SoundOf(u)' = SoundOf(u)
    OBVIOUS
  <2>1. CASE u = s
    <3>1. PICK l2 : l2 = Late(s)'
      OBVIOUS
    <3>2. Sounding(e, h, r, l2)
      BY <1>1, <1>6, <1>9, <3>1, MayBeLost
    <3>3. /\ aenc'[s] = e /\ apacket'[s] = h /\ UNCHANGED apc
          /\ SoundFrames(e, h, r) = SoundFrames(e, h, mux[s])
      BY <1>1, <1>2, <1>6 DEF audio
    <3>4. Sounded(s)'
      BY <1>1, <1>7, <3>1, <3>2, <3>3, OfSound DEF Sounded
    <3> QED
      BY <1>1, <1>7, <2>1, <3>3, <3>4 DEF SoundOf
  <2>2. CASE u # s
    BY <1>2, <1>7, <1>9, <2>2, OfSound, StaysSounded DEF audio
  <2> QED
    BY <2>1, <2>2
<1>11. \A u \in Sessions : SoundOwned(u)' \subseteq SoundOwned(u)
  BY <1>2, <1>10 DEF SoundOwned, audio
<1> QED
  BY <1>2, <1>10, <1>11, SoundKeeps DEF audio

\* A step of the audio thread of s that changes what its encoder, hand and file hold
\* between them.
LEMMA SoundMoves ==
  ASSUME SInv, NEW s \in Sessions, UNCHANGED <<heard, audio_frame_queue, aframe, vpc>>,
         NEW h, NEW q, NEW r, NEW to,
         aenc' = [aenc EXCEPT ![s] = h], apacket' = [apacket EXCEPT ![s] = q],
         mux' = [mux EXCEPT ![s] = r], apc' = [apc EXCEPT ![s] = to], to # "encode",
         spoiled' = spoiled \/ spoiled' = spoiled \cup {s},
         Sounding(h, q, r, Late(s)'),
         HasData(q) => to = "write", to = "write" /\ ~HasData(q) => h.out = 0,
         \A x \in SoundFrames(h, q, r) : x \in SoundOwned(s)
  PROVE  SoundQueueInv' /\ SoundOwnInv' /\ SoundInv'
<1>1. /\ aenc'[s] = h /\ apacket'[s] = q /\ mux'[s] = r /\ apc'[s] = to
      /\ \A u \in Sessions \ {s} : /\ aenc'[u] = aenc[u] /\ apacket'[u] = apacket[u]
                                   /\ mux'[u] = mux[u] /\ apc'[u] = apc[u]
  BY OfSound
<1>2. \A u \in Sessions \ {s} : Late(u)' <=> Late(u)
  BY <1>1 DEF Late
<1>3. \A u \in Sessions \ {s} :
        Sounded(u)' /\ SoundOf(u)' = SoundOf(u) /\ SoundOwned(u)' = SoundOwned(u)
  <2> SUFFICES ASSUME NEW u \in Sessions \ {s}
               PROVE  Sounded(u)' /\ SoundOf(u)' = SoundOf(u) /\ SoundOwned(u)' = SoundOwned(u)
    OBVIOUS
  <2>1. Sounded(u)' /\ SoundOf(u)' = SoundOf(u)
    BY <1>1, <1>2, OfSound, StaysSounded
  <2> QED
    BY <1>1, <2>1 DEF SoundOwned
<1>4. Sounded(s)'
  BY <1>1 DEF Sounded
<1>5. SoundOwned(s)' \subseteq SoundOwned(s)
  <2>1. SoundOwned(s)' = SoundFrames(h, q, r)
    BY <1>1 DEF SoundOwned, SoundOf
  <2> QED
    BY <2>1
<1>6. \A u \in Sessions : Sounded(u)' /\ SoundOwned(u)' \subseteq SoundOwned(u)
  BY <1>3, <1>4, <1>5
<1>7. \A u \in Sessions : apc'[u] = "encode" => apc[u] = "encode" /\ SoundOf(u)' \subseteq SoundOf(u)
  BY <1>1, <1>3
<1> QED
  BY <1>6, <1>7, SoundKeeps

\* A buffer is encoded.
LEMMA SoundEncoded ==
  ASSUME SInv, NEW s \in Sessions, AudioEncode(s)
  PROVE  SoundQueueInv' /\ SoundOwnInv' /\ SoundInv'
<1>1. PICK e, p, m, n, f : e = aenc[s] /\ p = apacket[s] /\ m = mux[s] /\ n = acount[s] /\ f = aframe[s]
  OBVIOUS
<1>2. apc[s] = "encode" /\ ~Late(s)
  BY DEF AudioEncode, AudioUses, AudioAt, Late
<1>3. /\ Sounding(e, p, m, FALSE) /\ ~HasData(p) /\ f \in Nat /\ n \in Nat
      /\ \A x \in SoundFrames(e, p, m) : x < f
  <2>1. Sounded(s) /\ f \in Nat /\ n \in Nat /\ \A x \in SoundFrames(e, p, m) : x < f
    BY <1>1, <1>2, OfSound DEF SInv, SoundOwnInv, SoundOf
  <2>2. PICK lost : lost = Late(s)
    OBVIOUS
  <2>3. Sounding(e, p, m, lost) /\ ~lost
    BY <1>1, <1>2, <2>1, <2>2 DEF Sounded
  <2>4. Sounding(e, p, m, FALSE)
    BY <2>3 DEF Sounding, HeardInv
  <2> QED
    BY <1>1, <1>2, <2>1, <2>4 DEF Sounded
<1> DEFINE g == Feed(e, f, n)
           full == Len(g.pending) > AudioDelay
           Owns(h, q) == \A x \in SoundFrames(h, q, m) : x \in SoundFrames(e, p, m) \/ x = f
           Held1(h, q) == /\ Sounding(h, q, m, FALSE) /\ Owns(h, q)
                          /\ (~HasData(q) => h.out = 0)
<1>4. \E h, q : /\ aenc' = [aenc EXCEPT ![s] = h] /\ apacket' = [apacket EXCEPT ![s] = q]
                /\ Held1(h, q)
  <2>1. /\ aenc' = [aenc EXCEPT ![s] = IF full THEN Emit(g, 1) ELSE g]
        /\ apacket' = [apacket EXCEPT ![s] = IF full THEN AudioPacket(g) ELSE EmptyPacket(AUDIO_STREAM)]
    BY <1>1 DEF AudioEncode
  <2>2. CASE full
    <3>1. Held1(Emit(g, 1), AudioPacket(g))
      BY <1>3, <2>2, FullSounds
    <3>2. /\ aenc' = [aenc EXCEPT ![s] = Emit(g, 1)]
          /\ apacket' = [apacket EXCEPT ![s] = AudioPacket(g)]
      BY <2>1, <2>2
    <3> HIDE DEF g, Held1
    <3> QED
      BY <3>1, <3>2
  <2>3. CASE ~full
    <3>1. p = EmptyPacket(AUDIO_STREAM)
      BY <1>3 DEF Sounding, Returned
    <3>2. Held1(g, p)
      BY <1>3, <2>3, FillingSounds
    <3>3. aenc' = [aenc EXCEPT ![s] = g] /\ apacket' = [apacket EXCEPT ![s] = p]
      BY <2>1, <2>3, <3>1
    <3> HIDE DEF g, Held1
    <3> QED
      BY <3>2, <3>3
  <2> QED
    BY <2>2, <2>3
<1>5. PICK h, q : /\ aenc' = [aenc EXCEPT ![s] = h] /\ apacket' = [apacket EXCEPT ![s] = q]
                  /\ Held1(h, q)
  BY <1>4
<1>6. /\ UNCHANGED <<heard, audio_frame_queue, aframe, vpc, spoiled>> /\ mux' = mux
      /\ apc' = [apc EXCEPT ![s] = "write"]
  BY DEF AudioEncode, queues, mic, video
<1>7. mux' = [mux EXCEPT ![s] = m]
  BY <1>1, <1>6, OfSound
<1>8. Sounding(h, q, m, Late(s)')
  <2>1. PICK l2 : l2 = Late(s)'
    OBVIOUS
  <2>2. Sounding(h, q, m, l2)
    BY <1>5, MayBeLost
  <2> QED
    BY <2>1, <2>2
<1>9. \A x \in SoundFrames(h, q, m) : x \in SoundOwned(s)
  BY <1>1, <1>2, <1>5 DEF SoundOwned, SoundOf
<1>10. ~HasData(q) => h.out = 0
  BY <1>5
<1> HIDE DEF Held1
<1> QED
  BY <1>5, <1>6, <1>7, <1>8, <1>9, <1>10, SoundMoves

\* The packet in hand is written, or lost.
LEMMA SoundWrites ==
  ASSUME SInv, NEW s \in Sessions, AudioWrite(s) \/ AudioWriteRaces(s) \/ AudioLateWrite(s)
  PROVE  SoundQueueInv' /\ SoundOwnInv' /\ SoundInv'
<1> DEFINE z == EmptyPacket(AUDIO_STREAM)
           to == IF Full(acount[s]) THEN "done" ELSE "loop"
<1>1. PICK e, p, m : e = aenc[s] /\ p = apacket[s] /\ m = mux[s]
  OBVIOUS
<1>2. /\ apc[s] = "write" /\ apacket' = [apacket EXCEPT ![s] = z]
      /\ apc' = [apc EXCEPT ![s] = to]
      /\ UNCHANGED <<heard, audio_frame_queue, aframe, aenc, vpc>>
      /\ spoiled' = spoiled \/ spoiled' = spoiled \cup {s}
  BY DEF AudioWrite, AudioWriteRaces, AudioLateWrite, AudioWritten, AudioAt, queues, mic, video
<1>3. Sounding(e, p, m, FALSE) /\ (~HasData(p) => e.out = 0 /\ p = z)
  <2>1. PICK lost : lost = Late(s)
    OBVIOUS
  <2>2. Sounding(e, p, m, lost) /\ ~lost /\ (~HasData(p) => e.out = 0)
    BY <1>1, <1>2, <2>1, OfSound DEF Sounded, Late
  <2>3. Sounding(e, p, m, FALSE)
    BY <2>2 DEF Sounding, HeardInv
  <2> QED
    BY <2>2, <2>3 DEF Sounding, Returned
<1> DEFINE Has(r, lost) == /\ Sounding(e, z, r, lost)
                           /\ \A x \in SoundFrames(e, z, r) : x \in SoundFrames(e, p, m)
<1>4. \E r, lost : mux' = [mux EXCEPT ![s] = r] /\ Has(r, lost) /\ (lost => Late(s)')
  <2>1. CASE AudioWrite(s)
    <3>1. PICK works \in BOOLEAN : mux' = [mux EXCEPT ![s] = av_write_frame(m, p, works)]
      BY <1>1, <2>1 DEF AudioWrite, Outcomes
    <3>2. PICK r : r = av_write_frame(m, p, works)
      OBVIOUS
    <3>3. Has(r, FALSE)
      <4>1. CASE HasData(p)
        BY <1>3, <3>2, <4>1, SoundWritten
      <4>2. CASE ~HasData(p)
        <5>1. /\ p = z /\ Sounding(e, p, r, FALSE)
              /\ SoundFrames(e, p, r) = SoundFrames(e, p, m)
          BY <1>3, <3>2, <4>2, EmptyWritten
        <5> HIDE DEF z
        <5> QED
          BY <5>1
      <4> QED
        BY <4>1, <4>2
    <3> HIDE DEF Has
    <3> QED
      BY <3>1, <3>2, <3>3
  <2>2. CASE AudioWriteRaces(s) \/ AudioLateWrite(s)
    <3>1. mux' = mux /\ (s \in spoiled' \/ vpc'[s] \in {"close", "done"})
      BY <2>2 DEF AudioWriteRaces, AudioLateWrite, AudioWritten, video
    <3>2. mux' = [mux EXCEPT ![s] = m]
      BY <1>1, <3>1, OfSound
    <3>3. Has(m, TRUE)
      BY <1>3, SoundLost
    <3>4. apc'[s] = to /\ to \in {"loop", "done"}
      BY <1>2, OfSound
    <3>5. Late(s)'
      BY <3>1, <3>4 DEF Late
    <3> HIDE DEF Has
    <3> QED
      BY <3>2, <3>3, <3>5
  <2> QED
    BY <2>1, <2>2
<1>5. PICK r, lost : mux' = [mux EXCEPT ![s] = r] /\ Has(r, lost) /\ (lost => Late(s)')
  BY <1>4
<1>6. Sounding(e, z, r, Late(s)')
  <2>1. PICK l2 : l2 = Late(s)'
    OBVIOUS
  <2>2. Sounding(e, z, r, l2)
    BY <1>5, <2>1, MayBeLost
  <2> QED
    BY <2>1, <2>2
<1>7. \A x \in SoundFrames(e, z, r) : x \in SoundOwned(s)
  BY <1>1, <1>5 DEF SoundOwned, SoundOf
<1>8. ~HasData(z)
  BY DEF EmptyPacket, HasData
<1>9. aenc' = [aenc EXCEPT ![s] = e]
  BY <1>1, <1>2, OfSound
<1>10. PICK q, t : q = z /\ t = to
  OBVIOUS
<1>11. t # "encode" /\ t # "write"
  BY <1>10
<1>12. apacket' = [apacket EXCEPT ![s] = q] /\ apc' = [apc EXCEPT ![s] = t]
  BY <1>2, <1>10
<1> HIDE DEF z, to, Has
<1> QED
  BY <1>2, <1>5, <1>6, <1>7, <1>8, <1>9, <1>10, <1>11, <1>12, SoundMoves

\* A buffer joins the end of the queue.
LEMMA SoundHeard ==
  ASSUME SInv, NEW s \in Sessions, MicRead(s), IInv'
  PROVE  SoundQueueInv' /\ SoundOwnInv' /\ SoundInv'
<1> DEFINE q == audio_frame_queue
           r == audio_frame_queue'
           l == Len(q)
           n == heard
<1>1. /\ q \in Seq(1 .. MaxSounds) /\ n \in Nat /\ heard' = n + 1 /\ r = Append(q, n + 1)
      /\ n + 1 \in 1 .. MaxSounds
  BY DEF MicRead, SInv, FInv, IInv, TypeOK, SharedType
<1>2. l \in Nat /\ Len(r) = l + 1 /\ r[l + 1] = n + 1 /\ \A i \in 1 .. l : r[i] = q[i]
  <2> HIDE DEF q, r
  <2> QED
    BY <1>1, AppendProperties, LenProperties
<1>3. l <= n /\ SoundTaken = n - l /\ \A i \in 1 .. l : q[i] = n - l + i
  BY DEF SInv, SoundQueueInv, SoundTaken
<1>4. SoundTaken' = (n + 1) - (l + 1)
  BY <1>1, <1>2 DEF SoundTaken
<1> HIDE DEF q, r, l, n
<1>5. SoundTaken' = SoundTaken
  BY <1>1, <1>2, <1>3, <1>4
<1>6. ASSUME NEW i \in 1 .. l + 1 PROVE r[i] = SoundTaken' + i
  <2>1. i \in 1 .. l \/ i = l + 1
    BY <1>2
  <2> QED
    BY <1>1, <1>2, <1>3, <1>5, <2>1
<1>7. SoundQueueInv'
  BY <1>1, <1>2, <1>3, <1>6 DEF SoundQueueInv, r, n
<1>8. UNCHANGED <<apc, aframe, aenc, apacket, mux, vpc, spoiled>>
  BY DEF MicRead, audio, video
<1>9. \A u \in Sessions :
        Sounded(u)' /\ SoundOf(u)' = SoundOf(u) /\ SoundOwned(u)' = SoundOwned(u)
  BY <1>8, OfSound DEF SoundOf, SoundOwned, Sounded, Late
<1>10. SoundOwnInv' /\ SoundInv'
  BY <1>5, <1>8, <1>9 DEF SInv, SoundOwnInv, SoundInv
<1> QED
  BY <1>7, <1>10

\* An audio thread takes the oldest buffer nobody has taken.
LEMMA SoundPopped ==
  ASSUME SInv, NEW s \in Sessions, AudioPop(s)
  PROVE  SoundQueueInv' /\ SoundOwnInv' /\ SoundInv'
<1> DEFINE q == audio_frame_queue
           r == audio_frame_queue'
           l == Len(q)
           n == heard
<1>1. /\ q \in Seq(1 .. MaxSounds) /\ q # << >> /\ r = Tail(q) /\ n \in Nat /\ l \in Nat
      /\ heard' = heard /\ aframe' = [aframe EXCEPT ![s] = Head(q)]
      /\ aframe \in [Sessions -> 0 .. MaxSounds]
  BY LenProperties DEF AudioPop, mic, SInv, FInv, IInv, TypeOK, SharedType, AudioType
<1>2. /\ apc' = [apc EXCEPT ![s] = "encode"] /\ apc[s] = "pop"
      /\ UNCHANGED <<aenc, apacket, mux, vpc, spoiled>>
      /\ apc \in [Sessions -> {"none", "start", "loop", "pop", "encode", "write", "done"}]
  BY OfSound DEF AudioPop, AudioAt, video
<1>3. l <= n /\ SoundTaken = n - l /\ \A i \in 1 .. l : q[i] = n - l + i
  BY DEF SInv, SoundQueueInv, SoundTaken
<1>4. SoundTaken' = n - Len(r)
  BY <1>1 DEF SoundTaken
<1> HIDE DEF q, r, l, n
<1>5. l > 0 /\ Head(q) = q[1] /\ Len(r) = l - 1 /\ \A i \in 1 .. l - 1 : r[i] = q[i + 1]
  BY <1>1, HeadTailProperties, EmptySeq DEF l
<1>6. SoundTaken' = SoundTaken + 1 /\ SoundTaken \in Nat /\ Head(q) = SoundTaken + 1
  <2>1. 1 \in 1 .. l /\ l \in Int /\ n \in Int
    BY <1>1, <1>5
  <2>2. Head(q) = n - l + 1
    BY <1>3, <1>5, <2>1
  <2>3. SoundTaken' = n - (l - 1)
    BY <1>4, <1>5
  <2>4. n - (l - 1) = (n - l) + 1 /\ n - l + 1 = (n - l) + 1 /\ n - l \in Nat
    BY <1>1, <1>3, <1>5
  <2> QED
    BY <1>3, <2>2, <2>3, <2>4
<1>7. aframe'[s] = SoundTaken + 1 /\ \A u \in Sessions \ {s} : aframe'[u] = aframe[u]
  BY <1>1, <1>6
<1>8. SoundQueueInv'
  <2>1. ASSUME NEW i \in 1 .. l - 1 PROVE r[i] = SoundTaken' + i
    <3>1. i + 1 \in 1 .. l /\ r[i] = q[i + 1]
      BY <1>1, <1>5
    <3>2. r[i] = n - l + (i + 1)
      BY <1>3, <3>1
    <3>3. n - l + (i + 1) = ((n - l) + 1) + i
      BY <1>1
    <3> QED
      BY <1>3, <1>6, <3>2, <3>3
  <2>2. Len(r) <= n
    BY <1>1, <1>3, <1>5
  <2> QED
    BY <1>1, <1>5, <2>1, <2>2 DEF SoundQueueInv, r, n
<1>9. \A u \in Sessions : SoundOf(u)' = SoundOf(u)
  BY <1>2 DEF SoundOf
<1>10. \A u \in Sessions \ {s} : apc'[u] = apc[u] /\ SoundOwned(u)' = SoundOwned(u)
  BY <1>2, <1>7, <1>9 DEF SoundOwned
<1>11. \A x : x \in SoundOwned(s)' => x \in SoundOwned(s) \/ x = SoundTaken + 1
  BY <1>2, <1>7, <1>9 DEF SoundOwned
<1>12. \A u \in Sessions : SoundOwned(u) \subseteq 1 .. SoundTaken
  BY DEF SInv, SoundOwnInv
<1>13. /\ SoundTaken + 1 \notin 1 .. SoundTaken /\ 1 .. SoundTaken \subseteq 1 .. SoundTaken'
       /\ SoundTaken + 1 \in 1 .. SoundTaken'
  BY <1>6
<1>14. \A u \in Sessions : SoundOwned(u)' \subseteq 1 .. SoundTaken'
  BY <1>10, <1>11, <1>12, <1>13
<1>15. ASSUME NEW t \in Sessions, NEW u \in Sessions, t # u,
              NEW x, x \in SoundOwned(t)', x \in SoundOwned(u)'
       PROVE  FALSE
  <2>1. ~(x \in SoundOwned(t) /\ x \in SoundOwned(u))
    BY <1>15 DEF SInv, SoundOwnInv
  <2>2. CASE t = s
    BY <1>10, <1>11, <1>12, <1>13, <1>15, <2>1, <2>2
  <2>3. CASE u = s
    BY <1>10, <1>11, <1>12, <1>13, <1>15, <2>1, <2>3
  <2>4. CASE t # s /\ u # s
    BY <1>10, <1>15, <2>1, <2>4
  <2> QED
    BY <2>2, <2>3, <2>4
<1>16. ASSUME NEW u \in Sessions, apc'[u] = "encode", NEW x \in SoundOf(u)'
       PROVE  x < aframe'[u]
  <2>1. CASE u = s
    <3>1. x \in 1 .. SoundTaken
      BY <1>9, <1>12, <1>16 DEF SoundOwned
    <3> QED
      BY <1>6, <1>7, <2>1, <3>1
  <2>2. CASE u # s
    BY <1>7, <1>9, <1>10, <1>16, <2>2 DEF SInv, SoundOwnInv
  <2> QED
    BY <2>1, <2>2
<1>17. SoundInv'
  <2>1. \A u \in Sessions : (apc'[u] = "write" <=> apc[u] = "write") /\ (Late(u) => Late(u)')
    BY <1>2 DEF Late
  <2> QED
    BY <1>2, <2>1, OfSound, StaysSounded DEF SoundInv
<1> QED
  BY <1>8, <1>14, <1>15, <1>16, <1>17 DEF SoundOwnInv

LEMMA NextSInv == SInv /\ [Next]_vars => SInv'
<1> SUFFICES ASSUME SInv, [Next]_vars PROVE SInv'
  OBVIOUS
<1>1. FInv' /\ IInv' /\ EndedInv'
  BY NextFInv, NextEnded DEF SInv, FInv
<1> DEFINE Goal == SoundQueueInv' /\ SoundOwnInv' /\ SoundInv'
<1> USE DEF ui, queues, mic, video, audio
\* The steps that touch no sound.
<1> DEFINE Idle == UNCHANGED <<heard, audio_frame_queue, audio, mux, spoiled>>
<1>2. ASSUME Idle, \A u \in Sessions : vpc[u] \in {"close", "done"} => vpc'[u] \in {"close", "done"}
      PROVE  Goal
  <2>1. \A u \in Sessions : Late(u) => Late(u)'
    BY <1>2 DEF Late
  <2> QED
    BY <1>2, <2>1, SoundIdle
<1>3. ASSUME Idle, UNCHANGED vpc PROVE Goal
  BY <1>2, <1>3
<1>4. ASSUME StartRecord PROVE Goal
  <2>1. PICK start \in {"start", "none"} : apc' = [apc EXCEPT ![session'] = start]
    BY <1>4 DEF StartRecord
  <2>2. PICK begin : vpc' = [vpc EXCEPT ![session'] = begin]
    BY <1>4 DEF StartRecord
  <2>3. /\ UNCHANGED <<heard, audio_frame_queue, aframe, aenc, apacket, mux, spoiled>>
        /\ session' > session
    BY <1>4 DEF StartRecord, SInv, FInv, IInv, TypeOK, SharedType
  <2>4. ASSUME NEW u \in Sessions
        PROVE  /\ apc'[u] = "encode" => apc[u] = "encode"
               /\ apc'[u] = "write" <=> apc[u] = "write"
               /\ Late(u) => Late(u)'
    <3>1. CASE u = session'
      <4>1. apc[u] = "none"
        BY <2>3, <3>1 DEF SInv, FInv, IInv, StartInv
      <4>2. apc'[u] \in {"start", "none"}
        BY <2>1, <3>1, OfSound
      <4> QED
        BY <4>1, <4>2 DEF Late
    <3>2. CASE u # session'
      <4>1. apc'[u] = apc[u] /\ vpc'[u] = vpc[u]
        BY <2>1, <2>2, <3>2
      <4> QED
        BY <2>3, <4>1 DEF Late
    <3> QED
      BY <3>1, <3>2
  <2> QED
    BY <2>3, <2>4, SoundIdle
<1>5. ASSUME StopRecord \/ PreviewFrame PROVE Goal
  BY <1>3, <1>5 DEF StopRecord, PreviewFrame
<1>6. ASSUME NEW s \in Sessions, MicThread(s) PROVE Goal
  <2>1. CASE MicRead(s)
    BY <1>1, <2>1, SoundHeard
  <2>2. CASE MicQuit(s)
    BY <1>3, <2>2 DEF MicQuit
  <2> QED
    BY <1>6, <2>1, <2>2 DEF MicThread
<1>7. ASSUME NEW s \in Sessions, VideoThread(s) PROVE Goal
  <2>1. CASE VideoEncode(s) \/ VideoFlush(s) \/ VideoTrailerEnd(s)
    BY <2>1, SoundPassed
  <2>2. CASE \/ VideoTest(s) \/ VideoPop(s) \/ VideoEncodeFails(s) \/ VideoEnd(s)
             \/ VideoFlushFails(s) \/ VideoFlushed(s) \/ VideoTrailer(s) \/ VideoClose(s)
    <3>1. Idle
      BY <2>2 DEF VideoTest, VideoPop, VideoEncodeFails, VideoEnd, VideoFlushFails,
                  VideoFlushed, VideoTrailer, VideoClose
    <3>2. /\ \E to : vpc' = [vpc EXCEPT ![s] = to] /\ (vpc[s] \in {"close", "done"} => to = "done")
          /\ vpc \in [Sessions -> {"none", "loop", "pop", "encode", "end", "flush",
                                   "trailer", "trailing", "close", "done", "failed"}]
      BY <2>2, OfRecording
         DEF VideoTest, VideoPop, VideoEncodeFails, VideoEnd, VideoFlushFails,
             VideoFlushed, VideoTrailer, VideoClose, VideoAt, VideoUses, SInv
    <3>3. \A u \in Sessions : vpc[u] \in {"close", "done"} => vpc'[u] \in {"close", "done"}
      BY <3>2
    <3> QED
      BY <1>2, <3>1, <3>3
  <2>3. CASE VideoUnopened(s)
    BY <1>3, <2>3 DEF VideoUnopened
  <2> QED
    BY <1>7, <2>1, <2>2, <2>3 DEF VideoThread
<1>8. ASSUME NEW s \in Sessions, AudioThread(s) PROVE Goal
  <2>1. CASE AudioPop(s)
    BY <2>1, SoundPopped
  <2>2. CASE AudioEncode(s)
    BY <2>2, SoundEncoded
  <2>3. CASE AudioWrite(s) \/ AudioWriteRaces(s) \/ AudioLateWrite(s)
    BY <2>3, SoundWrites
  <2>4. CASE AudioStart(s) \/ AudioTest(s) \/ AudioEncodeFails(s) \/ AudioUseAfterFree(s)
    <3>1. UNCHANGED <<heard, audio_frame_queue, aframe, aenc, apacket, mux, vpc, spoiled>>
      BY <2>4 DEF AudioStart, AudioTest, AudioEncodeFails, AudioUseAfterFree
    <3>2. PICK to \in {"done", "pop", "loop"} :
            apc' = [apc EXCEPT ![s] = to] /\ (apc[s] = "loop" => to = IF isEnd THEN "done" ELSE "pop")
      BY <2>4 DEF AudioStart, AudioTest, AudioEncodeFails, AudioUseAfterFree, AudioAt, AudioUses
    <3>3. apc[s] \in {"start", "loop", "encode"}
      BY <2>4 DEF AudioStart, AudioTest, AudioEncodeFails, AudioUseAfterFree, AudioAt, AudioUses
    <3>4. apc'[s] = to /\ \A u \in Sessions \ {s} : apc'[u] = apc[u]
      BY <3>2, OfSound
    <3>5. Late(s) => Late(s)'
      <4>1. Late(s) => isEnd
        BY DEF Late, SInv, EndedInv, Past
      <4> QED
        BY <3>1, <3>2, <3>3, <3>4, <4>1 DEF Late
    <3>6. \A u \in Sessions : Late(u) => Late(u)'
      BY <3>1, <3>4, <3>5 DEF Late
    <3> QED
      BY <3>1, <3>3, <3>4, <3>6, SoundIdle
  <2>5. CASE AudioUnopened(s)
    BY <1>3, <2>5 DEF AudioUnopened
  <2> QED
    BY <1>8, <2>1, <2>2, <2>3, <2>4, <2>5 DEF AudioThread
<1>9. ASSUME UNCHANGED vars PROVE Goal
  BY <1>3, <1>9 DEF vars
<1>10. Goal
  BY <1>4, <1>5, <1>6, <1>7, <1>8, <1>9 DEF Next
<1> QED
  BY <1>1, <1>10 DEF SInv

\* The invariant holds throughout.
LEMMA SoundInductive == Spec => []SInv
  BY InitSInv, NextSInv, PTL DEF Spec

\* av_write_frame (native-lib.cpp:414) writes sound past the interleaving buffer, and
\* refuses none: a file that no race has spoiled has all the sound the encoder, never
\* flushed, has returned, in the order in which it was heard, but for a packet in hand
\* and at most one the thread came to write after the trailer had begun.
THEOREM SoundKept == Spec => []SoundComplete
<1>1. SInv => SoundComplete
  <2> SUFFICES ASSUME SInv, NEW s \in Sessions, s \notin spoiled
               PROVE  LET f == mux[s].file
                          e == aenc[s]
                          inhand == IF HasData(apacket[s]) THEN 1 ELSE 0
                          written == Cardinality(SoundAt(s)) + inhand
                      IN  /\ \A i, j \in SoundAt(s) :
                               i < j => f[i].frame < f[j].frame /\ f[i].dts < f[j].dts
                          /\ e.out = IF Held(e) > AudioDelay THEN Held(e) - AudioDelay ELSE 0
                          /\ ~mux[s].error =>
                               \/ written = e.out
                               \/ written = e.out - 1 /\ vpc[s] \in {"close", "done"}
    BY DEF SoundComplete, Readable
  <2>1. PICK e, p, m, lost : e = aenc[s] /\ p = apacket[s] /\ m = mux[s] /\ lost = Late(s)
    OBVIOUS
  <2>2. Sounding(e, p, m, lost) /\ (HasData(p) => ~lost) /\ (lost => vpc[s] \in {"close", "done"})
    BY <2>1, OfSound DEF Sounded, Late
  <2>3. SoundAt(s) = Sounds(m.file)
    BY <2>1 DEF SoundAt, Sounds
  <2>4. /\ e.out \in Nat /\ Len(e.pending) \in Nat /\ AudioDelay \in Nat
        /\ Len(e.pending) <= AudioDelay /\ (e.out > 0 => Len(e.pending) = AudioDelay)
    BY <2>2, EncoderType, LenProperties, RecorderAssumption
       DEF Sounding, Waiting, RecorderAssumption
  <2>5. e.out = IF Held(e) > AudioDelay THEN Held(e) - AudioDelay ELSE 0
    BY <2>4 DEF Held
  <2>6. \A i, j \in Sounds(m.file) :
          i < j => m.file[i].frame < m.file[j].frame /\ m.file[i].dts < m.file[j].dts
    BY <2>2 DEF Sounding, HeardInv
  <2>7. PICK c : c = Cardinality(Sounds(m.file))
    OBVIOUS
  <2>8. ~m.error => c = Passed(e, p) \/ (lost /\ c = Passed(e, p) - 1)
    BY <2>2, <2>7 DEF Sounding, HeardInv
  <2>9. Passed(e, p) = IF HasData(p) THEN e.out - 1 ELSE e.out
    BY DEF Passed
  <2>10. ~m.error => LET written == c + (IF HasData(p) THEN 1 ELSE 0)
                     IN  written = e.out \/ (written = e.out - 1 /\ vpc[s] \in {"close", "done"})
    <3>1. CASE HasData(p)
      BY <2>2, <2>4, <2>8, <2>9, <3>1
    <3>2. CASE ~HasData(p)
      BY <2>2, <2>4, <2>8, <2>9, <3>2
    <3> QED
      BY <3>1, <3>2
  <2> QED
    BY <2>1, <2>3, <2>5, <2>6, <2>7, <2>10
<1> QED
  BY <1>1, SoundInductive, PTL

\* The recordings share audio_frame_queue too (native-lib.cpp:20): no buffer of sound
\* gets into two of them.
THEOREM SoundTakenOnce == Spec => []NoSoundTwice
<1>1. SInv => NoSoundTwice
  <2> SUFFICES ASSUME SInv PROVE NoSoundTwice
    OBVIOUS
  <2> DEFINE sound(s) == {mux[s].file[i].frame : i \in SoundAt(s)} \cup
                         {x.frame : x \in ToSet(aenc[s].pending)} \cup
                         (IF HasData(apacket[s]) THEN {apacket[s].frame} ELSE {})
  <2>1. ASSUME NEW s \in Sessions PROVE sound(s) \subseteq SoundOwned(s)
    <3>1. aenc[s].pending \in Seq(Inside) /\ SoundAt(s) = Sounds(mux[s].file)
      BY OfSound, EncoderType DEF SoundAt, Sounds
    <3>2. ToSet(aenc[s].pending) = {aenc[s].pending[i] : i \in 1 .. Len(aenc[s].pending)}
      BY <3>1, ToSetOfSeq
    <3> QED
      BY <3>1, <3>2 DEF SoundOwned, SoundOf, SoundFrames, Behind
  <2> HIDE DEF sound
  <2>2. ASSUME NEW s \in Sessions, NEW f \in SoundOwned(s) PROVE f \notin ToSet(audio_frame_queue)
    <3>1. f \in 1 .. SoundTaken
      BY DEF SInv, SoundOwnInv
    <3>2. audio_frame_queue \in Seq(1 .. MaxSounds) /\ heard \in Nat
      BY Bounds DEF SInv, FInv, IInv, TypeOK, SharedType
    <3>3. Len(audio_frame_queue) \in Nat /\ SoundTaken \in Int
      BY <3>2, LenProperties DEF SoundTaken
    <3>4. ASSUME NEW i \in 1 .. Len(audio_frame_queue) PROVE audio_frame_queue[i] # f
      <4>1. audio_frame_queue[i] = SoundTaken + i
        BY DEF SInv, SoundQueueInv
      <4> QED
        BY <3>1, <3>3, <4>1
    <3>5. ToSet(audio_frame_queue) = {audio_frame_queue[i] : i \in 1 .. Len(audio_frame_queue)}
      BY <3>2, ToSetOfSeq
    <3> QED
      BY <3>4, <3>5
  <2>3. ASSUME NEW s \in Sessions PROVE sound(s) \cap ToSet(audio_frame_queue) = {}
    BY <2>1, <2>2
  <2>4. ASSUME NEW s \in Sessions, NEW u \in Sessions \ {s} PROVE sound(s) \cap sound(u) = {}
    BY <2>1 DEF SInv, SoundOwnInv
  <2> QED
    BY <2>3, <2>4 DEF NoSoundTwice, Readable, sound
<1> QED
  BY <1>1, SoundInductive, PTL

==============================================================================
