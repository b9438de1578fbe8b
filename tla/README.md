# MRecord: a verification project

MRecord is an Android application that records camera and microphone into an
mp4 file. Java captures; native code (`native-lib.cpp`) queues, encodes with
libx264 and libfdk_aac, and muxes with FFmpeg 3.1.3. This directory holds TLA+
models of the part where things happen concurrently, the TLC configurations that
check them on small instances, and proofs, checked by TLAPS, of the properties
that matter most, for all values of the constants.

Paths below are relative to `src/app/src/main/`; `mrecord/` stands for
`java/com/example/administrator/mrecord/`.

## 1. The system

### Components

| component | state | operations | what makes it correct |
|---|---|---|---|
| **Frame queue**, `cpp/threadsafe_queue.cpp` | a `std::queue`, a mutex, a condition variable | `push`, `wait_and_pop`, `try_pop`, copy constructor, `empty` | race-free; first in, first out; nothing lost or doubled; no consumer sleeps beside an element |
| **Encoding threads**, `cpp/native-lib.cpp` | two global queues, global `isEnd`, per recording two detached threads with their `frameCount`, and one `AVFormatContext` shared by both | `prepareRecord`, `startVideoEncode`, `flush_encoder`, `startAudioEncode`, both `pushData` | stop at the limit; every counted frame in the file; one recording does not get into another; nothing uses the context after it is freed; every recording gets its trailer |
| **Muxing context**, `cpp/FFmpeg-n3.1.3/libavformat/mux.c` | interleaving buffer, `cur_dts` and `priv_pts` per stream, device error | `av_interleaved_write_frame`, `av_write_frame`, `av_write_trailer` | per-stream order; dts order of the whole file; nothing lost; buffer bounded in time |
| **Encoders**, `cpp/FFmpeg-n3.1.3/libavcodec/utils.c` with the wrappers `libx264.c`, `libfdk-aacenc.c`, `audio_frame_queue.c` (libx264 and libfdk_aac themselves are not in the repository) | frames inside, timestamps waiting | one frame in, one packet or none out; flush | decoding order consistent with presentation order |
| **Recording control**, `mrecord/MainActivity.java`, `LiveEngine.java`, `push/Pusher.java` | `isPushing` of the activity and of both pushers | button: start, stop | the three flags agree; a stop finishes what a start began |
| **Microphone**, `mrecord/push/AudioPusher.java` | a worker per start, `AudioRecord` | `prepare`, `statPush`, `stopPush`, the worker's loop | a recording that is on has a task in the pool, and its sound is read |
| **Camera**, `mrecord/push/VideoPusher.java` | the `Camera`, its callback buffer | `onPreviewFrame`, surface created, changed, destroyed | no frame overwritten while it is being copied; preview only while a surface exists |
| **Thread pool**, `mrecord/ThreadPoolFactory.java` | one executor, five core threads | lazy creation, `execute` | one pool; no worker waits for ever |
| **Activity stack**, `mrecord/AppManager.java` | a stack of activities | add, finish, finish all | holds exactly the living activities |
| **Geometry**, `mrecord/UiUtils.java`, `utils/` and the plane sizes in `native-lib.cpp` | none | unit conversions | pure functions |
| **Shell**: `AppContext`, JNI declarations, `CameraView` | none | declarations | nothing to check |
| **Vendored**: rest of FFmpeg, libyuv, soloader | | | outside the project |

### How they interact

```
 UI thread                          pool thread (one per start)
 button, onPreviewFrame             AudioRecord.read
      |  prepareRecord                   |
      |  + pushData (copy)               | pushData (copy)
      v                                  v
 video_frame_queue                  audio_frame_queue      (global, never cleared)
      | wait_and_pop                     | wait_and_pop
      v                                  v
 startVideoEncode  --- isEnd --->   startAudioEncode       (one pair per recording)
      | av_interleaved_write_frame       | av_write_frame
      +------------> AVFormatContext <---+                 (one per recording)
```

`prepareRecord` starts the two encoding threads. The button tells the pushers to
start and stop; it tells the encoding threads nothing. A recording ends when its
video thread has counted more than 100 frames: it raises `isEnd`, flushes the
encoder, writes the trailer and frees the context, on its own.

### What is hard here

* **Interleaving.** Four kinds of threads share two queues, a plain `bool` and a
  context; only the queues have locks.
* **Ordering.** With B frames packets leave the encoder in another order than
  frames entered; two streams meet in one file through two different calls.
* **Sequences of calls.** `isEnd` and the queues are global and outlive the
  recording; start, stop, start leaves the threads of the first recording alive
  beside those of the second.
* **Partial failure.** Opening, encoding, flushing and each device write may fail
  at a point where the rest goes on.
* **Liveness.** A blocked encoding thread is woken only by a frame of its own
  queue, and nobody is obliged to send one.

`PROJECT.json` lists the hazards one by one, at their lines.

## 2. The modules

| module | models | extends |
|---|---|---|
| `BlockingFifo` | what the queue promises: atomic put, take, refuse | |
| `ThreadsafeQueue` | the queue as coded, statement by statement | |
| `ThreadsafeQueueProofs` | theorems about it | `ThreadsafeQueue` |
| `Muxer` | the three muxing calls, as functions from context to context | |
| `MuxerProofs` | lemmas about these functions | `Muxer` |
| `MuxContext` | one context under two encoders | `Muxer` |
| `MuxContextProofs` | theorems about it | `MuxContext`, `MuxerProofs` |
| `Encoder` | an encoder: the wrappers of libavcodec around a library | |
| `Segments` | what the pipeline promises of the picture: frames shared out, oldest first, each to one recording | |
| `Recorder` | the whole native pipeline and what feeds it | `Muxer`, `Encoder` |
| `RecorderProofs` | theorems about its threads and its limit | `Recorder` |
| `TrackingProofs` | lemmas: one recording's encoder and context followed together | `RecorderProofs`, `MuxerProofs` |
| `FrameProofs` | theorems about frames, sound and files, refinement of `Segments` | `TrackingProofs` |
| `VideoPusher` | one camera, its surface and its buffers | |
| `VideoPusherProofs` | theorems about it | `VideoPusher` |
| `Application` | activities, button, `LiveEngine`, pushers, thread pool | |
| `ApplicationProofs` | theorems about it | `Application` |
| `MCMuxContext`, `MCRecorder` | a number for `AV_NOPTS_VALUE` | |

The parts compose by what has been shown of them: `ThreadsafeQueue` implements
`BlockingFifo`, so `Recorder` takes its two queues to be first-in first-out
sequences with atomic operations (that is an assumption of the model, which
the refinement of the queue justifies), and `Recorder` calls the operators of
`Muxer` that `MuxContext` studies on their own. `Recorder` in turn implements `Segments`.
`Application` shows that while an activity is on the screen its button and both
pushers' flags are one (`ButtonTrue`), which is why `Recorder` has one flag
`isPushing` for the three; and `Recorder` numbers the frames in the order in which
`VideoPusher` pushes them, torn or not.

### ThreadsafeQueue

`mut`, `data_queue` and `data_cond` are the members of the class. `pc[t]` is the
statement thread t is at: a member function is a lock, one or two statements on
`data_queue`, and an unlock, with every other thread free to run in between.
`data_cond.wait(lk, pred)` is the loop the standard says it is: test, release and
block in one step (`PredFalse`), wake (notified or spuriously), lock again, test
again. `front()` and `pop()` are separate steps, so a second thread between them
would be seen. `value` and `result` are what `front()` read and what the call
returned; `sent` numbers the elements so that each is distinguishable.
Producers, consumers, pollers, copiers and observers are threads that call
`push`, `wait_and_pop`, `try_pop`, the copy constructor and `empty`, each in a
loop. Either overload of the two pops is the same operation.

### Muxer and MuxContext

A context is a record: the interleaving buffer, the file so far, `cur_dts` per
stream, the audio stream's `priv_pts`, `pb->error`, and whether the trailer has
been written. Kept from the code: the timestamps given to an audio packet
without any, the dts check with its gaps (a `cur_dts` of 0 reads as unset;
`cur_dts` is overwritten before a packet without dts is refused), the search
for a packet's place that begins behind the last packet of its own stream, the
two reasons for letting the head go, the packet that is lost when the device
fails, the return value, and the trailer that drains what is held. Both
streams count time in one unit, so comparing timestamps is comparing integers. A
packet is its stream, timestamps, size 0 or 1, and the frame in it; the mp4
muxer drops packets of size 0.

`MuxContext` lets a video and an audio encoder hand over packets in any relative
order, with empty packets and device failures. `call` is chosen once:
`Recorders` is what `native-lib.cpp` does (interleaved for video, direct for
audio), `Proper` is what `avformat.h` asks for.

### Encoder, Recorder and Segments

A *session* is one `prepareRecord`. Per session there is a video thread (`vpc`),
an audio thread (`apc`) and a microphone worker (`wpc`), their popped frame, count
and encoder, and one context. `isPushing` is the button and both pushers' flags.
Frames are numbers in order of capture, and `shots` counts them. (Turning the
device, which gives the next recording new pushers and leaves the old `AudioPusher`
recording, is in `Application`; what such an orphan still queues is left out here.)
`unopened` holds the streams whose encoder failed to open, which nobody looks at
until a thread uses one; `apacket` is the packet the audio thread has got from its
encoder and is about to write.

| code | action |
|---|---|
| button, `startRecord`, `prepareRecord` (with a failing `avio_open`) | `StartRecord` |
| button, `stopRecord` | `StopRecord` |
| `onPreviewFrame`, `pushData`, `startSendOneVideoFrame` | `PreviewFrame` |
| worker: test, `read`, `pushData` | `MicRead`, `MicQuit` |
| `while (!isEnd)`, `wait_and_pop` | `VideoTest`, `VideoPop`, `AudioTest`, `AudioPop` |
| video: encode, count, write, compare with the limit | `VideoEncode`, `VideoEncodeFails` |
| audio: look up the encoder, before the loop | `AudioStart` |
| audio: encode and count; write and compare with the limit | `AudioEncode`, `AudioEncodeFails`; `AudioWrite` (and `AudioWritten`, its second half) |
| the first use of an encoder that did not open | `VideoUnopened`, `AudioUnopened` |
| `isEnd = 1` | `VideoEnd` |
| `flush_encoder` | `VideoFlush`, `VideoFlushFails`, `VideoFlushed` |
| `av_write_trailer` begins; returns; the frees after it | `VideoTrailer`; `VideoTrailerEnd`; `VideoClose` |
| audio thread writes while the trailer is written; after it | `AudioWriteRaces`; `AudioLateWrite` |
| audio thread encodes with an encoder that is freed | `AudioUseAfterFree` |

No lock protects the context, so whether a call on it may be one step has to be
argued call by call.

* Before the trailer, `av_interleaved_write_frame` of the video thread uses the
  video stream and the interleaving buffer, `av_write_frame` of the audio thread the
  audio stream and the file. The one would reach the file, too, if a packet left the
  buffer; none does, since a recording is shorter than `max_interleave_delta`
  (`RecorderAssumption`, and checked and proved as `VideoOnlyAtTrailer`). So the two
  calls commute and each is one step. Around them, in `VideoEncode` and `AudioWrite`,
  are only statements on what is private to the thread.
* `av_write_trailer` uses everything. It has a beginning and an end, and an audio
  write in between is a race: `AudioWriteRaces` lets the process crash or go on,
  puts the recording among the `spoiled`, and nothing more is said of its file.
  (A write already in flight when the trailer begins is the same race.)
* Between the trailer and the frees the encoder is intact and still takes a buffer
  (`AudioEncode`), but what it returns has no file to go to any more
  (`AudioLateWrite`): the muxer's data is freed, and the packet is lost.
* After the frees every use of encoder or context is a use of freed memory
  (`AudioUseAfterFree`, `AudioLateWrite`, and `AudioStart` of a thread that only
  gets to run then). It may crash or go unnoticed, and has no other effect.
* The microphone worker's loop test is one step with its push, so a start that
  falls between the two finds the worker gone; `Application` has them as two steps
  and shows what that changes. `isEnd = 1` is visible to all and an action of its
  own.

The other undefined behaviour is a choice as well: the double free of the picture
(`pFrame->data` is the address of `pFrame`) either crashes the process (`alive`) or
goes unnoticed.

A packet's timestamp is the wrapper's doing. That of a picture is what libx264 makes
of its `pts`; that of a buffer of sound is the oldest in a queue of timestamps
(`audio_frame_queue.c`), to which a buffer that then fails to encode has been added
all the same. `AudioPacket` therefore dates packet n by n and not by the buffer in it.

The test `got_packet_ptr >= 0` (`native-lib.cpp:311`) is always true; so frames
are counted, and an empty packet is handed to the muxer, when the encoder has
kept the frame. Failed video frames are not counted, failed audio frames are;
the audio encoder is never flushed. All of this is in the model.

`Segments` has no threads, queues, encoders or packets: a recording takes the
oldest frame nobody has taken, may lose some if something fails, and is finished.
The refinement maps a recording to the frame its thread holds, those inside the
encoder and those in packets; once the trailer is written, to those its file shows.
It promises nothing about *when* a frame was captured, because the queue is never
cleared and a recording begins with what earlier ones have left.

### VideoPusher

`mCamera`, `isPushing` are the fields; `device` and `callback` the camera's own
state. A preview frame is two halves, so that the camera can overwrite a buffer
while `pushData` copies it: `buffer[b]` holds, per half, the number of the frame
last written there. A buffer is `given` to the camera, being filled (`FillFirst`,
`FillSecond`), in a `posted` message, or, for a moment, only in the hands of
`onPreviewFrame`, which gives it back before it copies it.

| code | action |
|---|---|
| constructor, `getCameraInstance` | `Init` |
| `surfaceCreated`, `startPreview` | `SurfaceCreated` |
| `surfaceChanged` | `SurfaceChanged` |
| `surfaceDestroyed`, `release`, `stopVideo` | `SurfaceDestroyed` |
| `statPush`, `stopPush` | `Toggle` |
| `onPreviewFrame` up to the copy; the copy | `OnPreviewFrame`; `CopyHalf` twice |

The JNI call `GetByteArrayElements` is taken to hand out the array itself, as the
Android runtime does for arrays of this size; a runtime that copied would, at
`native-lib.cpp:57` (mode 0), write an old frame back into a buffer the camera may
be filling. An exception in a handler ends the process (`thrown`).

### Application

Activities are numbered in order of creation; the pushers an activity creates in
`prepareCapture` have its number. `engine` is the activity whose pushers
`LiveEngine.ap` and `vp` are; the other flags are per object, as in the code.

| code | action |
|---|---|
| `onCreate`, `addActivity`, `prepareCapture` | `Launch`, second half of `Rotate` |
| `onDestroy`, `finishActivity`, `surfaceDestroyed` | `Destroy`, first half of `Rotate` |
| `surfaceCreated` | `SurfaceCreated` |
| leaving with Home, coming back, Back | `Home`, `Return`, `Back` |
| `recordControl`, `startRecord`, flags of `statPush` | `StartRecord` |
| rest of `AudioPusher.statPush` | `StartSound` |
| `recordControl`, `stopRecord`, flags of `stopPush` | `StopRecord` |
| `audioRecord.stop` | `StopSound` |
| a pool thread takes a task; `while (isPushing)`; `read`, `write`, `pushData` | `Take`; `Test`; `Read` |
| finalizer of a camera nobody refers to | `Finalize` |

A press of the button is two steps because pool threads look at the flag in
between; no other event can come between them (`UiFree`). Turning the device
destroys and creates in one go, as Android does for a configuration change; a
finishing activity is destroyed at any later time, after the launcher has created
the next one or before.

## 3. The runs

| run | question | states |
|---|---|---|
| `queue_safety` | types, races, wakeups, and does the queue implement `BlockingFifo`? | 69 070 |
| `queue_liveness` | is every element taken? | 5 407 |
| `mux_context` | what does a context keep, lose, order and hold back? | 10 627 |
| `rec_two` | two recordings: no frame and no sound twice, `Segments` implemented | 1 049 323 |
| `rec_fail` | one recording with every failure and every race with the trailer: order of pictures, limit, complete file, complete sound, what is missing before the trailer, `Segments` implemented | 476 365 |
| `rec_live` | does a recording left running come to its end? | 7 069 |
| `camera` | what can surface, camera and UI thread do to the frames and to each other? | 81 128 |
| `app` | do button, pushers, stack and camera agree, and is the sound read? | 124 040 |
| `mux_mixed`, `rec_stop`, `rec_trailer`, `rec_second` | statements of the repository that the code does not keep; see section 6 | |

**What the passing runs show.**

* `NoDataRace`, `ImplementsFifo`: with the mutex, no two locking functions
  are inside `data_queue` while one changes it, and pushes and pops take effect at
  one instant each.
* `NoLostWakeup`: while anyone sleeps, every element has a consumer or a
  notification on its way. `EventuallyTaken`: that is enough; no element
  needs a later push to be taken.
* `HeldInOrder`, `StreamsInOrder`, `NothingLost`, `HeldSpanBounded`: the
  interleaving buffer is sorted although the search for a place is partial;
  each stream arrives in order; only a device failure loses a packet; a silent
  stream holds the other one back for `max_interleave_delta` at most.
* `FileInterleaved`, `VideoHeldBack`: called properly the file is in dts order;
  called as the recorder does, no video reaches the file before
  `max_interleave_delta` (10 s by default) or the trailer. `VideoOnlyAtTrailer`
  says the same of the recorder: a recording of at most 101 frames (4 s) that
  never reaches its trailer has lost its whole picture.
* `PresentationOrder`, `NoFrameTwice`: with B frames (and, by the theorem, also with
  two recordings eating from one queue) each file shows frames in the order of their
  capture, and no frame is in two files. `NoSoundTwice` says the latter of the
  sound: of what is in a file, inside an encoder, in a packet in hand, or queued.
* `SoundComplete`: the sound of a file is in order, and unless writing has failed it
  is all the encoder has returned, except a packet still in hand and at most one
  that came too late for the trailer. The encoder returns all it has taken except
  `AudioDelay` buffers, which nobody flushes. (Buffers it has refused are lost as
  well; it has not taken them.) That no more is lost is not obvious. While the encoder fills, the thread writes
  empty packets without timestamps; `compute_muxer_pkt_fields` (`mux.c:586`) stamps
  them, and so moves the clock of the stream to 0, past the negative timestamps of
  the first packets with sound. They are accepted only because a clock of 0 reads
  as unset (`mux.c:600`).
* `FileComplete`, `StopsAtLimit`: if no write failed, a finished file holds every
  frame counted, and no recording takes more than `FrameLimit + 1` of either kind.
* `RunsToItsEnd`: a recording that is left running ends in both its threads.
* `ImplementsSegments`: from the queue to the file no frame is skipped, doubled or
  moved to another recording, none is lost but by a failure, and nothing changes a
  finished file.
* `FileComplete`, `PresentationOrder`, `SoundComplete`, `NoFrameTwice` and
  `NoSoundTwice` are about the files that are not `spoiled`; to `Segments` a spoiled
  one never counts as finished. What a race leaves in a file cannot be said, and
  `rec_trailer` shows how it comes about.
* `TornBetweenNeighbours`, `NeverBackInTime`: giving the buffer back before copying
  it can tear a queued picture, but only between frames no further apart than
  there are buffers, and with one buffer the picture never goes back in time.
  `BuffersCirculate`: no buffer is lost or handed out twice while the callback is
  set.
* `OnlySurfaceCreatedThrows`: of the four uses of `mCamera` only the one in
  `surfaceCreated` can meet null (it does: leave the activity and come back, or
  fail to open the camera); a late preview message or a second `surfaceChanged`
  cannot. `CameraNotLeaked`: the field of the pusher tells whether the camera is
  open, also when `stopVideo` fails half way. `CameraFreed`: activities that come,
  go and overlap never both hold the camera; one that shows a preview has it, and
  one left or destroyed has given it up, with two exceptions: its surface never
  came, so that nobody called `stopVideo`, or `stopVideo` failed and returned early.
  A pusher that fails to release keeps it until it is released at a later attempt
  or finalized, and until then every `Camera.open` of a later activity fails.
* `ButtonTrue`, `PreparedIsStarted`: although turning the device during a
  recording replaces both pushers and resets the activity's flag, the new button
  tells the truth about the new pushers, and no start is refused after
  `prepareRecord` has truncated the file. (The replaced `AudioPusher` goes on
  recording with nobody to stop it; `OrphanedWork` counts such workers.)
* `StackTrue`: the activity asked for its rotation is the one on the screen.
* `RecordingIsServed`, `SoundIsRead`: a worker that sleeps through a stop and the
  next start may serve the new recording or end; either way the new one has a task,
  and unless orphaned workers fill the pool its sound is read.

**Bounds, and why they are enough.**

| bound | value | in the code | why |
|---|---|---|---|
| `Producers`, `Consumers`, other threads | 2, 2, one of each kind | 1 and, with two recordings, 2 | two of each compete for the mutex, for an element and for a notification |
| `MaxPush` | 2 | none | up to four elements, so a queue of more than one, emptied and filled again; the theorems have no bound |
| `FrameLimit` | 1 or 2 | 100 | the limit is crossed in every run; nothing but the comparison depends on it (theorem `LimitKept` is for every limit) |
| `MaxFrames`, `MaxSounds` | 3-4, 1-4 | none | more than a recording takes, so that frames are left over and, with two sessions, contested; in `rec_two` two buffers, which the two recordings can share out in every way; 1 only in `rec_second`, which is about pictures |
| `MaxSessions` | 2, or 1 | none | overlap and succession need two |
| `Reorder`, `VideoDelay`, `AudioDelay` | 1; in `rec_two` 0 | codec settings | one B frame already makes the orders differ, and one buffer held back the clock of the stream; `rec_two`, which is about who gets what, goes without, so that sound leaves the encoder with two buffers; `rec_fail` has `Segments` with frames that wait in the encoder |
| `VideoPeriod`, `AudioPeriod` | 7, 4 | 40 ms, about 23 ms | no common multiple in range: every relative order of dts occurs |
| `MaxInterleaveDelta` | 20 for `mux_context`, 100 for the recorder | 10 s | 20 is exceeded within six packets; 100 is not exceeded by a recording, as in the code (`RecorderAssumption`: 101 frames of 40 ms and 10 s) |
| `MaxPackets` | 6 per stream | none | enough for both reasons to let the head go |
| `AudioDelay` of `mux_context` | 1 | a few frames of encoder delay | the first packets of sound have a negative dts |
| empty packets in `MuxContext` | the audio encoder fills up with one frame | two or three | an empty audio packet only moves `priv_pts` |
| camera `MaxFrames`, `MaxSurfaces` | 5, 2 | none | two buffers, each filled and overwritten more than once, and a surface that comes back |
| `PoolSize` | 2 | 5 | a pool is full or not; two workers of one pusher fit |
| `MaxActivities`, `MaxStarts` | 2, 3 | none | one activity replaces another by turning or by a launch; two starts of the first can fill the pool against the third |

`Recorder!TypeOK` leaves the type of `mux` to `MuxContext!TypeOK` and, for the
recorder itself, to `TrackInv` (section 4). `CHECK_DEADLOCK FALSE` is set
in every configuration because every instance does come to rest: the bounds
are used up, both threads of a recording have ended, the process has crashed, or
the user never presses the button again.

**Fairness.** `ThreadsafeQueue!FairSpec`: a push that has begun goes on, and a
consumer, whose thread calls `wait_and_pop` in a loop, runs when it can. Weak
fairness is all a scheduler is assumed to give, so the run has no threads that
may take the mutex for ever (pollers, copiers); the program has none either.
`Recorder!FairSpec`: encoding threads run when they can; while the button is down
the camera goes on calling back and the microphone goes on returning buffers.
The user is not assumed to do anything. (Captures are bounded in the model and
not in the program; `rec_live` allows more of them than a recording takes, so
that no thread is left waiting only because the bound is used up.)
`Application!FairSpec`: the threads of the pool run when they can, and the UI thread
finishes a handler it has begun; the user, the system and the garbage collector
need not do anything.

## 4. What is proved

All proofs are by TLAPS, with no assumption beyond the `ASSUME`s of the modules:
finitely many, disjoint kinds of threads; bounds and periods are naturals;
`AV_NOPTS_VALUE` is smaller than every timestamp an encoder makes, those before
zero included; and in the recorder (not in `MuxContext`) a full recording lasts no
longer than `max_interleave_delta`, as 101 frames of 40 ms and 10 s do.

**The queue** (`ThreadsafeQueueProofs`), for any number of threads and elements.

* `TypeCorrect`, `RaceFree`, `Implements`, `WakeupsKept`.
* None of the four properties is inductive. `IInv` adds to the types: `LockInv`
  (the mutex is held by exactly the thread whose statement needs it; without
  it two threads could be past a lock), `RoleInv` (who can be at which
  statement), `CondInv` (a sleeping thread is inside `wait`), `HeadInv`
  (between the test and `pop()` the queue is not empty and its head is what
  `front()` read; this is what makes two calls one `Take`), and `SentInv` (a push
  in progress was allowed to begin).
* `Implements`: `PushItem` maps to `Put`, `Pop` to `Take`, `TryEmpty` to `Refuse`,
  everything else to a stutter.
* `WakeupsKept` counts: a push adds an element and a notifier; notifying trades
  the notifier for an awakened consumer; a pop removes one element and at most
  one consumer on its way; going to sleep happens only beside an empty queue.

**The recorder** (`RecorderProofs`), for any limit and any number of recordings,
frames and buffers.

* `TypeCorrect`, `LimitKept` (`StopsAtLimit`).
* `IInv` adds to the types: `StartInv` (a recording not yet started has no
  threads), `CountInv` (before the limit test the count is at most the limit),
  `EndInv` (`isEnd` is up exactly when a full recording has got past raising
  it) and `AudioInv` (the audio encoder has taken no more frames than were
  counted). There is one lemma per thread, with a step per action.
* What becomes of a packet does not matter to any of this, and the muxing
  context is never expanded: the theorems hold whatever the muxer does.

**The frames** (`TrackingProofs`, `FrameProofs`), for any limit, period, delay and
number of recordings, with every failure of encoders and device.

* `Presented` (`PresentationOrder`), `TakenOnce` (`NoFrameTwice`), `Completed`
  (`FileComplete`), `PictureWaits` (`VideoOnlyAtTrailer`), `SegmentsImplemented`
  (`ImplementsSegments`).
* `FInv` adds to the invariant of `RecorderProofs`: `QueueInv` (the queue holds the
  frames nobody has taken, in order), `OwnInv` (the others are shared out among
  the recordings, no frame to two, and each takes its own in order), `TrackInv`
  and `PhaseInv` (the trailer comes after the flush, which has emptied the encoder).
* `TrackInv` is the heart: in each recording every counted frame is inside the
  encoder or in one packet of the context, unless writing has failed; no two have
  the same place; the next packet out will be accepted (`cur_dts` is behind it);
  the buffer holds video only; and nothing of it is in the file before the
  trailer while the recording spans at most `max_interleave_delta`.
  `TrackingProofs` shows, without the recorder's variables, what each call of the
  video thread (feed, emit a packet, flush, trailer) does to that.
* `SegmentsImplemented`: `PreviewFrame` maps to `Capture`, `VideoPop` to `Claim`,
  `VideoTrailerEnd` to `Finish` (unless the file is spoiled), every other step of an encoding thread to `Lose` if
  a frame is lost by it and to a stutter if not, the rest to a stutter.

**The sound** (`TrackingProofs`, `FrameProofs`), for any limit, period, delay and
number of recordings, with the same failures.

* `SoundKept` (`SoundComplete`), `SoundTakenOnce` (`NoSoundTwice`).
* `SInv` adds to `FInv`: `SoundQueueInv` and `SoundOwnInv` (the queue and the
  recordings share the buffers out, as they do the frames), `EndedInv` (a video
  thread is past its end only when `isEnd` is up, and a file is spoiled only from its
  trailer on, which is why at most one packet of a recording comes too late: the
  audio thread leaves its loop before it pops another buffer) and `SoundInv`. That
  is, for each recording, `Sounding`, which
  follows encoder, packet in hand and context together. Its `ClockInv` says
  that `cur_dts` of the stream reads as unset or lies before the timestamp of every
  buffer still to come, and that before the first packet it is 0 or unset, which is
  where the empty packets leave it; so nothing is refused. Its `HeardInv` says that
  the file has as many packets with sound as have left the encoder, but for one in
  hand and one that came too late, in order and all older than what is inside. Buffers that fail leave gaps in the counts, which
  is why the invariant orders them and does not number them.
* The calls of the video thread change none of this: what they write to the same
  file is video (`VideoUnheard`, `TrailerUnheard`).

**The muxing context** (`MuxerProofs`, `MuxContextProofs`), for all periods, delays,
`max_interleave_delta` and numbers of packets, with failures of the device.

* `TypeCorrect`, `HeldSorted`, `StreamsKept`, `AllKept`, `SpanBounded`,
  `ProperlyInterleaved`, `VideoWaits`: every property of the run `mux_context`.
* `MuxerProofs` says what each operator does: where `Place` puts a packet and that
  a sorted buffer stays sorted, that `ReadyCount` exists and what is left is not
  ready, what `Output` moves and loses.
* `IInv` ties buffer and file to what the encoders have handed over: `ElementInv`
  (each packet with data is one of theirs, and what the recorder holds is video),
  `ClockInv` (`cur_dts` reads as unset or lies before the next packet, so no
  packet with data is refused, and the gaps in the check let none out of order
  through), `StreamInv` and `HeldInv` (file followed by buffer is in the order of each
  encoder, and the buffer in dts order), `LostInv`, `ReadyInv` (what may leave the
  buffer has left it) and, for proper calls, `TimeInv`: the next packet of neither
  encoder belongs before one already in the file. `HeldSpanBounded` follows from
  `ReadyInv` and `HeldInv`.

**The Java side** (`ApplicationProofs`), for any pool and any number of activities
and recordings.

* `TypeCorrect`, `ButtonTells`, `NoIdlePrepare`, `StackKept`, `CameraKept`,
  `RecordingServed`.
* `IInv` adds to the types: `LifeInv` (`LiveEngine` holds the pushers of the
  activity created last, and only that one can be on the screen or come back),
  `ButtonInv` (every button, used or not, agrees with its own pushers, and the
  counts of prepared and started recordings are equal), `StackInv` (the stack is
  ascending), `CameraInv` (one holder of the camera at most, and `HolderInv`: what the surface of
  an activity tells about its camera, "stuck" after a failed `stopVideo`
  included) and `ServedInv`
  (in the middle of a start the task is about to be added).

**The camera** (`VideoPusherProofs`), for any number of frames and surfaces.

* `TypeCorrect`, `OnlyCreationThrows` (`OnlySurfaceCreatedThrows`), `CameraKnown`
  (`CameraNotLeaked`), `AllCirculate` (`BuffersCirculate`), `TornSlightly`
  (`TornBetweenNeighbours`), `TimeGoesOn` (`NeverBackInTime`).
* `IInv` adds to the types: `CameraInv` (the field tells whether the camera is
  open; a surface or a callback means that it is, while the process lives),
  `CircleInv` (each buffer is at exactly one place: being filled, given to the
  camera, or posted to the UI thread) and `CopyInv` (a copy in progress has at
  most its first half).
* The last two need to know the age of every picture in memory. `DInv` gets it from
  the round the buffers make: the camera fills them in the order in which they come
  back, so the place of a buffer in the round dates what is in it (`DateInv`), and
  says with which frame it is due to be filled next. A buffer given back and still
  being copied is last in the round; each half of the copy is of the frame it was
  posted with or of the next one in the same buffer, which is as many frames later
  as there are buffers (`Fresh`, `CopyDate`). It cannot be filled twice meanwhile,
  because the camera would need the messages of the others handled first.

**Only model-checked.** Liveness (`EventuallyTaken`, `RunsToItsEnd`, `SoundIsRead`) is
outside what the prover supports, and so is `ENABLED` under the fairness. Every
other property of a passing run is a theorem.

## 5. Mutants

Beside some definitions stands a wrong variant whose comment names the bug (a
forgotten notification, a limit compared too late, a flush left out...).
Nothing uses them; `PROJECT.json` says which property of which run each of them
breaks, so that every property is known to notice some bug of the code.

## 6. What the code does otherwise than it says

| run | statement | what happens |
|---|---|---|
| `rec_stop` | the notes: the recording is written to an mp4 | the user stops before the limit: the video thread waits for a frame that will not come, and the file never gets its trailer |
| `rec_trailer` | `avformat.h:240`: the trailer comes when all data has been written | the video thread writes the trailer and frees the context while the audio thread holds a frame for it |
| `rec_second` | the notes: several segments | `isEnd` is never lowered: a recording that looks at it after another has ended is finished without a frame |
| `mux_mixed` | `avformat.h:233` and `:2426`: use one writing function; the file is in dts order | audio is written past the video that is being held |

## 7. Not modelled, and the plan

Not modelled inside the modelled parts:

* `av_malloc`, `pthread_create` and `avformat_write_header` are taken to succeed;
  picture contents and the NV12 conversion are left out, and so are the bytes of
  the PCM copy on disk;
* all recordings of a run use one path (`MainActivity.java:27`), so a second
  recording truncates the file a first one may still be writing; `Recorder` gives
  each a file of its own;
* `isEnd` is read afresh each time (a compiler could keep it in a register, but the
  calls in the loop keep it from doing so);
* of the muxer, options this program leaves off: chunking, `audio_preload`,
  bitstream filters, timestamp offsets, uncoded frames;
* functions nobody calls: `LiveEngine.release` and what it calls,
  `AppManager.finishActivity(Class)`, `finishActivity()`, `finishAllActivity` and
  `AppExit`, `ThreadPoolProxy.submit` and `removeTask`, `HandlerUtils`.

Not modelled at all: unit conversions and screen geometry (pure functions of one
line each), the shell (`AppContext`, JNI declarations, `CameraView`: no state), and
the vendored libraries, which are nearly all of the lines in the repository and
none of the program's own logic. Both double-checked creations in
`ThreadPoolFactory` are reached from the UI thread alone, where one thread cannot
race with itself.

Left to do: one file shared by several contexts.
