----------------------------- MODULE VideoPusher -----------------------------
(***************************************************************************)
(* The life of one VideoPusher: the camera it opens, the surface it shows  *)
(* the preview on, and the buffers that carry the preview frames.          *)
(*                                                                         *)
(* Everything in VideoPusher.java runs on the UI thread, but the camera    *)
(* does not: it takes a buffer that addCallbackBuffer has given it, fills  *)
(* it on a thread of its own, and posts a message that runs onPreviewFrame *)
(* on the UI thread.  A frame is two halves here, so that one thread can   *)
(* read a buffer while the other writes it; each half holds the number of  *)
(* the frame that was last written there.                                  *)
(***************************************************************************)
EXTENDS Integers, Sequences, SequencesExt

CONSTANTS MaxFrames,     \* bound: frames the camera delivers
          MaxSurfaces,   \* bound: surfaces the window system creates
          MayFail        \* may opening the camera and setting its display fail?

ASSUME VideoPusherAssumption ==
    {MaxFrames, MaxSurfaces} \subseteq Nat /\ MayFail \in BOOLEAN

VARIABLES
    mCamera,      \* the field of that name is not null
    device,       \* the camera itself: "free", "open" or "previewing"
    callback,     \* the camera has a preview callback
    surface,      \* "none", "created", or "sized" after surfaceChanged
    surfaces,     \* surfaces created so far
    isPushing,    \* the flag of Pusher
    buffer,       \* buffer[b]: the frames whose first and second half b holds
    given,        \* buffers the camera may fill, in the order it got them
    filling,      \* the buffer it is filling, or 0
    shot,         \* frames it has begun to fill
    posted,       \* buffers in the messages that wait for the UI thread
    copying,      \* the buffer onPreviewFrame is copying, or 0
    copied,       \* the part of it that is copied
    pushed,       \* the frames in the video queue, as they were copied
    thrown        \* the handler an exception has ended the process in

life == <<mCamera, device, callback, surface, surfaces>>
camera == <<buffer, filling, shot>>
copies == <<copying, copied, pushed>>
vars == <<life, isPushing, camera, given, posted, copies, thrown>>

Buffers == DOMAIN buffer

\* Does a call that may throw succeed?
Outcomes == IF MayFail THEN {TRUE, FALSE} ELSE {TRUE}

\* getCameraInstance: when Camera.open fails the field stays null.
Init ==
    /\ mCamera \in Outcomes
    /\ device = IF mCamera THEN "open" ELSE "free"
    /\ callback = FALSE /\ surface = "none" /\ surfaces = 0 /\ isPushing = FALSE
    /\ buffer = << >> /\ given = << >> /\ filling = 0 /\ shot = 0
    /\ posted = << >> /\ copying = 0 /\ copied = << >> /\ pushed = << >>
    /\ thrown = "nowhere"

\* The UI thread runs one handler at a time.
UiThread == thrown = "nowhere" /\ copying = 0

-----------------------------------------------------------------------------
(* The handlers of the surface.                                            *)

\* Bug: the camera is handed a buffer that nobody has allocated.
SurfaceCreatedNoBuffer ==
    /\ UiThread /\ surface = "none" /\ surfaces < MaxSurfaces /\ mCamera
    /\ surface' = "created" /\ surfaces' = surfaces + 1
    /\ given' = Append(given, Len(buffer) + 1) /\ callback' = TRUE
    /\ UNCHANGED <<mCamera, device, isPushing, camera, posted, copies, thrown>>

\* surfaceCreated calls startPreview, which hands the camera one more buffer and
\* a callback.  It relies on mCamera, and throws when the surface is refused.
SurfaceCreated ==
    /\ UiThread /\ surface = "none" /\ surfaces < MaxSurfaces
    /\ surface' = "created" /\ surfaces' = surfaces + 1
    /\ \/ /\ mCamera
          /\ buffer' = Append(buffer, <<0, 0>>)
          /\ given' = Append(given, Len(buffer'))
          /\ callback' = TRUE
          /\ UNCHANGED thrown
       \/ /\ ~mCamera \/ MayFail
          /\ thrown' = "surfaceCreated"
          /\ UNCHANGED <<buffer, given, callback>>
    /\ UNCHANGED <<mCamera, device, isPushing, filling, shot, posted, copies>>

\* surfaceChanged starts the preview; it is called once or more per surface.
SurfaceChanged ==
    /\ UiThread /\ surface # "none"
    /\ surface' = "sized"
    /\ thrown' = IF mCamera THEN thrown ELSE "surfaceChanged"
    /\ device' = IF mCamera THEN "previewing" ELSE device
    /\ UNCHANGED <<mCamera, callback, surfaces, isPushing, camera, given, posted, copies>>

\* Bug: the callback stays with the camera.
SurfaceDestroyedKeepsCallback ==
    /\ UiThread /\ surface = "sized" /\ filling = 0
    /\ surface' = "none"
    /\ mCamera' = FALSE /\ device' = "free" /\ given' = << >>
    /\ UNCHANGED <<surfaces, callback, isPushing, camera, posted, copies, thrown>>

\* Bug: the field is set to null whether or not the camera was released.
SurfaceDestroyedAlwaysNull ==
    /\ UiThread /\ surface = "sized" /\ filling = 0
    /\ surface' = "none" /\ mCamera' = FALSE
    /\ \E released \in Outcomes :
         /\ device' = IF released THEN "free" ELSE "open"
         /\ callback' = (callback /\ ~released)
         /\ given' = IF released THEN << >> ELSE given
    /\ UNCHANGED <<surfaces, isPushing, camera, posted, copies, thrown>>

\* surfaceDestroyed calls stopVideo: the preview is stopped, the callback removed
\* and the camera released; or taking the surface away fails, and the camera is
\* kept, with its buffers and the callback.  (The camera finishes the frame it is
\* filling first.)
SurfaceDestroyed ==
    /\ UiThread /\ surface = "sized" /\ filling = 0
    /\ surface' = "none"
    /\ \E released \in Outcomes :
         /\ mCamera' = (mCamera /\ ~released)
         /\ device' = IF mCamera' THEN "open" ELSE "free"
         /\ callback' = (callback /\ ~released)
         /\ given' = IF released THEN << >> ELSE given
    /\ UNCHANGED <<surfaces, isPushing, camera, posted, copies, thrown>>

-----------------------------------------------------------------------------
(* Recording on and off, and the preview callback.                         *)

\* statPush and stopPush.
Toggle == /\ UiThread
          /\ isPushing' = ~isPushing
          /\ UNCHANGED <<life, camera, given, posted, copies, thrown>>

\* Bug: the buffer is given back only when its frame is pushed.
GiveBackOnlyPushed ==
    /\ UiThread /\ posted # << >> /\ callback
    /\ posted' = Tail(posted)
    /\ thrown' = IF mCamera THEN thrown ELSE "onPreviewFrame"
    /\ given' = IF mCamera /\ isPushing THEN Append(given, Head(posted)) ELSE given
    /\ copying' = IF mCamera /\ isPushing THEN Head(posted) ELSE 0
    /\ UNCHANGED <<life, isPushing, camera, copied, pushed>>

\* Bug: the buffer is given back twice.
GiveBackTwice ==
    /\ UiThread /\ posted # << >> /\ callback
    /\ posted' = Tail(posted)
    /\ thrown' = IF mCamera THEN thrown ELSE "onPreviewFrame"
    /\ given' = IF mCamera THEN given \o <<Head(posted), Head(posted)>> ELSE given
    /\ copying' = IF mCamera /\ isPushing THEN Head(posted) ELSE 0
    /\ UNCHANGED <<life, isPushing, camera, copied, pushed>>

\* onPreviewFrame: the buffer goes back to the camera, and then, if the recording
\* is on, is copied.
OnPreviewFrame ==
    /\ UiThread /\ posted # << >> /\ callback
    /\ posted' = Tail(posted)
    /\ thrown' = IF mCamera THEN thrown ELSE "onPreviewFrame"
    /\ given' = IF mCamera THEN Append(given, Head(posted)) ELSE given
    /\ copying' = IF mCamera /\ isPushing THEN Head(posted) ELSE 0
    /\ UNCHANGED <<life, isPushing, camera, copied, pushed>>

\* pushData and startSendOneVideoFrame copy the buffer, half after half, and push
\* the copy.
CopyHalf ==
    /\ copying # 0
    /\ LET copy == Append(copied, buffer[copying][Len(copied) + 1])
       IN  IF Len(copy) = 2
           THEN copying' = 0 /\ copied' = << >> /\ pushed' = Append(pushed, copy)
           ELSE copied' = copy /\ UNCHANGED <<copying, pushed>>
    /\ UNCHANGED <<life, isPushing, camera, given, posted, thrown>>

-----------------------------------------------------------------------------
(* The camera (android.hardware.Camera).                                   *)

\* It takes the buffer it was given first and writes the first half of a frame.
FillFirst ==
    /\ thrown = "nowhere" /\ device = "previewing" /\ callback
    /\ given # << >> /\ filling = 0 /\ shot < MaxFrames
    /\ filling' = Head(given) /\ given' = Tail(given)
    /\ shot' = shot + 1
    /\ buffer' = [buffer EXCEPT ![filling'] = <<shot', @[2]>>]
    /\ UNCHANGED <<life, isPushing, posted, copies, thrown>>

\* It writes the second half and posts the message.
FillSecond ==
    /\ thrown = "nowhere" /\ filling # 0
    /\ buffer' = [buffer EXCEPT ![filling] = <<@[1], shot>>]
    /\ posted' = Append(posted, filling)
    /\ filling' = 0
    /\ UNCHANGED <<life, isPushing, given, shot, copies, thrown>>

\* A message that finds no callback is dropped.
DropMessage ==
    /\ UiThread /\ posted # << >> /\ ~callback
    /\ posted' = Tail(posted)
    /\ UNCHANGED <<life, isPushing, camera, given, copies, thrown>>

Next == \/ SurfaceCreated \/ SurfaceChanged \/ SurfaceDestroyed
        \/ Toggle \/ OnPreviewFrame \/ CopyHalf
        \/ FillFirst \/ FillSecond \/ DropMessage

Spec == Init /\ [][Next]_vars

-----------------------------------------------------------------------------
(* Properties.                                                             *)

Frames == 0 .. MaxFrames

\* The type of every variable.
TypeOK ==
    /\ {mCamera, callback, isPushing} \subseteq BOOLEAN
    /\ device \in {"free", "open", "previewing"}
    /\ surface \in {"none", "created", "sized"} /\ surfaces \in 0 .. MaxSurfaces
    /\ buffer \in Seq(Frames \X Frames) /\ shot \in Frames
    /\ given \in Seq(Buffers) /\ posted \in Seq(Buffers)
    /\ {filling, copying} \subseteq Buffers \cup {0}
    /\ copied \in Seq(Frames) /\ pushed \in Seq(Frames \X Frames)
    /\ thrown \in {"nowhere", "surfaceCreated", "surfaceChanged", "onPreviewFrame"}

\* The buffer goes back to the camera before it is copied (VideoPusher.java:73),
\* so a queued picture may mix two frames, but never frames further apart than
\* there are buffers: the camera cannot fill a buffer a second time before it has
\* posted the other ones, and the copy is over before their messages are handled.
TornBetweenNeighbours == \A i \in DOMAIN pushed :
    pushed[i][1] - pushed[i][2] \in -Len(buffer) .. Len(buffer)

\* While the pusher has one buffer the picture never goes back in time, torn or
\* not: no part of a queued frame is older than any part of one queued before it.
NeverBackInTime == Len(buffer) = 1 =>
    \A i, j \in DOMAIN pushed : i < j =>
        \A h, k \in {1, 2} : pushed[i][h] <= pushed[j][k]

\* As long as the camera has the callback no buffer drops out of circulation,
\* whether frames are pushed or not, and none circulates twice: else the preview
\* would dry up, or one buffer be filled from two sides.
BuffersCirculate == callback /\ thrown = "nowhere" =>
    LET round == given \o posted \o (IF filling = 0 THEN << >> ELSE <<filling>>)
    IN  ToSet(round) = Buffers /\ IsInjective(round)

\* A frame posted before the camera is released and handled after it, and a
\* surface that changes once more, never meet a null mCamera: the one handler that
\* can throw is surfaceCreated.
OnlySurfaceCreatedThrows == thrown \in {"nowhere", "surfaceCreated"}

\* The camera is not held with nobody left to release it: even when stopVideo
\* fails half way, mCamera tells whether it is open.
CameraNotLeaked == device # "free" => mCamera
=============================================================================
