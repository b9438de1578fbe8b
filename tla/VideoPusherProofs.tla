-------------------------- MODULE VideoPusherProofs --------------------------
(***************************************************************************)
(* One camera, its surfaces and its buffers, for any number of frames and  *)
(* surfaces, and whatever fails.                                           *)
(***************************************************************************)
EXTENDS VideoPusher, SequenceTheorems, TLAPS

-----------------------------------------------------------------------------
(* The inductive invariant.                                                *)

Alive == thrown = "nowhere"

\* mCamera tells whether the camera is open; while the process lives a surface or a
\* callback means that it is, and there are no buffers before there is a callback.
CameraInv == /\ mCamera <=> device # "free"
             /\ callback => mCamera
             /\ Alive /\ surface # "none" => mCamera
             /\ Alive /\ mCamera /\ ~callback => buffer = << >>
             /\ OnlySurfaceCreatedThrows

\* The places a buffer can be at exclude each other, ...
OnePlace == /\ \A i, j \in 1 .. Len(given) : given[i] = given[j] => i = j
            /\ \A i, j \in 1 .. Len(posted) : posted[i] = posted[j] => i = j
            /\ \A i \in 1 .. Len(given), j \in 1 .. Len(posted) : given[i] # posted[j]
            /\ \A i \in 1 .. Len(given) : given[i] # filling
            /\ \A j \in 1 .. Len(posted) : posted[j] # filling

\* ... and each buffer is at one of them, as long as there is a camera to use it.
SomePlace == \A b \in Buffers : \/ b = filling
                                \/ \E i \in 1 .. Len(given) : given[i] = b
                                \/ \E j \in 1 .. Len(posted) : posted[j] = b

CircleInv == Alive /\ mCamera => OnePlace /\ SomePlace

\* A copy in progress has at most its first half.
CopyInv == Len(copied) < 2

IInv == TypeOK /\ CopyInv /\ CameraInv /\ CircleInv

\* The bounds are numbers.
LEMMA Bounds == MaxFrames \in Nat /\ MaxSurfaces \in Nat /\ Outcomes \subseteq BOOLEAN
  BY VideoPusherAssumption DEF VideoPusherAssumption, Outcomes

\* A buffer is a number from 1 on.
LEMMA BufferNumbers ==
  ASSUME TypeOK
  PROVE  /\ Buffers = 1 .. Len(buffer) /\ Len(buffer) \in Nat
         /\ Len(given) \in Nat /\ Len(posted) \in Nat
         /\ \A i \in 1 .. Len(given) : given[i] \in Buffers
         /\ \A j \in 1 .. Len(posted) : posted[j] \in Buffers
<1>1. /\ buffer \in Seq(Frames \X Frames) /\ given \in Seq(Buffers) /\ posted \in Seq(Buffers)
  BY DEF TypeOK
<1> HIDE DEF Buffers
<1>2. /\ Len(given) \in Nat /\ Len(posted) \in Nat
      /\ \A i \in 1 .. Len(given) : given[i] \in Buffers
      /\ \A j \in 1 .. Len(posted) : posted[j] \in Buffers
  BY <1>1, ElementOfSeq, LenProperties
<1> QED
  BY <1>1, <1>2, LenProperties DEF Buffers

-----------------------------------------------------------------------------
\* There are no buffers at first.
LEMMA InitIInv == Init => IInv
<1> SUFFICES ASSUME Init PROVE IInv
  OBVIOUS
<1>1. Buffers = {}
  BY DEF Init, Buffers
<1>2. TypeOK
  <2>1. mCamera \in BOOLEAN /\ device \in {"free", "open", "previewing"}
    BY Bounds DEF Init
  <2>2. 0 \in Frames /\ 0 \in 0 .. MaxSurfaces
    BY Bounds DEF Frames
  <2>3. \A S : << >> \in Seq(S)
    OBVIOUS
  <2> QED
    BY <2>1, <2>2, <2>3 DEF Init, TypeOK
<1>3. CameraInv
  BY Bounds DEF Init, CameraInv, OnlySurfaceCreatedThrows, Alive
<1>4. Len(given) = 0 /\ Len(posted) = 0 /\ Len(copied) = 0
  BY DEF Init
<1>5. OnePlace /\ SomePlace
  BY <1>1, <1>4 DEF OnePlace, SomePlace
<1> QED
  BY <1>2, <1>3, <1>4, <1>5 DEF IInv, CircleInv, CopyInv

\* A step that moves no buffer.
LEMMA NothingMoves ==
  ASSUME IInv, UNCHANGED <<buffer, given, filling, posted>>, TypeOK', CopyInv', CameraInv',
         Alive' /\ mCamera' => Alive /\ mCamera
  PROVE  IInv'
  BY DEF IInv, CircleInv, OnePlace, SomePlace, Buffers

\* surfaceCreated allocates a buffer and gives it to the camera.
LEMMA CreatedStep == IInv /\ SurfaceCreated => IInv'
<1> SUFFICES ASSUME IInv, SurfaceCreated PROVE IInv'
  OBVIOUS
<1> USE DEF UiThread
<1>1. TypeOK /\ surfaces' \in 0 .. MaxSurfaces
  BY Bounds DEF IInv, TypeOK, SurfaceCreated
<1>2. CASE thrown' = "surfaceCreated" /\ UNCHANGED <<buffer, given, callback>>
  <2>1. TypeOK'
    <3>1. UNCHANGED <<filling, posted, shot, copying, copied, pushed, mCamera, device, isPushing>>
      BY DEF SurfaceCreated, copies
    <3>2. Buffers' = Buffers
      BY <1>2 DEF Buffers
    <3> QED
      BY <1>1, <1>2, <3>1, <3>2 DEF TypeOK, SurfaceCreated
  <2>2. CameraInv'
    BY <1>2 DEF SurfaceCreated, IInv, CameraInv, Alive, OnlySurfaceCreatedThrows
  <2> QED
    BY <1>2, <2>1, <2>2, NothingMoves DEF SurfaceCreated, Alive, copies, IInv, CopyInv
<1>3. CASE /\ mCamera /\ buffer' = Append(buffer, <<0, 0>>) /\ given' = Append(given, Len(buffer'))
           /\ callback' = TRUE /\ UNCHANGED thrown
  <2> DEFINE n == Len(buffer)
             l == Len(given)
  <2>1. /\ Buffers = 1 .. n /\ n \in Nat /\ l \in Nat /\ Len(posted) \in Nat
        /\ \A i \in 1 .. l : given[i] \in 1 .. n
        /\ \A j \in 1 .. Len(posted) : posted[j] \in 1 .. n
    BY <1>1, BufferNumbers
  <2>2. <<0, 0>> \in Frames \X Frames /\ buffer \in Seq(Frames \X Frames)
    BY <1>1, Bounds DEF TypeOK, Frames
  <2>3. buffer' \in Seq(Frames \X Frames) /\ Len(buffer') = n + 1
    BY <1>3, <2>2, AppendProperties
  <2>4. Buffers' = 1 .. n + 1
    BY <2>3, LenProperties DEF Buffers
  <2>5. given \in Seq(1 .. n + 1) /\ posted \in Seq(1 .. n + 1)
    <3>1. given \in Seq(1 .. n) /\ posted \in Seq(1 .. n) /\ 1 .. n \subseteq 1 .. n + 1
      BY <1>1, <2>1 DEF TypeOK
    <3> QED
      BY <3>1
  <2>6. n + 1 \in 1 .. n + 1 /\ given' = Append(given, n + 1)
    BY <1>3, <2>1, <2>3
  <2>7. /\ given' \in Seq(1 .. n + 1) /\ Len(given') = l + 1 /\ given'[l + 1] = n + 1
        /\ \A i \in 1 .. l : given'[i] = given[i]
    BY <2>5, <2>6, AppendProperties
  <2>8. UNCHANGED <<filling, posted, shot, copying, copied, pushed, mCamera, device, isPushing>>
    BY DEF SurfaceCreated, copies
  <2>9. filling \in 0 .. n /\ copying \in 0 .. n
    BY <1>1, <2>1 DEF TypeOK
  <2>10. TypeOK'
    <3>1. /\ filling \in Buffers' \cup {0} /\ copying \in Buffers' \cup {0}
          /\ posted \in Seq(Buffers') /\ given' \in Seq(Buffers')
      BY <2>1, <2>4, <2>5, <2>7, <2>9
    <3> QED
      BY <1>1, <1>3, <2>3, <2>8, <3>1 DEF TypeOK, SurfaceCreated
  <2>11. CameraInv'
    BY <1>3 DEF SurfaceCreated, IInv, CameraInv, Alive, OnlySurfaceCreatedThrows
  <2>12. OnePlace /\ SomePlace
    BY <1>3 DEF SurfaceCreated, IInv, CircleInv, Alive
  <2> HIDE DEF n, l
  <2>13. \A i \in 1 .. l + 1 : i \in 1 .. l \/ i = l + 1
    BY <2>1
  <2>14. n + 1 \notin 1 .. n /\ n + 1 # filling
    BY <2>1, <2>9
  <2>15. OnePlace'
    <3>1. \A i \in 1 .. l : given[i] # n + 1
      BY <2>1, <2>14
    <3>2. ASSUME NEW i \in 1 .. l + 1, NEW j \in 1 .. l + 1, given'[i] = given'[j] PROVE i = j
      <4>1. CASE i \in 1 .. l /\ j \in 1 .. l
        BY <2>7, <2>12, <3>2, <4>1 DEF OnePlace, l
      <4>2. CASE i = l + 1 \/ j = l + 1
        BY <2>7, <2>13, <3>1, <3>2, <4>2
      <4> QED
        BY <2>13, <4>1, <4>2
    <3>3. ASSUME NEW i \in 1 .. l + 1, NEW j \in 1 .. Len(posted) PROVE given'[i] # posted[j]
      <4>1. CASE i \in 1 .. l
        BY <2>7, <2>12, <4>1 DEF OnePlace, l
      <4>2. CASE i = l + 1
        <5>1. posted[j] \in 1 .. n /\ given'[i] = n + 1
          BY <2>1, <2>7, <4>2
        <5> QED
          BY <2>14, <5>1
      <4> QED
        BY <2>13, <4>1, <4>2
    <3>4. ASSUME NEW i \in 1 .. l + 1 PROVE given'[i] # filling
      BY <2>7, <2>12, <2>13, <2>14 DEF OnePlace, l
    <3> QED
      BY <2>7, <2>8, <2>12, <3>2, <3>3, <3>4 DEF OnePlace
  <2>16. SomePlace'
    <3>1. \A b \in 1 .. n + 1 : b \in 1 .. n \/ b = n + 1
      BY <2>1
    <3>2. \A i \in 1 .. l : i \in 1 .. l + 1
      BY <2>1
    <3>3. l + 1 \in 1 .. l + 1
      BY <2>1
    <3> QED
      BY <2>1, <2>4, <2>7, <2>8, <2>12, <3>1, <3>2, <3>3 DEF SomePlace, l
  <2> QED
    BY <2>8, <2>10, <2>11, <2>15, <2>16 DEF IInv, CircleInv, CopyInv
<1> QED
  BY <1>2, <1>3 DEF SurfaceCreated

\* A message without a callback belongs to a camera that is gone: there are no
\* messages before there is a buffer.
LEMMA DropsNothing == IInv /\ DropMessage => ~mCamera
<1> SUFFICES ASSUME IInv, DropMessage, mCamera PROVE FALSE
  OBVIOUS
<1>1. TypeOK /\ CameraInv
  BY DEF IInv
<1>2. buffer = << >> /\ posted # << >>
  BY <1>1 DEF DropMessage, CameraInv, UiThread, Alive
<1>3. Buffers = {} /\ 1 \in 1 .. Len(posted)
  <2>1. Len(posted) # 0
    BY <1>1, <1>2, EmptySeq DEF TypeOK
  <2> QED
    BY <1>1, <1>2, <2>1, BufferNumbers
<1> QED
  BY <1>1, <1>3, BufferNumbers

\* The other steps that move no buffer while there is a camera.
LEMMA QuietStep ==
    IInv /\ (SurfaceChanged \/ SurfaceDestroyed \/ Toggle \/ CopyHalf \/ DropMessage) => IInv'
<1> SUFFICES ASSUME IInv, SurfaceChanged \/ SurfaceDestroyed \/ Toggle \/ CopyHalf \/ DropMessage
             PROVE  IInv'
  OBVIOUS
<1> USE DEF UiThread, life, camera, copies, Alive
<1>1. TypeOK /\ CameraInv /\ CopyInv
  BY DEF IInv
<1>2. CASE SurfaceChanged
  <2>1. mCamera
    BY <1>1, <1>2 DEF SurfaceChanged, CameraInv
  <2>2. /\ device' = "previewing" /\ surface' = "sized"
        /\ UNCHANGED <<mCamera, callback, surfaces, isPushing, camera, given, posted, copies, thrown>>
    BY <1>2, <2>1 DEF SurfaceChanged
  <2>3. TypeOK' /\ CopyInv'
    BY <1>1, <2>2 DEF TypeOK, Buffers, CopyInv
  <2>4. CameraInv'
    BY <1>1, <2>1, <2>2 DEF CameraInv, OnlySurfaceCreatedThrows
  <2> QED
    BY <2>2, <2>3, <2>4, NothingMoves
<1>3. CASE SurfaceDestroyed
  <2>1. PICK released \in BOOLEAN :
          /\ mCamera' = (mCamera /\ ~released)
          /\ device' = IF mCamera' THEN "open" ELSE "free"
          /\ callback' = (callback /\ ~released)
          /\ given' = IF released THEN << >> ELSE given
    BY <1>3, Bounds DEF SurfaceDestroyed
  <2>2. /\ surface' = "none"
        /\ UNCHANGED <<surfaces, isPushing, buffer, filling, shot, posted, copying, copied,
                      pushed, thrown>>
    BY <1>3 DEF SurfaceDestroyed
  <2>3. given' \in Seq(Buffers) /\ Buffers' = Buffers
    <3>1. given \in Seq(Buffers) /\ << >> \in Seq(Buffers)
      BY <1>1 DEF TypeOK
    <3> QED
      BY <2>1, <2>2, <3>1 DEF Buffers
  <2>4. {mCamera', callback'} \subseteq BOOLEAN /\ device' \in {"free", "open", "previewing"}
    BY <2>1
  <2>5. TypeOK' /\ CopyInv'
    BY <1>1, <2>2, <2>3, <2>4 DEF TypeOK, CopyInv
  <2>6. CameraInv'
    BY <1>1, <2>1, <2>2, <2>5 DEF CameraInv, TypeOK, OnlySurfaceCreatedThrows
  <2>7. CASE released
    BY <2>1, <2>5, <2>6, <2>7 DEF IInv, CircleInv
  <2>8. CASE ~released
    BY <2>1, <2>2, <2>5, <2>6, <2>8, NothingMoves
  <2> QED
    BY <2>7, <2>8
<1>4. CASE Toggle
  <2>1. /\ isPushing' \in BOOLEAN
        /\ UNCHANGED <<life, camera, given, posted, copies, thrown>>
    BY <1>1, <1>4 DEF Toggle, TypeOK
  <2>2. TypeOK' /\ CopyInv' /\ CameraInv'
    BY <1>1, <2>1 DEF TypeOK, CopyInv, CameraInv, Buffers, OnlySurfaceCreatedThrows
  <2> QED
    BY <2>1, <2>2, NothingMoves
<1>5. CASE CopyHalf
  <2> DEFINE x == buffer[copying][Len(copied) + 1]
             c == Append(copied, x)
  <2>1. UNCHANGED <<life, isPushing, camera, given, posted, thrown>> /\ copying # 0
    BY <1>5 DEF CopyHalf
  <2>2. CameraInv' /\ Buffers' = Buffers
    BY <1>1, <2>1 DEF CameraInv, OnlySurfaceCreatedThrows, Buffers
  <2>3. x \in Frames
    <3>1. copying \in DOMAIN buffer /\ buffer \in Seq(Frames \X Frames)
      BY <1>1, <2>1 DEF TypeOK, Buffers
    <3>2. buffer[copying] \in Frames \X Frames
      BY <3>1, ElementOfSeq, LenProperties
    <3>3. PICK k \in Nat : k = Len(copied) /\ k < 2
      BY <1>1, LenProperties DEF CopyInv, TypeOK
    <3>4. k + 1 \in {1, 2}
      BY <3>3
    <3> QED
      BY <3>2, <3>3, <3>4
  <2>4. copied \in Seq(Frames) /\ pushed \in Seq(Frames \X Frames)
    BY <1>1 DEF TypeOK
  <2> HIDE DEF x
  <2>5. c \in Seq(Frames) /\ Len(c) = Len(copied) + 1
    BY <2>3, <2>4, AppendProperties
  <2>6. \/ Len(c) = 2 /\ copying' = 0 /\ copied' = << >> /\ pushed' = Append(pushed, c)
        \/ Len(c) # 2 /\ copied' = c /\ UNCHANGED <<copying, pushed>>
    BY <1>5 DEF CopyHalf, x
  <2> HIDE DEF c
  <2>7. ASSUME Len(c) = 2 PROVE c \in Frames \X Frames
    <3>1. c \in [1 .. 2 -> Frames]
      BY <2>5, <2>7, LenProperties
    <3>2. 1 \in 1 .. 2 /\ 2 \in 1 .. 2 /\ \A i \in 1 .. 2 : i = 1 \/ i = 2
      OBVIOUS
    <3>3. c = <<c[1], c[2]>>
      BY <3>1, <3>2
    <3> QED
      BY <3>1, <3>2, <3>3
  <2>8. /\ copied' \in Seq(Frames) /\ pushed' \in Seq(Frames \X Frames)
        /\ copying' \in {copying, 0} /\ CopyInv'
    <3>1. CASE Len(c) = 2 /\ copying' = 0 /\ copied' = << >> /\ pushed' = Append(pushed, c)
      <4>1. pushed' \in Seq(Frames \X Frames)
        BY <2>4, <2>7, <3>1, AppendProperties
      <4>2. copied' \in Seq(Frames) /\ Len(copied') = 0
        BY <3>1
      <4> QED
        BY <3>1, <4>1, <4>2 DEF CopyInv
    <3>2. CASE Len(c) # 2 /\ copied' = c /\ UNCHANGED <<copying, pushed>>
      <4>1. PICK k \in Nat : k = Len(copied) /\ k < 2
        BY <1>1, LenProperties DEF CopyInv, TypeOK
      <4>2. Len(c) = k + 1 /\ k + 1 # 2
        BY <2>5, <3>2, <4>1
      <4>3. Len(copied') < 2
        BY <3>2, <4>1, <4>2
      <4> QED
        BY <2>4, <2>5, <3>2, <4>3 DEF CopyInv
    <3> QED
      BY <2>6, <3>1, <3>2
  <2>9. TypeOK'
    BY <1>1, <2>1, <2>2, <2>8 DEF TypeOK
  <2> QED
    BY <2>1, <2>2, <2>8, <2>9, NothingMoves
<1>6. CASE DropMessage
  <2>1. UNCHANGED <<life, isPushing, camera, given, copies, thrown>>
    BY <1>6 DEF DropMessage
  <2>2. posted' \in Seq(Buffers) /\ Buffers' = Buffers
    BY <1>1, <1>6, HeadTailProperties DEF DropMessage, TypeOK, Buffers
  <2>3. TypeOK' /\ CopyInv' /\ CameraInv'
    BY <1>1, <2>1, <2>2 DEF TypeOK, CopyInv, CameraInv, OnlySurfaceCreatedThrows
  <2>4. ~mCamera
    BY <1>6, DropsNothing
  <2> QED
    BY <2>1, <2>3, <2>4 DEF IInv, CircleInv
<1> QED
  BY <1>2, <1>3, <1>4, <1>5, <1>6

\* onPreviewFrame takes a message, whose buffer goes back to the camera.
LEMMA PreviewStep == IInv /\ OnPreviewFrame => IInv'
<1> SUFFICES ASSUME IInv, OnPreviewFrame PROVE IInv'
  OBVIOUS
<1> DEFINE b == Head(posted)
           g == Len(given)
           n == Len(posted)
<1>1. TypeOK /\ CameraInv /\ CopyInv
  BY DEF IInv
<1>2. mCamera /\ Alive /\ posted # << >> /\ posted' = Tail(posted)
  BY <1>1 DEF OnPreviewFrame, UiThread, Alive, CameraInv
<1>3. /\ given' = Append(given, b) /\ UNCHANGED thrown
      /\ copying' \in {b, 0}
      /\ UNCHANGED <<life, isPushing, camera, copied, pushed>>
  BY <1>2 DEF OnPreviewFrame
<1>4. posted \in Seq(Buffers) /\ given \in Seq(Buffers) /\ Buffers' = Buffers
  BY <1>1, <1>3 DEF TypeOK, Buffers, camera
<1>5. OnePlace /\ SomePlace
  BY <1>2 DEF IInv, CircleInv
<1>6. n \in Nat /\ n > 0 /\ g \in Nat
  <2>1. n # 0
    BY <1>2, <1>4, EmptySeq
  <2> QED
    BY <1>4, <2>1, LenProperties
<1>7. /\ b = posted[1] /\ b \in Buffers /\ posted' \in Seq(Buffers) /\ Len(posted') = n - 1
      /\ \A i \in 1 .. n - 1 : posted'[i] = posted[i + 1]
  BY <1>2, <1>4, <1>6, HeadTailProperties
<1> HIDE DEF b, g, n
<1>8. /\ given' \in Seq(Buffers) /\ Len(given') = g + 1 /\ given'[g + 1] = b
      /\ \A i \in 1 .. g : given'[i] = given[i]
  BY <1>3, <1>4, <1>7, AppendProperties DEF g
<1>9. /\ 1 \in 1 .. n /\ \A i \in 1 .. g + 1 : i \in 1 .. g \/ i = g + 1
      /\ \A i \in 1 .. n - 1 : i + 1 \in 1 .. n /\ i + 1 # 1
      /\ \A i \in 1 .. g : i \in 1 .. g + 1
      /\ \A i, j \in 1 .. n - 1 : i + 1 = j + 1 => i = j
      /\ \A i \in 1 .. n : i = 1 \/ (i - 1 \in 1 .. n - 1 /\ (i - 1) + 1 = i)
      /\ g + 1 \in 1 .. g + 1
  BY <1>6
<1>10. TypeOK' /\ CopyInv'
  BY <1>1, <1>3, <1>4, <1>7, <1>8 DEF TypeOK, CopyInv, life, camera
<1>11. CameraInv'
  BY <1>1, <1>3 DEF CameraInv, Alive, OnlySurfaceCreatedThrows, life, camera
\* Where the buffer was.
<1>12. /\ \A i \in 1 .. g : given[i] # b
       /\ \A i \in 1 .. n - 1 : posted[i + 1] # b
       /\ b # filling
  <2>1. \A i \in 1 .. g : given[i] # b
    BY <1>5, <1>7, <1>9 DEF OnePlace, g, n
  <2>2. ASSUME NEW i \in 1 .. n - 1 PROVE posted[i + 1] # b
    BY <1>5, <1>7, <1>9 DEF OnePlace, n
  <2> QED
    BY <1>5, <1>7, <1>9, <2>1, <2>2 DEF OnePlace, n
<1>13. OnePlace'
  <2>1. ASSUME NEW i \in 1 .. g + 1, NEW j \in 1 .. g + 1, given'[i] = given'[j] PROVE i = j
    <3>1. CASE i \in 1 .. g /\ j \in 1 .. g
      BY <1>5, <1>8, <2>1, <3>1 DEF OnePlace, g
    <3>2. CASE i = g + 1 \/ j = g + 1
      BY <1>8, <1>9, <1>12, <2>1, <3>2
    <3> QED
      BY <1>9, <3>1, <3>2
  <2>2. ASSUME NEW i \in 1 .. n - 1, NEW j \in 1 .. n - 1, posted'[i] = posted'[j] PROVE i = j
    <3>1. posted[i + 1] = posted[j + 1] /\ i + 1 \in 1 .. n /\ j + 1 \in 1 .. n
      BY <1>7, <1>9, <2>2
    <3>2. i + 1 = j + 1
      BY <1>5, <3>1 DEF OnePlace, n
    <3> QED
      BY <1>9, <3>2
  <2>3. ASSUME NEW i \in 1 .. g + 1, NEW j \in 1 .. n - 1 PROVE given'[i] # posted'[j]
    <3>1. posted'[j] = posted[j + 1] /\ j + 1 \in 1 .. n
      BY <1>7, <1>9
    <3>2. CASE i \in 1 .. g
      BY <1>5, <1>8, <3>1, <3>2 DEF OnePlace, g, n
    <3>3. CASE i = g + 1
      BY <1>8, <1>12, <3>1, <3>3
    <3> QED
      BY <1>9, <3>2, <3>3
  <2>4. ASSUME NEW i \in 1 .. g + 1 PROVE given'[i] # filling
    BY <1>5, <1>8, <1>9, <1>12 DEF OnePlace, g
  <2>5. ASSUME NEW j \in 1 .. n - 1 PROVE posted'[j] # filling
    BY <1>5, <1>7, <1>9 DEF OnePlace, n
  <2> QED
    BY <1>3, <1>7, <1>8, <2>1, <2>2, <2>3, <2>4, <2>5 DEF OnePlace, camera
<1>14. SomePlace'
  <2> SUFFICES ASSUME NEW a \in Buffers
               PROVE  \/ a = filling \/ \E i \in 1 .. g + 1 : given'[i] = a
                      \/ \E j \in 1 .. n - 1 : posted'[j] = a
    BY <1>3, <1>4, <1>7, <1>8 DEF SomePlace, camera
  <2>1. CASE a = filling
    BY <2>1
  <2>2. CASE \E i \in 1 .. g : given[i] = a
    BY <1>8, <1>9, <2>2
  <2>3. ASSUME NEW j \in 1 .. n, posted[j] = a
        PROVE  \/ \E i \in 1 .. g + 1 : given'[i] = a
               \/ \E i \in 1 .. n - 1 : posted'[i] = a
    <3>1. CASE j = 1
      BY <1>7, <1>8, <1>9, <2>3, <3>1
    <3>2. CASE j # 1
      BY <1>7, <1>9, <2>3, <3>2
    <3> QED
      BY <3>1, <3>2
  <2> QED
    BY <1>5, <2>1, <2>2, <2>3 DEF SomePlace, g, n
<1> QED
  BY <1>10, <1>11, <1>13, <1>14 DEF IInv, CircleInv

\* The camera takes the first buffer it was given, ...
LEMMA FillFirstStep == IInv /\ FillFirst => IInv'
<1> SUFFICES ASSUME IInv, FillFirst PROVE IInv'
  OBVIOUS
<1> DEFINE b == Head(given)
           g == Len(given)
           x == <<shot', buffer[b][2]>>
<1>1. TypeOK /\ CameraInv /\ CopyInv
  BY DEF IInv
<1>2. /\ mCamera /\ Alive /\ given # << >> /\ filling = 0 /\ shot < MaxFrames
      /\ filling' = b /\ given' = Tail(given) /\ shot' = shot + 1
      /\ UNCHANGED <<life, isPushing, posted, copies, thrown>>
  BY <1>1 DEF FillFirst, Alive, CameraInv
<1>3. buffer' = [buffer EXCEPT ![b] = x]
  BY DEF FillFirst
<1>4. given \in Seq(Buffers) /\ buffer \in Seq(Frames \X Frames) /\ shot \in Frames
  BY <1>1 DEF TypeOK
<1>5. OnePlace /\ SomePlace
  BY <1>2 DEF IInv, CircleInv
<1>6. g \in Nat /\ g > 0
  <2>1. g # 0
    BY <1>2, <1>4, EmptySeq
  <2> QED
    BY <1>4, <2>1, LenProperties
<1>7. /\ b = given[1] /\ b \in Buffers /\ given' \in Seq(Buffers) /\ Len(given') = g - 1
      /\ \A i \in 1 .. g - 1 : given'[i] = given[i + 1]
  BY <1>2, <1>4, <1>6, HeadTailProperties
<1>8. x \in Frames \X Frames
  <2>1. shot' \in Frames
    BY <1>2, <1>4, Bounds DEF Frames
  <2>2. buffer[b] \in Frames \X Frames
    BY <1>4, <1>7, ElementOfSeq, LenProperties DEF Buffers
  <2> QED
    BY <2>1, <2>2
<1> HIDE DEF b, g, x
<1>9. buffer' \in Seq(Frames \X Frames) /\ Buffers' = Buffers
  BY <1>3, <1>4, <1>7, <1>8, ExceptSeq DEF Buffers
<1>10. TypeOK' /\ CopyInv'
  <2>1. b \in Buffers' \cup {0} /\ given' \in Seq(Buffers') /\ posted \in Seq(Buffers')
        /\ copying \in Buffers' \cup {0} /\ shot' \in Frames
    BY <1>1, <1>2, <1>4, <1>7, <1>9, Bounds DEF TypeOK, Frames
  <2> QED
    BY <1>1, <1>2, <1>9, <2>1 DEF TypeOK, CopyInv, life, copies
<1>11. CameraInv'
  <2>1. callback
    BY DEF FillFirst
  <2> QED
    BY <1>1, <1>2, <2>1 DEF CameraInv, Alive, OnlySurfaceCreatedThrows, life
<1>12. /\ 1 \in 1 .. g
       /\ \A i \in 1 .. g - 1 : i + 1 \in 1 .. g /\ i + 1 # 1
       /\ \A i, j \in 1 .. g - 1 : i + 1 = j + 1 => i = j
       /\ \A i \in 1 .. g : i = 1 \/ (i - 1 \in 1 .. g - 1 /\ (i - 1) + 1 = i)
  BY <1>6
<1>13. OnePlace'
  <2>1. ASSUME NEW i \in 1 .. g - 1, NEW j \in 1 .. g - 1, given'[i] = given'[j] PROVE i = j
    <3>1. given[i + 1] = given[j + 1] /\ i + 1 \in 1 .. g /\ j + 1 \in 1 .. g
      BY <1>7, <1>12, <2>1
    <3>2. i + 1 = j + 1
      BY <1>5, <3>1 DEF OnePlace, g
    <3> QED
      BY <1>12, <3>2
  <2>2. ASSUME NEW i \in 1 .. g - 1, NEW j \in 1 .. Len(posted) PROVE given'[i] # posted[j]
    BY <1>5, <1>7, <1>12 DEF OnePlace, g
  <2>3. ASSUME NEW i \in 1 .. g - 1 PROVE given'[i] # b
    BY <1>5, <1>7, <1>12 DEF OnePlace, g
  <2>4. ASSUME NEW j \in 1 .. Len(posted) PROVE posted[j] # b
    BY <1>5, <1>7, <1>12 DEF OnePlace, g
  <2> QED
    BY <1>2, <1>5, <1>7, <2>1, <2>2, <2>3, <2>4 DEF OnePlace
<1>14. SomePlace'
  <2> SUFFICES ASSUME NEW a \in Buffers
               PROVE  \/ a = b \/ \E i \in 1 .. g - 1 : given'[i] = a
                      \/ \E j \in 1 .. Len(posted) : posted[j] = a
    BY <1>2, <1>7, <1>9 DEF SomePlace
  <2>1. a # filling
    BY <1>2, <1>1, BufferNumbers
  <2>2. ASSUME NEW i \in 1 .. g, given[i] = a
        PROVE  a = b \/ \E k \in 1 .. g - 1 : given'[k] = a
    BY <1>7, <1>12, <2>2
  <2> QED
    BY <1>5, <2>1, <2>2 DEF SomePlace, g
<1> QED
  BY <1>10, <1>11, <1>13, <1>14 DEF IInv, CircleInv

\* ... and posts it when it is full.
LEMMA FillSecondStep == IInv /\ FillSecond => IInv'
<1> SUFFICES ASSUME IInv, FillSecond PROVE IInv'
  OBVIOUS
<1> DEFINE n == Len(posted)
           x == <<buffer[filling][1], shot>>
<1>1. TypeOK /\ CameraInv /\ CopyInv
  BY DEF IInv
<1>2. /\ Alive /\ filling # 0 /\ filling' = 0 /\ posted' = Append(posted, filling)
      /\ UNCHANGED <<life, isPushing, given, shot, copies, thrown>>
  BY DEF FillSecond, Alive
<1>3. buffer' = [buffer EXCEPT ![filling] = x]
  BY DEF FillSecond
<1>4. /\ posted \in Seq(Buffers) /\ buffer \in Seq(Frames \X Frames) /\ shot \in Frames
      /\ filling \in Buffers
  BY <1>1, <1>2 DEF TypeOK
<1>5. x \in Frames \X Frames
  <2>1. buffer[filling] \in Frames \X Frames
    BY <1>4, ElementOfSeq, LenProperties DEF Buffers
  <2> QED
    BY <1>4, <2>1
<1> HIDE DEF n, x
<1>6. buffer' \in Seq(Frames \X Frames) /\ Buffers' = Buffers
  BY <1>3, <1>4, <1>5, ExceptSeq DEF Buffers
<1>7. /\ posted' \in Seq(Buffers) /\ Len(posted') = n + 1 /\ posted'[n + 1] = filling
      /\ n \in Nat /\ \A i \in 1 .. n : posted'[i] = posted[i]
  BY <1>2, <1>4, AppendProperties, LenProperties DEF n
<1>8. TypeOK' /\ CopyInv'
  BY <1>1, <1>2, <1>4, <1>6, <1>7 DEF TypeOK, CopyInv, life, copies
\* Only a camera that has got buffers, and so a callback, can be filling one.
<1>9. CameraInv'
  <2>1. buffer # << >>
    BY <1>4 DEF Buffers
  <2> QED
    BY <1>1, <1>2, <2>1 DEF CameraInv, Alive, OnlySurfaceCreatedThrows, life
<1>10. ASSUME mCamera PROVE OnePlace' /\ SomePlace'
  <2>1. OnePlace /\ SomePlace
    BY <1>2, <1>10 DEF IInv, CircleInv
  <2>2. /\ \A i \in 1 .. n + 1 : i \in 1 .. n \/ i = n + 1
        /\ \A i \in 1 .. n : i \in 1 .. n + 1
        /\ n + 1 \in 1 .. n + 1
    BY <1>7
  <2>3. /\ \A i \in 1 .. Len(given) : given[i] # 0
        /\ \A i \in 1 .. n : posted[i] # 0
    BY <1>1, BufferNumbers DEF n
  <2>4. ASSUME NEW i \in 1 .. n + 1, NEW j \in 1 .. n + 1, posted'[i] = posted'[j] PROVE i = j
    <3>1. CASE i \in 1 .. n /\ j \in 1 .. n
      BY <1>7, <2>1, <2>4, <3>1 DEF OnePlace, n
    <3>2. CASE i = n + 1 \/ j = n + 1
      BY <1>7, <2>1, <2>2, <2>4, <3>2 DEF OnePlace, n
    <3> QED
      BY <2>2, <3>1, <3>2
  <2>5. ASSUME NEW i \in 1 .. Len(given), NEW j \in 1 .. n + 1 PROVE given[i] # posted'[j]
    BY <1>7, <2>1, <2>2 DEF OnePlace, n
  <2>6. ASSUME NEW j \in 1 .. n + 1 PROVE posted'[j] # 0
    BY <1>2, <1>7, <2>2, <2>3
  <2>7. OnePlace'
    BY <1>2, <1>7, <2>1, <2>3, <2>4, <2>5, <2>6 DEF OnePlace
  <2>8. SomePlace'
    BY <1>2, <1>6, <1>7, <2>1, <2>2 DEF SomePlace, n
  <2> QED
    BY <2>7, <2>8
<1> QED
  BY <1>2, <1>8, <1>9, <1>10 DEF IInv, CircleInv, life

LEMMA NextIInv == IInv /\ [Next]_vars => IInv'
<1>1. IInv /\ UNCHANGED vars => IInv'
  BY DEF vars, life, camera, copies, IInv, TypeOK, CopyInv, CameraInv, CircleInv, OnePlace,
         SomePlace, Buffers, Alive, OnlySurfaceCreatedThrows
<1> QED
  BY <1>1, CreatedStep, QuietStep, PreviewStep, FillFirstStep, FillSecondStep DEF Next

\* The invariant holds throughout.
LEMMA Inductive == Spec => []IInv
  BY InitIInv, NextIInv, PTL DEF Spec

-----------------------------------------------------------------------------
(* The theorems.                                                           *)

\* The variables of VideoPusher and its camera keep their types.
THEOREM TypeCorrect == Spec => []TypeOK
<1>1. IInv => TypeOK
  BY DEF IInv
<1> QED
  BY <1>1, Inductive, PTL

\* Late preview messages and repeated calls of surfaceChanged (VideoPusher.java:49)
\* meet no null camera, whatever surfaces come and go before them.
THEOREM OnlyCreationThrows == Spec => []OnlySurfaceCreatedThrows
<1>1. IInv => OnlySurfaceCreatedThrows
  BY DEF IInv, CameraInv
<1> QED
  BY <1>1, Inductive, PTL

\* stopVideo may fail at any of its calls: the field still tells whether the camera
\* is open.
THEOREM CameraKnown == Spec => []CameraNotLeaked
<1>1. IInv => CameraNotLeaked
  BY DEF IInv, CameraInv, CameraNotLeaked
<1> QED
  BY <1>1, Inductive, PTL

-----------------------------------------------------------------------------
(* The buffers.                                                            *)

NoDoubles(q) == \A i, j \in 1 .. Len(q) : q[i] = q[j] => i = j
Apart(p, q) == \A i \in 1 .. Len(p), j \in 1 .. Len(q) : p[i] # q[j]
Among(x, q) == \E i \in 1 .. Len(q) : q[i] = x

\* Two sequences without doubles and without a common element, one after the other.
LEMMA JoinInjective ==
  ASSUME NEW S, NEW a \in Seq(S), NEW b \in Seq(S), NoDoubles(a), NoDoubles(b), Apart(a, b),
         NEW c, c = a \o b
  PROVE  /\ c \in Seq(S) /\ NoDoubles(c)
         /\ \A x : Among(x, c) <=> Among(x, a) \/ Among(x, b)
<1> DEFINE m == Len(a)
           n == Len(b)
<1>1. /\ c \in Seq(S) /\ Len(c) = m + n /\ m \in Nat /\ n \in Nat
      /\ \A i \in 1 .. m + n : c[i] = IF i <= m THEN a[i] ELSE b[i - m]
  BY ConcatProperties, LenProperties
<1> HIDE DEF m, n
<1>2. /\ \A i \in 1 .. m : i \in 1 .. m + n /\ c[i] = a[i]
      /\ \A j \in 1 .. n : m + j \in 1 .. m + n /\ c[m + j] = b[j]
  <2>1. ASSUME NEW j \in 1 .. n PROVE m + j \in 1 .. m + n /\ c[m + j] = b[j]
    <3>1. m + j \in 1 .. m + n /\ ~(m + j <= m) /\ (m + j) - m = j
      BY <1>1
    <3> QED
      BY <1>1, <3>1
  <2>2. \A i \in 1 .. m : i \in 1 .. m + n /\ i <= m
    BY <1>1
  <2> QED
    BY <1>1, <2>1, <2>2
<1>3. \A k \in 1 .. m + n : k \in 1 .. m \/ \E j \in 1 .. n : k = m + j
  <2> SUFFICES ASSUME NEW k \in 1 .. m + n, k \notin 1 .. m PROVE \E j \in 1 .. n : k = m + j
    OBVIOUS
  <2>1. k - m \in 1 .. n /\ k = m + (k - m)
    BY <1>1
  <2> QED
    BY <2>1
<1>4. ASSUME NEW i \in 1 .. m + n, NEW j \in 1 .. m + n, c[i] = c[j] PROVE i = j
  <2>1. CASE i \in 1 .. m /\ j \in 1 .. m
    BY <1>2, <1>4, <2>1 DEF NoDoubles, m
  <2>2. CASE i \in 1 .. m /\ j \notin 1 .. m
    BY <1>2, <1>3, <1>4, <2>2 DEF Apart, m, n
  <2>3. CASE i \notin 1 .. m /\ j \in 1 .. m
    BY <1>2, <1>3, <1>4, <2>3 DEF Apart, m, n
  <2>4. CASE i \notin 1 .. m /\ j \notin 1 .. m
    <3>1. PICK k \in 1 .. n, l \in 1 .. n : i = m + k /\ j = m + l
      BY <1>3, <2>4
    <3>2. b[k] = b[l]
      BY <1>2, <1>4, <3>1
    <3> QED
      BY <3>1, <3>2 DEF NoDoubles, n
  <2> QED
    BY <2>1, <2>2, <2>3, <2>4
<1>5. ASSUME NEW x PROVE Among(x, c) <=> Among(x, a) \/ Among(x, b)
  <2>1. ASSUME NEW k \in 1 .. m + n, c[k] = x PROVE Among(x, a) \/ Among(x, b)
    BY <1>2, <1>3, <2>1 DEF Among, m, n
  <2>2. Among(x, a) => Among(x, c)
    BY <1>1, <1>2 DEF Among, m
  <2>3. Among(x, b) => Among(x, c)
    BY <1>1, <1>2 DEF Among, n
  <2> QED
    BY <1>1, <2>1, <2>2, <2>3 DEF Among
<1>6. NoDoubles(c)
  BY <1>1, <1>4 DEF NoDoubles
<1> QED
  BY <1>1, <1>5, <1>6

\* onPreviewFrame gives each buffer back once (VideoPusher.java:73), before any of its
\* early returns: all buffers stay in circulation.
THEOREM AllCirculate == Spec => []BuffersCirculate
<1>1. IInv => BuffersCirculate
  <2> SUFFICES ASSUME IInv, callback, thrown = "nowhere" PROVE BuffersCirculate
    BY DEF BuffersCirculate
  <2> DEFINE f == IF filling = 0 THEN << >> ELSE <<filling>>
             r == given \o posted
             round == r \o f
  <2>1. /\ given \in Seq(Buffers) /\ posted \in Seq(Buffers) /\ TypeOK
        /\ filling \in Buffers \cup {0}
    BY DEF IInv, TypeOK
  <2>2. OnePlace /\ SomePlace
    BY DEF IInv, CameraInv, CircleInv, Alive
  <2>3. /\ r \in Seq(Buffers) /\ NoDoubles(r)
        /\ \A x : Among(x, r) <=> Among(x, given) \/ Among(x, posted)
    <3>1. NoDoubles(given) /\ NoDoubles(posted) /\ Apart(given, posted)
      BY <2>2 DEF OnePlace, NoDoubles, Apart
    <3> QED
      BY <2>1, <3>1, JoinInjective
  <2>4. /\ f \in Seq(Buffers) /\ NoDoubles(f)
        /\ \A x : Among(x, f) <=> x = filling /\ filling # 0
    <3>1. CASE filling = 0
      <4>1. f = << >> /\ Len(f) = 0
        BY <3>1
      <4> QED
        BY <3>1, <4>1 DEF NoDoubles, Among
    <3>2. CASE filling # 0
      <4>1. f \in Seq(Buffers) /\ Len(f) = 1 /\ f[1] = filling
        BY <2>1, <3>2
      <4> HIDE DEF f
      <4> QED
        BY <3>2, <4>1 DEF NoDoubles, Among
    <3> QED
      BY <3>1, <3>2
  <2> HIDE DEF f, r
  <2>5. Apart(r, f)
    <3>1. ~Among(filling, r)
      BY <2>2, <2>3 DEF OnePlace, Among
    <3> QED
      BY <2>4, <3>1 DEF Apart, Among
  <2>6. /\ round \in Seq(Buffers) /\ NoDoubles(round)
        /\ \A x : Among(x, round) <=> Among(x, r) \/ Among(x, f)
    BY <2>3, <2>4, <2>5, JoinInjective
  <2> HIDE DEF round
  <2>7. DOMAIN round = 1 .. Len(round) /\ \A k \in 1 .. Len(round) : round[k] \in Buffers
    BY <2>6, LenProperties, ElementOfSeq
  <2>8. \A x \in Buffers : x # 0
    BY <2>1, BufferNumbers
  <2>9. \A x : x \in ToSet(round) <=> x \in Buffers
    <3>1. ASSUME NEW x \in Buffers PROVE Among(x, given) \/ Among(x, posted) \/ x = filling
      BY <2>2 DEF SomePlace, Among
    <3>2. ASSUME NEW x \in Buffers PROVE Among(x, round)
      BY <2>3, <2>4, <2>6, <2>8, <3>1
    <3> QED
      BY <2>7, <3>2 DEF ToSet, Among
  <2>10. IsInjective(round)
    BY <2>6, <2>7 DEF IsInjective, NoDoubles
  <2> QED
    BY <2>9, <2>10 DEF BuffersCirculate, round, r, f
<1> QED
  BY <1>1, Inductive, PTL

-----------------------------------------------------------------------------
(* The dates of the frames: the camera fills its buffers round robin, so   *)
(* the place of a buffer tells which frame it holds or will hold next.     *)

Live == Alive /\ mCamera
Busy == IF filling = 0 THEN 0 ELSE 1

\* The frame in the j-th message that waits.
PostDate(j) == shot - Busy - Len(posted) + j

\* d is the frame buffer b holds, if it is filled or being filled, or will hold next.
Due(b, d) == /\ \A i \in 1 .. Len(given) : given[i] = b => d = shot + i
             /\ b = filling => d = shot
             /\ \A j \in 1 .. Len(posted) : posted[j] = b => d = PostDate(j)

\* The buffer's last frame or, one round later, its next.
Fresh(d) == {d - Len(buffer), d}

CountInv == Len(given) + Len(posted) + Busy = Len(buffer)

DateInv == /\ \A j \in 1 .. Len(posted) : buffer[posted[j]] = <<PostDate(j), PostDate(j)>>
           /\ filling # 0 => buffer[filling][1] = shot

\* What has been pushed is no newer than n.
PushedBy(n) == Len(buffer) = 1 => \A i \in 1 .. Len(pushed), h \in {1, 2} : pushed[i][h] <= n

\* While a buffer is copied the camera can begin to fill it once more, but not twice.
CopyDate(d) == /\ Due(copying, d) /\ PushedBy(d - 1)
               /\ \A h \in {1, 2} : buffer[copying][h] \in Fresh(d)
               /\ \A k \in 1 .. Len(copied) : copied[k] \in Fresh(d)

LiveInv == /\ CountInv /\ DateInv
           /\ PushedBy(IF given = << >> THEN shot ELSE shot + 1)
           /\ copying # 0 => \E d \in Int : CopyDate(d)

PushedInv == /\ TornBetweenNeighbours /\ NeverBackInTime
             /\ pushed # << >> => buffer # << >>

DInv == /\ PushedInv /\ (Live => LiveInv) /\ (copying # 0 => Live)
        /\ copying = 0 => copied = << >>

LEMMA InitDInv == Init => DInv
<1> SUFFICES ASSUME Init PROVE DInv
  OBVIOUS
<1>1. Len(pushed) = 0 /\ Len(given) = 0 /\ Len(posted) = 0 /\ Len(buffer) = 0
      /\ Busy = 0 /\ DOMAIN pushed = {}
  BY DEF Init, Busy
<1>2. PushedInv
  BY <1>1 DEF PushedInv, TornBetweenNeighbours, NeverBackInTime, Init
<1>3. LiveInv
  BY <1>1 DEF LiveInv, CountInv, DateInv, PushedBy, Init
<1> QED
  BY <1>2, <1>3 DEF DInv, Init

\* The types of what is filled, copied and pushed.
LEMMA DateTypes ==
  ASSUME TypeOK
  PROVE  /\ shot \in Int /\ Busy \in {0, 1} /\ Len(buffer) \in Nat /\ Len(pushed) \in Nat
         /\ \A b \in Buffers : buffer[b] \in Frames \X Frames
         /\ \A i \in 1 .. Len(pushed) : pushed[i] \in Frames \X Frames
         /\ \A k \in 1 .. Len(copied) : copied[k] \in Frames
         /\ DOMAIN pushed = 1 .. Len(pushed) /\ Frames \subseteq Int
<1>1. /\ buffer \in Seq(Frames \X Frames) /\ pushed \in Seq(Frames \X Frames)
      /\ copied \in Seq(Frames) /\ shot \in Frames /\ Frames \subseteq Int
  BY Bounds DEF TypeOK, Frames
<1>2. Busy \in {0, 1}
  BY DEF Busy
<1>3. \A b \in Buffers : buffer[b] \in Frames \X Frames
  BY <1>1, ElementOfSeq, LenProperties DEF Buffers
<1> QED
  BY <1>1, <1>2, <1>3, ElementOfSeq, LenProperties

\* A step after which there is no camera, or which moves and copies nothing.
LEMMA NothingDated ==
  ASSUME DInv, UNCHANGED <<buffer, pushed, copying, copied>>, copying # 0 => Live',
         Live' => Live /\ UNCHANGED <<given, filling, posted, shot>>
  PROVE  DInv'
<1>1. PushedInv'
  BY DEF DInv, PushedInv, TornBetweenNeighbours, NeverBackInTime
<1>2. ASSUME Live' PROVE LiveInv'
  <2>1. Live /\ LiveInv /\ UNCHANGED <<given, filling, posted, shot>>
    BY <1>2 DEF DInv
  <2> QED
    BY <2>1 DEF LiveInv, CountInv, DateInv, PushedBy, CopyDate, Due, Fresh, PostDate, Busy
<1> QED
  BY <1>1, <1>2 DEF DInv

\* A buffer added to an empty process of copying: nothing that was dated moves.
LEMMA CreatedDates == IInv /\ DInv /\ SurfaceCreated => DInv'
<1> SUFFICES ASSUME IInv, DInv, SurfaceCreated PROVE DInv'
  OBVIOUS
<1>1. /\ TypeOK /\ copying = 0 /\ Alive
      /\ UNCHANGED <<mCamera, filling, shot, posted, copying, copied, pushed>>
  BY DEF IInv, SurfaceCreated, UiThread, Alive, copies
<1>2. CASE thrown' = "surfaceCreated" /\ UNCHANGED <<buffer, given, callback>>
  BY <1>1, <1>2, NothingDated DEF Live, Alive
<1>3. CASE /\ mCamera /\ buffer' = Append(buffer, <<0, 0>>) /\ given' = Append(given, Len(buffer'))
           /\ callback' = TRUE /\ UNCHANGED thrown
  <2> DEFINE n == Len(buffer)
  <2>1. Live /\ LiveInv
    BY <1>1, <1>3 DEF Live, DInv
  <2>2. /\ buffer \in Seq(Frames \X Frames) /\ <<0, 0>> \in Frames \X Frames /\ n \in Nat
        /\ given \in Seq(Buffers) /\ Buffers = 1 .. n
    BY <1>1, Bounds, BufferNumbers DEF TypeOK, Frames
  <2>3. Len(buffer') = n + 1 /\ \A b \in 1 .. n : buffer'[b] = buffer[b]
    BY <1>3, <2>2, AppendProperties
  <2>4. Len(given') = Len(given) + 1 /\ Len(given) \in Nat
    <3>1. given \in Seq(1 .. n + 1) /\ n + 1 \in 1 .. n + 1
      <4>1. 1 .. n \subseteq 1 .. n + 1
        BY <2>2
      <4> QED
        BY <2>2, <4>1
    <3> QED
      BY <1>3, <2>3, <3>1, AppendProperties, LenProperties
  <2>5. /\ \A j \in 1 .. Len(posted) : posted[j] \in 1 .. n
        /\ filling # 0 => filling \in 1 .. n
    BY <1>1, <2>2, BufferNumbers DEF TypeOK
  <2> HIDE DEF n
  <2>6. CountInv' /\ DateInv'
    <3>1. UNCHANGED Busy /\ \A j : UNCHANGED PostDate(j)
      BY <1>1 DEF Busy, PostDate
    <3>2. CountInv'
      <4>1. Len(posted) \in Nat /\ Busy \in {0, 1}
        BY <1>1, BufferNumbers, DateTypes
      <4> QED
        BY <1>1, <2>1, <2>2, <2>3, <2>4, <3>1, <4>1 DEF LiveInv, CountInv, n
    <3> QED
      BY <1>1, <2>1, <2>3, <2>5, <3>1, <3>2 DEF LiveInv, DateInv
  <2>7. PushedInv' /\ (Len(buffer') = 1 => Len(pushed) = 0)
    <3>1. ASSUME Len(buffer') = 1 PROVE Len(pushed) = 0 /\ DOMAIN pushed = {}
      <4>1. n = 0
        <5>1. n + 1 = 1 /\ n \in Nat
          BY <2>2, <2>3, <3>1
        <5> QED
          BY <5>1
      <4>2. buffer = << >>
        BY <2>2, <4>1, EmptySeq DEF n
      <4>3. pushed = << >>
        BY <4>2 DEF DInv, PushedInv
      <4> QED
        BY <4>3
    <3>2. NeverBackInTime'
      BY <1>1, <3>1 DEF NeverBackInTime
    <3>3. TornBetweenNeighbours'
      <4>1. \A i \in DOMAIN pushed : pushed[i][1] - pushed[i][2] \in -n .. n
        BY DEF DInv, PushedInv, TornBetweenNeighbours, n
      <4>2. -n .. n \subseteq -(n + 1) .. n + 1
        BY <2>2
      <4> QED
        BY <1>1, <2>3, <4>1, <4>2 DEF TornBetweenNeighbours
    <3>4. buffer' # << >>
      BY <2>2, <2>3
    <3> QED
      BY <3>1, <3>2, <3>3, <3>4 DEF PushedInv
  <2>8. LiveInv'
    BY <1>1, <2>6, <2>7 DEF LiveInv, PushedBy
  <2> QED
    BY <1>1, <2>7, <2>8 DEF DInv
<1> QED
  BY <1>2, <1>3 DEF SurfaceCreated

\* onPreviewFrame puts the oldest frame last in the round: it is due again when every
\* other buffer has been filled.
LEMMA PreviewDates == IInv /\ DInv /\ OnPreviewFrame => DInv'
<1> SUFFICES ASSUME IInv, DInv, OnPreviewFrame PROVE DInv'
  OBVIOUS
<1> DEFINE b == Head(posted)
           g == Len(given)
           n == Len(posted)
           B == Len(buffer)
<1>1. TypeOK /\ CameraInv
  BY DEF IInv
<1>2. mCamera /\ Alive /\ posted # << >> /\ posted' = Tail(posted) /\ copying = 0 /\ copied = << >>
  BY <1>1 DEF OnPreviewFrame, UiThread, Alive, CameraInv, DInv
<1>3. /\ given' = Append(given, b) /\ UNCHANGED thrown /\ copying' \in {b, 0}
      /\ UNCHANGED <<mCamera, buffer, filling, shot, isPushing, copied, pushed>>
  BY <1>2 DEF OnPreviewFrame, life, camera
<1>4. OnePlace /\ Live /\ Live' /\ LiveInv
  BY <1>2, <1>3 DEF IInv, CircleInv, DInv, Live, Alive
<1>5. /\ posted \in Seq(Buffers) /\ given \in Seq(Buffers) /\ g \in Nat /\ n \in Nat /\ n > 0
      /\ B \in Nat /\ shot \in Int /\ Busy \in {0, 1} /\ Len(copied) = 0
  <2>1. n # 0
    BY <1>1, <1>2, EmptySeq DEF TypeOK
  <2> QED
    BY <1>1, <1>2, <2>1, LenProperties, DateTypes DEF TypeOK
<1>6. /\ b = posted[1] /\ b \in Buffers /\ Len(posted') = n - 1
      /\ \A i \in 1 .. n - 1 : posted'[i] = posted[i + 1]
  BY <1>2, <1>5, HeadTailProperties
<1>7. /\ Len(given') = g + 1 /\ given'[g + 1] = b
      /\ \A i \in 1 .. g : given'[i] = given[i]
  BY <1>3, <1>5, <1>6, AppendProperties
<1> HIDE DEF b, g, n, B
<1>17. PICK d \in Int : d = shot + g + 1
  BY <1>5 DEF g
<1>8. /\ 1 \in 1 .. n /\ \A i \in 1 .. n - 1 : i + 1 \in 1 .. n /\ i + 1 # 1
      /\ \A i \in 1 .. g + 1 : i \in 1 .. g \/ i = g + 1
      /\ g + n + Busy = B
  BY <1>4, <1>5 DEF LiveInv, CountInv, g, n, B
<1>9. UNCHANGED Busy /\ CountInv'
  <2>1. UNCHANGED Busy
    BY <1>3 DEF Busy
  <2>2. Len(given') + Len(posted') + Busy = B
    BY <1>5, <1>6, <1>7, <1>8
  <2> QED
    BY <1>3, <2>1, <2>2 DEF CountInv, B
<1>10. \A j \in 1 .. n - 1 : PostDate(j)' = PostDate(j + 1)
  BY <1>3, <1>5, <1>6, <1>9 DEF PostDate, n
<1>11. DateInv'
  <2>1. ASSUME NEW j \in 1 .. n - 1
        PROVE  buffer[posted'[j]] = <<PostDate(j)', PostDate(j)'>>
    BY <1>4, <1>6, <1>8, <1>10 DEF LiveInv, DateInv, n
  <2> QED
    BY <1>3, <1>4, <1>6, <2>1 DEF LiveInv, DateInv
<1>12. buffer[b] = <<d - B, d - B>>
  <2>1. buffer[b] = <<PostDate(1), PostDate(1)>>
    BY <1>4, <1>6, <1>8 DEF LiveInv, DateInv, n
  <2>2. PostDate(1) = d - B
    BY <1>5, <1>8, <1>17 DEF PostDate, n
  <2> QED
    BY <2>1, <2>2
<1>13. PushedBy(shot)' /\ PushedBy(d - 1)' /\ PushedBy(shot + 1)'
  <2> SUFFICES PushedBy(shot) /\ PushedBy(d - 1) /\ PushedBy(shot + 1)
    BY <1>3 DEF PushedBy
  <2> SUFFICES ASSUME B = 1, NEW i \in 1 .. Len(pushed), NEW h \in {1, 2}
               PROVE  pushed[i][h] <= shot /\ pushed[i][h] <= d - 1 /\ pushed[i][h] <= shot + 1
    BY DEF PushedBy, B
  <2>1. g = 0 /\ d - 1 = shot
    BY <1>5, <1>8, <1>17
  <2>2. given = << >>
    BY <1>5, <2>1, EmptySeq DEF g
  <2>3. pushed[i][h] <= shot
    BY <1>4, <2>2 DEF LiveInv, PushedBy, B
  <2>4. pushed[i][h] \in Int
    BY <1>1, DateTypes
  <2> QED
    BY <1>5, <2>1, <2>3, <2>4
<1>14. ASSUME copying' # 0 PROVE CopyDate(d)'
  <2>1. copying' = b
    BY <1>3, <1>14
  <2>2. Due(copying, d)'
    <3>1. ASSUME NEW i \in 1 .. g + 1, given'[i] = b PROVE d = shot + i
      <4>1. CASE i \in 1 .. g
        BY <1>4, <1>6, <1>7, <1>8, <3>1, <4>1 DEF OnePlace, g, n
      <4>2. CASE i = g + 1
        BY <1>5, <1>17, <4>2
      <4> QED
        BY <1>8, <4>1, <4>2
    <3>2. b # filling
      BY <1>4, <1>6, <1>8 DEF OnePlace, n
    <3>3. ASSUME NEW j \in 1 .. n - 1 PROVE posted'[j] # b
      BY <1>4, <1>6, <1>8 DEF OnePlace, n
    <3> QED
      BY <1>3, <1>6, <1>7, <2>1, <3>1, <3>2, <3>3 DEF Due
  <2> QED
    BY <1>3, <1>5, <1>12, <1>13, <2>1, <2>2 DEF CopyDate, Fresh, B
<1>15. LiveInv'
  <2>1. PushedBy(IF given = << >> THEN shot ELSE shot + 1)'
    BY <1>13
  <2> QED
    BY <1>9, <1>11, <1>14, <2>1 DEF LiveInv
<1>16. PushedInv'
  BY <1>3 DEF DInv, PushedInv, TornBetweenNeighbours, NeverBackInTime
<1> QED
  BY <1>2, <1>3, <1>4, <1>15, <1>16 DEF DInv

\* A copy holds the date of its buffer, or the one a round before, in either half.
LEMMA CopyDates == IInv /\ DInv /\ CopyHalf => DInv'
<1> SUFFICES ASSUME IInv, DInv, CopyHalf PROVE DInv'
  OBVIOUS
<1> DEFINE x == buffer[copying][Len(copied) + 1]
           c == Append(copied, x)
           B == Len(buffer)
<1>1. /\ TypeOK /\ copying # 0 /\ copying \in Buffers
      /\ UNCHANGED <<mCamera, thrown, buffer, filling, shot, given, posted>>
  BY DEF IInv, CopyHalf, TypeOK, life, camera
<1>2. Live /\ Live' /\ LiveInv /\ PushedInv
  BY <1>1 DEF DInv, Live, Alive
<1>3. PICK d \in Int : CopyDate(d)
  BY <1>1, <1>2 DEF LiveInv
<1>4. PICK l \in Nat : l = Len(copied) /\ l < 2
  BY <1>1, LenProperties DEF IInv, CopyInv, TypeOK
<1>5. copied \in Seq(Frames) /\ x \in Fresh(d) /\ x \in Frames
  <2>1. l + 1 \in {1, 2}
    BY <1>4
  <2>2. buffer[copying] \in Frames \X Frames
    BY <1>1, DateTypes
  <2>3. x \in Frames
    BY <1>4, <2>1, <2>2
  <2> QED
    BY <1>1, <1>3, <1>4, <2>1, <2>3 DEF CopyDate, TypeOK
<1> HIDE DEF x
<1>6. /\ Len(c) = l + 1 /\ c[l + 1] = x /\ \A k \in 1 .. l : c[k] = copied[k]
  BY <1>4, <1>5, AppendProperties
<1>7. /\ \A k \in 1 .. Len(c) : c[k] \in Fresh(d) /\ c[k] \in Int
  <2> SUFFICES ASSUME NEW k \in 1 .. l + 1 PROVE c[k] \in Fresh(d) /\ c[k] \in Int
    BY <1>6
  <2>1. CASE k \in 1 .. l
    <3>1. copied[k] \in Fresh(d) /\ copied[k] \in Frames
      BY <1>1, <1>3, <1>4, <2>1, DateTypes DEF CopyDate
    <3> QED
      BY <1>1, <1>6, <2>1, <3>1, DateTypes
  <2>2. CASE k = l + 1
    BY <1>1, <1>5, <1>6, <2>2, DateTypes
  <2> QED
    BY <1>4, <2>1, <2>2
<1>8. \/ Len(c) = 2 /\ copying' = 0 /\ copied' = << >> /\ pushed' = Append(pushed, c)
      \/ Len(c) # 2 /\ copied' = c /\ UNCHANGED <<copying, pushed>>
  BY DEF CopyHalf, x
<1> HIDE DEF c
<1>9. CASE Len(c) # 2 /\ copied' = c /\ UNCHANGED <<copying, pushed>>
  <2>1. CopyDate(d)'
    BY <1>1, <1>3, <1>7, <1>9 DEF CopyDate, Due, PushedBy, PostDate, Busy, Fresh
  <2>2. LiveInv'
    BY <1>1, <1>2, <1>9, <2>1 DEF LiveInv, CountInv, DateInv, PushedBy, PostDate, Busy
  <2>3. PushedInv'
    BY <1>1, <1>2, <1>9 DEF PushedInv, TornBetweenNeighbours, NeverBackInTime
  <2> QED
    BY <1>1, <1>2, <1>9, <2>2, <2>3 DEF DInv
<1>10. CASE Len(c) = 2 /\ copying' = 0 /\ copied' = << >> /\ pushed' = Append(pushed, c)
  <2> DEFINE n == Len(pushed)
  <2>1. B \in Nat /\ \A h \in {1, 2} : c[h] \in {d - B, d} /\ c[h] \in Int
    BY <1>1, <1>7, <1>10, DateTypes DEF Fresh
  <2>2. /\ Len(pushed') = n + 1 /\ n \in Nat /\ pushed'[n + 1] = c
        /\ \A i \in 1 .. n : pushed'[i] = pushed[i]
        /\ DOMAIN pushed = 1 .. n /\ DOMAIN pushed' = 1 .. n + 1
    <3>1. pushed \in Seq(Frames \X Frames)
      BY <1>1 DEF TypeOK
    <3>2. pushed \in Seq((Frames \X Frames) \cup {c})
      BY <3>1
    <3> QED
      BY <1>10, <3>2, AppendProperties, LenProperties
  <2> HIDE DEF n, B
  <2>3. \A i \in 1 .. n + 1 : i \in 1 .. n \/ i = n + 1
    BY <2>2
  <2>4. \A i \in 1 .. n, h \in {1, 2} : pushed[i][h] \in Int
    BY <1>1, DateTypes DEF n
  <2>5. ASSUME B = 1, NEW i \in 1 .. n, NEW h \in {1, 2} PROVE pushed[i][h] <= d - 1
    BY <1>3, <2>5 DEF CopyDate, PushedBy, n, B
  <2>6. TornBetweenNeighbours'
    <3>1. \A i \in 1 .. n : pushed[i][1] - pushed[i][2] \in -B .. B
      BY <1>2, <2>2 DEF PushedInv, TornBetweenNeighbours, B
    <3>2. c[1] - c[2] \in -B .. B
      BY <2>1
    <3>3. ASSUME NEW i \in 1 .. n + 1 PROVE pushed'[i][1] - pushed'[i][2] \in -B .. B
      BY <2>2, <2>3, <3>1, <3>2
    <3> QED
      BY <1>1, <2>2, <3>3 DEF TornBetweenNeighbours, B
  <2>7. NeverBackInTime'
    <3>1. ASSUME B = 1, NEW i \in 1 .. n + 1, NEW j \in 1 .. n + 1, i < j,
                 NEW h \in {1, 2}, NEW k \in {1, 2}
          PROVE  pushed'[i][h] <= pushed'[j][k]
      <4>1. i \in 1 .. n
        BY <2>2, <3>1
      <4>2. CASE j \in 1 .. n
        BY <1>2, <2>2, <3>1, <4>1, <4>2 DEF PushedInv, NeverBackInTime, B
      <4>3. CASE j = n + 1
        <5>1. pushed[i][h] <= d - 1 /\ pushed[i][h] \in Int
          BY <2>4, <2>5, <3>1, <4>1
        <5>2. c[k] \in {d - 1, d} /\ c[k] \in Int
          BY <2>1, <3>1
        <5>3. pushed[i][h] <= c[k]
          BY <5>1, <5>2
        <5> QED
          BY <2>2, <4>1, <4>3, <5>3
      <4> QED
        BY <2>3, <4>2, <4>3
    <3> QED
      BY <1>1, <2>2, <3>1 DEF NeverBackInTime, B
  \* The buffer is somewhere, and that says how soon it is due.
  <2>8. B = 1 => d <= IF given = << >> THEN shot ELSE shot + 1
    <3> SUFFICES ASSUME B = 1 PROVE d <= IF given = << >> THEN shot ELSE shot + 1
      OBVIOUS
    <3>1. SomePlace /\ Due(copying, d)
      BY <1>2, <1>3 DEF Live, IInv, CircleInv, CopyDate
    <3>2. Len(given) \in Nat /\ Len(posted) \in Nat /\ shot \in Int /\ Busy \in {0, 1}
          /\ Len(given) + Len(posted) + Busy = 1
      BY <1>1, <1>2, DateTypes, BufferNumbers DEF LiveInv, CountInv, B
    <3>3. CASE copying = filling
      BY <3>1, <3>2, <3>3 DEF Due
    <3>4. ASSUME NEW i \in 1 .. Len(given), given[i] = copying PROVE d = shot + 1 /\ given # << >>
      <4>1. d = shot + i /\ i = 1 /\ Len(given) # 0
        BY <3>1, <3>2, <3>4 DEF Due
      <4> QED
        BY <4>1
    <3>5. ASSUME NEW j \in 1 .. Len(posted), posted[j] = copying PROVE d <= shot
      <4>1. d = shot - Busy - Len(posted) + j
        BY <3>1, <3>5 DEF Due, PostDate
      <4> QED
        BY <3>2, <4>1
    <3> QED
      BY <1>1, <3>1, <3>2, <3>3, <3>4, <3>5 DEF SomePlace
  <2>9. PushedBy(IF given = << >> THEN shot ELSE shot + 1)'
    <3> DEFINE e == IF given = << >> THEN shot ELSE shot + 1
    <3>1. e \in Int
      BY <1>1, DateTypes
    <3>2. B = 1 => d <= e
      BY <2>8
    <3> HIDE DEF e
    <3>3. ASSUME B = 1, NEW i \in 1 .. n + 1, NEW h \in {1, 2} PROVE pushed'[i][h] <= e
      <4>1. CASE i \in 1 .. n
        <5>1. pushed[i][h] <= d - 1 /\ pushed[i][h] \in Int
          BY <2>4, <2>5, <3>3, <4>1
        <5>2. pushed[i][h] <= e
          BY <3>1, <3>2, <3>3, <5>1
        <5> QED
          BY <2>2, <4>1, <5>2
      <4>2. CASE i = n + 1
        <5>1. c[h] \in {d - 1, d} /\ c[h] \in Int
          BY <2>1, <3>3
        <5>2. c[h] <= e
          BY <3>1, <3>2, <3>3, <5>1
        <5> QED
          BY <2>2, <4>2, <5>2
      <4> QED
        BY <2>3, <4>1, <4>2
    <3>4. UNCHANGED e
      BY <1>1 DEF e
    <3> QED
      BY <1>1, <2>2, <3>3, <3>4 DEF PushedBy, B, e
  <2>10. LiveInv'
    BY <1>1, <1>2, <1>10, <2>9 DEF LiveInv, CountInv, DateInv, PostDate, Busy
  <2>11. buffer' # << >>
    BY <1>1 DEF Buffers
  <2> QED
    BY <1>10, <2>6, <2>7, <2>10, <2>11 DEF DInv, PushedInv
<1> QED
  BY <1>8, <1>9, <1>10

\* The camera begins a frame: the buffer that was first in the round is due.
LEMMA FillFirstDates == IInv /\ DInv /\ FillFirst => DInv'
<1> SUFFICES ASSUME IInv, DInv, FillFirst PROVE DInv'
  OBVIOUS
<1> DEFINE b == Head(given)
           g == Len(given)
           n == Len(posted)
           B == Len(buffer)
<1>1. TypeOK /\ CameraInv
  BY DEF IInv
<1>2. /\ mCamera /\ Alive /\ given # << >> /\ filling = 0 /\ filling' = b
      /\ given' = Tail(given) /\ shot' = shot + 1
      /\ buffer' = [buffer EXCEPT ![b] = <<shot', buffer[b][2]>>]
      /\ UNCHANGED <<mCamera, thrown, posted, copying, copied, pushed>>
  BY <1>1 DEF FillFirst, Alive, CameraInv, life, copies
<1>3. OnePlace /\ Live /\ Live' /\ LiveInv
  BY <1>2 DEF IInv, CircleInv, DInv, Live, Alive
<1>4. /\ given \in Seq(Buffers) /\ buffer \in Seq(Frames \X Frames) /\ g \in Nat /\ n \in Nat /\ g > 0
      /\ B \in Nat /\ shot \in Int /\ Busy = 0
  <2>1. g # 0
    BY <1>1, <1>2, EmptySeq DEF TypeOK
  <2> QED
    BY <1>1, <1>2, <2>1, LenProperties, DateTypes, BufferNumbers DEF TypeOK, Busy
<1>5. /\ b = given[1] /\ b \in Buffers /\ Len(given') = g - 1
      /\ \A i \in 1 .. g - 1 : given'[i] = given[i + 1]
  BY <1>2, <1>4, HeadTailProperties
<1> HIDE DEF b, g, n, B
<1>6. /\ 1 \in 1 .. g /\ \A i \in 1 .. g - 1 : i + 1 \in 1 .. g
      /\ g + n = B
  BY <1>3, <1>4 DEF LiveInv, CountInv, g, n, B
<1>7. b # 0 /\ b \in DOMAIN buffer
  BY <1>1, <1>5, BufferNumbers DEF Buffers
<1>8. /\ buffer'[b] = <<shot + 1, buffer[b][2]>> /\ Len(buffer') = B
      /\ \A a : a \in DOMAIN buffer /\ a # b => buffer'[a] = buffer[a]
      /\ DOMAIN buffer' = DOMAIN buffer
  <2>1. <<shot', buffer[b][2]>> \in (Frames \X Frames) \cup {<<shot', buffer[b][2]>>}
    OBVIOUS
  <2>2. buffer \in Seq((Frames \X Frames) \cup {<<shot', buffer[b][2]>>})
    BY <1>4
  <2>3. Len(buffer') = Len(buffer)
    BY <1>2, <1>5, <2>1, <2>2, ExceptSeq DEF Buffers
  <2> QED
    BY <1>2, <1>7, <2>3 DEF B
<1>9. Busy' = 1 /\ \A j \in Int : PostDate(j)' = shot - n + j
  <2>1. Busy' = 1
    BY <1>2, <1>7 DEF Busy
  <2>2. UNCHANGED Len(posted)
    BY <1>2
  <2> QED
    BY <1>2, <1>4, <2>1, <2>2 DEF PostDate, n
<1>10. \A j \in 1 .. n : PostDate(j)' = PostDate(j) /\ posted[j] # b /\ posted[j] \in DOMAIN buffer
  <2>1. \A j \in 1 .. n : PostDate(j)' = PostDate(j)
    BY <1>4, <1>9 DEF PostDate, n
  <2>2. \A j \in 1 .. n : posted[j] \in Buffers
    BY <1>1, BufferNumbers DEF n
  <2> QED
    BY <1>3, <1>5, <1>6, <2>1, <2>2 DEF OnePlace, g, n, Buffers
<1>11. CountInv'
  <2>1. Len(given') + Len(posted') + Busy' = Len(buffer')
    <3>1. Len(posted') = n
      BY <1>2 DEF n
    <3> QED
      BY <1>4, <1>5, <1>6, <1>8, <1>9, <3>1
  <2> QED
    BY <2>1 DEF CountInv
<1>12. DateInv'
  <2>1. ASSUME NEW j \in 1 .. n
        PROVE  buffer'[posted[j]] = <<PostDate(j)', PostDate(j)'>>
    BY <1>3, <1>8, <1>10 DEF LiveInv, DateInv, n
  <2>2. buffer'[filling'][1] = shot'
    BY <1>2, <1>8
  <2> QED
    BY <1>2, <2>1, <2>2 DEF DateInv, n
<1>13. PushedBy(IF given = << >> THEN shot ELSE shot + 1)'
  <2> SUFFICES ASSUME B = 1, NEW i \in 1 .. Len(pushed), NEW h \in {1, 2}
               PROVE  pushed[i][h] <= shot' /\ pushed[i][h] <= shot' + 1
    BY <1>2, <1>8 DEF PushedBy
  <2>1. pushed[i][h] <= shot + 1
    BY <1>2, <1>3 DEF LiveInv, PushedBy, B
  <2>2. pushed[i][h] \in Int
    BY <1>1, DateTypes
  <2> QED
    BY <1>2, <1>4, <2>1, <2>2
<1>14. ASSUME copying # 0 PROVE \E d \in Int : CopyDate(d)'
  <2>1. PICK d \in Int : CopyDate(d)
    BY <1>3, <1>14 DEF LiveInv
  <2>2. Due(copying, d)'
    <3>1. ASSUME NEW i \in 1 .. g - 1, given'[i] = copying PROVE d = shot' + i
      <4>1. given[i + 1] = copying /\ i + 1 \in 1 .. g
        BY <1>5, <1>6, <3>1
      <4>2. d = shot + (i + 1)
        BY <2>1, <4>1 DEF CopyDate, Due, g
      <4> QED
        BY <1>2, <1>4, <4>2
    <3>2. ASSUME b = copying PROVE d = shot + 1
      BY <1>5, <1>6, <2>1, <3>2 DEF CopyDate, Due, g
    <3>3. ASSUME NEW j \in 1 .. n, posted[j] = copying PROVE d = PostDate(j)'
      BY <1>10, <2>1, <3>3 DEF CopyDate, Due, n
    <3> QED
      BY <1>2, <1>5, <3>1, <3>2, <3>3 DEF Due, n
  <2>3. ASSUME NEW h \in {1, 2} PROVE buffer'[copying][h] \in Fresh(d)
    <3>1. CASE copying = b
      <4>1. d = shot + 1
        BY <1>5, <1>6, <2>1, <3>1 DEF CopyDate, Due, g
      <4>2. buffer[copying][2] \in Fresh(d) /\ d \in Fresh(d)
        BY <2>1 DEF CopyDate, Fresh
      <4>3. buffer'[copying] = <<d, buffer[copying][2]>>
        BY <1>8, <3>1, <4>1
      <4> QED
        BY <4>2, <4>3
    <3>2. CASE copying # b
      <4>1. copying \in DOMAIN buffer
        BY <1>1, <1>14 DEF TypeOK, Buffers
      <4> QED
        BY <1>8, <2>1, <3>2, <4>1 DEF CopyDate
    <3> QED
      BY <3>1, <3>2
  <2> QED
    BY <1>2, <1>8, <2>1, <2>2, <2>3 DEF CopyDate, PushedBy, Fresh, B
<1>15. LiveInv'
  BY <1>2, <1>11, <1>12, <1>13, <1>14 DEF LiveInv
<1>16. PushedInv'
  <2>1. buffer' # << >>
    BY <1>7, <1>8
  <2> QED
    BY <1>2, <1>8, <2>1 DEF DInv, PushedInv, TornBetweenNeighbours, NeverBackInTime, B
<1> QED
  BY <1>2, <1>3, <1>15, <1>16 DEF DInv

\* It completes the frame: the newest message.
LEMMA FillSecondDates == IInv /\ DInv /\ FillSecond => DInv'
<1> SUFFICES ASSUME IInv, DInv, FillSecond PROVE DInv'
  OBVIOUS
<1> DEFINE b == filling
           n == Len(posted)
           B == Len(buffer)
<1>1. TypeOK /\ CameraInv
  BY DEF IInv
<1>2. /\ Alive /\ b # 0 /\ filling' = 0 /\ posted' = Append(posted, b)
      /\ buffer' = [buffer EXCEPT ![b] = <<buffer[b][1], shot>>]
      /\ UNCHANGED <<mCamera, thrown, shot, given, copying, copied, pushed>>
  BY DEF FillSecond, Alive, life, copies
<1>3. /\ posted \in Seq(Buffers) /\ buffer \in Seq(Frames \X Frames) /\ n \in Nat
      /\ B \in Nat /\ shot \in Int /\ Busy = 1 /\ b \in DOMAIN buffer /\ Len(given) \in Nat
  BY <1>1, <1>2, LenProperties, DateTypes, BufferNumbers DEF TypeOK, Busy, Buffers
<1>4. /\ Len(posted') = n + 1 /\ posted'[n + 1] = b
      /\ \A j \in 1 .. n : posted'[j] = posted[j]
  BY <1>2, <1>3, AppendProperties DEF Buffers
<1> HIDE DEF b, n, B
<1>5. /\ buffer'[b] = <<buffer[b][1], shot>> /\ Len(buffer') = B
      /\ \A a : a \in DOMAIN buffer /\ a # b => buffer'[a] = buffer[a]
      /\ DOMAIN buffer' = DOMAIN buffer
  <2> DEFINE x == <<buffer[b][1], shot>>
  <2>1. buffer \in Seq((Frames \X Frames) \cup {x}) /\ x \in (Frames \X Frames) \cup {x}
    BY <1>3
  <2>2. Len(buffer') = Len(buffer)
    BY <1>2, <1>3, <2>1, ExceptSeq
  <2> QED
    BY <1>2, <1>3, <2>2 DEF B
<1>6. Busy' = 0 /\ \A j : PostDate(j)' = shot - 0 - (n + 1) + j
  BY <1>2, <1>4 DEF Busy, PostDate
<1>7. /\ \A j \in 1 .. n : PostDate(j)' = PostDate(j)
      /\ \A j \in 1 .. n + 1 : j \in 1 .. n \/ j = n + 1
  <2>1. \A j : PostDate(j) = shot - 1 - n + j
    BY <1>3 DEF PostDate, n
  <2>2. ASSUME NEW j \in 1 .. n PROVE PostDate(j)' = PostDate(j)
    <3>1. shot - 0 - (n + 1) + j = shot - 1 - n + j
      BY <1>3
    <3> QED
      BY <1>6, <2>1, <3>1
  <2>3. \A j \in 1 .. n + 1 : j \in 1 .. n \/ j = n + 1
    BY <1>3
  <2> QED
    BY <2>2, <2>3
<1>8. PushedInv'
  <2>1. buffer' # << >>
    BY <1>3, <1>5
  <2> QED
    BY <1>2, <1>5, <2>1 DEF DInv, PushedInv, TornBetweenNeighbours, NeverBackInTime, B
<1>9. ASSUME mCamera PROVE LiveInv'
  <2>1. OnePlace /\ LiveInv
    BY <1>2, <1>9 DEF IInv, CircleInv, DInv, Live
  <2>2. \A j \in 1 .. n : posted[j] # b /\ posted[j] \in DOMAIN buffer
    BY <1>1, <2>1, BufferNumbers DEF OnePlace, n, b, Buffers
  <2>3. CountInv'
    <3>1. Len(given) + n + 1 = B
      BY <1>3, <2>1 DEF LiveInv, CountInv, n, B
    <3>2. Len(given') + Len(posted') + Busy' = Len(buffer')
      BY <1>2, <1>3, <1>4, <1>5, <1>6, <3>1
    <3> QED
      BY <3>2 DEF CountInv
  <2>4. DateInv'
    <3>1. ASSUME NEW j \in 1 .. n + 1
          PROVE  buffer'[posted'[j]] = <<PostDate(j)', PostDate(j)'>>
      <4>1. CASE j \in 1 .. n
        BY <1>4, <1>5, <1>7, <2>1, <2>2, <4>1 DEF LiveInv, DateInv, n
      <4>2. CASE j = n + 1
        <5>1. buffer[b][1] = shot
          BY <1>2, <2>1 DEF LiveInv, DateInv, b
        <5>2. PostDate(j)' = shot
          BY <1>3, <1>6, <4>2
        <5> QED
          BY <1>4, <1>5, <4>2, <5>1, <5>2
      <4> QED
        BY <1>7, <4>1, <4>2
    <3> QED
      BY <1>2, <1>4, <3>1 DEF DateInv
  <2>5. PushedBy(IF given = << >> THEN shot ELSE shot + 1)'
    BY <1>2, <1>5, <2>1 DEF LiveInv, PushedBy, B
  <2>6. ASSUME copying # 0 PROVE \E d \in Int : CopyDate(d)'
    <3>1. PICK d \in Int : CopyDate(d)
      BY <2>1, <2>6 DEF LiveInv
    <3>2. ASSUME copying = b PROVE d = shot
      BY <3>1, <3>2 DEF CopyDate, Due, b
    <3>3. Due(copying, d)'
      <4>1. ASSUME NEW j \in 1 .. n + 1, posted'[j] = copying PROVE d = PostDate(j)'
        <5>1. CASE j \in 1 .. n
          BY <1>4, <1>7, <3>1, <4>1, <5>1 DEF CopyDate, Due, n
        <5>2. CASE j = n + 1
          <6>1. PostDate(j)' = shot
            BY <1>3, <1>6, <5>2
          <6> QED
            BY <1>4, <3>2, <4>1, <5>2, <6>1
        <5> QED
          BY <1>7, <5>1, <5>2
      <4>2. \A i \in 1 .. Len(given) : given[i] = copying => d = shot + i
        BY <3>1 DEF CopyDate, Due
      <4> QED
        BY <1>2, <1>4, <2>6, <4>1, <4>2 DEF Due
    <3>4. ASSUME NEW h \in {1, 2} PROVE buffer'[copying][h] \in Fresh(d)
      <4>1. CASE copying = b
        <5>1. buffer[copying][1] \in Fresh(d) /\ d \in Fresh(d)
          BY <3>1 DEF CopyDate, Fresh
        <5>2. buffer'[copying] = <<buffer[copying][1], d>>
          BY <1>5, <3>2, <4>1
        <5> QED
          BY <5>1, <5>2
      <4>2. CASE copying # b
        <5>1. copying \in DOMAIN buffer
          BY <1>1, <2>6 DEF TypeOK, Buffers
        <5> QED
          BY <1>5, <3>1, <4>2, <5>1 DEF CopyDate
      <4> QED
        BY <4>1, <4>2
    <3> QED
      BY <1>2, <1>5, <3>1, <3>3, <3>4 DEF CopyDate, PushedBy, Fresh, B
  <2> QED
    BY <1>2, <2>3, <2>4, <2>5, <2>6 DEF LiveInv
<1> QED
  BY <1>2, <1>8, <1>9 DEF DInv, Live, Alive

LEMMA NextDInv == IInv /\ DInv /\ [Next]_vars => DInv'
<1> SUFFICES ASSUME IInv, DInv, [Next]_vars PROVE DInv'
  OBVIOUS
<1> USE DEF life, camera, copies, UiThread, Live, Alive
<1>1. CASE SurfaceChanged \/ Toggle \/ UNCHANGED vars
  BY <1>1, NothingDated DEF SurfaceChanged, Toggle, vars, IInv, CameraInv, DInv
<1>2. CASE SurfaceDestroyed
  <2>1. PICK released \in BOOLEAN : /\ mCamera' = (mCamera /\ ~released)
                                    /\ given' = IF released THEN << >> ELSE given
    BY <1>2, Bounds DEF SurfaceDestroyed
  <2> QED
    BY <1>2, <2>1, NothingDated DEF SurfaceDestroyed
<1>3. CASE DropMessage
  BY <1>3, DropsNothing, NothingDated DEF DropMessage
<1> QED
  BY <1>1, <1>2, <1>3, CreatedDates, PreviewDates, CopyDates, FillFirstDates, FillSecondDates
     DEF Next

LEMMA Dated == Spec => []DInv
  BY InitDInv, NextDInv, Inductive, PTL DEF Spec

\* The buffer goes back to the camera before it is copied (VideoPusher.java:73): with
\* any number of buffers a torn picture mixes frames at most that many apart.
THEOREM TornSlightly == Spec => []TornBetweenNeighbours
<1>1. DInv => TornBetweenNeighbours
  BY DEF DInv, PushedInv
<1> QED
  BY <1>1, Dated, PTL

\* As long as startPreview has added one buffer only, no picture in the queue shows
\* anything older than the ones before it.
THEOREM TimeGoesOn == Spec => []NeverBackInTime
<1>1. DInv => NeverBackInTime
  BY DEF DInv, PushedInv
<1> QED
  BY <1>1, Dated, PTL
==============================================================================
