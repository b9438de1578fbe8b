----------------------------- MODULE Application -----------------------------
(***************************************************************************)
(* The Java side of the program: the activity and its button (MainActivity *)
(* and AppManager), the one LiveEngine, the pushers each activity creates, *)
(* and the thread pool that reads the microphone.                          *)
(*                                                                         *)
(* An activity is known by its number; its AudioPusher and its VideoPusher *)
(* go by the same number.  LiveEngine and the pool outlive activities:     *)
(* they are static, and the process stays when an activity is destroyed.   *)
(* All handlers run on the UI thread; only the workers of the pool run     *)
(* beside it.  What VideoPusher does with its frames is the subject of the *)
(* module of that name; here it has a camera or it has none.               *)
(***************************************************************************)
EXTENDS Integers, Sequences, SequencesExt, FiniteSetsExt

CONSTANTS PoolSize,        \* core threads, 5 in ThreadPoolFactory.java:28
          MaxActivities,   \* bound: activities created
          MaxStarts,       \* bound: recordings started
          MayFail          \* may Camera.open, setPreviewDisplay(null) and
                           \* AudioRecord.startRecording fail?

ASSUME ApplicationAssumption ==
    /\ {PoolSize, MaxActivities, MaxStarts} \subseteq Nat /\ MayFail \in BOOLEAN

VARIABLES
    created,        \* activities created so far
    life,           \* of each: "none", "running", "stopped", "finishing" or "gone"
    activityStack,  \* AppManager.activityStack
    surface,        \* of each activity: "none" yet, "there", "lost", or "stuck": lost
                    \* with stopVideo failing, so that the camera stayed open
    button,         \* of each activity: its isPushing
    camera,         \* of each VideoPusher: it holds the camera
    video, audio,   \* of each VideoPusher and AudioPusher: its isPushing
    recorder,       \* of each AudioPusher: its AudioRecord records, its file is open
    engine,         \* the activity whose pushers LiveEngine.ap and vp are
    prepared,       \* calls of prepareRecord
    started,        \* recordings whose pushers were started
    ui,             \* what the UI thread has to do next in recordControl
    tasks,          \* work queue of the pool: the AudioPusher of each task
    worker,         \* of each pool thread: the AudioPusher it runs for, or 0
    reading,        \* of each pool thread: it has seen the flag up and reads
    alive           \* FALSE once an exception has ended the process

screen == <<created, life, activityStack, surface, camera>>
flags == <<button, video, audio, engine, prepared, started>>
pool == <<tasks, worker, reading>>
vars == <<screen, flags, recorder, ui, pool, alive>>

Activities == 1 .. MaxActivities
Threads == 1 .. PoolSize

Init ==
    /\ created = 0 /\ life = [a \in Activities |-> "none"] /\ activityStack = << >>
    /\ surface = [a \in Activities |-> "none"]
    /\ camera = [a \in Activities |-> FALSE]
    /\ button = [a \in Activities |-> FALSE]
    /\ video = [a \in Activities |-> FALSE] /\ audio = [a \in Activities |-> FALSE]
    /\ engine = 0 /\ prepared = 0 /\ started = 0
    /\ recorder = [a \in Activities |-> FALSE] /\ ui = "idle"
    /\ tasks = << >>
    /\ worker = [t \in Threads |-> 0] /\ reading = [t \in Threads |-> FALSE]
    /\ alive = TRUE

\* The UI thread is free to handle the next event.
UiFree == alive /\ ui = "idle"

\* Does a call of the system that may fail succeed?
Outcomes == IF MayFail THEN {TRUE, FALSE} ELSE {TRUE}

-----------------------------------------------------------------------------
(* The activity and its surface.                                           *)

\* Bug: the entry of the activity is cleared but stays.
finishActivityCleared(a) ==
    [i \in DOMAIN activityStack |-> IF activityStack[i] = a THEN 0 ELSE activityStack[i]]

\* Bug: the overload without a parameter, for the activity on top.
finishTopActivity(a) == Front(activityStack)

\* The stack after AppManager.finishActivity(activity), which is on it.
finishActivity(a) ==
    RemoveAt(activityStack, CHOOSE i \in DOMAIN activityStack : activityStack[i] = a)

\* Camera.open in a process in which the pushers of "held" hold the camera: it
\* fails when there are any, and may fail when there are none.
MayOpen(held) == IF \E a \in Activities : held[a] THEN {FALSE} ELSE Outcomes

\* Bug: prepareCapture keeps the pushers LiveEngine has.
OnCreateKeepingPushers(a, stack, held) ==
    /\ created' = a
    /\ activityStack' = Append(stack, a)
    /\ engine' = IF engine = 0 THEN a ELSE engine
    /\ \E open \in MayOpen(held) : camera' = [held EXCEPT ![a] = open]

\* onCreate of activity a, after which the camera is held as "held" says: it goes
\* on the stack, and prepareCapture gives LiveEngine two new pushers.
OnCreate(a, stack, held) ==
    /\ created' = a
    /\ activityStack' = Append(stack, a)
    /\ engine' = a
    /\ \E open \in MayOpen(held) : camera' = [held EXCEPT ![a] = open]

\* The launcher creates an activity if no earlier one is left to come back to.
\* One that is finishing may not have been destroyed yet.
Launch ==
    /\ UiFree /\ created < MaxActivities
    /\ \A a \in Activities : life[a] \in {"none", "finishing", "gone"}
    /\ OnCreate(created + 1, activityStack, camera)
    /\ life' = [life EXCEPT ![created'] = "running"]
    /\ UNCHANGED <<surface, button, video, audio, prepared, started, recorder, ui, pool, alive>>

\* Bug: the camera stays open.
NotReleased(a, freed) == camera

\* What becomes of the surface of activity a, and of the camera its VideoPusher
\* holds, when the surface goes: surfaceDestroyed releases the camera, unless
\* setPreviewDisplay(null) fails (freed is FALSE), where stopVideo returns early.
Lost(a, freed) ==
    [surface EXCEPT ![a] = CASE @ # "there" -> @
                             [] @ = "there" /\ camera[a] /\ ~freed -> "stuck"
                             [] OTHER -> "lost"]
Released(a, freed) == [camera EXCEPT ![a] = @ /\ ~(surface[a] = "there" /\ freed)]

\* The configuration changes (the device is turned): in one go the activity is
\* destroyed, with its surface, and a new one created.
Rotate(a) ==
    /\ UiFree /\ life[a] = "running" /\ created < MaxActivities
    /\ \E freed \in Outcomes :
         /\ OnCreate(created + 1, finishActivity(a), Released(a, freed))
         /\ surface' = Lost(a, freed)
    /\ life' = [life EXCEPT ![a] = "gone", ![created'] = "running"]
    /\ UNCHANGED <<button, video, audio, prepared, started, recorder, ui, pool, alive>>

\* surfaceCreated: startPreview relies on the camera.
SurfaceCreated(a) ==
    /\ UiFree /\ life[a] = "running" /\ surface[a] # "there"
    /\ surface' = [surface EXCEPT ![a] = "there"]
    /\ alive' = camera[a]
    /\ UNCHANGED <<created, life, activityStack, camera, flags, recorder, ui, pool>>

\* The user leaves the activity; its surface goes, nothing else.
Home(a) ==
    /\ UiFree /\ life[a] = "running"
    /\ life' = [life EXCEPT ![a] = "stopped"]
    /\ \E freed \in Outcomes : surface' = Lost(a, freed) /\ camera' = Released(a, freed)
    /\ UNCHANGED <<created, activityStack, flags, recorder, ui, pool, alive>>

\* ... and comes back to it; a new surface will be created.
Return(a) ==
    /\ UiFree /\ life[a] = "stopped"
    /\ life' = [life EXCEPT ![a] = "running"]
    /\ UNCHANGED <<created, activityStack, surface, camera, flags, recorder, ui, pool, alive>>

\* The user finishes the activity; the system will destroy it later.
Back(a) ==
    /\ UiFree /\ life[a] = "running"
    /\ life' = [life EXCEPT ![a] = "finishing"]
    /\ UNCHANGED <<created, activityStack, surface, camera, flags, recorder, ui, pool, alive>>

\* The system destroys an activity: surfaceDestroyed, if it has a surface still,
\* and onDestroy.
Destroy(a) ==
    /\ UiFree /\ life[a] \in {"stopped", "finishing"}
    /\ life' = [life EXCEPT ![a] = "gone"]
    /\ activityStack' = finishActivity(a)
    /\ \E freed \in Outcomes : surface' = Lost(a, freed) /\ camera' = Released(a, freed)
    /\ UNCHANGED <<created, flags, recorder, ui, pool, alive>>

\* The garbage collector finalizes the camera of a pusher nobody refers to.
Finalize(a) ==
    /\ alive /\ life[a] = "gone" /\ a # engine /\ camera[a]
    /\ camera' = [camera EXCEPT ![a] = FALSE]
    /\ UNCHANGED <<created, life, activityStack, surface, flags, recorder, ui, pool, alive>>

-----------------------------------------------------------------------------
(* The record button: recordControl of activity a.                         *)

\* startRecord, up to the flags.  prepareRecord comes before the test of the
\* pushers.
StartRecord(a) ==
    /\ UiFree /\ life[a] = "running" /\ ~button[a] /\ prepared < MaxStarts
    /\ button' = [button EXCEPT ![a] = TRUE]
    /\ prepared' = prepared + 1
    /\ IF ~audio[engine] /\ ~video[engine]
       THEN /\ video' = [video EXCEPT ![engine] = TRUE]
            /\ audio' = [audio EXCEPT ![engine] = TRUE]
            /\ started' = started + 1
            /\ ui' = "start"
       ELSE UNCHANGED <<video, audio, started, ui>>
    /\ UNCHANGED <<screen, engine, recorder, pool, alive>>

\* Bug: the pool discards a task when none of its threads is free.
StartSoundDiscarded ==
    /\ alive /\ ui = "start"
    /\ recorder' = [recorder EXCEPT ![engine] = TRUE]
    /\ tasks' = IF \E t \in Threads : worker[t] = 0 THEN Append(tasks, engine) ELSE tasks
    /\ ui' = "idle"
    /\ UNCHANGED <<screen, flags, worker, reading, alive>>

\* The rest of AudioPusher.statPush: the file for the sound, which may not open,
\* startRecording, which may be refused and throws if the AudioRecord could not be
\* initialised, and the task for the pool.
StartSound ==
    /\ alive /\ ui = "start"
    /\ \/ /\ \E granted \in Outcomes : recorder' = [recorder EXCEPT ![engine] = granted]
          /\ tasks' = Append(tasks, engine)
          /\ ui' = "idle"
          /\ UNCHANGED alive
       \/ /\ MayFail /\ alive' = FALSE
          /\ UNCHANGED <<recorder, tasks, ui>>
    /\ UNCHANGED <<screen, flags, worker, reading>>

\* Bug: only the picture is stopped.
StopRecordVideoOnly(a) ==
    /\ UiFree /\ life[a] = "running" /\ button[a]
    /\ button' = [button EXCEPT ![a] = FALSE]
    /\ video' = [video EXCEPT ![engine] = FALSE]
    /\ UNCHANGED <<screen, audio, engine, prepared, started, recorder, ui, pool, alive>>

\* stopRecord: both flags go down.
StopRecord(a) ==
    /\ UiFree /\ life[a] = "running" /\ button[a]
    /\ button' = [button EXCEPT ![a] = FALSE]
    /\ video' = [video EXCEPT ![engine] = FALSE]
    /\ audio' = [audio EXCEPT ![engine] = FALSE]
    /\ ui' = "stop"
    /\ UNCHANGED <<screen, engine, prepared, started, recorder, pool, alive>>

\* The rest of AudioPusher.stopPush.
StopSound ==
    /\ alive /\ ui = "stop"
    /\ recorder' = [recorder EXCEPT ![engine] = FALSE]
    /\ ui' = "idle"
    /\ UNCHANGED <<screen, flags, pool, alive>>

-----------------------------------------------------------------------------
(* Thread t of the pool.                                                   *)

\* It takes a task.
Take(t) ==
    /\ alive /\ worker[t] = 0 /\ tasks # << >>
    /\ worker' = [worker EXCEPT ![t] = Head(tasks)]
    /\ tasks' = Tail(tasks)
    /\ UNCHANGED <<screen, flags, recorder, ui, reading, alive>>

\* Bug: the loop has no end.
TestNever(t) ==
    /\ alive /\ worker[t] # 0 /\ ~reading[t]
    /\ reading' = [reading EXCEPT ![t] = TRUE]
    /\ UNCHANGED <<screen, flags, recorder, ui, tasks, worker, alive>>

\* while (isPushing)
Test(t) ==
    /\ alive /\ worker[t] # 0 /\ ~reading[t]
    /\ IF audio[worker[t]]
       THEN reading' = [reading EXCEPT ![t] = TRUE] /\ UNCHANGED worker
       ELSE worker' = [worker EXCEPT ![t] = 0] /\ UNCHANGED reading
    /\ UNCHANGED <<screen, flags, recorder, ui, tasks, alive>>

\* audioRecord.read and dos.write: a recorder that is not recording may answer with
\* a negative length, for which write throws, as it does without a file; otherwise
\* the whole buffer is pushed, whatever was read into it.
Read(t) ==
    /\ alive /\ reading[t]
    /\ reading' = [reading EXCEPT ![t] = FALSE]
    /\ alive' \in IF recorder[worker[t]] THEN {TRUE} ELSE BOOLEAN
    /\ UNCHANGED <<screen, flags, recorder, ui, tasks, worker>>

-----------------------------------------------------------------------------
PoolThread(t) == Take(t) \/ Test(t) \/ Read(t)

Next == \/ Launch \/ StartSound \/ StopSound
        \/ \E a \in Activities :
             \/ Rotate(a) \/ SurfaceCreated(a) \/ Home(a) \/ Return(a) \/ Back(a)
             \/ Destroy(a) \/ Finalize(a) \/ StartRecord(a) \/ StopRecord(a)
        \/ \E t \in Threads : PoolThread(t)

Spec == Init /\ [][Next]_vars

(***************************************************************************)
(* The threads of the pool run when they can, and the UI thread finishes   *)
(* the handler it is in; no event need ever come.                          *)
(***************************************************************************)
FairSpec == /\ Spec
            /\ WF_vars(StartSound \/ StopSound)
            /\ \A t \in Threads : WF_vars(PoolThread(t))

-----------------------------------------------------------------------------
(* Properties.                                                             *)

\* The type of every variable.
TypeOK ==
    /\ created \in 0 .. MaxActivities /\ engine \in 0 .. MaxActivities
    /\ life \in [Activities -> {"none", "running", "stopped", "finishing", "gone"}]
    /\ activityStack \in Seq(Activities)
    /\ surface \in [Activities -> {"none", "there", "lost", "stuck"}]
    /\ {camera, button, video, audio, recorder} \subseteq [Activities -> BOOLEAN]
    /\ prepared \in 0 .. MaxStarts /\ started \in 0 .. MaxStarts
    /\ ui \in {"idle", "start", "stop"} /\ alive \in BOOLEAN
    /\ tasks \in Seq(Activities)
    /\ worker \in [Threads -> Activities \cup {0}] /\ reading \in [Threads -> BOOLEAN]

\* The button the user sees tells the truth about the pushers it works on, across
\* any turning, leaving and coming back: LiveEngine holds those of the activity on
\* the screen, and both record just when its button says so.
ButtonTrue == \A a \in Activities : life[a] = "running" =>
    engine = a /\ button[a] = video[a] /\ button[a] = audio[a]

\* prepareRecord truncates the file and starts two encoding threads before
\* startRecord has looked at the pushers (LiveEngine.java:64); still it is never
\* called for a recording that is then not started.
PreparedIsStarted == prepared = started

\* The stack lists the activities that are not destroyed, oldest first, and the
\* one on the screen is the one currentActivity finds, even while an older one
\* is still to be destroyed.
StackTrue ==
    /\ ToSet(activityStack) = {a \in Activities : life[a] \notin {"none", "gone"}}
    /\ \A i, j \in DOMAIN activityStack : i < j => activityStack[i] < activityStack[j]
    /\ \A a \in Activities : life[a] = "running" => Last(activityStack) = a

\* The camera has one holder at most.  While activities come, go and overlap, one
\* that shows a preview has it, and one that the user has left or that is gone has
\* given it up, unless its surface never came or stopVideo failed.
CameraFreed ==
    /\ \A a, b \in Activities : camera[a] /\ camera[b] => a = b
    /\ \A a \in Activities :
         /\ camera[a] /\ life[a] \in {"stopped", "gone"} => surface[a] \in {"none", "stuck"}
         /\ alive /\ surface[a] = "there" => camera[a]

\* An AudioPusher that records has a worker, or a task that will become one: a
\* worker that ends because the flag was down, when the flag is up again, is
\* always followed by the task of the second start.
Served(a) == (\E t \in Threads : worker[t] = a) \/ a \in ToSet(tasks)
RecordingIsServed == alive /\ ui = "idle" =>
    \A a \in Activities : audio[a] => Served(a)

\* Work of the pool that nobody can end any more: LiveEngine has lost its pusher
\* while the flag was up.
Orphaned(a) == a # engine /\ audio[a]
OrphanedWork ==
    Cardinality({t \in Threads : worker[t] # 0 /\ Orphaned(worker[t])})
      + Cardinality({i \in DOMAIN tasks : Orphaned(tasks[i])})

\* Unless work of that kind fills the pool, a recording gets to read its sound:
\* workers left over from earlier recordings end and make room.
SoundIsRead == \A a \in Activities :
    audio[a] /\ a = engine
        ~> \/ \E t \in Threads : worker[t] = a /\ reading[t]
           \/ ~audio[a] \/ a # engine \/ ~alive \/ OrphanedWork >= PoolSize
=============================================================================
