-------------------------- MODULE ApplicationProofs --------------------------
(***************************************************************************)
(* Proofs about Application, for any number of activities, recordings and  *)
(* pool threads: the button, the stack, the camera and the pool's tasks    *)
(* stay consistent with the pushers.                                       *)
(***************************************************************************)
EXTENDS Application, SequenceTheorems, TLAPS

-----------------------------------------------------------------------------
(* The activity stack as a sequence.                                       *)

Ascending(q) == \A i, j \in DOMAIN q : i < j => q[i] < q[j]

\* What RemoveAt leaves.
LEMMA RemoveAtShape ==
  ASSUME NEW S, NEW q \in Seq(S), NEW i \in 1 .. Len(q)
  PROVE  /\ RemoveAt(q, i) \in Seq(S)
         /\ Len(RemoveAt(q, i)) = Len(q) - 1
         /\ \A k \in 1 .. Len(q) - 1 : RemoveAt(q, i)[k] = IF k < i THEN q[k] ELSE q[k + 1]
<1> DEFINE a == SubSeq(q, 1, i - 1)
           b == SubSeq(q, i + 1, Len(q))
<1>0. Len(q) \in Nat /\ i \in Nat /\ i <= Len(q) /\ 1 <= i /\ \A k \in 1 .. Len(q) : q[k] \in S
  BY LenProperties, ElementOfSeq
<1>1. /\ a \in Seq(S) /\ Len(a) = i - 1
      /\ \A k \in 1 .. i - 1 : a[k] = q[k]
  BY <1>0, SubSeqProperties
<1>2. /\ b \in Seq(S) /\ Len(b) = Len(q) - i
      /\ \A k \in 1 .. Len(q) - i : b[k] = q[i + k]
  BY <1>0, SubSeqProperties
<1>3. RemoveAt(q, i) = a \o b
  BY DEF RemoveAt
<1> HIDE DEF a, b
<1>4. /\ a \o b \in Seq(S) /\ Len(a \o b) = Len(a) + Len(b)
      /\ \A k \in 1 .. Len(a) + Len(b) :
           (a \o b)[k] = IF k <= Len(a) THEN a[k] ELSE b[k - Len(a)]
  BY <1>1, <1>2, ConcatProperties
<1>5. Len(a) + Len(b) = Len(q) - 1
  BY <1>0, <1>1, <1>2
<1>6. ASSUME NEW k \in 1 .. Len(q) - 1
      PROVE  (a \o b)[k] = IF k < i THEN q[k] ELSE q[k + 1]
  <2>1. CASE k < i
    BY <2>1, <1>0, <1>1, <1>4, <1>5
  <2>2. CASE ~(k < i)
    <3>1. ~(k <= Len(a)) /\ k - Len(a) \in 1 .. Len(q) - i /\ i + (k - Len(a)) = k + 1
      BY <2>2, <1>0, <1>1
    <3>2. (a \o b)[k] = b[k - Len(a)]
      BY <3>1, <1>4, <1>5
    <3>3. b[k - Len(a)] = q[k + 1]
      BY <3>1, <1>2
    <3> QED
      BY <2>2, <3>2, <3>3
  <2> QED
    BY <2>1, <2>2
<1> QED
  BY <1>3, <1>4, <1>5, <1>6

\* finishActivity takes the activity off the stack and leaves the others in order.
LEMMA Removal ==
  ASSUME activityStack \in Seq(Activities), Ascending(activityStack),
         NEW a \in ToSet(activityStack)
  PROVE  /\ finishActivity(a) \in Seq(Activities)
         /\ Ascending(finishActivity(a))
         /\ ToSet(finishActivity(a)) = ToSet(activityStack) \ {a}
<1> DEFINE q == activityStack
           i == CHOOSE k \in DOMAIN activityStack : activityStack[k] = a
           r == finishActivity(a)
<1>1. DOMAIN q = 1 .. Len(q) /\ Len(q) \in Nat
  BY LenProperties
<1>2. \E k \in DOMAIN q : q[k] = a
  BY DEF ToSet
<1>3. i \in 1 .. Len(q) /\ q[i] = a
  BY <1>1, <1>2
<1>4. \A k \in 1 .. Len(q) : q[k] \in Int
  BY ElementOfSeq, ApplicationAssumption DEF Activities
<1>5. /\ r \in Seq(Activities) /\ Len(r) = Len(q) - 1
      /\ \A k \in 1 .. Len(q) - 1 : r[k] = IF k < i THEN q[k] ELSE q[k + 1]
  BY <1>3, RemoveAtShape DEF finishActivity
<1>6. DOMAIN r = 1 .. Len(q) - 1
  BY <1>5, LenProperties
<1>7. \A k, l \in 1 .. Len(q) : k < l => q[k] < q[l]
  BY <1>1 DEF Ascending
<1> HIDE DEF q, i, r
<1>8. ASSUME NEW k \in 1 .. Len(q) - 1, NEW l \in 1 .. Len(q) - 1, k < l
      PROVE  r[k] < r[l]
  <2>1. /\ k + 1 \in 1 .. Len(q) /\ l + 1 \in 1 .. Len(q)
        /\ k \in 1 .. Len(q) /\ l \in 1 .. Len(q) /\ i \in Int
        /\ k < l + 1 /\ k + 1 < l + 1
    BY <1>1, <1>3, <1>8
  <2>2. r[k] \in {q[k], q[k + 1]} /\ r[l] \in {q[l], q[l + 1]}
        /\ (k >= i => r[l] = q[l + 1]) /\ (k < i => r[k] = q[k])
    BY <1>5, <1>8, <2>1
  <2> QED
    BY <2>1, <2>2, <1>7, <1>8
<1>9. ASSUME NEW k \in 1 .. Len(q) - 1
      PROVE  r[k] \in {q[n] : n \in 1 .. Len(q)} /\ r[k] # a
  <2>1. k + 1 \in 1 .. Len(q) /\ k \in 1 .. Len(q) /\ i \in Int
    BY <1>1, <1>3
  <2>2. CASE k < i
    <3>1. q[k] < q[i] /\ q[k] \in Int /\ q[i] \in Int
      BY <2>1, <2>2, <1>3, <1>4, <1>7
    <3>2. q[k] # a /\ r[k] = q[k]
      BY <3>1, <2>2, <1>3, <1>5
    <3> QED
      BY <3>2, <2>1
  <2>3. CASE ~(k < i)
    <3>1. i < k + 1
      BY <2>1, <2>3
    <3>2. q[i] < q[k + 1] /\ q[k + 1] \in Int /\ q[i] \in Int
      BY <3>1, <2>1, <1>3, <1>4, <1>7
    <3>3. q[k + 1] # a /\ r[k] = q[k + 1]
      BY <3>2, <2>3, <1>3, <1>5
    <3> QED
      BY <3>3, <2>1
  <2> QED
    BY <2>2, <2>3
<1>10. ASSUME NEW n \in 1 .. Len(q), q[n] # a
       PROVE  \E k \in 1 .. Len(q) - 1 : r[k] = q[n]
  <2>1. CASE n < i
    <3>1. n \in 1 .. Len(q) - 1
      BY <1>1, <1>3, <2>1
    <3> QED
      BY <3>1, <2>1, <1>5
  <2>2. CASE n > i
    <3>1. n - 1 \in 1 .. Len(q) - 1 /\ ~(n - 1 < i) /\ (n - 1) + 1 = n
      BY <1>1, <1>3, <2>2
    <3> QED
      BY <3>1, <1>5
  <2> QED
    BY <1>1, <1>3, <1>10, <2>1, <2>2
<1>11. ToSet(r) = ToSet(q) \ {a}
  <2>1. ToSet(r) = {r[n] : n \in 1 .. Len(q) - 1} /\ ToSet(q) = {q[n] : n \in 1 .. Len(q)}
    BY <1>1, <1>6 DEF ToSet
  <2>2. ToSet(r) \subseteq ToSet(q) \ {a}
    BY <2>1, <1>9
  <2>3. ToSet(q) \ {a} \subseteq ToSet(r)
    BY <2>1, <1>10
  <2> QED
    BY <2>2, <2>3
<1>12. Ascending(r)
  BY <1>6, <1>8 DEF Ascending
<1> QED
  BY <1>5, <1>11, <1>12 DEF q, r

\* Append puts a higher number on top.
LEMMA Push ==
  ASSUME NEW q \in Seq(Activities), Ascending(q), NEW a \in Activities,
         \A b \in ToSet(q) : b < a
  PROVE  /\ Append(q, a) \in Seq(Activities)
         /\ Ascending(Append(q, a))
         /\ ToSet(Append(q, a)) = ToSet(q) \cup {a}
<1>1. DOMAIN q = 1 .. Len(q) /\ Len(q) \in Nat
  BY LenProperties
<1>2. /\ Append(q, a) \in Seq(Activities) /\ Len(Append(q, a)) = Len(q) + 1
      /\ \A k \in 1 .. Len(q) : Append(q, a)[k] = q[k]
      /\ Append(q, a)[Len(q) + 1] = a
  BY AppendProperties
<1>3. DOMAIN Append(q, a) = 1 .. Len(q) + 1
  BY <1>2, LenProperties
<1>4. 1 .. Len(q) + 1 = (1 .. Len(q)) \cup {Len(q) + 1}
  BY <1>1
<1>5. \A k \in 1 .. Len(q) : q[k] \in ToSet(q)
  BY <1>1 DEF ToSet
<1>6. ToSet(Append(q, a)) = ToSet(q) \cup {a}
  BY <1>1, <1>2, <1>3, <1>4 DEF ToSet
<1>7. ASSUME NEW k \in 1 .. Len(q) + 1, NEW l \in 1 .. Len(q) + 1, k < l
      PROVE  Append(q, a)[k] < Append(q, a)[l]
  <2>1. k \in 1 .. Len(q)
    BY <1>1, <1>7
  <2>2. CASE l \in 1 .. Len(q)
    BY <2>1, <2>2, <1>1, <1>2, <1>7 DEF Ascending
  <2>3. CASE l = Len(q) + 1
    BY <2>1, <2>3, <1>2, <1>5
  <2> QED
    BY <1>4, <2>2, <2>3
<1> QED
  BY <1>2, <1>3, <1>6, <1>7 DEF Ascending

-----------------------------------------------------------------------------
(* The inductive invariant.                                                *)

\* LiveEngine holds the pushers of the activity created last, and only that one
\* can still be used.
LifeInv ==
    /\ engine = created
    /\ ui # "idle" => created > 0
    /\ \A a \in Activities : /\ life[a] = "none" <=> a > created
                             /\ life[a] \in {"running", "stopped"} => a = created

\* Every button, used or not, agrees with its pushers.
ButtonInv == prepared = started /\ button = video /\ button = audio

StackInv ==
    /\ ToSet(activityStack) = {a \in Activities : life[a] \notin {"none", "gone"}}
    /\ Ascending(activityStack)

\* What the surface of an activity says of its camera.
HolderInv(a) ==
    /\ life[a] = "none" => surface[a] = "none"
    /\ surface[a] = "there" => life[a] \in {"running", "finishing"}
    /\ surface[a] = "lost" => ~camera[a]
    /\ camera[a] /\ life[a] \in {"stopped", "gone"} => surface[a] \in {"none", "stuck"}
    /\ alive /\ surface[a] = "there" => camera[a]

CameraInv ==
    /\ \A a, b \in Activities : camera[a] /\ camera[b] => a = b
    /\ \A a \in Activities : HolderInv(a)

\* A recording has its worker or its task, or will get it at once.
ServedInv == \A a \in Activities :
    audio[a] => Served(a) \/ (ui = "start" /\ a = engine)

IInv == TypeOK /\ LifeInv /\ ButtonInv /\ StackInv /\ CameraInv /\ ServedInv

LEMMA Constants == /\ PoolSize \in Nat /\ MaxActivities \in Nat /\ MaxStarts \in Nat
                   /\ MayFail \in BOOLEAN
  BY ApplicationAssumption

LEMMA InitIInv == Init => IInv
<1> SUFFICES ASSUME Init PROVE IInv
  OBVIOUS
<1>1. << >> \in Seq(Activities) /\ DOMAIN << >> = {} /\ ToSet(<< >>) = {}
  BY DEF ToSet
<1>2. TypeOK
  BY <1>1, Constants DEF Init, TypeOK
<1>3. LifeInv
  BY Constants DEF Init, LifeInv, Activities
<1>4. ButtonInv
  BY DEF Init, ButtonInv
<1>5. StackInv
  BY <1>1 DEF Init, StackInv, Ascending
<1>6. CameraInv
  BY DEF Init, CameraInv, HolderInv
<1>7. ServedInv
  BY DEF Init, ServedInv
<1> QED
  BY <1>2, <1>3, <1>4, <1>5, <1>6, <1>7 DEF IInv

-----------------------------------------------------------------------------
(* The activity and its surface.                                           *)

\* The new activity goes on top of the stack, and nobody else has the camera.
LEMMA Creation ==
  ASSUME IInv, UiFree, created < MaxActivities,
         NEW stack \in Seq(Activities), Ascending(stack),
         ToSet(stack) \subseteq ToSet(activityStack),
         NEW held \in [Activities -> BOOLEAN],
         \A a \in Activities : held[a] => camera[a],
         OnCreate(created + 1, stack, held)
  PROVE  /\ created' = created + 1 /\ engine' = created' /\ created' \in Activities
         /\ activityStack' \in Seq(Activities) /\ Ascending(activityStack')
         /\ ToSet(activityStack') = ToSet(stack) \cup {created'}
         /\ camera' \in [Activities -> BOOLEAN]
         /\ \A a \in Activities : /\ a # created' => camera'[a] = held[a]
                                  /\ camera'[created'] => ~held[a]
<1>1. created' = created + 1 /\ engine' = created' /\ created' \in Activities
      /\ created \in Nat
  BY Constants DEF OnCreate, IInv, TypeOK, Activities
<1>2. \A b \in ToSet(stack) : b < created'
  <2>1. \A b \in ToSet(activityStack) : b \in Activities /\ life[b] # "none"
    BY DEF IInv, StackInv
  <2> QED
    BY <1>1, <2>1, Constants DEF IInv, LifeInv, Activities
<1>3. /\ activityStack' \in Seq(Activities) /\ Ascending(activityStack')
      /\ ToSet(activityStack') = ToSet(stack) \cup {created'}
  BY <1>1, <1>2, Push DEF OnCreate
<1>4. PICK open \in MayOpen(held) : camera' = [held EXCEPT ![created + 1] = open]
  BY DEF OnCreate
<1>5. open \in BOOLEAN /\ \A a \in Activities : open => ~held[a]
  BY <1>4 DEF MayOpen, Outcomes
<1>6. /\ camera' \in [Activities -> BOOLEAN]
      /\ \A a \in Activities : a # created' => camera'[a] = held[a]
      /\ camera'[created'] = open
  BY <1>1, <1>4, <1>5
<1> QED
  BY <1>1, <1>3, <1>5, <1>6

LEMMA LaunchStep ==
  ASSUME IInv, Launch
  PROVE  IInv'
<1>1. /\ created' = created + 1 /\ engine' = created' /\ created' \in Activities
      /\ activityStack' \in Seq(Activities) /\ Ascending(activityStack')
      /\ ToSet(activityStack') = ToSet(activityStack) \cup {created'}
      /\ camera' \in [Activities -> BOOLEAN]
      /\ \A a \in Activities : /\ a # created' => camera'[a] = camera[a]
                               /\ camera'[created'] => ~camera[a]
  BY Creation DEF IInv, TypeOK, StackInv, Launch
<1>2. /\ life' = [life EXCEPT ![created'] = "running"]
      /\ \A a \in Activities : life[a] \in {"none", "finishing", "gone"}
      /\ ui = "idle"
      /\ UNCHANGED <<surface, button, video, audio, prepared, started, recorder, ui, pool, alive>>
  BY DEF Launch, UiFree
<1>3. TypeOK'
  BY <1>1, <1>2 DEF IInv, TypeOK, Activities, pool
<1>4. created \in Nat /\ \A a \in Activities : a \in Nat
  BY Constants DEF IInv, TypeOK, Activities
<1>5. \A a \in Activities : life'[a] = IF a = created' THEN "running" ELSE life[a]
  BY <1>1, <1>2 DEF IInv, TypeOK
<1>6. life[created'] = "none"
  BY <1>1, <1>4 DEF IInv, LifeInv
<1>7. LifeInv'
  BY <1>1, <1>2, <1>4, <1>5 DEF IInv, LifeInv
<1>8. ButtonInv'
  BY <1>2 DEF IInv, ButtonInv
<1>9. StackInv'
  BY <1>1, <1>5, <1>6 DEF IInv, StackInv
<1>10. CameraInv'
  <2>1. ASSUME NEW b \in Activities PROVE HolderInv(b)'
    <3>1. surface'[b] = surface[b] /\ (b # created' => camera'[b] = camera[b])
      BY <1>1, <1>2
    <3>2. surface[created'] = "none"
      BY <1>1, <1>6 DEF IInv, CameraInv, HolderInv
    <3> QED
      BY <1>1, <1>2, <1>5, <3>1, <3>2 DEF IInv, CameraInv, HolderInv
  <2> QED
    BY <1>1, <2>1 DEF IInv, CameraInv
<1>11. ServedInv'
  BY <1>2 DEF IInv, ServedInv, Served, pool
<1> QED
  BY <1>3, <1>7, <1>8, <1>9, <1>10, <1>11 DEF IInv

\* What is left of surfaces and cameras when a surface goes.
LEMMA Losing ==
  ASSUME IInv, NEW a \in Activities, NEW freed \in BOOLEAN
  PROVE  /\ Lost(a, freed) \in [Activities -> {"none", "there", "lost", "stuck"}]
         /\ Released(a, freed) \in [Activities -> BOOLEAN]
         /\ \A b \in Activities : Released(a, freed)[b] => camera[b]
         /\ \A b \in Activities : b # a => Lost(a, freed)[b] = surface[b]
                                         /\ Released(a, freed)[b] = camera[b]
         /\ Released(a, freed)[a] => Lost(a, freed)[a] \in {"none", "stuck"}
         /\ Lost(a, freed)[a] # "there"
         /\ Lost(a, freed)[a] = "none" => surface[a] = "none"
<1>1. camera \in [Activities -> BOOLEAN] /\ surface \in [Activities -> {"none", "there", "lost", "stuck"}]
  BY DEF IInv, TypeOK
<1>2. /\ Released(a, freed) \in [Activities -> BOOLEAN]
      /\ \A b \in Activities :
           Released(a, freed)[b] <=> camera[b] /\ (b = a => ~(surface[a] = "there" /\ freed))
  BY <1>1 DEF Released
<1>3. /\ Lost(a, freed) \in [Activities -> {"none", "there", "lost", "stuck"}]
      /\ \A b \in Activities : b # a => Lost(a, freed)[b] = surface[b]
  BY <1>1 DEF Lost
<1>4. /\ surface[a] # "there" => Lost(a, freed)[a] = surface[a]
      /\ surface[a] = "there" =>
           Lost(a, freed)[a] = IF camera[a] /\ ~freed THEN "stuck" ELSE "lost"
  BY <1>1 DEF Lost
<1>5. surface[a] = "lost" => ~camera[a]
  BY DEF IInv, CameraInv, HolderInv
<1> QED
  BY <1>1, <1>2, <1>3, <1>4, <1>5

LEMMA RotateStep ==
  ASSUME IInv, NEW a \in Activities, Rotate(a)
  PROVE  IInv'
<1>1. /\ UiFree /\ created < MaxActivities /\ life[a] = "running" /\ ui = "idle"
      /\ life' = [life EXCEPT ![a] = "gone", ![created'] = "running"]
      /\ UNCHANGED <<button, video, audio, prepared, started, recorder, ui, pool, alive>>
  BY DEF Rotate, UiFree
<1>0. PICK freed \in BOOLEAN : /\ OnCreate(created + 1, finishActivity(a), Released(a, freed))
                               /\ surface' = Lost(a, freed)
  BY DEF Rotate, Outcomes
<1>2. a \in ToSet(activityStack)
  BY <1>1 DEF IInv, StackInv
<1>3. /\ finishActivity(a) \in Seq(Activities) /\ Ascending(finishActivity(a))
      /\ ToSet(finishActivity(a)) = ToSet(activityStack) \ {a}
  BY <1>2, Removal DEF IInv, TypeOK, StackInv
<1>4. /\ created' = created + 1 /\ engine' = created' /\ created' \in Activities
      /\ activityStack' \in Seq(Activities) /\ Ascending(activityStack')
      /\ ToSet(activityStack') = (ToSet(activityStack) \ {a}) \cup {created'}
      /\ camera' \in [Activities -> BOOLEAN]
      /\ \A b \in Activities : /\ b # created' => camera'[b] = Released(a, freed)[b]
                               /\ camera'[created'] => ~Released(a, freed)[b]
  BY <1>0, <1>1, <1>3, Losing, Creation
<1>5. TypeOK'
  <2>1. life' \in [Activities -> {"none", "running", "stopped", "finishing", "gone"}]
    BY <1>1 DEF IInv, TypeOK
  <2>2. surface' \in [Activities -> {"none", "there", "lost", "stuck"}]
    BY <1>0, Losing
  <2> QED
    BY <1>1, <1>4, <2>1, <2>2 DEF IInv, TypeOK, Activities, pool
<1>6. created \in Nat /\ \A b \in Activities : b \in Nat
  BY Constants DEF IInv, TypeOK, Activities
<1>7. a = created /\ life[created'] = "none" /\ a # created'
  BY <1>1, <1>4, <1>6 DEF IInv, LifeInv
<1>8. \A b \in Activities :
        life'[b] = IF b = created' THEN "running" ELSE IF b = a THEN "gone" ELSE life[b]
  BY <1>1, <1>4, <1>7 DEF IInv, TypeOK
<1>9. LifeInv'
  <2>1. ASSUME NEW b \in Activities
        PROVE  /\ life'[b] = "none" <=> b > created'
               /\ life'[b] \in {"running", "stopped"} => b = created'
    BY <1>4, <1>6, <1>7, <1>8 DEF IInv, LifeInv
  <2> QED
    BY <1>1, <1>4, <2>1 DEF LifeInv
<1>10. ButtonInv'
  BY <1>1 DEF IInv, ButtonInv
<1>11. StackInv'
  BY <1>4, <1>7, <1>8 DEF IInv, StackInv
<1>12. CameraInv'
  <2>1. \A b \in Activities : Released(a, freed)[b] => camera[b]
    BY Losing
  <2>2. ASSUME NEW b \in Activities, NEW c \in Activities, camera'[b], camera'[c]
        PROVE  b = c
    <3>1. CASE b # created' /\ c # created'
      BY <2>1, <2>2, <3>1, <1>4 DEF IInv, CameraInv
    <3>2. CASE b = created' \/ c = created'
      BY <2>2, <3>2, <1>4
    <3> QED
      BY <3>1, <3>2
  <2>3. surface'[created'] = "none"
    <3>1. surface[created'] = "none"
      BY <1>4, <1>7 DEF IInv, CameraInv, HolderInv
    <3>2. Lost(a, freed)[created'] = surface[created']
      BY <1>4, <1>7, Losing
    <3> QED
      BY <1>0, <3>1, <3>2
  <2>4. ASSUME NEW b \in Activities PROVE HolderInv(b)'
    <3>1. CASE b = created'
      BY <2>3, <3>1, <1>8 DEF HolderInv
    <3>2. CASE b = a
      <4>1. /\ camera'[a] => surface'[a] \in {"none", "stuck"}
            /\ surface'[a] # "there" /\ life'[a] = "gone"
        BY <1>0, <1>4, <1>7, <1>8, Losing
      <4> QED
        BY <3>2, <4>1 DEF HolderInv
    <3>3. CASE b # created' /\ b # a
      <4>1. surface'[b] = surface[b] /\ life'[b] = life[b] /\ camera'[b] = camera[b]
        <5>1. Lost(a, freed)[b] = surface[b] /\ Released(a, freed)[b] = camera[b]
          BY <3>3, Losing
        <5> QED
          BY <3>3, <5>1, <1>0, <1>4, <1>8
      <4> QED
        BY <1>1, <4>1 DEF IInv, CameraInv, HolderInv
    <3> QED
      BY <3>1, <3>2, <3>3
  <2> QED
    BY <2>2, <2>4 DEF CameraInv
<1>13. ServedInv'
  BY <1>1 DEF IInv, ServedInv, Served, pool
<1> QED
  BY <1>5, <1>9, <1>10, <1>11, <1>12, <1>13 DEF IInv

LEMMA SurfaceCreatedStep ==
  ASSUME IInv, NEW a \in Activities, SurfaceCreated(a)
  PROVE  IInv'
<1>1. /\ life[a] = "running" /\ surface' = [surface EXCEPT ![a] = "there"]
      /\ alive' = camera[a]
      /\ UNCHANGED <<created, life, activityStack, camera, flags, recorder, ui, pool>>
  BY DEF SurfaceCreated
<1>2. TypeOK'
  <2>1. alive' \in BOOLEAN /\ surface' \in [Activities -> {"none", "there", "lost", "stuck"}]
    BY <1>1 DEF IInv, TypeOK
  <2> QED
    BY <1>1, <2>1 DEF IInv, TypeOK, flags, pool
<1>3. LifeInv' /\ ButtonInv' /\ StackInv' /\ ServedInv'
  BY <1>1 DEF IInv, LifeInv, ButtonInv, StackInv, ServedInv, Served, flags, pool
<1>4. CameraInv'
  <2>1. \A b \in Activities : surface'[b] = IF b = a THEN "there" ELSE surface[b]
    BY <1>1 DEF IInv, TypeOK
  <2>2. ASSUME NEW b \in Activities PROVE HolderInv(b)'
    <3>1. HolderInv(b) /\ camera'[b] = camera[b] /\ life'[b] = life[b]
      BY <1>1 DEF IInv, CameraInv
    <3>2. alive' => alive
      BY DEF SurfaceCreated, UiFree
    <3> QED
      BY <1>1, <2>1, <3>1, <3>2 DEF HolderInv
  <2> QED
    BY <1>1, <2>2 DEF IInv, CameraInv
<1> QED
  BY <1>2, <1>3, <1>4 DEF IInv

LEMMA HomeStep ==
  ASSUME IInv, NEW a \in Activities, Home(a)
  PROVE  IInv'
<1>1. /\ life[a] = "running" /\ life' = [life EXCEPT ![a] = "stopped"]
      /\ UNCHANGED <<created, activityStack, flags, recorder, ui, pool, alive>>
  BY DEF Home
<1>0. PICK freed \in BOOLEAN : surface' = Lost(a, freed) /\ camera' = Released(a, freed)
  BY DEF Home, Outcomes
<1>2. TypeOK'
  <2>1. /\ life' \in [Activities -> {"none", "running", "stopped", "finishing", "gone"}]
        /\ surface' \in [Activities -> {"none", "there", "lost", "stuck"}]
        /\ camera' \in [Activities -> BOOLEAN]
    BY <1>0, <1>1, Losing DEF IInv, TypeOK
  <2> QED
    BY <1>1, <2>1 DEF IInv, TypeOK, flags, pool
<1>3. \A b \in Activities : life'[b] = IF b = a THEN "stopped" ELSE life[b]
  BY <1>1 DEF IInv, TypeOK
<1>4. LifeInv' /\ ButtonInv' /\ ServedInv'
  <2>1. LifeInv'
    BY <1>1, <1>3 DEF IInv, LifeInv, flags
  <2>2. ButtonInv' /\ ServedInv'
    BY <1>1 DEF IInv, ButtonInv, ServedInv, Served, flags, pool
  <2> QED
    BY <2>1, <2>2
<1>5. StackInv'
  <2>1. \A b \in Activities : life[b] \notin {"none", "gone"} <=> life'[b] \notin {"none", "gone"}
    BY <1>1, <1>3
  <2>2. {b \in Activities : life[b] \notin {"none", "gone"}}
          = {b \in Activities : life'[b] \notin {"none", "gone"}}
    BY <2>1
  <2> QED
    BY <1>1, <2>2 DEF IInv, StackInv
<1>6. CameraInv'
  <2>1. \A b \in Activities : camera'[b] => camera[b]
    BY <1>0, Losing
  <2>2. \A b, c \in Activities : camera'[b] /\ camera'[c] => b = c
    BY <2>1 DEF IInv, CameraInv
  <2>3. ASSUME NEW b \in Activities PROVE HolderInv(b)'
    <3>1. CASE b = a
      BY <1>0, <1>1, <1>3, <3>1, Losing DEF HolderInv
    <3>2. CASE b # a
      <4>1. Lost(a, freed)[b] = surface[b] /\ Released(a, freed)[b] = camera[b]
        BY <3>2, Losing
      <4>2. surface'[b] = surface[b] /\ camera'[b] = camera[b] /\ life'[b] = life[b]
        BY <1>0, <1>3, <3>2, <4>1
      <4>3. HolderInv(b) /\ alive' = alive
        BY <1>1 DEF IInv, CameraInv
      <4> QED
        BY <4>2, <4>3 DEF HolderInv
    <3> QED
      BY <3>1, <3>2
  <2> QED
    BY <2>2, <2>3 DEF CameraInv
<1> QED
  BY <1>2, <1>4, <1>5, <1>6 DEF IInv

LEMMA ReturnStep ==
  ASSUME IInv, NEW a \in Activities, Return(a)
  PROVE  IInv'
<1>1. /\ life[a] = "stopped" /\ life' = [life EXCEPT ![a] = "running"]
      /\ UNCHANGED <<created, activityStack, surface, camera, flags, recorder, ui, pool, alive>>
  BY DEF Return
<1>2. TypeOK'
  <2>1. life' \in [Activities -> {"none", "running", "stopped", "finishing", "gone"}]
    BY <1>1 DEF IInv, TypeOK
  <2> QED
    BY <1>1, <2>1 DEF IInv, TypeOK, flags, pool
<1>3. \A b \in Activities : life'[b] = IF b = a THEN "running" ELSE life[b]
  BY <1>1 DEF IInv, TypeOK
<1>4. LifeInv' /\ ButtonInv' /\ ServedInv'
  <2>1. LifeInv'
    BY <1>1, <1>3 DEF IInv, LifeInv, flags
  <2>2. ButtonInv' /\ ServedInv'
    BY <1>1 DEF IInv, ButtonInv, ServedInv, Served, flags, pool
  <2> QED
    BY <2>1, <2>2
<1>5. StackInv' /\ CameraInv'
  BY <1>1, <1>3 DEF IInv, StackInv, CameraInv, HolderInv
<1> QED
  BY <1>2, <1>4, <1>5 DEF IInv

LEMMA BackStep ==
  ASSUME IInv, NEW a \in Activities, Back(a)
  PROVE  IInv'
<1>1. /\ life[a] = "running" /\ life' = [life EXCEPT ![a] = "finishing"]
      /\ UNCHANGED <<created, activityStack, surface, camera, flags, recorder, ui, pool, alive>>
  BY DEF Back
<1>2. TypeOK'
  <2>1. life' \in [Activities -> {"none", "running", "stopped", "finishing", "gone"}]
    BY <1>1 DEF IInv, TypeOK
  <2> QED
    BY <1>1, <2>1 DEF IInv, TypeOK, flags, pool
<1>3. \A b \in Activities : life'[b] = IF b = a THEN "finishing" ELSE life[b]
  BY <1>1 DEF IInv, TypeOK
<1>4. LifeInv' /\ ButtonInv' /\ ServedInv'
  <2>1. LifeInv'
    BY <1>1, <1>3 DEF IInv, LifeInv, flags
  <2>2. ButtonInv' /\ ServedInv'
    BY <1>1 DEF IInv, ButtonInv, ServedInv, Served, flags, pool
  <2> QED
    BY <2>1, <2>2
<1>5. StackInv' /\ CameraInv'
  BY <1>1, <1>3 DEF IInv, StackInv, CameraInv, HolderInv
<1> QED
  BY <1>2, <1>4, <1>5 DEF IInv

LEMMA DestroyStep ==
  ASSUME IInv, NEW a \in Activities, Destroy(a)
  PROVE  IInv'
<1>1. /\ life[a] \in {"stopped", "finishing"} /\ life' = [life EXCEPT ![a] = "gone"]
      /\ activityStack' = finishActivity(a)
      /\ UNCHANGED <<created, flags, recorder, ui, pool, alive>>
  BY DEF Destroy
<1>0. PICK freed \in BOOLEAN : surface' = Lost(a, freed) /\ camera' = Released(a, freed)
  BY DEF Destroy, Outcomes
<1>2. a \in ToSet(activityStack)
  BY <1>1 DEF IInv, StackInv
<1>3. /\ activityStack' \in Seq(Activities) /\ Ascending(activityStack')
      /\ ToSet(activityStack') = ToSet(activityStack) \ {a}
  BY <1>1, <1>2, Removal DEF IInv, TypeOK, StackInv
<1>4. TypeOK'
  <2>1. /\ life' \in [Activities -> {"none", "running", "stopped", "finishing", "gone"}]
        /\ surface' \in [Activities -> {"none", "there", "lost", "stuck"}]
        /\ camera' \in [Activities -> BOOLEAN]
    BY <1>0, <1>1, Losing DEF IInv, TypeOK
  <2> QED
    BY <1>1, <1>3, <2>1 DEF IInv, TypeOK, flags, pool
<1>5. \A b \in Activities : life'[b] = IF b = a THEN "gone" ELSE life[b]
  BY <1>1 DEF IInv, TypeOK
<1>6. LifeInv' /\ ButtonInv' /\ ServedInv'
  <2>1. LifeInv'
    BY <1>1, <1>5 DEF IInv, LifeInv, flags
  <2>2. ButtonInv' /\ ServedInv'
    BY <1>1 DEF IInv, ButtonInv, ServedInv, Served, flags, pool
  <2> QED
    BY <2>1, <2>2
<1>7. StackInv'
  BY <1>3, <1>5 DEF IInv, StackInv
<1>8. CameraInv'
  <2>1. \A b \in Activities : camera'[b] => camera[b]
    BY <1>0, Losing
  <2>2. \A b, c \in Activities : camera'[b] /\ camera'[c] => b = c
    BY <2>1 DEF IInv, CameraInv
  <2>3. ASSUME NEW b \in Activities PROVE HolderInv(b)'
    <3>1. CASE b = a
      BY <1>0, <1>1, <1>5, <3>1, Losing DEF HolderInv
    <3>2. CASE b # a
      <4>1. Lost(a, freed)[b] = surface[b] /\ Released(a, freed)[b] = camera[b]
        BY <3>2, Losing
      <4>2. surface'[b] = surface[b] /\ camera'[b] = camera[b] /\ life'[b] = life[b]
        BY <1>0, <1>5, <3>2, <4>1
      <4>3. HolderInv(b) /\ alive' = alive
        BY <1>1 DEF IInv, CameraInv
      <4> QED
        BY <4>2, <4>3 DEF HolderInv
    <3> QED
      BY <3>1, <3>2
  <2> QED
    BY <2>2, <2>3 DEF CameraInv
<1> QED
  BY <1>4, <1>6, <1>7, <1>8 DEF IInv

LEMMA FinalizeStep ==
  ASSUME IInv, NEW a \in Activities, Finalize(a)
  PROVE  IInv'
<1>1. /\ camera' = [camera EXCEPT ![a] = FALSE]
      /\ UNCHANGED <<created, life, activityStack, surface, flags, recorder, ui, pool, alive>>
  BY DEF Finalize
<1>2. /\ camera' \in [Activities -> BOOLEAN]
      /\ \A b \in Activities : camera'[b] => camera[b]
  BY <1>1 DEF IInv, TypeOK
<1>3. TypeOK'
  BY <1>1, <1>2 DEF IInv, TypeOK, flags, pool
<1>4. LifeInv' /\ ButtonInv' /\ StackInv' /\ ServedInv'
  BY <1>1 DEF IInv, LifeInv, ButtonInv, StackInv, ServedInv, Served, flags, pool
<1>5. CameraInv'
  <2>1. \A b \in Activities : camera'[b] = (b # a /\ camera[b])
    BY <1>1 DEF IInv, TypeOK
  <2>2. life[a] = "gone"
    BY DEF Finalize
  <2>3. ASSUME NEW b \in Activities PROVE HolderInv(b)'
    <3>1. HolderInv(b) /\ surface'[b] = surface[b] /\ life'[b] = life[b] /\ alive' = alive
      BY <1>1 DEF IInv, CameraInv
    <3> QED
      BY <2>1, <2>2, <3>1 DEF HolderInv
  <2> QED
    BY <2>1, <2>3 DEF IInv, CameraInv
<1> QED
  BY <1>3, <1>4, <1>5 DEF IInv

-----------------------------------------------------------------------------
(* The button and the pool.                                                *)

\* The running activity's button and the flags of LiveEngine's pushers are one.
LEMMA OnScreen ==
  ASSUME IInv, NEW a \in Activities, life[a] = "running"
  PROVE  engine = a /\ button[a] = video[a] /\ button[a] = audio[a]
BY DEF IInv, LifeInv, ButtonInv

LEMMA StartRecordStep ==
  ASSUME IInv, NEW a \in Activities, StartRecord(a)
  PROVE  IInv'
<1>1. engine = a /\ ~video[a] /\ ~audio[a]
  BY OnScreen DEF StartRecord
<1>2. /\ prepared < MaxStarts /\ life[a] = "running"
      /\ button' = [button EXCEPT ![a] = TRUE]
      /\ video' = [video EXCEPT ![a] = TRUE]
      /\ audio' = [audio EXCEPT ![a] = TRUE]
      /\ prepared' = prepared + 1 /\ started' = started + 1 /\ ui' = "start"
      /\ UNCHANGED <<screen, engine, recorder, pool, alive>>
  BY <1>1 DEF StartRecord
<1>3. TypeOK'
  <2>1. {button', video', audio'} \subseteq [Activities -> BOOLEAN]
    BY <1>2 DEF IInv, TypeOK
  <2>2. prepared' \in 0 .. MaxStarts /\ started' \in 0 .. MaxStarts
    BY <1>2, Constants DEF IInv, TypeOK, ButtonInv
  <2> QED
    BY <1>2, <2>1, <2>2 DEF IInv, TypeOK, screen, pool
<1>4. LifeInv'
  <2>1. created > 0
    BY <1>2, Constants DEF IInv, TypeOK, LifeInv, Activities
  <2> QED
    BY <1>2, <2>1 DEF IInv, LifeInv, screen
<1>5. ButtonInv'
  BY <1>2 DEF IInv, ButtonInv
<1>6. StackInv' /\ CameraInv'
  BY <1>2 DEF IInv, StackInv, CameraInv, HolderInv, screen, pool
<1>7. ServedInv'
  BY <1>1, <1>2 DEF IInv, TypeOK, ServedInv, Served, pool
<1> QED
  BY <1>3, <1>4, <1>5, <1>6, <1>7 DEF IInv

LEMMA StopRecordStep ==
  ASSUME IInv, NEW a \in Activities, StopRecord(a)
  PROVE  IInv'
<1>1. engine = a
  BY OnScreen DEF StopRecord
<1>2. /\ life[a] = "running" /\ ui = "idle" /\ ui' = "stop"
      /\ button' = [button EXCEPT ![a] = FALSE]
      /\ video' = [video EXCEPT ![a] = FALSE]
      /\ audio' = [audio EXCEPT ![a] = FALSE]
      /\ UNCHANGED <<screen, engine, prepared, started, recorder, pool, alive>>
  BY <1>1 DEF StopRecord, UiFree
<1>3. TypeOK'
  <2>1. {button', video', audio'} \subseteq [Activities -> BOOLEAN]
    BY <1>2 DEF IInv, TypeOK
  <2> QED
    BY <1>2, <2>1 DEF IInv, TypeOK, screen, pool
<1>4. LifeInv'
  <2>1. created > 0
    BY <1>2, Constants DEF IInv, TypeOK, LifeInv, Activities
  <2> QED
    BY <1>2, <2>1 DEF IInv, LifeInv, screen
<1>5. ButtonInv'
  BY <1>2 DEF IInv, ButtonInv
<1>6. StackInv' /\ CameraInv'
  BY <1>2 DEF IInv, StackInv, CameraInv, HolderInv, screen, pool
<1>7. ServedInv'
  <2>1. ASSUME NEW b \in Activities, audio'[b] PROVE audio[b] /\ Served(b)
    BY <1>2, <2>1 DEF IInv, TypeOK, ServedInv
  <2> QED
    BY <1>2, <2>1 DEF ServedInv, Served, pool
<1> QED
  BY <1>3, <1>4, <1>5, <1>6, <1>7 DEF IInv

LEMMA StartSoundStep ==
  ASSUME IInv, StartSound
  PROVE  IInv'
<1>0. CASE alive' = FALSE /\ UNCHANGED <<recorder, tasks, ui, screen, flags, worker, reading>>
  <2>1. TypeOK' /\ LifeInv' /\ ButtonInv' /\ ServedInv'
    BY <1>0 DEF IInv, TypeOK, LifeInv, ButtonInv, ServedInv, Served, screen, flags
  <2>2. StackInv' /\ CameraInv'
    BY <1>0 DEF IInv, StackInv, CameraInv, HolderInv, screen
  <2> QED
    BY <2>1, <2>2 DEF IInv
<1> SUFFICES ASSUME ~(alive' = FALSE /\ UNCHANGED <<recorder, tasks, ui, screen, flags, worker, reading>>)
             PROVE  IInv'
  BY <1>0
<1>1. /\ ui = "start" /\ ui' = "idle" /\ tasks' = Append(tasks, engine)
      /\ UNCHANGED <<screen, flags, worker, reading, alive>>
      /\ \E granted \in Outcomes : recorder' = [recorder EXCEPT ![engine] = granted]
  BY DEF StartSound
<1>2. engine \in Activities
  BY <1>1, Constants DEF IInv, TypeOK, LifeInv, Activities
<1>3. recorder' \in [Activities -> BOOLEAN]
  <2>1. PICK granted \in Outcomes : recorder' = [recorder EXCEPT ![engine] = granted]
    BY <1>1
  <2>2. granted \in BOOLEAN
    BY DEF Outcomes
  <2> QED
    BY <2>1, <2>2 DEF IInv, TypeOK
<1>4. /\ tasks' \in Seq(Activities) /\ engine \in ToSet(tasks')
      /\ \A b \in ToSet(tasks) : b \in ToSet(tasks')
  <2>1. tasks \in Seq(Activities) /\ DOMAIN tasks = 1 .. Len(tasks) /\ Len(tasks) \in Nat
    BY LenProperties DEF IInv, TypeOK
  <2>2. /\ tasks' \in Seq(Activities) /\ Len(tasks') = Len(tasks) + 1
        /\ \A k \in 1 .. Len(tasks) : tasks'[k] = tasks[k]
        /\ tasks'[Len(tasks) + 1] = engine
    BY <1>1, <1>2, <2>1, AppendProperties
  <2>3. DOMAIN tasks' = 1 .. Len(tasks) + 1
    BY <2>2, LenProperties
  <2>4. Len(tasks) + 1 \in DOMAIN tasks' /\ \A k \in DOMAIN tasks : k \in DOMAIN tasks'
    BY <2>1, <2>3
  <2> QED
    BY <2>1, <2>2, <2>4 DEF ToSet
<1>5. TypeOK'
  BY <1>1, <1>3, <1>4 DEF IInv, TypeOK, screen, flags
<1>6. LifeInv' /\ ButtonInv' /\ StackInv' /\ CameraInv'
  BY <1>1 DEF IInv, LifeInv, ButtonInv, StackInv, CameraInv, HolderInv, screen, flags
<1>7. ServedInv'
  <2>1. ASSUME NEW b \in Activities, audio[b] PROVE Served(b)'
    BY <1>1, <1>4, <2>1 DEF IInv, ServedInv, Served
  <2> QED
    BY <1>1, <2>1 DEF ServedInv, flags
<1> QED
  BY <1>5, <1>6, <1>7 DEF IInv

LEMMA StopSoundStep ==
  ASSUME IInv, StopSound
  PROVE  IInv'
<1>1. /\ ui = "stop" /\ ui' = "idle"
      /\ recorder' = [recorder EXCEPT ![engine] = FALSE]
      /\ UNCHANGED <<screen, flags, pool, alive>>
  BY DEF StopSound
<1>2. TypeOK'
  <2>1. recorder' \in [Activities -> BOOLEAN]
    BY <1>1 DEF IInv, TypeOK
  <2> QED
    BY <1>1, <2>1 DEF IInv, TypeOK, screen, flags, pool
<1>3. LifeInv' /\ ButtonInv' /\ StackInv' /\ CameraInv' /\ ServedInv'
  BY <1>1 DEF IInv, LifeInv, ButtonInv, StackInv, CameraInv, HolderInv, ServedInv, Served,
              screen, flags, pool
<1> QED
  BY <1>2, <1>3 DEF IInv

\* A pool thread changes nothing but what the pool does, and drops no recording.
LEMMA PoolStep ==
  ASSUME IInv, NEW t \in Threads, PoolThread(t)
  PROVE  IInv'
<1>1. SUFFICES ASSUME UNCHANGED <<screen, flags, recorder, ui>>, alive
               PROVE  IInv'
  BY DEF PoolThread, Take, Test, Read
<1>2. LifeInv' /\ ButtonInv' /\ StackInv' /\ CameraInv'
  BY <1>1 DEF IInv, LifeInv, ButtonInv, StackInv, CameraInv, HolderInv, screen, flags
<1>3. CASE Take(t)
  <2>1. /\ worker[t] = 0 /\ tasks # << >>
        /\ worker' = [worker EXCEPT ![t] = Head(tasks)] /\ tasks' = Tail(tasks)
        /\ UNCHANGED <<reading, alive>>
    BY <1>3 DEF Take
  <2>2. tasks \in Seq(Activities) /\ DOMAIN tasks = 1 .. Len(tasks) /\ Len(tasks) \in Nat
    BY LenProperties DEF IInv, TypeOK
  <2>3. /\ Head(tasks) \in Activities /\ tasks' \in Seq(Activities)
        /\ Len(tasks') = Len(tasks) - 1
        /\ \A k \in 1 .. Len(tasks') : tasks'[k] = tasks[k + 1]
    BY <2>1, <2>2, HeadTailProperties
  <2>4. DOMAIN tasks' = 1 .. Len(tasks) - 1
    BY <2>3, LenProperties
  <2>5. ASSUME NEW k \in DOMAIN tasks PROVE tasks[k] = worker'[t] \/ tasks[k] \in ToSet(tasks')
    <3>1. CASE k = 1
      BY <2>1, <3>1 DEF IInv, TypeOK
    <3>2. CASE k # 1
      <4>1. k - 1 \in 1 .. Len(tasks) - 1 /\ (k - 1) + 1 = k
        BY <3>2, <2>2
      <4> QED
        BY <4>1, <2>3, <2>4 DEF ToSet
    <3> QED
      BY <3>1, <3>2
  <2>6. TypeOK'
    <3>1. worker' \in [Threads -> Activities \cup {0}]
      BY <2>1, <2>3 DEF IInv, TypeOK
    <3> QED
      BY <1>1, <2>1, <2>3, <3>1 DEF IInv, TypeOK, screen, flags
  <2>7. ASSUME NEW b \in Activities, Served(b) PROVE Served(b)'
    <3>1. CASE b \in ToSet(tasks)
      BY <3>1, <2>5 DEF ToSet, Served
    <3>2. ASSUME NEW u \in Threads, worker[u] = b PROVE worker'[u] = b
      <4>1. b # 0
        BY Constants DEF Activities
      <4> QED
        BY <2>1, <3>2, <4>1 DEF IInv, TypeOK
    <3> QED
      BY <2>7, <3>1, <3>2 DEF Served
  <2>8. ServedInv'
    BY <1>1, <2>7 DEF IInv, ServedInv, flags
  <2> QED
    BY <1>2, <2>6, <2>8 DEF IInv
<1>4. CASE Test(t)
  <2>1. /\ worker[t] # 0 /\ UNCHANGED <<tasks, alive>>
        /\ \/ reading' = [reading EXCEPT ![t] = TRUE] /\ UNCHANGED worker
           \/ /\ ~audio[worker[t]] /\ worker' = [worker EXCEPT ![t] = 0]
              /\ UNCHANGED reading
    BY <1>4 DEF Test
  <2>2. TypeOK'
    <3>1. worker' \in [Threads -> Activities \cup {0}] /\ reading' \in [Threads -> BOOLEAN]
      BY <2>1 DEF IInv, TypeOK
    <3> QED
      BY <1>1, <2>1, <3>1 DEF IInv, TypeOK, screen, flags
  <2>3. ASSUME NEW b \in Activities, audio[b], Served(b) PROVE Served(b)'
    <3>1. ASSUME NEW u \in Threads, worker[u] = b PROVE worker'[u] = b
      BY <2>1, <2>3, <3>1 DEF IInv, TypeOK
    <3> QED
      BY <2>1, <2>3, <3>1 DEF Served
  <2>4. ServedInv'
    BY <1>1, <2>3 DEF IInv, ServedInv, flags
  <2> QED
    BY <1>2, <2>2, <2>4 DEF IInv
<1>5. CASE Read(t)
  <2>1. /\ reading' = [reading EXCEPT ![t] = FALSE] /\ UNCHANGED <<tasks, worker>>
        /\ alive' \in BOOLEAN
    BY <1>5 DEF Read
  <2>2. TypeOK'
    <3>1. reading' \in [Threads -> BOOLEAN]
      BY <2>1 DEF IInv, TypeOK
    <3> QED
      BY <1>1, <2>1, <3>1 DEF IInv, TypeOK, screen, flags
  <2>3. ServedInv'
    BY <1>1, <2>1 DEF IInv, ServedInv, Served, flags
  <2> QED
    BY <1>2, <2>2, <2>3 DEF IInv
<1> QED
  BY <1>3, <1>4, <1>5 DEF PoolThread

-----------------------------------------------------------------------------
(* The theorems.                                                           *)

LEMMA NextIInv == IInv /\ [Next]_vars => IInv'
<1> SUFFICES ASSUME IInv, [Next]_vars PROVE IInv'
  OBVIOUS
<1>1. CASE UNCHANGED vars
  BY <1>1 DEF IInv, TypeOK, LifeInv, ButtonInv, StackInv, CameraInv, HolderInv, ServedInv, Served,
              vars, screen, flags, pool
<1>2. CASE Launch \/ StartSound \/ StopSound
  BY <1>2, LaunchStep, StartSoundStep, StopSoundStep
<1>3. ASSUME NEW a \in Activities,
             \/ Rotate(a) \/ SurfaceCreated(a) \/ Home(a) \/ Return(a) \/ Back(a)
             \/ Destroy(a) \/ Finalize(a) \/ StartRecord(a) \/ StopRecord(a)
      PROVE  IInv'
  BY <1>3, RotateStep, SurfaceCreatedStep, HomeStep, ReturnStep, BackStep, DestroyStep,
     FinalizeStep, StartRecordStep, StopRecordStep
<1>4. ASSUME NEW t \in Threads, PoolThread(t) PROVE IInv'
  BY <1>4, PoolStep
<1> QED
  BY <1>1, <1>2, <1>3, <1>4 DEF Next

LEMMA Inductive == Spec => []IInv
<1> QED
  BY InitIInv, NextIInv, PTL DEF Spec

\* Every variable keeps its type.
THEOREM TypeCorrect == Spec => []TypeOK
<1>1. IInv => TypeOK
  BY DEF IInv
<1> QED
  BY <1>1, Inductive, PTL

\* However often the device is turned and the activity left, finished and started
\* again, the button on the screen shows whether the pushers it works on record.
THEOREM ButtonTells == Spec => []ButtonTrue
<1>1. IInv => ButtonTrue
  BY OnScreen DEF ButtonTrue
<1> QED
  BY <1>1, Inductive, PTL

\* Each call of prepareRecord belongs to a recording that is started.
THEOREM NoIdlePrepare == Spec => []PreparedIsStarted
<1>1. IInv => PreparedIsStarted
  BY DEF IInv, ButtonInv, PreparedIsStarted
<1> QED
  BY <1>1, Inductive, PTL

\* The stack holds the living activities in order, the one on the screen on top.
THEOREM StackKept == Spec => []StackTrue
<1>1. ASSUME IInv PROVE StackTrue
  <2>1. activityStack \in Seq(Activities)
    BY <1>1 DEF IInv, TypeOK
  <2>2. DOMAIN activityStack = 1 .. Len(activityStack) /\ Len(activityStack) \in Nat
    BY <2>1, LenProperties
  <2>3. ASSUME NEW a \in Activities, life[a] = "running" PROVE Last(activityStack) = a
    <3>1. a = created
      BY <1>1, <2>3 DEF IInv, LifeInv
    <3>2. PICK k \in 1 .. Len(activityStack) : activityStack[k] = a
      BY <1>1, <2>2, <2>3 DEF IInv, StackInv, ToSet
    <3>3. Len(activityStack) \in 1 .. Len(activityStack)
      BY <2>2
    <3>4. activityStack[Len(activityStack)] \in ToSet(activityStack)
      BY <2>2, <3>3 DEF ToSet
    <3>5. activityStack[Len(activityStack)] <= created
      BY <1>1, <3>4, Constants DEF IInv, TypeOK, StackInv, LifeInv, Activities
    <3>6. k = Len(activityStack)
      <4>1. activityStack[Len(activityStack)] \in Int /\ a \in Int
        BY <1>1, <3>4, Constants DEF IInv, StackInv, Activities
      <4>2. k < Len(activityStack) => activityStack[k] < activityStack[Len(activityStack)]
        BY <1>1, <2>2, <3>3 DEF IInv, StackInv, Ascending
      <4>3. ~(k < Len(activityStack))
        BY <4>1, <4>2, <3>1, <3>2, <3>5
      <4> DEFINE n == Len(activityStack)
      <4>4. k \in 1 .. n /\ n \in Nat /\ ~(k < n)
        BY <4>3, <3>2, <2>2
      <4> HIDE DEF n
      <4>5. k = n
        BY <4>4
      <4> QED
        BY <4>5 DEF n
    <3> QED
      BY <3>2, <3>6 DEF Last
  <2> QED
    BY <1>1, <2>3 DEF IInv, StackInv, Ascending, StackTrue
<1>2. IInv => StackTrue
  BY <1>1
<1> QED
  BY <1>2, Inductive, PTL

\* The camera has one holder: the activity that shows a preview, if one does.  One
\* that has been left gives it up, unless it never had a surface or stopVideo failed.
THEOREM CameraKept == Spec => []CameraFreed
<1>1. IInv => CameraFreed
  BY DEF IInv, CameraInv, HolderInv, CameraFreed
<1> QED
  BY <1>1, Inductive, PTL

\* Between two events every AudioPusher that records has its worker or its task.
THEOREM RecordingServed == Spec => []RecordingIsServed
<1>1. IInv => RecordingIsServed
  BY DEF IInv, ServedInv, RecordingIsServed
<1> QED
  BY <1>1, Inductive, PTL
==============================================================================
