----------------------- MODULE ThreadsafeQueueProofs ------------------------
(***************************************************************************)
(* What holds of threadsafe_queue<T> for any number of threads and any     *)
(* number of elements: the mutex excludes, the queue implements            *)
(* BlockingFifo, and no wakeup is lost.                                    *)
(***************************************************************************)
EXTENDS ThreadsafeQueue, FiniteSetTheorems, TLAPS

-----------------------------------------------------------------------------
(* The inductive invariant.                                                *)

\* The statements executed with the mutex held.
Holding == {"push", "notify", "unlock", "pred", "front", "pop", "try", "copy"}

\* The mutex is held by exactly the thread whose statement needs it.
LockInv == \A t \in Threads : pc[t] \in Holding <=> mut = t

\* Each kind of thread executes the statements of its own operations.
RoleInv == \A t \in Threads :
             /\ pc[t] \in {"push", "notify"} => t \in Producers
             /\ pc[t] \in {"pred", "wait"} => t \in Consumers
             /\ pc[t] \in {"front", "pop"} => t \in Takers
             /\ pc[t] = "try" => t \in Pollers
             /\ pc[t] = "copy" => t \in Copiers
             /\ pc[t] = "empty" => t \in Observers

\* A thread blocked on the condition variable is inside wait(lk).
CondInv == \A c \in data_cond : pc[c] = "wait"

\* Between the test for emptiness and pop() the front element stays put.
HeadInv == \A t \in Takers :
             /\ pc[t] \in {"front", "pop"} => data_queue # << >>
             /\ pc[t] = "pop" => value[t] = Head(data_queue)

\* A push in progress is one that was allowed to begin.
SentInv == \A p \in Producers : pc[p] = "push" => sent[p] < MaxPush

IInv == TypeOK /\ LockInv /\ RoleInv /\ CondInv /\ HeadInv /\ SentInv

-----------------------------------------------------------------------------
\* The initial states satisfy the invariant: nobody is inside the queue.
LEMMA InitIInv == Init => IInv
  BY ThreadsAssumption, DataAssumption
     DEF Init, IInv, TypeOK, LockInv, RoleInv, CondInv, HeadInv, SentInv,
         Threads, Takers, Labels, Holding

\* Every statement of push, wait_and_pop, try_pop, empty() and the copy
\* constructor preserves the invariant.
LEMMA NextIInv == IInv /\ [Next]_vars => IInv'
<1> SUFFICES ASSUME IInv, [Next]_vars PROVE IInv'
  OBVIOUS
<1> USE ThreadsAssumption, DataAssumption
    DEF IInv, TypeOK, LockInv, RoleInv, CondInv, HeadInv, SentInv,
        Threads, Takers, Labels, Holding, GoTo
<1>1. ASSUME NEW p \in Producers, Push(p) PROVE IInv'
  <2>1. CASE PushLock(p)
    BY <2>1 DEF PushLock, Lock
  <2>2. CASE PushItem(p)
    <3>1. <<p, sent[p] + 1>> \in Item
      BY <2>2 DEF PushItem, Item
    <3>2. TypeOK'
      BY <2>2, <3>1 DEF PushItem
    <3>3. HeadInv'
      BY <2>2, <3>1 DEF PushItem
    <3> QED
      BY <2>2, <3>2, <3>3 DEF PushItem
  <2>3. CASE NotifyOne(p)
    BY <2>3 DEF NotifyOne
  <2>4. CASE Unlock(p)
    BY <2>4 DEF Unlock
  <2> QED
    BY <1>1, <2>1, <2>2, <2>3, <2>4 DEF Push
<1>2. ASSUME NEW t \in Takers, Front(t) \/ Pop(t) \/ Unlock(t) PROVE IInv'
  <2>1. CASE Front(t)
    <3>1. Head(data_queue) \in Item
      BY <2>1 DEF Front
    <3> QED
      BY <2>1, <3>1 DEF Front
  <2>2. CASE Pop(t)
    <3>1. Tail(data_queue) \in Seq(Item)
      BY <2>2 DEF Pop
    <3> QED
      BY <2>2, <3>1 DEF Pop
  <2>3. CASE Unlock(t)
    BY <2>3 DEF Unlock
  <2> QED
    BY <1>2, <2>1, <2>2, <2>3
<1>3. ASSUME NEW c \in Consumers, WaitAndPop(c) PROVE IInv'
  <2>1. CASE WaitLock(c)
    BY <2>1 DEF WaitLock, Lock
  <2>2. CASE PredTrue(c)
    BY <2>2 DEF PredTrue
  <2>3. CASE PredFalse(c)
    BY <2>3 DEF PredFalse
  <2>4. CASE Relock(c)
    BY <2>4 DEF Relock, Lock
  <2> QED
    BY <1>2, <1>3, <2>1, <2>2, <2>3, <2>4 DEF WaitAndPop
<1>4. ASSUME NEW c \in Consumers, SpuriousWakeup(c) PROVE IInv'
  BY <1>4 DEF SpuriousWakeup
<1>5. ASSUME NEW t \in Pollers, TryPop(t) PROVE IInv'
  <2>1. CASE TryLock(t)
    BY <2>1 DEF TryLock, Lock
  <2>2. CASE TryNonEmpty(t)
    BY <2>2 DEF TryNonEmpty
  <2>3. CASE TryEmpty(t)
    BY <2>3 DEF TryEmpty
  <2> QED
    BY <1>2, <1>5, <2>1, <2>2, <2>3 DEF TryPop
<1>6. ASSUME NEW o \in Copiers, Copy(o) PROVE IInv'
  <2>1. CASE CopyLock(o)
    BY <2>1 DEF CopyLock, Lock
  <2>2. CASE CopyQueue(o)
    BY <2>2 DEF CopyQueue
  <2>3. CASE Unlock(o)
    BY <2>3 DEF Unlock
  <2> QED
    BY <1>6, <2>1, <2>2, <2>3 DEF Copy
<1>7. ASSUME NEW o \in Observers, Empty(o) PROVE IInv'
  <2>1. CASE EmptyCall(o)
    BY <2>1 DEF EmptyCall
  <2>2. CASE EmptyReturn(o)
    BY <2>2 DEF EmptyReturn
  <2> QED
    BY <1>7, <2>1, <2>2 DEF Empty
<1>8. CASE UNCHANGED vars
  BY <1>8 DEF vars
<1> QED
  BY <1>1, <1>3, <1>4, <1>5, <1>6, <1>7, <1>8 DEF Next

\* The invariant holds in every reachable state.
LEMMA Inductive == Spec => []IInv
  BY InitIInv, NextIInv, PTL DEF Spec

-----------------------------------------------------------------------------
\* Every variable of the queue keeps its type.
THEOREM TypeCorrect == Spec => []TypeOK
<1>1. IInv => TypeOK
  BY DEF IInv
<1> QED
  BY <1>1, Inductive, PTL

\* No two threads in member functions that take the mutex are inside data_queue
\* while one of them changes it.
THEOREM RaceFree == Spec => []NoDataRace
<1>1. IInv => NoDataRace
  BY ThreadsAssumption
     DEF IInv, LockInv, RoleInv, Holding, NoDataRace, InsideTogether, Writing,
         Accessing
<1> QED
  BY <1>1, Inductive, PTL

-----------------------------------------------------------------------------
(* The code implements BlockingFifo: an element enters the abstract queue  *)
(* at data_queue.push and leaves it at data_queue.pop; a failed try_pop    *)
(* takes effect at its test for emptiness; every other statement, and all  *)
(* of the locking and waiting, changes nothing the callers can see.        *)

\* One statement of the code is one abstract operation or none.
LEMMA StepImplementsFifo ==
    IInv /\ [Next]_vars => [Fifo!FifoNext]_(Fifo!fifoVars)
<1> SUFFICES ASSUME IInv, [Next]_vars
             PROVE  Fifo!FifoNext \/ UNCHANGED Fifo!fifoVars
  OBVIOUS
<1> USE DEF Fifo!fifoVars
<1>1. ASSUME NEW p \in Producers, Push(p)
      PROVE  Fifo!FifoNext \/ UNCHANGED Fifo!fifoVars
  <2>1. CASE PushItem(p)
    <3>1. sent[p] < MaxPush
      BY <2>1 DEF PushItem, IInv, SentInv
    <3>2. Fifo!Put(p)
      BY <2>1, <3>1 DEF PushItem, Fifo!Put
    <3> QED
      BY <3>2 DEF Fifo!FifoNext
  <2>2. CASE PushLock(p) \/ NotifyOne(p) \/ Unlock(p)
    BY <2>2 DEF PushLock, Lock, NotifyOne, Unlock
  <2> QED
    BY <1>1, <2>1, <2>2 DEF Push
<1>2. ASSUME NEW t \in Takers, Front(t) \/ Pop(t) \/ Unlock(t)
      PROVE  Fifo!FifoNext \/ UNCHANGED Fifo!fifoVars
  <2>1. CASE Pop(t)
    <3>1. data_queue # << >> /\ value[t] = Head(data_queue)
      BY <2>1 DEF Pop, IInv, HeadInv
    <3>2. Fifo!Take(t)
      BY <2>1, <3>1 DEF Pop, Fifo!Take
    <3> QED
      BY <3>2 DEF Fifo!FifoNext, Fifo!Takers, Takers
  <2>2. CASE Front(t) \/ Unlock(t)
    BY <2>2 DEF Front, Unlock
  <2> QED
    BY <1>2, <2>1, <2>2
<1>3. ASSUME NEW c \in Consumers, WaitAndPop(c) \/ SpuriousWakeup(c)
      PROVE  Fifo!FifoNext \/ UNCHANGED Fifo!fifoVars
  <2>1. CASE WaitLock(c) \/ PredTrue(c) \/ PredFalse(c) \/ Relock(c) \/ SpuriousWakeup(c)
    BY <2>1 DEF WaitLock, PredTrue, PredFalse, Relock, SpuriousWakeup, Lock
  <2> QED
    BY <1>2, <1>3, <2>1 DEF WaitAndPop, Takers
<1>4. ASSUME NEW t \in Pollers, TryPop(t)
      PROVE  Fifo!FifoNext \/ UNCHANGED Fifo!fifoVars
  <2>1. CASE TryEmpty(t)
    <3>1. Fifo!Refuse(t)
      BY <2>1 DEF TryEmpty, Fifo!Refuse
    <3> QED
      BY <3>1 DEF Fifo!FifoNext
  <2>2. CASE TryLock(t) \/ TryNonEmpty(t)
    BY <2>2 DEF TryLock, TryNonEmpty, Lock
  <2> QED
    BY <1>2, <1>4, <2>1, <2>2 DEF TryPop, Takers
<1>5. ASSUME NEW o \in Copiers, Copy(o)
      PROVE  UNCHANGED Fifo!fifoVars
  BY <1>5 DEF Copy, CopyLock, CopyQueue, Unlock, Lock
<1>6. ASSUME NEW o \in Observers, Empty(o)
      PROVE  UNCHANGED Fifo!fifoVars
  BY <1>6 DEF Empty, EmptyCall, EmptyReturn
<1>7. CASE UNCHANGED vars
  BY <1>7 DEF vars
<1> QED
  BY <1>1, <1>3, <1>4, <1>5, <1>6, <1>7 DEF Next

\* threadsafe_queue<T> is a first-in first-out queue whose push, wait_and_pop
\* and try_pop are atomic, for every number of threads and of elements.
THEOREM Implements == Spec => ImplementsFifo
<1>1. Init => Fifo!FifoInit
  BY DEF Init, Fifo!FifoInit, Fifo!Takers, Takers
<1> QED
  BY <1>1, StepImplementsFifo, Inductive, PTL DEF Spec, ImplementsFifo, Fifo!FifoSpec

-----------------------------------------------------------------------------
(* No wakeup is lost.                                                      *)

\* The sets that NoLostWakeup counts are finite: their sizes are numbers.
Counted == /\ IsFiniteSet(OnTheirWay) /\ Cardinality(OnTheirWay) \in Nat
           /\ IsFiniteSet(Notifying) /\ Cardinality(Notifying) \in Nat

\* There are finitely many threads, so finitely many on their way.
LEMMA CountedSetsFinite == Counted
<1>1. OnTheirWay \in SUBSET Threads /\ Notifying \in SUBSET Threads
  BY DEF OnTheirWay, Notifying, Threads, Takers
<1> QED
  BY <1>1, ThreadsAssumption, FS_Subset, FS_CardinalityType DEF Counted

\* The same of the state after a step.
LEMMA CountedSetsFiniteNext == Counted'
  BY CountedSetsFinite, PTL

\* A step that adds no element, puts no thread to sleep, and turns nobody away
\* who was on the way loses no wakeup.
LEMMA QuietStep ==
  ASSUME IInv, NoLostWakeup,
         data_queue' = data_queue,
         data_cond' # {} => data_cond # {},
         OnTheirWay \subseteq OnTheirWay',
         Notifying \subseteq Notifying'
  PROVE  NoLostWakeup'
<1>1. /\ Cardinality(OnTheirWay) <= Cardinality(OnTheirWay')
      /\ Cardinality(Notifying) <= Cardinality(Notifying')
  BY CountedSetsFiniteNext, FS_Subset DEF Counted
<1>2. Len(data_queue) \in Nat
  BY DEF IInv, TypeOK
<1> QED
  BY <1>1, <1>2, CountedSetsFinite, CountedSetsFiniteNext DEF NoLostWakeup, Counted

\* push: the new element comes with a notification to give, and giving it
\* puts a sleeping consumer on its way.
LEMMA PushKeepsWakeups ==
  ASSUME IInv, NoLostWakeup, NEW p \in Producers, Push(p)
  PROVE  NoLostWakeup'
<1> USE ThreadsAssumption DEF IInv, TypeOK, OnTheirWay, Notifying, GoTo
<1>1. CASE PushItem(p)
  <2>1. Notifying' = Notifying \cup {p} /\ p \notin Notifying
    BY <1>1 DEF PushItem, Threads
  <2>2. OnTheirWay' = OnTheirWay /\ data_cond' = data_cond
    BY <1>1 DEF PushItem, Threads, Takers
  <2>3. Cardinality(Notifying') = Cardinality(Notifying) + 1
    BY <2>1, CountedSetsFinite, FS_AddElement DEF Counted
  <2>4. Len(data_queue') = Len(data_queue) + 1 /\ Len(data_queue) \in Nat
    BY <1>1 DEF PushItem
  <2> HIDE DEF IInv, OnTheirWay, Notifying
  <2> QED
    BY <2>2, <2>3, <2>4, CountedSetsFinite DEF NoLostWakeup, Counted
<1>2. CASE NotifyOne(p)
  <2>1. CASE data_cond = {}
    BY <1>2, <2>1 DEF NotifyOne, NoLostWakeup
  <2>2. CASE data_cond # {}
    <3>1. PICK t \in data_cond : data_cond' = data_cond \ {t}
      BY <1>2, <2>2 DEF NotifyOne
    <3>2. OnTheirWay' = OnTheirWay \cup {t} /\ t \notin OnTheirWay
      BY <1>2, <3>1 DEF NotifyOne, CondInv, Threads, Takers
    <3>3. Notifying' = Notifying \ {p} /\ p \in Notifying
      BY <1>2 DEF NotifyOne, Threads
    <3>4. data_queue' = data_queue /\ Len(data_queue) \in Nat
      BY <1>2 DEF NotifyOne
    <3> HIDE DEF IInv, OnTheirWay, Notifying
    <3>5. Cardinality(OnTheirWay') = Cardinality(OnTheirWay) + 1
      BY <3>2, CountedSetsFinite, FS_AddElement DEF Counted
    <3>6. Cardinality(Notifying') = Cardinality(Notifying) - 1
      BY <3>3, CountedSetsFinite, FS_RemoveElement DEF Counted
    <3> QED
      BY <2>2, <3>4, <3>5, <3>6, CountedSetsFinite DEF NoLostWakeup, Counted
  <2> QED
    BY <2>1, <2>2
<1>3. CASE PushLock(p) \/ Unlock(p)
  <2>1. /\ data_queue' = data_queue /\ data_cond' = data_cond
        /\ OnTheirWay \subseteq OnTheirWay'
        /\ Notifying \subseteq Notifying'
    BY <1>3 DEF PushLock, Unlock, Lock, Threads, Takers
  <2> HIDE DEF IInv, OnTheirWay, Notifying
  <2> QED
    BY <2>1, QuietStep
<1> QED
  BY <1>1, <1>2, <1>3 DEF Push

\* Taking an element: the taker leaves, but so does the element.
LEMMA PopKeepsWakeups ==
  ASSUME IInv, NoLostWakeup, NEW t \in Takers, Pop(t)
  PROVE  NoLostWakeup'
<1> USE ThreadsAssumption DEF IInv, TypeOK, OnTheirWay, Notifying, GoTo
<1>1. data_cond' = data_cond /\ Notifying' = Notifying
  BY DEF Pop, Threads, Takers
<1>2. Len(data_queue') = Len(data_queue) - 1 /\ Len(data_queue) \in Nat
  BY DEF Pop, HeadInv
<1>3. OnTheirWay' = OnTheirWay \ {t}
  BY DEF Pop, Threads, Takers
<1> HIDE DEF IInv, OnTheirWay, Notifying
<1>4. Cardinality(OnTheirWay') = IF t \in OnTheirWay THEN Cardinality(OnTheirWay) - 1
                                                      ELSE Cardinality(OnTheirWay)
  BY <1>3, CountedSetsFinite, FS_RemoveElement DEF Counted
<1> QED
  BY <1>1, <1>2, <1>4, CountedSetsFinite, CountedSetsFiniteNext DEF NoLostWakeup, Counted

\* Going to sleep: the queue was seen empty, and is still empty.
LEMMA SleepKeepsWakeups ==
  ASSUME NEW c \in Consumers, PredFalse(c)
  PROVE  NoLostWakeup'
<1>1. Len(data_queue') = 0
  BY DEF PredFalse
<1> QED
  BY <1>1, CountedSetsFiniteNext DEF NoLostWakeup, Counted

\* Every step of the program keeps every wakeup.
LEMMA StepKeepsWakeups == IInv /\ NoLostWakeup /\ [Next]_vars => NoLostWakeup'
<1> SUFFICES ASSUME IInv, NoLostWakeup, [Next]_vars PROVE NoLostWakeup'
  OBVIOUS
<1> DEFINE Quiet == /\ data_queue' = data_queue
                    /\ data_cond' # {} => data_cond # {}
                    /\ OnTheirWay \subseteq OnTheirWay'
                    /\ Notifying \subseteq Notifying'
<1>q. Quiet => NoLostWakeup'
  BY QuietStep
<1>1. ASSUME NEW c \in Consumers,
             \/ WaitLock(c) \/ PredTrue(c) \/ Relock(c) \/ SpuriousWakeup(c)
      PROVE  Quiet
  BY <1>1, ThreadsAssumption
     DEF WaitLock, PredTrue, Relock, SpuriousWakeup, Lock, GoTo, IInv, TypeOK,
         CondInv, OnTheirWay, Notifying, Threads, Takers
<1>2. ASSUME NEW t \in Takers, Front(t) \/ Unlock(t)
      PROVE  Quiet
  BY <1>2, ThreadsAssumption
     DEF Front, Unlock, GoTo, IInv, TypeOK, OnTheirWay, Notifying, Threads, Takers
<1>3. ASSUME NEW t \in Pollers, TryLock(t) \/ TryNonEmpty(t) \/ TryEmpty(t)
      PROVE  Quiet
  BY <1>3, ThreadsAssumption
     DEF TryLock, TryNonEmpty, TryEmpty, Lock, GoTo, IInv, TypeOK, OnTheirWay,
         Notifying, Threads, Takers
<1>4. ASSUME NEW o \in Copiers, Copy(o)
      PROVE  Quiet
  BY <1>4, ThreadsAssumption
     DEF Copy, CopyLock, CopyQueue, Unlock, Lock, GoTo, IInv, TypeOK, OnTheirWay,
         Notifying, Threads, Takers
<1>5. ASSUME NEW o \in Observers, Empty(o)
      PROVE  Quiet
  BY <1>5, ThreadsAssumption
     DEF Empty, EmptyCall, EmptyReturn, GoTo, IInv, TypeOK, OnTheirWay, Notifying,
         Threads, Takers
<1>6. CASE UNCHANGED vars
  BY <1>6, <1>q DEF vars, OnTheirWay, Notifying
<1> HIDE DEF Quiet
<1>7. ASSUME NEW c \in Consumers, WaitAndPop(c) PROVE NoLostWakeup'
  BY <1>7, <1>q, <1>1, <1>2, PopKeepsWakeups, SleepKeepsWakeups DEF WaitAndPop, Takers
<1>8. ASSUME NEW t \in Pollers, TryPop(t) PROVE NoLostWakeup'
  BY <1>8, <1>q, <1>2, <1>3, PopKeepsWakeups DEF TryPop, Takers
<1> QED
  BY <1>q, <1>1, <1>4, <1>5, <1>6, <1>7, <1>8, PushKeepsWakeups DEF Next

\* A consumer asleep in wait_and_pop never leaves an element behind that no
\* thread is going to fetch and no notification is going to announce.
THEOREM WakeupsKept == Spec => []NoLostWakeup
<1>1. Init => NoLostWakeup
  BY DEF Init, NoLostWakeup
<1> QED
  BY <1>1, StepKeepsWakeups, Inductive, PTL DEF Spec
=============================================================================
