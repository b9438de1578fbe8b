-------------------------- MODULE ThreadsafeQueue ---------------------------
(***************************************************************************)
(* threadsafe_queue<T> of threadsafe_queue.cpp: a std::queue guarded by a  *)
(* std::mutex, with a std::condition_variable on which wait_and_pop waits. *)
(* A member function is the sequence of steps between which the scheduler  *)
(* may run another thread; pc[t] is the statement thread t is about to     *)
(* execute (or is executing, for the statements that touch data_queue).    *)
(* The two overloads of wait_and_pop, and of try_pop, differ only in how   *)
(* the element is handed back and are one operation each.                  *)
(***************************************************************************)
EXTENDS Naturals, Sequences, FiniteSets

CONSTANTS Producers,    \* threads that push
          Consumers,    \* threads that call wait_and_pop
          Pollers,      \* threads that call try_pop
          Copiers,      \* threads that copy-construct a queue from this one
          Observers,    \* threads that call empty()
          Nothing,      \* the false / empty shared_ptr of a failed try_pop
          NoThread,     \* "nobody holds the mutex"
          MaxPush       \* bound: pushes of each producer

Threads == Producers \cup Consumers \cup Pollers \cup Copiers \cup Observers
Takers == Consumers \cup Pollers
Item == Producers \X (1 .. MaxPush)

ASSUME ThreadsAssumption ==
    /\ IsFiniteSet(Threads)
    /\ NoThread \notin Threads
    /\ Producers \cap (Takers \cup Copiers \cup Observers) = {}
    /\ Consumers \cap (Pollers \cup Copiers \cup Observers) = {}
    /\ Pollers \cap (Copiers \cup Observers) = {}
    /\ Copiers \cap Observers = {}
ASSUME DataAssumption == MaxPush \in Nat /\ Nothing \notin Item

VARIABLES mut,          \* the thread that holds the mutex, or NoThread
          data_queue,   \* the elements, oldest first
          data_cond,    \* the threads blocked on the condition variable
          pc,           \* the statement of each thread
          value,        \* front() as read by each taker
          result,       \* what the last operation of each taker returned
          sent          \* how many elements each producer has pushed

vars == <<mut, data_queue, data_cond, pc, value, result, sent>>

Init == /\ mut = NoThread
        /\ data_queue = << >>
        /\ data_cond = {}
        /\ pc = [t \in Threads |-> "idle"]
        /\ value = [t \in Takers |-> Nothing]
        /\ result = [t \in Takers |-> Nothing]
        /\ sent = [p \in Producers |-> 0]

-----------------------------------------------------------------------------
(* Locking.  std::lock_guard and std::unique_lock take the mutex on        *)
(* construction and release it when they go out of scope.                  *)

GoTo(t, label) == pc' = [pc EXCEPT ![t] = label]

\* Statement `from` of t is the construction of a lock; `to` follows it.
Lock(t, from, to) == /\ pc[t] = from
                     /\ mut = NoThread
                     /\ mut' = t
                     /\ GoTo(t, to)
                     /\ UNCHANGED <<data_queue, data_cond, value, result, sent>>

Unlock(t) == /\ pc[t] = "unlock"
             /\ mut' = NoThread
             /\ GoTo(t, "idle")
             /\ UNCHANGED <<data_queue, data_cond, value, result, sent>>

-----------------------------------------------------------------------------
(* push                                                                    *)

\* Wrong variants of this module's steps are kept beside them: each is a bug the
\* properties below must notice.
PushLockForgotten(p) == /\ sent[p] < MaxPush
                        /\ pc[p] = "idle"
                        /\ GoTo(p, "push")
                        /\ UNCHANGED <<mut, data_queue, data_cond, value, result, sent>>

PushLock(p) == sent[p] < MaxPush /\ Lock(p, "idle", "push")

PushItemInFront(p) == /\ pc[p] = "push"
                      /\ data_queue' = <<<<p, sent[p] + 1>>>> \o data_queue
                      /\ sent' = [sent EXCEPT ![p] = @ + 1]
                      /\ GoTo(p, "notify")
                      /\ UNCHANGED <<mut, data_cond, value, result>>

PushItem(p) == /\ pc[p] = "push"
               /\ data_queue' = Append(data_queue, <<p, sent[p] + 1>>)
               /\ sent' = [sent EXCEPT ![p] = @ + 1]
               /\ GoTo(p, "notify")
               /\ UNCHANGED <<mut, data_cond, value, result>>

NotifyForgotten(p) == /\ pc[p] = "notify"
                      /\ GoTo(p, "unlock")
                      /\ UNCHANGED <<mut, data_queue, data_cond, value, result, sent>>

NotifyOnlyFirst(p) == /\ pc[p] = "notify"
                      /\ \/ (data_cond = {} \/ Len(data_queue) > 1) /\ UNCHANGED data_cond
                         \/ /\ Len(data_queue) = 1
                            /\ \E t \in data_cond : data_cond' = data_cond \ {t}
                      /\ GoTo(p, "unlock")
                      /\ UNCHANGED <<mut, data_queue, value, result, sent>>

\* notify_one wakes one of the blocked threads, and none if there is none.
NotifyOne(p) == /\ pc[p] = "notify"
                /\ \/ data_cond = {} /\ UNCHANGED data_cond
                   \/ \E t \in data_cond : data_cond' = data_cond \ {t}
                /\ GoTo(p, "unlock")
                /\ UNCHANGED <<mut, data_queue, value, result, sent>>

-----------------------------------------------------------------------------
(* wait_and_pop.  data_cond.wait(lk, pred) is while (!pred()) wait(lk).    *)

WaitLock(c) == Lock(c, "idle", "pred")

PredTrue(c) == /\ pc[c] = "pred"
               /\ data_queue # << >>
               /\ GoTo(c, "front")
               /\ UNCHANGED <<mut, data_queue, data_cond, value, result, sent>>

\* wait(lk) releases the mutex and blocks in one indivisible step.
PredFalse(c) == /\ pc[c] = "pred"
                /\ data_queue = << >>
                /\ mut' = NoThread
                /\ data_cond' = data_cond \cup {c}
                /\ GoTo(c, "wait")
                /\ UNCHANGED <<data_queue, value, result, sent>>

\* A condition variable may return without having been notified.
SpuriousWakeup(c) == /\ c \in data_cond
                     /\ data_cond' = data_cond \ {c}
                     /\ UNCHANGED <<mut, data_queue, pc, value, result, sent>>

\* Woken, the thread takes the mutex again before it looks at the queue.
Relock(c) == c \notin data_cond /\ Lock(c, "wait", "pred")

Front(t) == /\ pc[t] = "front"
            /\ value' = [value EXCEPT ![t] = Head(data_queue)]
            /\ GoTo(t, "pop")
            /\ UNCHANGED <<mut, data_queue, data_cond, result, sent>>

Pop(t) == /\ pc[t] = "pop"
          /\ data_queue' = Tail(data_queue)
          /\ result' = [result EXCEPT ![t] = value[t]]
          /\ GoTo(t, "unlock")
          /\ UNCHANGED <<mut, data_cond, value, sent>>

-----------------------------------------------------------------------------
(* try_pop                                                                 *)

TryLock(t) == Lock(t, "idle", "try")

TryNonEmpty(t) == /\ pc[t] = "try"
                  /\ data_queue # << >>
                  /\ GoTo(t, "front")
                  /\ UNCHANGED <<mut, data_queue, data_cond, value, result, sent>>

TryEmptyWaits(t) == /\ pc[t] = "try"
                    /\ data_queue = << >>
                    /\ mut' = NoThread
                    /\ data_cond' = data_cond \cup {t}
                    /\ GoTo(t, "wait")
                    /\ UNCHANGED <<data_queue, value, result, sent>>

TryEmpty(t) == /\ pc[t] = "try"
               /\ data_queue = << >>
               /\ result' = [result EXCEPT ![t] = Nothing]
               /\ GoTo(t, "unlock")
               /\ UNCHANGED <<mut, data_queue, data_cond, value, sent>>

-----------------------------------------------------------------------------
(* The copy constructor reads the queue under its lock; empty() reads it   *)
(* without one.                                                            *)

CopyLock(o) == Lock(o, "idle", "copy")

CopyQueue(o) == /\ pc[o] = "copy"
                /\ GoTo(o, "unlock")
                /\ UNCHANGED <<mut, data_queue, data_cond, value, result, sent>>

EmptyCall(o) == /\ pc[o] = "idle"
                /\ GoTo(o, "empty")
                /\ UNCHANGED <<mut, data_queue, data_cond, value, result, sent>>

EmptyReturn(o) == /\ pc[o] = "empty"
                  /\ GoTo(o, "idle")
                  /\ UNCHANGED <<mut, data_queue, data_cond, value, result, sent>>

-----------------------------------------------------------------------------
Push(p) == PushLock(p) \/ PushItem(p) \/ NotifyOne(p) \/ Unlock(p)

WaitAndPop(c) == \/ WaitLock(c) \/ PredTrue(c) \/ PredFalse(c) \/ Relock(c)
                 \/ Front(c) \/ Pop(c) \/ Unlock(c)

TryPop(t) == \/ TryLock(t) \/ TryNonEmpty(t) \/ TryEmpty(t)
             \/ Front(t) \/ Pop(t) \/ Unlock(t)

Copy(o) == CopyLock(o) \/ CopyQueue(o) \/ Unlock(o)

Empty(o) == EmptyCall(o) \/ EmptyReturn(o)

Next == \/ \E p \in Producers : Push(p)
        \/ \E c \in Consumers : WaitAndPop(c) \/ SpuriousWakeup(c)
        \/ \E t \in Pollers : TryPop(t)
        \/ \E o \in Copiers : Copy(o)
        \/ \E o \in Observers : Empty(o)

Spec == Init /\ [][Next]_vars

(***************************************************************************)
(* A push that has begun is carried through, and a consumer, whose thread  *)
(* calls wait_and_pop in a loop, keeps running when it can.  Nothing       *)
(* obliges a producer to push, nor the scheduler to be stronger than this. *)
(***************************************************************************)
FairSpec == /\ Spec
            /\ \A p \in Producers : WF_vars(PushItem(p) \/ NotifyOne(p) \/ Unlock(p))
            /\ \A c \in Consumers : WF_vars(WaitAndPop(c))

-----------------------------------------------------------------------------
(* Properties.                                                             *)

Labels == {"idle", "push", "notify", "unlock", "pred", "wait", "front", "pop",
           "try", "copy", "empty"}

\* The type of every variable; only wait_and_pop ever sleeps on data_cond.
TypeOK == /\ mut \in Threads \cup {NoThread}
          /\ data_queue \in Seq(Item)
          /\ data_cond \in SUBSET Consumers
          /\ pc \in [Threads -> Labels]
          /\ value \in [Takers -> Item \cup {Nothing}]
          /\ result \in [Takers -> Item \cup {Nothing}]
          /\ sent \in [Producers -> 0 .. MaxPush]

\* The statements that change data_queue, and those that touch it at all.
Writing == {"push", "pop"}
Accessing == Writing \cup {"pred", "front", "try", "copy", "empty"}

InsideTogether(t, u) == t # u /\ pc[t] \in Writing /\ pc[u] \in Accessing

\* While one thread is changing data_queue no other thread is inside it, as far
\* as the member functions that take the mutex go.  (empty() does not take it; no
\* caller in the repository uses it.)
NoDataRace == ~\E t, u \in Threads \ Observers : InsideTogether(t, u)

\* The threads that will look at the queue without anyone waking them, and
\* the producers that have a notification still to give.
OnTheirWay == {c \in Consumers : pc[c] \in {"pred", "front", "pop"}
                                 \/ (pc[c] = "wait" /\ c \notin data_cond)}
Notifying == {p \in Producers : pc[p] = "notify"}

\* No wakeup is lost: as long as a consumer sleeps on the condition variable,
\* every element of the queue has another consumer, or a notification, on its
\* way to it.  (push notifies one thread per element; wait_and_pop sleeps only
\* after it has seen the queue empty under the lock.)
NoLostWakeup == data_cond # {} =>
                  Len(data_queue) <= Cardinality(OnTheirWay) + Cardinality(Notifying)

\* The code implements the queue its callers expect: every push and pop takes
\* effect at one instant, in first-in first-out order, with nothing lost,
\* duplicated or made up, and try_pop fails only on an empty queue.
Fifo == INSTANCE BlockingFifo WITH queue <- data_queue
ImplementsFifo == Fifo!FifoSpec

\* Every element that is pushed is taken out again, with no help from later
\* pushes: the notification of its own push is enough.
EventuallyTaken == \A i \in Item :
    (\E k \in DOMAIN data_queue : data_queue[k] = i)
        ~> ~(\E k \in DOMAIN data_queue : data_queue[k] = i)
=============================================================================
