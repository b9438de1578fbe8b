---------------------------- MODULE BlockingFifo ----------------------------
(***************************************************************************)
(* What the "safe queue" of threadsafe_queue.cpp promises its callers: a   *)
(* first-in first-out queue whose operations take effect at one instant.   *)
(* There is no mutex, no condition variable and no half-done operation     *)
(* here; ThreadsafeQueue.tla is the code, and implements this module.      *)
(***************************************************************************)
EXTENDS Naturals, Sequences

CONSTANTS Producers,    \* threads that push
          Consumers,    \* threads that call wait_and_pop
          Pollers,      \* threads that call try_pop
          Nothing,      \* the false / empty shared_ptr of a failed try_pop
          MaxPush       \* bound: pushes of each producer

VARIABLES queue,        \* the elements in the queue, oldest first
          sent,         \* how many elements each producer has pushed
          result        \* what the last operation of each taker handed out

fifoVars == <<queue, sent, result>>

Takers == Consumers \cup Pollers

\* The n-th element that producer p pushes.
Item == Producers \X (1 .. MaxPush)

FifoInit == /\ queue = << >>
            /\ sent = [p \in Producers |-> 0]
            /\ result = [t \in Takers |-> Nothing]

Put(p) == /\ sent[p] < MaxPush
          /\ sent' = [sent EXCEPT ![p] = @ + 1]
          /\ queue' = Append(queue, <<p, sent[p] + 1>>)
          /\ UNCHANGED result

Take(t) == /\ queue # << >>
           /\ result' = [result EXCEPT ![t] = Head(queue)]
           /\ queue' = Tail(queue)
           /\ UNCHANGED sent

Refuse(t) == /\ queue = << >>
             /\ result' = [result EXCEPT ![t] = Nothing]
             /\ UNCHANGED <<queue, sent>>

FifoNext == \/ \E p \in Producers : Put(p)
            \/ \E t \in Takers : Take(t)
            \/ \E t \in Pollers : Refuse(t)

FifoSpec == FifoInit /\ [][FifoNext]_fifoVars
=============================================================================
