---------------------------- MODULE BoundedFifo ----------------------------
(***************************************************************************)
(* What a queue between clients and a worker promises: tasks leave in the  *)
(* order they entered, each exactly once, and no more than Size wait.      *)
(***************************************************************************)
EXTENDS Naturals, Sequences

CONSTANTS
  Queues,  \* the queues one worker serves
  Size,    \* their capacity
  Tasks,   \* what they hold
  NoTask   \* the worker has no task in hand

VARIABLES
  fifo,    \* the tasks waiting in each queue, oldest first
  taken    \* the task the worker took and has not finished

fifoVars == <<fifo, taken>>

Init ==
  /\ fifo = [q \in Queues |-> <<>>]
  /\ taken = NoTask

\* A client's task becomes visible to the worker.
Put(q, x) ==
  /\ Len(fifo[q]) < Size
  /\ fifo' = [fifo EXCEPT ![q] = Append(@, x)]
  /\ UNCHANGED taken

\* The worker takes the oldest task of a queue.
Take(q) ==
  /\ taken = NoTask
  /\ fifo[q] # <<>>
  /\ taken' = Head(fifo[q])
  /\ fifo' = [fifo EXCEPT ![q] = Tail(@)]

\* The worker has executed it.
Finish ==
  /\ taken # NoTask
  /\ taken' = NoTask
  /\ UNCHANGED fifo

Next ==
  \/ \E q \in Queues : (\E x \in Tasks : Put(q, x)) \/ Take(q)
  \/ Finish

Spec == Init /\ [][Next]_fifoVars
===========================================================================
