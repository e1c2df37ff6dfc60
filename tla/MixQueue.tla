----------------------------- MODULE MixQueue -----------------------------
(***************************************************************************)
(* The two ring queues between the clients and one nvm_worker thread       *)
(* (mix_queue.c and the posting functions of nvm_worker.cpp): nvm_queue    *)
(* for requests below the scheduler's threshold and buffer_queue for the   *)
(* others.  Producers hold the queue's spinlock; the worker dequeues with  *)
(* no lock, from the two queues in turn.                                   *)
(*                                                                         *)
(* A copy into or out of a slot is a memcpy: it takes two steps, and a     *)
(* slot that is being overwritten holds Torn.                              *)
(***************************************************************************)
EXTENDS Integers, Sequences, FiniteSets

CONSTANTS
  Clients,  \* the client threads that post to this worker
  Size,     \* mask + 1, a power of two
  Wrap,     \* 2^32 in the code: in and out are unsigned int
  NoTask,   \* no task, no holder
  Torn      \* a slot in the middle of a memcpy

\* mixdk_init admits 16 clients and gives every queue 4096 slots.
ASSUME QueueAssumption ==
  /\ Size \in Nat \ {0}
  /\ Wrap \in Nat
  /\ Wrap > Size
  /\ Wrap % Size = 0
  /\ IsFiniteSet(Clients)
  /\ Cardinality(Clients) <= Size

Queues == {"nvm", "buffer"}
Slots == 0 .. Size - 1

\* metadata: mix_post_task_to_metadata; small: mix_post_small_task_to_buffer;
\* large: a part of a large write, posted by mix_post_task_to_buffer.
Kinds == {"metadata", "small", "large"}

QueueOf(kind) == IF kind = "metadata" THEN "nvm" ELSE "buffer"

Tasks == [client : Clients, kind : Kinds]

ASSUME TokenAssumption ==
  /\ NoTask \notin Tasks /\ Torn \notin Tasks /\ NoTask # Torn
  /\ NoTask \notin Clients

VARIABLES
  in, out,   \* the counters of each queue
  data,      \* its slots
  lock,      \* metadata_lock and buffer_lock: the holder, or NoTask
  cpc,       \* where client c is
  posted,    \* its task
  inflight,  \* its inflight_buffer
  wpc,       \* where the worker is
  seq,       \* the queue it looks at next (seq & 1)
  got        \* buffer_task or nvm_task: what it has copied out

queueVars == <<in, out, data>>
clientVars == <<lock, cpc, posted, inflight>>
workerVars == <<wpc, seq, got>>
vars == <<queueVars, clientVars, workerVars>>

TypeOK ==
  /\ in \in [Queues -> 0 .. Wrap - 1]
  /\ out \in [Queues -> 0 .. Wrap - 1]
  /\ data \in [Queues -> [Slots -> Tasks \union {NoTask, Torn}]]
  /\ lock \in [Queues -> Clients \union {NoTask}]
  /\ cpc \in [Clients -> {"idle", "lock", "test", "fill", "publish", "unlock",
                          "wait"}]
  /\ posted \in [Clients -> Tasks \union {NoTask}]
  /\ inflight \in [Clients -> {0, 1}]
  /\ wpc \in {"poll", "check", "advance", "serve"}
  /\ seq \in Queues
  /\ got \in Tasks \union {NoTask, Torn}

Init ==
  /\ in = [q \in Queues |-> 0]
  /\ out = [q \in Queues |-> 0]
  /\ data = [q \in Queues |-> [i \in Slots |-> NoTask]]
  /\ lock = [q \in Queues |-> NoTask]
  /\ cpc = [c \in Clients |-> "idle"]
  /\ posted = [c \in Clients |-> NoTask]
  /\ inflight = [c \in Clients |-> 0]
  /\ wpc = "poll"
  /\ seq = "buffer"
  /\ got = NoTask

---------------------------------------------------------------------------
(* mix_queue.c *)

\* in - out in unsigned arithmetic: the tasks published and not yet taken.
Used(q) == (in[q] - out[q]) % Wrap

\* Mutant: one slot more than there is.
UnusedPlusOne(q) == Size + 1 - Used(q)

\* __mix_queue_unused
Unused(q) == Size - Used(q)

\* off &= queue->mask
Slot(n) == n % Size

\* Mutant: the counter is not an unsigned int.
BumpNoWrap(n) == n + 1

\* queue->in += len and queue->out += len, for the one task of every caller.
Bump(n) == (n + 1) % Wrap

---------------------------------------------------------------------------
(* A client: init_io_task, then one of the posting functions *)

\* The queue of the task client c posts.
Q(c) == QueueOf(posted[c].kind)

\* inflight_buffer is modelled where somebody waits for it.
Request(c, kind) ==
  /\ cpc[c] = "idle"
  /\ posted' = [posted EXCEPT ![c] = [client |-> c, kind |-> kind]]
  /\ inflight' = [inflight EXCEPT ![c] = IF kind = "large" THEN 0 ELSE 1]
  /\ cpc' = [cpc EXCEPT ![c] = "lock"]
  /\ UNCHANGED <<queueVars, lock, workerVars>>

Lock(c) ==
  /\ cpc[c] = "lock"
  /\ lock[Q(c)] = NoTask
  /\ lock' = [lock EXCEPT ![Q(c)] = c]
  /\ cpc' = [cpc EXCEPT ![c] = "test"]
  /\ UNCHANGED <<queueVars, posted, inflight, workerVars>>

\* mix_enqueue with room begins its memcpy.  Without room it returns 0: the
\* buffer functions spin on that, mix_post_task_to_metadata ignores it.
Test(c) ==
  /\ cpc[c] = "test"
  /\ IF Unused(Q(c)) > 0
     THEN /\ data' = [data EXCEPT ![Q(c)][Slot(in[Q(c)])] = Torn]
          /\ cpc' = [cpc EXCEPT ![c] = "fill"]
     ELSE /\ posted[c].kind = "metadata"
          /\ cpc' = [cpc EXCEPT ![c] = "unlock"]
          /\ UNCHANGED data
  /\ UNCHANGED <<in, out, lock, posted, inflight, workerVars>>

\* The memcpy is over; the fence orders it before the counter.
Fill(c) ==
  /\ cpc[c] = "fill"
  /\ data' = [data EXCEPT ![Q(c)][Slot(in[Q(c)])] = posted[c]]
  /\ cpc' = [cpc EXCEPT ![c] = "publish"]
  /\ UNCHANGED <<in, out, lock, posted, inflight, workerVars>>

Publish(c) ==
  /\ cpc[c] = "publish"
  /\ in' = [in EXCEPT ![Q(c)] = Bump(@)]
  /\ cpc' = [cpc EXCEPT ![c] = "unlock"]
  /\ UNCHANGED <<out, data, lock, posted, inflight, workerVars>>

\* Parts of a large write are not waited for.
Unlock(c) ==
  /\ cpc[c] = "unlock"
  /\ lock' = [lock EXCEPT ![Q(c)] = NoTask]
  /\ IF posted[c].kind = "large"
     THEN /\ cpc' = [cpc EXCEPT ![c] = "idle"]
          /\ posted' = [posted EXCEPT ![c] = NoTask]
     ELSE /\ cpc' = [cpc EXCEPT ![c] = "wait"]
          /\ UNCHANGED posted
  /\ UNCHANGED <<queueVars, inflight, workerVars>>

\* mix_wait_for_task_completed
Return(c) ==
  /\ cpc[c] = "wait"
  /\ inflight[c] = 0
  /\ cpc' = [cpc EXCEPT ![c] = "idle"]
  /\ posted' = [posted EXCEPT ![c] = NoTask]
  /\ UNCHANGED <<queueVars, lock, inflight, workerVars>>

---------------------------------------------------------------------------
(* The worker *)

OtherQueue == IF seq = "buffer" THEN "nvm" ELSE "buffer"

\* Mutant: an empty buffer queue is polled again.
PollAgain ==
  /\ wpc = "poll"
  /\ Used(seq) = 0
  /\ seq' = IF seq = "nvm" THEN "buffer" ELSE seq
  /\ UNCHANGED <<queueVars, clientVars, wpc, got>>

\* mix_dequeue on an empty queue: the other queue is next.
PollEmpty ==
  /\ wpc = "poll"
  /\ Used(seq) = 0
  /\ seq' = OtherQueue
  /\ UNCHANGED <<queueVars, clientVars, wpc, got>>

\* Mutant: the worker takes the queue's spinlock around mix_dequeue.
ReadLocked ==
  /\ wpc = "poll"
  /\ lock[seq] = NoTask
  /\ Used(seq) # 0
  /\ got' = data[seq][Slot(out[seq])]
  /\ wpc' = "check"
  /\ UNCHANGED <<queueVars, clientVars, seq>>

\* Mutant: the newest task is copied out.
ReadNewest ==
  /\ wpc = "poll"
  /\ Used(seq) # 0
  /\ got' = data[seq][Slot(in[seq] + Size - 1)]
  /\ wpc' = "check"
  /\ UNCHANGED <<queueVars, clientVars, seq>>

\* mix_dequeue on a queue with a task: the first half of the memcpy ...
ReadSlot ==
  /\ wpc = "poll"
  /\ Used(seq) # 0
  /\ got' = data[seq][Slot(out[seq])]
  /\ wpc' = "check"
  /\ UNCHANGED <<queueVars, clientVars, seq>>

\* ... and the second, torn if the slot has changed in between.
CheckSlot ==
  /\ wpc = "check"
  /\ got' = IF data[seq][Slot(out[seq])] = got THEN got ELSE Torn
  /\ wpc' = "advance"
  /\ UNCHANGED <<queueVars, clientVars, seq>>

\* Mutant: out moves past everything that is in the queue.
AdvanceAll ==
  /\ wpc = "advance"
  /\ out' = [out EXCEPT ![seq] = in[seq]]
  /\ data' = [data EXCEPT ![seq] = [i \in Slots |-> NoTask]]
  /\ seq' = OtherQueue
  /\ wpc' = "serve"
  /\ UNCHANGED <<in, clientVars, got>>

\* The slot is free from here on.  Its old bytes stay in memory; the model
\* forgets them, so that reading a free slot is visibly wrong.
Advance ==
  /\ wpc = "advance"
  /\ out' = [out EXCEPT ![seq] = Bump(@)]
  /\ data' = [data EXCEPT ![seq][Slot(out[seq])] = NoTask]
  /\ seq' = OtherQueue
  /\ wpc' = "serve"
  /\ UNCHANGED <<in, clientVars, got>>

\* The task is executed and its length taken off inflight_buffer; a part of a
\* large write matches no case of the switch and is dropped.
Serve ==
  /\ wpc = "serve"
  /\ inflight' = IF got.kind = "large" THEN inflight
                 ELSE [inflight EXCEPT ![got.client] = 0]
  /\ got' = NoTask
  /\ wpc' = "poll"
  /\ UNCHANGED <<queueVars, lock, cpc, posted, seq>>

---------------------------------------------------------------------------
ClientStep(c) ==
  \/ Lock(c) \/ Test(c) \/ Fill(c) \/ Publish(c) \/ Unlock(c)
  \/ Return(c)

WorkerStep ==
  \/ PollEmpty \/ ReadSlot \/ CheckSlot \/ Advance \/ Serve

Next ==
  \/ \E c \in Clients : ClientStep(c) \/ (\E kind \in Kinds : Request(c, kind))
  \/ WorkerStep

Spec == Init /\ [][Next]_vars

\* The worker and the clients inside a call run; a client need not make one.
\* Nothing is assumed about who gets a spinlock next.
Fairness ==
  /\ WF_vars(WorkerStep)
  /\ \A c \in Clients : WF_vars(ClientStep(c))

FairSpec == Spec /\ Fairness

---------------------------------------------------------------------------
(* Properties *)

\* The worker never executes a task that was only partly copied, although it
\* takes no lock and a producer may refill the slot right after "out" moves.
NoTornTask == got # Torn

\* The published tasks of a queue, oldest first.
Fifo(q) == [i \in 1 .. Used(q) |-> data[q][Slot(out[q] + i - 1)]]

\* A client that waits has its task in the queue or in the worker's hand, or
\* has been served: mix_post_task_to_metadata may ignore that mix_enqueue
\* failed only because a metadata queue cannot be full.
NoLostPost ==
  \A c \in Clients : cpc[c] = "wait" /\ inflight[c] = 1 =>
    \/ \E i \in DOMAIN Fifo(Q(c)) : Fifo(Q(c))[i] = posted[c]
    \/ wpc = "serve" /\ got = posted[c]

\* The ring buffers implement first-in first-out queues of Size tasks.
Abstract == INSTANCE BoundedFifo WITH
  fifo <- [q \in Queues |-> Fifo(q)],
  taken <- IF wpc = "serve" THEN got ELSE NoTask

ImplementsFifo == Abstract!Spec

\* A client that waits for its task is served, whatever arrives in the other
\* queue: the worker alternates between the two.  (Serving is one step: for a task
\* whose execution never ends see PostedIsAnswered in MixRoute.)
WaitingIsServed == \A c \in Clients : cpc[c] = "wait" ~> cpc[c] = "idle"

\* A client that spins on a full queue while it holds the queue's spinlock is
\* admitted in the end: the worker does not need that lock to make room.
HolderIsAdmitted == \A c \in Clients : cpc[c] = "test" ~> cpc[c] = "unlock"
===========================================================================
