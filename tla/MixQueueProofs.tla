--------------------------- MODULE MixQueueProofs ---------------------------
(***************************************************************************)
(* Proofs about the ring queues of MixQueue, for any number of clients and *)
(* slots and any wrap of the counters that is a multiple of the ring:      *)
(*   - the counters' arithmetic and what a put and a take do to a ring;    *)
(*   - IInv, the inductive invariant behind TypeOK, NoTornTask and the     *)
(*     refinement of BoundedFifo;                                          *)
(*   - WaitInv, inductive relative to IInv, behind NoLostPost.             *)
(***************************************************************************)
EXTENDS MixQueue, NatLemmas, FiniteSetTheorems, SequenceTheorems

---------------------------------------------------------------------------
(* The ring of one queue *)

\* The tasks between out = o and in = i.
Distance(i, o) == (i - o) % Wrap

\* The contents of a ring with counters i and o and slots d, oldest first.
Ring(i, o, d) == [k \in 1 .. Distance(i, o) |-> d[Slot(o + k - 1)]]

\* The slots e and d agree outside slot x.
SameBut(e, d, x) == \A y \in Slots : y # x => e[y] = d[y]

\* Fifo and Used are the ring of a queue.
LEMMA FifoIsRing ==
  ASSUME NEW q \in Queues
  PROVE  /\ Used(q) = Distance(in[q], out[q])
         /\ Fifo(q) = Ring(in[q], out[q], data[q])
  BY DEF Used, Distance, Fifo, Ring

\* The counters of a queue wrap after whole laps of its ring.
LEMMA Laps ==
  \E m \in Nat : Wrap = m * Size
<1>1. PICK m \in Nat, r \in 0 .. Size - 1 : Wrap = m * Size + r /\ Wrap % Size = r
  BY Quotient, QueueAssumption
<1> QED
  BY <1>1, QueueAssumption

\* What queue->in += 1 and queue->out += 1 do.
LEMMA BumpCases ==
  ASSUME NEW n \in 0 .. Wrap - 1
  PROVE  /\ Bump(n) \in 0 .. Wrap - 1
         /\ Bump(n) = IF n + 1 = Wrap THEN 0 ELSE n + 1
  BY QueueAssumption DEF Bump

\* The slot of a counter is the slot of the counter plus a lap of the counters.
LEMMA SlotWrap ==
  ASSUME NEW n \in Nat
  PROVE  Slot(n + Wrap) = Slot(n) /\ Slot(n) \in Slots
<1>1. PICK m \in Nat : Wrap = m * Size
  BY Laps
<1>2. Slot(n + m * Size) = Slot(n)
  BY ModMultiple, QueueAssumption DEF Slot
<1> QED
  BY <1>1, <1>2, QueueAssumption DEF Slot, Slots

\* A counter's next value has the next slot, also where the counter wraps.
LEMMA SlotBump ==
  ASSUME NEW n \in 0 .. Wrap - 1, NEW j \in Nat
  PROVE  Slot(Bump(n) + j) = Slot(n + 1 + j)
<1>1. CASE n + 1 = Wrap
  <2>1. Bump(n) + j = j /\ n + 1 + j = j + Wrap
    BY <1>1, BumpCases, QueueAssumption
  <2> QED
    BY <2>1, SlotWrap
<1>2. CASE n + 1 # Wrap
  <2>1. Bump(n) + j = n + 1 + j
    BY <1>2, BumpCases, QueueAssumption
  <2> QED
    BY <2>1
<1> QED
  BY <1>1, <1>2

\* The number of tasks, and the slot the next one goes to.
LEMMA DistanceIs ==
  ASSUME NEW i \in 0 .. Wrap - 1, NEW o \in 0 .. Wrap - 1
  PROVE  /\ Distance(i, o) \in 0 .. Wrap - 1
         /\ Distance(i, o) = IF i >= o THEN i - o ELSE i - o + Wrap
         /\ Slot(i) = Slot(o + Distance(i, o))
<1>1. Distance(i, o) = IF i >= o THEN i - o ELSE i - o + Wrap
  BY SubMod, QueueAssumption DEF Distance
<1>2. Slot(i) = Slot(o + Distance(i, o))
  <2>1. CASE i >= o
    <3>1. o + Distance(i, o) = i
      BY <1>1, <2>1
    <3> QED
      BY <3>1
  <2>2. CASE ~ (i >= o)
    <3>1. o + Distance(i, o) = i + Wrap
      BY <1>1, <2>2, QueueAssumption
    <3> QED
      BY <3>1, SlotWrap
  <2> QED
    BY <2>1, <2>2
<1> QED
  BY <1>1, <1>2, QueueAssumption

\* Fewer than Size tasks apart, slots differ.
LEMMA SlotsDiffer ==
  ASSUME NEW n \in Nat, NEW i \in 0 .. Size - 1, NEW j \in 0 .. Size - 1,
         Slot(n + i) = Slot(n + j)
  PROVE  i = j
<1>1. /\ Size \in Nat \ {0} /\ n + i \in Nat /\ n + j \in Nat
      /\ (n + i) % Size = (n + j) % Size
  BY QueueAssumption DEF Slot
<1>2. CASE i <= j
  <2>1. n + i <= n + j /\ n + j < n + i + Size
    BY <1>1, <1>2
  <2>2. n + i = n + j
    BY <1>1, <2>1, ResidueGap
  <2> QED
    BY <2>2
<1>3. CASE j <= i
  <2>1. n + j <= n + i /\ n + i < n + j + Size
    BY <1>1, <1>3
  <2>2. n + j = n + i
    BY <1>1, <2>1, ResidueGap
  <2> QED
    BY <2>2
<1> QED
  BY <1>1, <1>2, <1>3

\* mix_enqueue moves in by one: the slot it filled is appended.
LEMMA RingPut ==
  ASSUME NEW i \in 0 .. Wrap - 1, NEW o \in 0 .. Wrap - 1, NEW d,
         Distance(i, o) < Size
  PROVE  /\ Distance(Bump(i), o) = Distance(i, o) + 1
         /\ Ring(Bump(i), o, d) = Append(Ring(i, o, d), d[Slot(i)])
<1>1. Distance(Bump(i), o) = Distance(i, o) + 1
  <2>1. Bump(i) \in 0 .. Wrap - 1 /\ Bump(i) = IF i + 1 = Wrap THEN 0 ELSE i + 1
    BY BumpCases
  <2>2. Distance(Bump(i), o) = IF Bump(i) >= o THEN Bump(i) - o ELSE Bump(i) - o + Wrap
    BY <2>1, DistanceIs
  <2>3. Distance(i, o) = IF i >= o THEN i - o ELSE i - o + Wrap
    BY DistanceIs
  <2> QED
    BY <2>1, <2>2, <2>3, QueueAssumption
<1>2. Distance(i, o) \in Nat /\ Slot(i) = Slot(o + Distance(i, o))
  BY DistanceIs
<1> DEFINE n == Distance(i, o)
<1> HIDE DEF n
<1>3. [k \in 1 .. n + 1 |-> d[Slot(o + k - 1)]] =
        Append([k \in 1 .. n |-> d[Slot(o + k - 1)]], d[Slot(o + n)])
  <2>1. o + (n + 1) - 1 = o + n
    BY <1>2 DEF n
  <2> QED
    BY <1>2, <2>1 DEF n
<1> QED
  BY <1>1, <1>2, <1>3 DEF Ring, n

\* mix_dequeue moves out by one: the oldest task is gone, and the others do not
\* mind what becomes of its slot.
LEMMA RingTake ==
  ASSUME NEW i \in 0 .. Wrap - 1, NEW o \in 0 .. Wrap - 1,
         NEW d, NEW e, SameBut(e, d, Slot(o)),
         Distance(i, o) # 0, Distance(i, o) <= Size
  PROVE  /\ Distance(i, Bump(o)) = Distance(i, o) - 1
         /\ Ring(i, o, d) # <<>>
         /\ Head(Ring(i, o, d)) = d[Slot(o)]
         /\ Ring(i, Bump(o), e) = Tail(Ring(i, o, d))
<1>1. Distance(i, Bump(o)) = Distance(i, o) - 1
  <2>1. Bump(o) \in 0 .. Wrap - 1 /\ Bump(o) = IF o + 1 = Wrap THEN 0 ELSE o + 1
    BY BumpCases
  <2>2. Distance(i, Bump(o)) = IF i >= Bump(o) THEN i - Bump(o) ELSE i - Bump(o) + Wrap
    BY <2>1, DistanceIs
  <2>3. Distance(i, o) = IF i >= o THEN i - o ELSE i - o + Wrap
    BY DistanceIs
  <2> QED
    BY <2>1, <2>2, <2>3, QueueAssumption
<1>2. Distance(i, o) \in Nat \ {0}
  BY DistanceIs
<1> DEFINE n == Distance(i, o)
           r == Ring(i, o, d)
           V == {d[x] : x \in Slots}
<1>3. n \in Nat \ {0} /\ n <= Size /\ r = [k \in 1 .. n |-> d[Slot(o + k - 1)]]
  BY <1>2 DEF Ring
<1>4. Slot(o) \in Slots /\ \A k \in Nat : Slot(o + k) \in Slots
  BY SlotWrap
<1> HIDE DEF n, r
<1>5. Len(r) = n /\ r \in Seq(V) /\ r # <<>>
  <2>1. \A k \in 1 .. n : k - 1 \in Nat /\ o + k - 1 = o + (k - 1)
    BY <1>3
  <2>2. \A k \in 1 .. n : d[Slot(o + k - 1)] \in V
    BY <1>4, <2>1
  <2>3. r \in [1 .. n -> V]
    BY <1>3, <2>2
  <2>0. n \in Nat
    BY <1>3
  <2>4. r \in Seq(V) /\ DOMAIN r = 1 .. n
    BY <2>0, <2>3, SeqDef
  <2> QED
    BY <1>3, <2>4
<1>6. Head(r) = d[Slot(o)]
  BY <1>3, <1>5
<1>7. Tail(r) = [k \in 1 .. n - 1 |-> r[k + 1]]
  BY <1>3, <1>5
<1>8. ASSUME NEW k \in 1 .. n - 1
      PROVE  e[Slot(Bump(o) + k - 1)] = r[k + 1]
  <2>1. k - 1 \in Nat /\ Bump(o) \in Nat
    BY <1>3, BumpCases
  <2>2. Bump(o) + k - 1 = Bump(o) + (k - 1) /\ o + 1 + (k - 1) = o + k
    BY <2>1, <1>3
  <2>3. Slot(Bump(o) + k - 1) = Slot(o + k)
    BY <2>1, <2>2, SlotBump
  <2>4. Slot(o + k) # Slot(o + 0)
    <3>1. k \in 0 .. Size - 1 /\ 0 \in 0 .. Size - 1 /\ o \in Nat /\ k # 0
      BY <1>3, QueueAssumption
    <3> QED
      BY <3>1, SlotsDiffer
  <2>5. e[Slot(o + k)] = d[Slot(o + k)]
    BY <1>3, <1>4, <2>4 DEF SameBut
  <2>6. r[k + 1] = d[Slot(o + k)]
    <3>1. k + 1 \in 1 .. n /\ o + (k + 1) - 1 = o + k
      BY <1>3
    <3> QED
      BY <1>3, <3>1
  <2> QED
    BY <2>3, <2>5, <2>6
<1>9. Ring(i, Bump(o), e) = [k \in 1 .. n - 1 |-> r[k + 1]]
  BY <1>1, <1>8 DEF Ring, n
<1> QED
  BY <1>1, <1>5, <1>6, <1>7, <1>9 DEF r, n

\* A write to the slot mix_enqueue is about to publish disturbs no task.
LEMMA RingFrame ==
  ASSUME NEW i \in 0 .. Wrap - 1, NEW o \in 0 .. Wrap - 1,
         NEW d, NEW e, SameBut(e, d, Slot(i)),
         Distance(i, o) < Size
  PROVE  Ring(i, o, e) = Ring(i, o, d)
<1> DEFINE n == Distance(i, o)
<1>1. n \in Nat /\ n < Size /\ Slot(i) = Slot(o + n)
  BY DistanceIs
<1>2. \A k \in Nat : Slot(o + k) \in Slots
  BY SlotWrap
<1> HIDE DEF n
<1>3. ASSUME NEW k \in 1 .. n
      PROVE  e[Slot(o + k - 1)] = d[Slot(o + k - 1)]
  <2>1. k - 1 \in 0 .. Size - 1 /\ n \in 0 .. Size - 1 /\ k - 1 # n /\ k - 1 \in Nat
    BY <1>1, QueueAssumption
  <2>2. Slot(o + (k - 1)) # Slot(o + n)
    <3>1. o \in Nat
      OBVIOUS
    <3> QED
      BY <2>1, <3>1, SlotsDiffer
  <2>3. o + k - 1 = o + (k - 1)
    BY <1>1
  <2> QED
    BY <1>1, <1>2, <2>1, <2>2, <2>3 DEF SameBut
<1> QED
  BY <1>3 DEF Ring, n

---------------------------------------------------------------------------
(* The inductive invariant *)

\* A queue holds at most Size tasks, and every slot between out and in a whole
\* one.
RingInv ==
  \A q \in Queues : Used(q) <= Size /\ Fifo(q) \in Seq(Tasks)

\* A client between its spin_lock and spin_unlock is the holder of the lock,
\* and a client in a call has a task of its own.
LockInv ==
  \A c \in Clients :
    /\ cpc[c] \in {"test", "fill", "publish", "unlock"} => lock[Q(c)] = c
    /\ cpc[c] # "idle" => posted[c] \in Tasks /\ posted[c].client = c

\* mix_enqueue copies into a slot that is still free, and what it publishes is
\* the whole task.
CopyInv ==
  \A c \in Clients :
    /\ cpc[c] \in {"fill", "publish"} => Used(Q(c)) < Size
    /\ cpc[c] = "publish" => data[Q(c)][Slot(in[Q(c)])] = posted[c]

\* What the worker has copied out is what the slot still holds, until it lets
\* go of the slot.
HandInv ==
  /\ wpc \in {"check", "advance"} =>
       Used(seq) # 0 /\ got = data[seq][Slot(out[seq])]
  /\ wpc = "serve" => got \in Tasks
  /\ wpc = "poll" => got = NoTask

IInv == TypeOK /\ RingInv /\ LockInv /\ CopyInv /\ HandInv

\* Somebody waits for the task x: its client has posted it and is not served.
Awaited(x) ==
  /\ cpc[x.client] \in {"unlock", "wait"}
  /\ posted[x.client] = x
  /\ inflight[x.client] = 1

\* inflight_buffer is up while a request is on its way to the queue, and only
\* requests that are waited for get to mix_wait_for_task_completed.
OwnInv ==
  \A c \in Clients :
    /\ cpc[c] \in {"lock", "test", "fill", "publish"} /\ posted[c].kind # "large"
         => inflight[c] = 1
    /\ cpc[c] = "wait" => posted[c].kind # "large"

\* A task in a queue belongs there, and unless it is a part of a large write,
\* somebody waits for it and it is there once.
PresentInv ==
  \A q \in Queues : \A i \in 1 .. Used(q) :
    /\ QueueOf(Fifo(q)[i].kind) = q
    /\ Fifo(q)[i].kind # "large" =>
         /\ Awaited(Fifo(q)[i])
         /\ \A j \in 1 .. Used(q) : Fifo(q)[j] = Fifo(q)[i] => j = i

\* So does the task in the worker's hand, and it is in no queue any more.
ServeInv ==
  wpc = "serve" /\ got.kind # "large" =>
    /\ Awaited(got)
    /\ \A q \in Queues : \A i \in 1 .. Used(q) : Fifo(q)[i] # got

\* A posted task that nobody has served is in its queue or in the worker's hand.
LostInv ==
  \A c \in Clients :
    /\ cpc[c] \in {"unlock", "wait"}
    /\ posted[c].kind # "large"
    /\ inflight[c] = 1
    => \/ \E i \in 1 .. Used(Q(c)) : Fifo(Q(c))[i] = posted[c]
       \/ wpc = "serve" /\ got = posted[c]

WaitInv == OwnInv /\ PresentInv /\ ServeInv /\ LostInv

---------------------------------------------------------------------------
(* What the steps do to the queues *)

\* No queue changes.
Quiet == \A q \in Queues : Used(q)' = Used(q) /\ Fifo(q)' = Fifo(q)

\* x is appended to queue p.
PutsLast(p, x) ==
  /\ Used(p)' = Used(p) + 1 /\ Fifo(p)' = Append(Fifo(p), x)
  /\ \A q \in Queues : q # p => Used(q)' = Used(q) /\ Fifo(q)' = Fifo(q)

\* The oldest task x of queue p is gone.
TakesFirst(p, x) ==
  /\ Used(p)' = Used(p) - 1
  /\ Fifo(p) # <<>> /\ x = Head(Fifo(p)) /\ Fifo(p)' = Tail(Fifo(p))
  /\ \A q \in Queues : q # p => Used(q)' = Used(q) /\ Fifo(q)' = Fifo(q)

\* A queue whose counters and slots are left alone keeps its tasks.
LEMMA SameRing ==
  ASSUME NEW q \in Queues, in'[q] = in[q], out'[q] = out[q], data'[q] = data[q]
  PROVE  Used(q)' = Used(q) /\ Fifo(q)' = Fifo(q)
  BY DEF Used, Fifo

\* The number of tasks, and the first one's slot against the next free one.
LEMMA UsedFacts ==
  ASSUME TypeOK, NEW q \in Queues
  PROVE  /\ Used(q) \in 0 .. Wrap - 1
         /\ Slot(in[q]) \in Slots /\ Slot(out[q]) \in Slots
         /\ Used(q) # 0 /\ Used(q) < Size => Slot(in[q]) # Slot(out[q])
<1> DEFINE n == Used(q)
<1>1. in[q] \in 0 .. Wrap - 1 /\ out[q] \in 0 .. Wrap - 1 /\ out[q] \in Nat /\ in[q] \in Nat
  BY DEF TypeOK
<1>2. n \in 0 .. Wrap - 1 /\ Slot(in[q]) = Slot(out[q] + n)
  BY <1>1, DistanceIs, FifoIsRing
<1> HIDE DEF n
<1>3. ASSUME n # 0, n < Size
      PROVE  Slot(out[q] + n) # Slot(out[q])
  <2>1. n \in 0 .. Size - 1 /\ 0 \in 0 .. Size - 1 /\ out[q] + 0 = out[q]
    BY <1>1, <1>2, <1>3, QueueAssumption
  <2> QED
    BY <1>1, <1>3, <2>1, SlotsDiffer
<1> QED
  BY <1>1, <1>2, <1>3, SlotWrap DEF n

\* Where the worker reads is where the oldest task is.
LEMMA FirstSlot ==
  ASSUME TypeOK, RingInv, NEW q \in Queues, Used(q) # 0
  PROVE  Fifo(q) # <<>> /\ Head(Fifo(q)) = data[q][Slot(out[q])]
         /\ data[q][Slot(out[q])] \in Tasks
<1>1. /\ in[q] \in 0 .. Wrap - 1 /\ out[q] \in 0 .. Wrap - 1
      /\ Distance(in[q], out[q]) # 0 /\ Distance(in[q], out[q]) <= Size
      /\ SameBut(data[q], data[q], Slot(out[q]))
  BY FifoIsRing DEF TypeOK, RingInv, SameBut
<1>2. Fifo(q) # <<>> /\ Head(Fifo(q)) = data[q][Slot(out[q])]
  BY <1>1, RingTake, FifoIsRing
<1>3. Fifo(q) \in Seq(Tasks)
  BY DEF RingInv
<1>4. Head(Fifo(q)) \in Tasks
  BY <1>2, <1>3
<1> QED
  BY <1>2, <1>4

\* mix_enqueue's memcpy goes to a slot that holds no task of the queue.
LEMMA CopyQuiet ==
  ASSUME TypeOK, NEW p \in Queues, Used(p) < Size, NEW v,
         data' = [data EXCEPT ![p][Slot(in[p])] = v], UNCHANGED <<in, out>>
  PROVE  Quiet
<1> SUFFICES ASSUME NEW q \in Queues
             PROVE  Used(q)' = Used(q) /\ Fifo(q)' = Fifo(q)
  BY DEF Quiet
<1>1. CASE q # p
  BY <1>1, SameRing DEF TypeOK
<1>2. CASE q = p
  <2>1. /\ in[q] \in 0 .. Wrap - 1 /\ out[q] \in 0 .. Wrap - 1
        /\ Distance(in[q], out[q]) < Size
        /\ SameBut(data'[q], data[q], Slot(in[q]))
    BY <1>2, FifoIsRing DEF TypeOK, SameBut
  <2>2. Ring(in[q], out[q], data'[q]) = Ring(in[q], out[q], data[q])
    BY <2>1, RingFrame
  <2>3. Used(q)' = Used(q) /\ Fifo(q)' = Ring(in[q], out[q], data'[q])
    BY DEF Used, Fifo, Ring, Distance
  <2> QED
    BY <2>2, <2>3, FifoIsRing
<1> QED
  BY <1>1, <1>2

\* Every step but Publish and Advance leaves the queues as they are.
LEMMA QuietSteps ==
  ASSUME TypeOK, RingInv, LockInv, CopyInv,
         \/ UNCHANGED vars
         \/ \E c \in Clients :
              \/ Lock(c) \/ Test(c) \/ Fill(c) \/ Unlock(c) \/ Return(c)
              \/ \E kind \in Kinds : Request(c, kind)
         \/ PollEmpty \/ ReadSlot \/ CheckSlot \/ Serve
  PROVE  Quiet
<1>1. CASE UNCHANGED <<in, out, data>>
  BY <1>1, SameRing DEF Quiet
<1>2. ASSUME NEW c \in Clients, Test(c) PROVE Quiet
  <2>1. Q(c) \in Queues
    BY DEF Q, QueueOf, Queues
  <2>2. CASE Unused(Q(c)) > 0
    <3>1. Used(Q(c)) < Size
      BY <2>1, <2>2, UsedFacts, QueueAssumption DEF Unused
    <3> QED
      BY <1>2, <2>1, <2>2, <3>1, CopyQuiet DEF Test
  <2>3. CASE ~ (Unused(Q(c)) > 0)
    BY <1>1, <1>2, <2>3 DEF Test
  <2> QED
    BY <2>2, <2>3
<1>3. ASSUME NEW c \in Clients, Fill(c) PROVE Quiet
  <2>1. Q(c) \in Queues
    BY DEF Q, QueueOf, Queues
  <2>2. Used(Q(c)) < Size
    BY <1>3 DEF Fill, CopyInv
  <2> QED
    BY <1>3, <2>1, <2>2, CopyQuiet DEF Fill
<1> QED
  BY <1>1, <1>2, <1>3 DEF vars, queueVars, Lock, Unlock, Return, Request, PollEmpty,
     ReadSlot, CheckSlot, Serve

\* queue->in += 1 makes the task visible, behind those that were there.
LEMMA PublishPuts ==
  ASSUME TypeOK, RingInv, LockInv, CopyInv, NEW c \in Clients, Publish(c)
  PROVE  \E p \in Queues : p = Q(c) /\ Used(p) < Size /\ PutsLast(p, posted[c])
<1>1. PICK p \in Queues : p = Q(c)
  BY DEF Q, QueueOf, Queues
<1>2. /\ Used(p) < Size /\ data[p][Slot(in[p])] = posted[c]
      /\ in' = [in EXCEPT ![p] = Bump(in[p])] /\ out' = out /\ data' = data
  BY <1>1 DEF Publish, CopyInv
<1>3. /\ in[p] \in 0 .. Wrap - 1 /\ out[p] \in 0 .. Wrap - 1
      /\ Distance(in[p], out[p]) < Size /\ in'[p] = Bump(in[p])
  BY <1>2, FifoIsRing DEF TypeOK
<1>4. /\ Distance(in'[p], out[p]) = Distance(in[p], out[p]) + 1
      /\ Ring(in'[p], out[p], data[p]) = Append(Ring(in[p], out[p], data[p]), posted[c])
  BY <1>2, <1>3, RingPut
<1>5. Used(p)' = Distance(in'[p], out[p]) /\ Fifo(p)' = Ring(in'[p], out[p], data[p])
  BY <1>2 DEF Used, Fifo, Ring, Distance
<1>6. Used(p)' = Used(p) + 1 /\ Fifo(p)' = Append(Fifo(p), posted[c])
  BY <1>4, <1>5, FifoIsRing
<1>7. ASSUME NEW q \in Queues, q # p
      PROVE  Used(q)' = Used(q) /\ Fifo(q)' = Fifo(q)
  BY <1>2, <1>7, SameRing DEF TypeOK
<1>8. PutsLast(p, posted[c])
  BY <1>6, <1>7 DEF PutsLast
<1> QED
  BY <1>1, <1>2, <1>8

\* queue->out += 1 takes the task that was copied out.
LEMMA AdvanceTakes ==
  ASSUME TypeOK, RingInv, HandInv, Advance
  PROVE  got \in Tasks /\ \E p \in Queues : p = seq /\ TakesFirst(p, got)
<1>1. PICK p \in Queues : p = seq
  BY DEF TypeOK
<1>2. /\ Used(p) # 0 /\ Used(p) <= Size /\ got = data[p][Slot(out[p])]
      /\ out' = [out EXCEPT ![p] = Bump(out[p])] /\ in' = in
      /\ data' = [data EXCEPT ![p][Slot(out[p])] = NoTask]
  BY <1>1 DEF Advance, HandInv, RingInv
<1>3. /\ in[p] \in 0 .. Wrap - 1 /\ out[p] \in 0 .. Wrap - 1
      /\ Distance(in[p], out[p]) # 0 /\ Distance(in[p], out[p]) <= Size
      /\ out'[p] = Bump(out[p])
      /\ SameBut(data'[p], data[p], Slot(out[p]))
  BY <1>2, FifoIsRing DEF TypeOK, SameBut
<1>4. /\ Distance(in[p], out'[p]) = Distance(in[p], out[p]) - 1
      /\ Ring(in[p], out'[p], data'[p]) = Tail(Ring(in[p], out[p], data[p]))
  BY <1>3, RingTake
<1>5. Used(p)' = Distance(in[p], out'[p]) /\ Fifo(p)' = Ring(in[p], out'[p], data'[p])
  BY <1>2 DEF Used, Fifo, Ring, Distance
<1>6. Used(p)' = Used(p) - 1 /\ Fifo(p)' = Tail(Fifo(p))
  BY <1>4, <1>5, FifoIsRing
<1>7. ASSUME NEW q \in Queues, q # p
      PROVE  Used(q)' = Used(q) /\ Fifo(q)' = Fifo(q)
  BY <1>2, <1>7, SameRing DEF TypeOK
<1>8. Fifo(p) # <<>> /\ got = Head(Fifo(p)) /\ got \in Tasks
  BY <1>2, FirstSlot
<1>9. TakesFirst(p, got)
  BY <1>6, <1>7, <1>8 DEF TakesFirst
<1> QED
  BY <1>1, <1>8, <1>9

---------------------------------------------------------------------------
(* The invariant of the rings *)

LEMMA QueueOfClient ==
  \A c : Q(c) \in Queues
  BY DEF Q, QueueOf, Queues

\* Every step keeps the types: counters stay unsigned ints below Wrap.
LEMMA TypeNext ==
  ASSUME TypeOK, LockInv, [Next]_vars
  PROVE  TypeOK'
<1> USE DEF queueVars, clientVars, workerVars
<1>1. ASSUME NEW c \in Clients, NEW kind \in Kinds, Request(c, kind) PROVE TypeOK'
  <2>1. [client |-> c, kind |-> kind] \in Tasks
    BY DEF Tasks
  <2> QED
    BY <1>1, <2>1 DEF Request, TypeOK
<1>2. ASSUME NEW c \in Clients, Lock(c) PROVE TypeOK'
  BY <1>2 DEF Lock, TypeOK
<1>3. ASSUME NEW c \in Clients, Test(c) PROVE TypeOK'
  <2>1. CASE Unused(Q(c)) > 0
    BY <1>3, <2>1 DEF Test, TypeOK
  <2>2. CASE ~ (Unused(Q(c)) > 0)
    BY <1>3, <2>2 DEF Test, TypeOK
  <2> QED
    BY <2>1, <2>2
<1>4. ASSUME NEW c \in Clients, Fill(c) PROVE TypeOK'
  BY <1>4 DEF Fill, TypeOK
<1>5. ASSUME NEW c \in Clients, Publish(c) PROVE TypeOK'
  <2>1. Q(c) \in Queues /\ Bump(in[Q(c)]) \in 0 .. Wrap - 1
    BY QueueOfClient, BumpCases DEF TypeOK
  <2> QED
    BY <1>5, <2>1 DEF Publish, TypeOK
<1>6. ASSUME NEW c \in Clients, Unlock(c) PROVE TypeOK'
  BY <1>6 DEF Unlock, TypeOK
<1>7. ASSUME NEW c \in Clients, Return(c) PROVE TypeOK'
  BY <1>7 DEF Return, TypeOK
<1>8. CASE PollEmpty
  BY <1>8 DEF PollEmpty, OtherQueue, Queues, TypeOK
<1>9. CASE ReadSlot
  <2>1. seq \in Queues /\ Slot(out[seq]) \in Slots
    BY UsedFacts DEF TypeOK
  <2> QED
    BY <1>9, <2>1 DEF ReadSlot, TypeOK
<1>10. CASE CheckSlot
  BY <1>10 DEF CheckSlot, TypeOK
<1>11. CASE Advance
  <2>1. seq \in Queues /\ Bump(out[seq]) \in 0 .. Wrap - 1
    BY BumpCases DEF TypeOK
  <2>2. OtherQueue \in Queues
    BY DEF OtherQueue, Queues
  <2> QED
    BY <1>11, <2>1, <2>2 DEF Advance, TypeOK
<1>12. CASE Serve
  BY <1>12 DEF Serve, TypeOK
<1>13. CASE UNCHANGED vars
  BY <1>13 DEF vars, TypeOK
<1> QED
  BY <1>1, <1>2, <1>3, <1>4, <1>5, <1>6, <1>7, <1>8, <1>9, <1>10, <1>11, <1>12, <1>13
     DEF Next, ClientStep, WorkerStep

\* The bound and the contents of the rings, step by step.
LEMMA RingNext ==
  ASSUME IInv, [Next]_vars
  PROVE  RingInv'
<1> USE DEF IInv
<1>1. CASE Quiet
  BY <1>1 DEF Quiet, RingInv
<1>2. ASSUME NEW c \in Clients, Publish(c) PROVE RingInv'
  <2>1. PICK p \in Queues : p = Q(c) /\ Used(p) < Size /\ PutsLast(p, posted[c])
    BY <1>2, PublishPuts
  <2>2. posted[c] \in Tasks
    BY <1>2 DEF Publish, LockInv
  <2>3. Used(p) \in Nat /\ Size \in Nat /\ Fifo(p) \in Seq(Tasks)
    BY UsedFacts, QueueAssumption DEF RingInv
  <2>4. Append(Fifo(p), posted[c]) \in Seq(Tasks)
    BY <2>2, <2>3
  <2>5. Used(p)' <= Size /\ Fifo(p)' \in Seq(Tasks)
    BY <2>1, <2>3, <2>4 DEF PutsLast
  <2> QED
    BY <2>1, <2>5 DEF PutsLast, RingInv
<1>3. CASE Advance
  <2>1. PICK p \in Queues : p = seq /\ TakesFirst(p, got)
    BY <1>3, AdvanceTakes
  <2>2. Used(p) \in Nat /\ Size \in Nat /\ Fifo(p) \in Seq(Tasks) /\ Used(p) <= Size
    BY UsedFacts, QueueAssumption DEF RingInv
  <2>3. Fifo(p) # <<>>
    BY <2>1 DEF TakesFirst
  <2>4. Tail(Fifo(p)) \in Seq(Tasks)
    BY <2>2, <2>3
  <2>5. Used(p)' <= Size /\ Fifo(p)' \in Seq(Tasks)
    BY <2>1, <2>2, <2>4 DEF TakesFirst
  <2> QED
    BY <2>1, <2>5 DEF TakesFirst, RingInv
<1> QED
  BY <1>1, <1>2, <1>3, QuietSteps DEF Next, ClientStep, WorkerStep

\* A queue's lock is given up by its holder only.
LEMMA LockNext ==
  ASSUME IInv, [Next]_vars
  PROVE  LockInv'
<1> USE DEF IInv, queueVars, clientVars, workerVars
<1>1. ASSUME NEW c \in Clients, NEW kind \in Kinds, Request(c, kind) PROVE LockInv'
  <2>1. [client |-> c, kind |-> kind] \in Tasks /\ [client |-> c, kind |-> kind].client = c
    BY DEF Tasks
  <2> QED
    BY <1>1, <2>1 DEF Request, LockInv, TypeOK, Q
<1>2. ASSUME NEW c \in Clients, Lock(c) PROVE LockInv'
  BY <1>2, TokenAssumption, QueueOfClient DEF Lock, LockInv, TypeOK, Q
<1>3. ASSUME NEW c \in Clients, Test(c) PROVE LockInv'
  BY <1>3 DEF Test, LockInv, TypeOK, Q
<1>4. ASSUME NEW c \in Clients, Fill(c) PROVE LockInv'
  BY <1>4 DEF Fill, LockInv, TypeOK, Q
<1>5. ASSUME NEW c \in Clients, Publish(c) PROVE LockInv'
  BY <1>5 DEF Publish, LockInv, TypeOK, Q
<1>6. ASSUME NEW c \in Clients, Unlock(c) PROVE LockInv'
  <2>1. PICK p \in Queues : p = Q(c)
    BY QueueOfClient
  <2>2. lock' = [lock EXCEPT ![p] = NoTask] /\ lock[p] = c /\ cpc[c] = "unlock"
    BY <1>6, <2>1 DEF Unlock, LockInv
  <2>3. ASSUME NEW d \in Clients, d # c
        PROVE  /\ cpc'[d] = cpc[d] /\ posted'[d] = posted[d] /\ Q(d)' = Q(d)
               /\ cpc[d] \in {"test", "fill", "publish", "unlock"} => lock'[Q(d)] = d
    <3>1. cpc'[d] = cpc[d] /\ posted'[d] = posted[d] /\ Q(d)' = Q(d)
      BY <1>6, <2>3 DEF Unlock, TypeOK, Q
    <3>2. cpc[d] \in {"test", "fill", "publish", "unlock"} => Q(d) # p /\ lock[Q(d)] = d
      BY <2>2, <2>3 DEF LockInv
    <3> QED
      BY <2>2, <3>1, <3>2 DEF TypeOK
  <2>4. /\ cpc'[c] \in {"idle", "wait"}
        /\ cpc'[c] # "idle" => posted'[c] = posted[c]
    BY <1>6 DEF Unlock, TypeOK
  <2> QED
    BY <2>2, <2>3, <2>4 DEF LockInv
<1>7. ASSUME NEW c \in Clients, Return(c) PROVE LockInv'
  BY <1>7 DEF Return, LockInv, TypeOK, Q
<1>8. CASE UNCHANGED <<lock, cpc, posted>>
  BY <1>8 DEF LockInv, Q
<1> QED
  BY <1>1, <1>2, <1>3, <1>4, <1>5, <1>6, <1>7, <1>8 DEF Next, ClientStep, WorkerStep,
     PollEmpty, ReadSlot, CheckSlot, Advance, Serve, vars

\* Two clients inside mix_enqueue are in different queues.
LEMMA OneHolder ==
  ASSUME LockInv, NEW c \in Clients, NEW d \in Clients,
         cpc[c] \in {"test", "fill", "publish", "unlock"},
         cpc[d] \in {"test", "fill", "publish", "unlock"}, Q(c) = Q(d)
  PROVE  c = d
  BY DEF LockInv

\* The slot being filled stays free, and the worker's steps only make room.
LEMMA CopyNext ==
  ASSUME IInv, [Next]_vars
  PROVE  CopyInv'
<1> USE DEF IInv, queueVars, clientVars, workerVars
<1> SUFFICES ASSUME NEW c \in Clients, cpc'[c] \in {"fill", "publish"}
             PROVE  /\ Used(Q(c))' < Size
                    /\ cpc'[c] = "publish" => data'[Q(c)'][Slot(in'[Q(c)'])] = posted'[c]
  BY DEF CopyInv
<1>0. PICK p \in Queues : p = Q(c)
  BY QueueOfClient
<1>1. ASSUME NEW d \in Clients, \/ \E kind \in Kinds : Request(d, kind)
                               \/ Lock(d) \/ Unlock(d) \/ Return(d)
      PROVE  Used(Q(c))' < Size
             /\ (cpc'[c] = "publish" => data'[Q(c)'][Slot(in'[Q(c)'])] = posted'[c])
  <2>1. d # c /\ cpc'[c] = cpc[c] /\ posted'[c] = posted[c]
    BY <1>1 DEF Request, Lock, Unlock, Return, TypeOK
  <2>2. UNCHANGED <<in, out, data>>
    BY <1>1 DEF Request, Lock, Unlock, Return
  <2> QED
    BY <2>1, <2>2 DEF CopyInv, Q, Used
<1>2. ASSUME NEW d \in Clients, Test(d) \/ Fill(d)
      PROVE  Used(Q(c))' < Size
             /\ (cpc'[c] = "publish" => data'[Q(c)'][Slot(in'[Q(c)'])] = posted'[c])
  <2>1. UNCHANGED <<in, out, posted>> /\ Q(c)' = p
    BY <1>0, <1>2 DEF Test, Fill, Q
  <2>2. CASE d = c
    <3>1. Used(p) < Size
      BY <1>0, <1>2, <2>2, UsedFacts, QueueAssumption DEF Test, Fill, CopyInv, Unused, TypeOK
    <3>2. cpc'[c] = "publish" => data'[p][Slot(in[p])] = posted[c]
      BY <1>0, <1>2, <2>2, UsedFacts DEF Test, Fill, TypeOK
    <3> QED
      BY <2>1, <3>1, <3>2 DEF Used
  <2>3. CASE d # c
    <3>1. cpc'[c] = cpc[c]
      BY <1>2, <2>3 DEF Test, Fill, TypeOK
    <3>2. Q(d) # p
      BY <1>0, <1>2, <2>3, <3>1, OneHolder DEF Test, Fill
    <3>3. data'[p] = data[p]
      BY <1>2, <3>2 DEF Test, Fill, TypeOK
    <3> QED
      BY <1>0, <2>1, <3>1, <3>3 DEF CopyInv, Used
  <2> QED
    BY <2>2, <2>3
<1>3. ASSUME NEW d \in Clients, Publish(d)
      PROVE  Used(Q(c))' < Size
             /\ (cpc'[c] = "publish" => data'[Q(c)'][Slot(in'[Q(c)'])] = posted'[c])
  <2>1. d # c /\ cpc'[c] = cpc[c] /\ UNCHANGED <<out, data, posted>> /\ Q(c)' = p
    BY <1>0, <1>3 DEF Publish, TypeOK, Q
  <2>2. Q(d) # p
    BY <1>0, <1>3, <2>1, OneHolder DEF Publish
  <2>3. in'[p] = in[p]
    BY <1>3, <2>2 DEF Publish, TypeOK
  <2> QED
    BY <1>0, <2>1, <2>3 DEF CopyInv, Used
<1>4. CASE Advance
  <2>1. UNCHANGED <<in, cpc, posted>> /\ Q(c)' = p
    BY <1>0, <1>4 DEF Advance, Q
  <2>2. Used(p) < Size /\ (cpc[c] = "publish" => data[p][Slot(in[p])] = posted[c])
    BY <1>0, <2>1 DEF CopyInv
  <2>3. Used(p)' < Size
    <3>1. PICK r \in Queues : TakesFirst(r, got)
      BY <1>4, AdvanceTakes
    <3>2. Used(p) \in Nat /\ Size \in Nat
      BY UsedFacts, QueueAssumption
    <3> QED
      BY <2>2, <3>1, <3>2, UsedFacts DEF TakesFirst
  <2>4. data'[p][Slot(in[p])] = data[p][Slot(in[p])]
    <3>1. CASE p # seq
      BY <1>4, <3>1 DEF Advance, TypeOK
    <3>2. CASE p = seq
      <4>1. Used(p) # 0
        BY <1>4, <3>2 DEF Advance, HandInv
      <4>2. Slot(in[p]) # Slot(out[p]) /\ Slot(in[p]) \in Slots
        BY <2>2, <4>1, UsedFacts
      <4> QED
        BY <1>4, <3>2, <4>2 DEF Advance, TypeOK
    <3> QED
      BY <3>1, <3>2
  <2> QED
    BY <2>1, <2>2, <2>3, <2>4
<1>5. CASE UNCHANGED <<in, out, data, cpc, posted>>
  BY <1>5 DEF CopyInv, Q, Used
<1> QED
  BY <1>1, <1>2, <1>3, <1>4, <1>5 DEF Next, ClientStep, WorkerStep,
     PollEmpty, ReadSlot, CheckSlot, Serve, vars

\* The slot in the worker's hand is not written to: a producer that fills the
\* ring up stops one slot short of it.
LEMMA HandNext ==
  ASSUME IInv, [Next]_vars
  PROVE  HandInv'
<1> USE DEF IInv, queueVars, clientVars, workerVars
<1>0. PICK p \in Queues : p = seq
  BY DEF TypeOK
<1>1. CASE wpc \in {"check", "advance"} /\ UNCHANGED workerVars
  <2>1. Used(p) # 0 /\ got = data[p][Slot(out[p])] /\ seq' = p
    BY <1>0, <1>1 DEF HandInv
  <2>2. Used(p)' # 0 /\ out' = out /\ data'[p][Slot(out[p])] = data[p][Slot(out[p])]
    <3>1. ASSUME NEW c \in Clients, Test(c) \/ Fill(c)
          PROVE  Used(p)' # 0 /\ out' = out
                 /\ data'[p][Slot(out[p])] = data[p][Slot(out[p])]
      <4>1. Used(p)' = Used(p) /\ out' = out
        BY <3>1 DEF Test, Fill, Used
      <4>2. Q(c) \in Queues
        BY QueueOfClient
      <4>3. CASE Q(c) # p
        BY <2>1, <3>1, <4>1, <4>2, <4>3 DEF Test, Fill, TypeOK
      <4>4. CASE Q(c) = p /\ Test(c) /\ ~ (Unused(p) > 0)
        BY <2>1, <4>1, <4>4 DEF Test
      <4>5. CASE Q(c) = p /\ (Fill(c) \/ Unused(p) > 0)
        <5>1. Used(p) < Size
          BY <4>5, UsedFacts, QueueAssumption DEF Fill, CopyInv, Unused
        <5>2. Slot(in[p]) # Slot(out[p]) /\ Slot(out[p]) \in Slots
          BY <2>1, <5>1, UsedFacts
        <5> QED
          BY <2>1, <3>1, <4>1, <4>5, <5>2 DEF Test, Fill, TypeOK
      <4> QED
        BY <3>1, <4>3, <4>4, <4>5
    <3>2. ASSUME NEW c \in Clients, Publish(c)
          PROVE  Used(p)' # 0 /\ out' = out /\ data' = data
      <4>1. PICK r \in Queues : PutsLast(r, posted[c])
        BY <3>2, PublishPuts
      <4>2. Used(p) \in Nat
        BY UsedFacts
      <4> QED
        BY <2>1, <3>2, <4>1, <4>2 DEF PutsLast, Publish
    <3>3. CASE UNCHANGED <<in, out, data>>
      BY <2>1, <3>3 DEF Used
    <3> QED
      BY <1>1, <3>1, <3>2, <3>3 DEF Next, ClientStep, WorkerStep, Request, Lock, Unlock,
         Return, PollEmpty, ReadSlot, CheckSlot, Advance, Serve, vars
  <2> QED
    BY <1>1, <2>1, <2>2 DEF HandInv
<1>2. CASE wpc \in {"poll", "serve"} /\ UNCHANGED <<wpc, got>>
  BY <1>2 DEF HandInv
<1>3. CASE ReadSlot
  BY <1>3 DEF ReadSlot, HandInv, Used
<1>4. CASE CheckSlot
  BY <1>4 DEF CheckSlot, HandInv, Used
<1>5. CASE Advance
  <2>1. got \in Tasks
    BY <1>5, AdvanceTakes
  <2> QED
    BY <1>5, <2>1 DEF Advance, HandInv
<1>6. CASE Serve
  BY <1>6 DEF Serve, HandInv
<1> QED
  BY <1>1, <1>2, <1>3, <1>4, <1>5, <1>6 DEF Next, ClientStep, WorkerStep, Request, Lock, Test,
     Fill, Publish, Unlock, Return, PollEmpty, vars, TypeOK

\* The empty rings of mix_queue_init.
LEMMA InitRings ==
  ASSUME Init
  PROVE  \A q \in Queues : Used(q) = 0 /\ Fifo(q) = <<>>
<1>1. \A q \in Queues : Used(q) = 0
  BY QueueAssumption DEF Init, Used
<1> QED
  BY <1>1 DEF Fifo

LEMMA InitIInv ==
  ASSUME Init
  PROVE  IInv
<1>1. TypeOK
  BY QueueAssumption DEF Init, TypeOK, Queues
<1>2. RingInv
  <2>1. <<>> \in Seq(Tasks) /\ 0 <= Size
    BY QueueAssumption
  <2> QED
    BY <2>1, InitRings DEF RingInv
<1>3. LockInv /\ CopyInv /\ HandInv
  BY DEF Init, LockInv, CopyInv, HandInv
<1> QED
  BY <1>1, <1>2, <1>3 DEF IInv

LEMMA NextIInv ==
  ASSUME IInv, [Next]_vars
  PROVE  IInv'
  BY TypeNext, RingNext, LockNext, CopyNext, HandNext DEF IInv

LEMMA AlwaysIInv ==
  Spec => []IInv
<1>1. Init => IInv
  BY InitIInv
<1>2. IInv /\ [Next]_vars => IInv'
  BY NextIInv
<1> QED
  BY <1>1, <1>2, PTL DEF Spec

\* The counters, slots, locks and program counters keep their types: in and out
\* stay below the wrap of an unsigned int, for any number of clients and slots.
THEOREM TypeCorrect ==
  Spec => []TypeOK
<1>1. IInv => TypeOK
  BY DEF IInv
<1> QED
  BY <1>1, AlwaysIInv, PTL

\* The worker executes no partly copied task (mix_dequeue takes no lock).
THEOREM NothingTorn ==
  Spec => []NoTornTask
<1>1. IInv => NoTornTask
  <2> SUFFICES ASSUME IInv PROVE got # Torn
    BY DEF NoTornTask
  <2>1. CASE wpc \in {"check", "advance"}
    <3>1. seq \in Queues /\ Used(seq) # 0 /\ got = data[seq][Slot(out[seq])]
      BY <2>1 DEF IInv, HandInv, TypeOK
    <3> QED
      BY <3>1, FirstSlot, TokenAssumption DEF IInv
  <2>2. CASE wpc \in {"poll", "serve"}
    BY <2>2, TokenAssumption DEF IInv, HandInv
  <2> QED
    BY <2>1, <2>2 DEF IInv, TypeOK
<1> QED
  BY <1>1, AlwaysIInv, PTL

---------------------------------------------------------------------------
(* The rings implement queues *)

\* Every step of the rings is a step of the queues or none: Publish puts, Advance
\* takes, Serve finishes.
LEMMA StepImplements ==
  ASSUME IInv, IInv', [Next]_vars
  PROVE  [Abstract!Next]_(Abstract!fifoVars)
<1> USE DEF queueVars, clientVars, workerVars
<1> DEFINE F == [q \in Queues |-> Fifo(q)]
           T == IF wpc = "serve" THEN got ELSE NoTask
<1>1. ASSUME NEW c \in Clients, Publish(c) PROVE Abstract!Next
  <2>1. PICK p \in Queues : p = Q(c) /\ Used(p) < Size /\ PutsLast(p, posted[c])
    BY <1>1, PublishPuts DEF IInv
  <2>2. posted[c] \in Tasks /\ T' = T
    BY <1>1 DEF Publish, LockInv, IInv
  <2>3. Len(F[p]) < Size
    BY <2>1, UsedFacts DEF Fifo, IInv
  <2>4. F' = [F EXCEPT ![p] = Append(F[p], posted[c])]
    BY <2>1 DEF PutsLast
  <2>5. Abstract!Put(p, posted[c])
    BY <2>2, <2>3, <2>4 DEF Abstract!Put
  <2> QED
    BY <2>1, <2>2, <2>5 DEF Abstract!Next
<1>2. ASSUME Advance PROVE Abstract!Next
  <2>1. PICK p \in Queues : p = seq /\ TakesFirst(p, got)
    BY <1>2, AdvanceTakes DEF IInv
  <2>2. T = NoTask /\ T' = got
    BY <1>2 DEF Advance
  <2>3. F[p] # <<>> /\ got = Head(F[p])
    BY <2>1 DEF TakesFirst
  <2>4. F' = [F EXCEPT ![p] = Tail(F[p])]
    BY <2>1 DEF TakesFirst
  <2>5. Abstract!Take(p)
    BY <2>2, <2>3, <2>4 DEF Abstract!Take
  <2> QED
    BY <2>1, <2>5 DEF Abstract!Next
<1>3. ASSUME Quiet PROVE F' = F
  BY <1>3 DEF Quiet
<1>4. ASSUME Serve PROVE Abstract!Next
  <2>1. F' = F
    BY <1>3, <1>4, QuietSteps DEF IInv
  <2>2. T # NoTask /\ T' = NoTask
    BY <1>4, TokenAssumption DEF Serve, IInv, HandInv
  <2>3. Abstract!Finish
    BY <2>1, <2>2 DEF Abstract!Finish
  <2> QED
    BY <2>3 DEF Abstract!Next
<1>5. ASSUME \/ UNCHANGED vars
             \/ \E c \in Clients :
                  \/ Lock(c) \/ Test(c) \/ Fill(c) \/ Unlock(c) \/ Return(c)
                  \/ \E kind \in Kinds : Request(c, kind)
             \/ PollEmpty \/ ReadSlot \/ CheckSlot
      PROVE  UNCHANGED Abstract!fifoVars
  <2>1. F' = F
    BY <1>3, <1>5, QuietSteps DEF IInv
  <2>2. T' = T
    BY <1>5 DEF Lock, Test, Fill, Unlock, Return, Request, PollEmpty, ReadSlot, CheckSlot, vars
  <2> QED
    BY <2>1, <2>2 DEF Abstract!fifoVars
<1> QED
  BY <1>1, <1>2, <1>4, <1>5 DEF Next, ClientStep, WorkerStep

\* The lock-free ring buffers of mix_queue.c with their wrapping counters
\* implement the bounded first-in first-out queues of BoundedFifo.
THEOREM RingsAreFifos ==
  Spec => ImplementsFifo
<1>1. Init => Abstract!Init
  BY InitRings DEF Init, Abstract!Init
<1>2. IInv /\ IInv' /\ [Next]_vars => [Abstract!Next]_(Abstract!fifoVars)
  BY StepImplements
<1> QED
  BY <1>1, <1>2, AlwaysIInv, PTL DEF Spec, ImplementsFifo, Abstract!Spec

---------------------------------------------------------------------------
(* No post is lost *)

LEMMA SeqEntry ==
  ASSUME NEW S, NEW x \in Seq(S), NEW i \in DOMAIN x
  PROVE  x[i] \in S
  OBVIOUS

LEMMA FifoEntry ==
  ASSUME IInv, NEW q \in Queues, NEW i \in 1 .. Used(q)
  PROVE  Fifo(q)[i] \in Tasks /\ Fifo(q)[i].client \in Clients /\ Fifo(q)[i].kind \in Kinds
<1>1. Fifo(q) \in Seq(Tasks) /\ i \in DOMAIN Fifo(q)
  BY DEF IInv, RingInv, Fifo
<1>2. Fifo(q)[i] \in Tasks
  BY <1>1, SeqEntry
<1> QED
  BY <1>2 DEF Tasks

\* A queue of metadata tasks is never full when another one comes: the tasks in
\* it have different clients, none of them the one that posts.
LEMMA RoomForMetadata ==
  ASSUME IInv, WaitInv, NEW c \in Clients, cpc[c] = "test", posted[c].kind = "metadata"
  PROVE  Used(Q(c)) < Size
<1> DEFINE n == Used("nvm")
           f == [i \in 1 .. n |-> Fifo("nvm")[i].client]
           D == Clients \ {c}
<1>1. Q(c) = "nvm" /\ "nvm" \in Queues
  BY DEF Q, QueueOf, Queues
<1>2. n \in Nat
  BY <1>1, UsedFacts DEF IInv
<1>3. ASSUME NEW i \in 1 .. n
      PROVE  /\ Fifo("nvm")[i].kind = "metadata"
             /\ f[i] \in D
             /\ posted[f[i]] = Fifo("nvm")[i]
             /\ \A j \in 1 .. n : Fifo("nvm")[j] = Fifo("nvm")[i] => j = i
  <2>1. Fifo("nvm")[i].client \in Clients /\ Fifo("nvm")[i].kind \in Kinds
    BY <1>1, FifoEntry
  <2>2. QueueOf(Fifo("nvm")[i].kind) = "nvm"
    BY <1>1 DEF WaitInv, PresentInv
  <2>3. Fifo("nvm")[i].kind = "metadata"
    BY <2>1, <2>2 DEF QueueOf, Kinds
  <2>4. /\ Awaited(Fifo("nvm")[i])
        /\ \A j \in 1 .. n : Fifo("nvm")[j] = Fifo("nvm")[i] => j = i
    BY <1>1, <2>3 DEF WaitInv, PresentInv
  <2>5. Fifo("nvm")[i].client # c
    BY <2>4 DEF Awaited
  <2> QED
    BY <2>1, <2>3, <2>4, <2>5 DEF Awaited
<1> HIDE DEF n
<1>4. f \in [1 .. n -> D] /\ \A i, j \in 1 .. n : f[i] = f[j] => i = j
  BY <1>3
<1> HIDE DEF f
<1>5. f \in Injection(1 .. n, D)
  BY <1>4 DEF Injection, IsInjective
<1>6. IsFiniteSet(D) /\ Cardinality(D) = Cardinality(Clients) - 1 /\ Cardinality(Clients) \in Nat
  BY QueueAssumption, FS_RemoveElement, FS_CardinalityType
<1>7. Cardinality(1 .. n) <= Cardinality(D)
  BY <1>5, <1>6, FS_Injection
<1>8. Cardinality(1 .. n) = n
  BY <1>2, FS_Interval
<1> QED
  BY <1>1, <1>2, <1>6, <1>7, <1>8, QueueAssumption DEF n

\* The entries of a queue after a put and after a take.
LEMMA PutEntries ==
  ASSUME IInv, NEW p \in Queues, NEW x \in Tasks, PutsLast(p, x)
  PROVE  /\ Used(p) \in Nat /\ Used(p)' = Used(p) + 1
         /\ \A i \in 1 .. Used(p) : Fifo(p)'[i] = Fifo(p)[i]
         /\ Fifo(p)'[Used(p) + 1] = x
<1>1. Used(p) \in Nat
  BY UsedFacts DEF IInv
<1>2. Fifo(p) \in Seq(Tasks)
  BY DEF IInv, RingInv
<1>3. Len(Fifo(p)) = Used(p)
  BY <1>1 DEF Fifo
<1>4. \A i \in 1 .. Used(p) : Append(Fifo(p), x)[i] = Fifo(p)[i]
  BY <1>1, <1>2, <1>3
<1>5. Append(Fifo(p), x)[Used(p) + 1] = x
  BY <1>1, <1>2, <1>3
<1> QED
  BY <1>1, <1>4, <1>5 DEF PutsLast

LEMMA TakeEntries ==
  ASSUME IInv, NEW p \in Queues, NEW x, TakesFirst(p, x)
  PROVE  /\ Used(p) \in Nat \ {0} /\ Used(p)' = Used(p) - 1
         /\ x = Fifo(p)[1]
         /\ \A i \in 1 .. Used(p) - 1 : Fifo(p)'[i] = Fifo(p)[i + 1]
<1>1. Used(p) \in Nat
  BY UsedFacts DEF IInv
<1>2. Fifo(p) \in Seq(Tasks) /\ Fifo(p) # <<>>
  BY DEF IInv, RingInv, TakesFirst
<1>3. Len(Fifo(p)) = Used(p)
  BY <1>1 DEF Fifo
<1>4. Used(p) # 0
  BY <1>2, <1>3
<1>5. \A i \in 1 .. Used(p) - 1 : Tail(Fifo(p))[i] = Fifo(p)[i + 1]
  BY <1>1, <1>2, <1>3
<1>6. Head(Fifo(p)) = Fifo(p)[1]
  BY <1>2
<1> QED
  BY <1>1, <1>4, <1>5, <1>6 DEF TakesFirst

\* A task that is waited for stays so until the worker has served it.
LEMMA AwaitedStep ==
  ASSUME IInv, [Next]_vars, NEW x \in Tasks, x.kind # "large", Awaited(x),
         Serve => got.kind = "large" \/ got.client # x.client
  PROVE  Awaited(x)'
<1> USE DEF IInv, queueVars, clientVars, workerVars
<1>0. x.client \in Clients
  BY DEF Tasks
<1>1. ASSUME NEW c \in Clients, Unlock(c) PROVE Awaited(x)'
  BY <1>0, <1>1 DEF Unlock, Awaited, TypeOK
<1>2. ASSUME NEW c \in Clients, NEW kind \in Kinds, Request(c, kind) PROVE Awaited(x)'
  BY <1>0, <1>2 DEF Request, Awaited, TypeOK
<1>3. ASSUME NEW c \in Clients, Lock(c) \/ Test(c) \/ Fill(c) \/ Publish(c) \/ Return(c)
      PROVE  Awaited(x)'
  BY <1>0, <1>3 DEF Lock, Test, Fill, Publish, Return, Awaited, TypeOK
<1>4. CASE Serve
  BY <1>0, <1>4 DEF Serve, Awaited, TypeOK
<1>5. CASE UNCHANGED <<cpc, posted, inflight>>
  BY <1>5 DEF Awaited
<1> QED
  BY <1>1, <1>2, <1>3, <1>4, <1>5 DEF Next, ClientStep, WorkerStep, PollEmpty, ReadSlot,
     CheckSlot, Advance, vars

LEMMA OwnNext ==
  ASSUME IInv, WaitInv, [Next]_vars
  PROVE  OwnInv'
<1> USE DEF IInv, WaitInv, queueVars, clientVars, workerVars
<1>1. ASSUME NEW c \in Clients, NEW kind \in Kinds, Request(c, kind) PROVE OwnInv'
  BY <1>1 DEF Request, OwnInv, TypeOK
<1>2. ASSUME NEW c \in Clients, Lock(c) \/ Test(c) \/ Fill(c) \/ Publish(c) PROVE OwnInv'
  BY <1>2 DEF Lock, Test, Fill, Publish, OwnInv, TypeOK
<1>3. ASSUME NEW c \in Clients, Unlock(c) \/ Return(c) PROVE OwnInv'
  BY <1>3 DEF Unlock, Return, OwnInv, TypeOK
<1>4. CASE Serve
  <2>1. got.kind # "large" => cpc[got.client] \in {"unlock", "wait"}
    BY <1>4 DEF Serve, ServeInv, Awaited
  <2> QED
    BY <1>4, <2>1 DEF Serve, OwnInv, TypeOK
<1>5. CASE UNCHANGED <<cpc, posted, inflight>>
  BY <1>5 DEF OwnInv
<1> QED
  BY <1>1, <1>2, <1>3, <1>4, <1>5 DEF Next, ClientStep, WorkerStep, PollEmpty, ReadSlot,
     CheckSlot, Advance, vars

\* The tasks that stay in the queues are still waited for.
LEMMA EntryStaysAwaited ==
  ASSUME IInv, WaitInv, [Next]_vars, NEW q \in Queues, NEW i \in 1 .. Used(q),
         Fifo(q)[i].kind # "large"
  PROVE  \E x \in Tasks : x = Fifo(q)[i] /\ Awaited(x)'
<1>1. PICK x \in Tasks : x = Fifo(q)[i]
  BY FifoEntry
<1>2. Awaited(x) /\ x.kind # "large"
  BY <1>1 DEF WaitInv, PresentInv
<1>3. Serve => got.kind = "large" \/ got.client # x.client
  <2> SUFFICES ASSUME Serve, got.kind # "large", got.client = x.client PROVE FALSE
    OBVIOUS
  <2>1. posted[got.client] = got /\ got # x
    BY <1>1 DEF Serve, WaitInv, ServeInv, Awaited
  <2> QED
    BY <1>2, <2>1 DEF Awaited
<1>4. Awaited(x)'
  BY <1>2, <1>3, AwaitedStep
<1> QED
  BY <1>1, <1>4

\* What PresentInv says of entry x at index i of queue q, in the next state.
PresentNext(q, i, x) ==
  /\ x = Fifo(q)'[i]
  /\ QueueOf(x.kind) = q
  /\ x.kind # "large" =>
       /\ Awaited(x)'
       /\ \A j \in 1 .. Used(q)' : Fifo(q)'[j] = x => j = i

LEMMA PresentFrom ==
  ASSUME \A q \in Queues : \A i \in 1 .. Used(q)' : \E x \in Tasks : PresentNext(q, i, x)
  PROVE  PresentInv'
<1> SUFFICES ASSUME NEW q \in Queues, NEW i \in 1 .. Used(q)'
             PROVE  /\ QueueOf(Fifo(q)'[i].kind) = q
                    /\ Fifo(q)'[i].kind # "large" =>
                         /\ Awaited(Fifo(q)[i])'
                         /\ \A j \in 1 .. Used(q)' : Fifo(q)'[j] = Fifo(q)'[i] => j = i
  BY DEF PresentInv
<1>1. PICK x \in Tasks : PresentNext(q, i, x)
  OBVIOUS
<1> QED
  BY <1>1 DEF PresentNext, Awaited

LEMMA PresentKept ==
  ASSUME IInv, WaitInv, [Next]_vars, NEW q \in Queues, NEW i \in 1 .. Used(q),
         Used(q)' = Used(q), Fifo(q)' = Fifo(q)
  PROVE  \E x \in Tasks : PresentNext(q, i, x)
<1>1. PICK x \in Tasks : x = Fifo(q)[i]
  BY FifoEntry
<1>2. x.kind # "large" => Awaited(x)'
  BY <1>1, EntryStaysAwaited
<1>3. QueueOf(x.kind) = q
      /\ (x.kind # "large" => \A j \in 1 .. Used(q) : Fifo(q)[j] = x => j = i)
  BY <1>1 DEF WaitInv, PresentInv
<1>4. PresentNext(q, i, x)
  BY <1>1, <1>2, <1>3 DEF PresentNext
<1> QED
  BY <1>4

LEMMA PresentStep ==
  ASSUME IInv, WaitInv, [Next]_vars
  PROVE  PresentInv'
<1>1. CASE Quiet
  BY <1>1, PresentKept, PresentFrom DEF Quiet
<1>2. ASSUME NEW c \in Clients, Publish(c) PROVE PresentInv'
  <2>1. PICK p \in Queues : p = Q(c) /\ PutsLast(p, posted[c])
    BY <1>2, PublishPuts DEF IInv
  <2>2. PICK y \in Tasks : y = posted[c] /\ y.client = c
    BY <1>2 DEF IInv, LockInv, Publish
  <2>3. /\ Used(p) \in Nat /\ Used(p)' = Used(p) + 1
        /\ \A i \in 1 .. Used(p) : Fifo(p)'[i] = Fifo(p)[i]
        /\ Fifo(p)'[Used(p) + 1] = y
    BY <2>1, <2>2, PutEntries
  <2>4. QueueOf(y.kind) = p
    BY <2>1, <2>2 DEF Q
  <2>5. y.kind # "large" => Awaited(y)'
    BY <1>2, <2>2 DEF Publish, WaitInv, OwnInv, Awaited, IInv, TypeOK
  <2>6. y.kind # "large" => \A i \in 1 .. Used(p) : Fifo(p)[i] # y
    <3> SUFFICES ASSUME y.kind # "large", NEW i \in 1 .. Used(p), Fifo(p)[i] = y
                 PROVE  FALSE
      OBVIOUS
    <3>1. Awaited(y)
      BY DEF WaitInv, PresentInv
    <3> QED
      BY <1>2, <2>2, <3>1 DEF Awaited, Publish
  <2>7. ASSUME NEW i \in 1 .. Used(p)'
        PROVE  \E x \in Tasks : PresentNext(p, i, x)
    <3>1. CASE i \in 1 .. Used(p)
      <4>1. PICK x \in Tasks : x = Fifo(p)[i]
        BY <3>1, FifoEntry
      <4>2. x.kind # "large" => Awaited(x)'
        BY <3>1, <4>1, EntryStaysAwaited
      <4>3. QueueOf(x.kind) = p
            /\ (x.kind # "large" => \A j \in 1 .. Used(p) : Fifo(p)[j] = x => j = i)
        BY <3>1, <4>1 DEF WaitInv, PresentInv
      <4>4. x.kind # "large" => \A j \in 1 .. Used(p)' : Fifo(p)'[j] = x => j = i
        <5> SUFFICES ASSUME x.kind # "large", NEW j \in 1 .. Used(p)', Fifo(p)'[j] = x
                     PROVE  j = i
          OBVIOUS
        <5>1. j \in 1 .. Used(p) \/ j = Used(p) + 1
          BY <2>3
        <5>2. x # y
          BY <2>6, <3>1, <4>1
        <5> QED
          BY <2>3, <4>3, <5>1, <5>2
      <4>5. PresentNext(p, i, x)
        BY <2>3, <3>1, <4>1, <4>2, <4>3, <4>4 DEF PresentNext
      <4> QED
        BY <4>5
    <3>2. CASE i = Used(p) + 1
      <4>1. y.kind # "large" => \A j \in 1 .. Used(p)' : Fifo(p)'[j] = y => j = i
        <5> SUFFICES ASSUME y.kind # "large", NEW j \in 1 .. Used(p)', Fifo(p)'[j] = y
                     PROVE  j = i
          OBVIOUS
        <5>1. j \in 1 .. Used(p) \/ j = Used(p) + 1
          BY <2>3
        <5> QED
          BY <2>3, <2>6, <3>2, <5>1
      <4>2. PresentNext(p, i, y)
        BY <2>3, <2>4, <2>5, <3>2, <4>1 DEF PresentNext
      <4> QED
        BY <4>2
    <3> QED
      BY <2>3, <3>1, <3>2
  <2>8. ASSUME NEW q \in Queues, q # p, NEW i \in 1 .. Used(q)'
        PROVE  \E x \in Tasks : PresentNext(q, i, x)
    BY <2>1, <2>8, PresentKept DEF PutsLast
  <2> QED
    BY <2>7, <2>8, PresentFrom
<1>3. CASE Advance
  <2>1. PICK p \in Queues : TakesFirst(p, got)
    BY <1>3, AdvanceTakes DEF IInv
  <2>2. /\ Used(p) \in Nat \ {0} /\ Used(p)' = Used(p) - 1
        /\ \A i \in 1 .. Used(p) - 1 : Fifo(p)'[i] = Fifo(p)[i + 1]
    BY <2>1, TakeEntries
  <2>3. ASSUME NEW i \in 1 .. Used(p)'
        PROVE  \E x \in Tasks : PresentNext(p, i, x)
    <3>1. i + 1 \in 1 .. Used(p) /\ Fifo(p)'[i] = Fifo(p)[i + 1]
      BY <2>2
    <3>2. PICK x \in Tasks : x = Fifo(p)[i + 1]
      BY <3>1, FifoEntry
    <3>3. x.kind # "large" => Awaited(x)'
      BY <3>1, <3>2, EntryStaysAwaited
    <3>4. QueueOf(x.kind) = p
          /\ (x.kind # "large" => \A j \in 1 .. Used(p) : Fifo(p)[j] = x => j = i + 1)
      BY <3>1, <3>2 DEF WaitInv, PresentInv
    <3>5. x.kind # "large" => \A j \in 1 .. Used(p)' : Fifo(p)'[j] = x => j = i
      <4> SUFFICES ASSUME x.kind # "large", NEW j \in 1 .. Used(p)', Fifo(p)'[j] = x
                   PROVE  j = i
        OBVIOUS
      <4>1. j \in Nat /\ i \in Nat /\ j + 1 \in 1 .. Used(p) /\ Fifo(p)[j + 1] = x
        BY <2>2
      <4> QED
        BY <3>4, <4>1
    <3>6. PresentNext(p, i, x)
      BY <3>1, <3>2, <3>3, <3>4, <3>5 DEF PresentNext
    <3> QED
      BY <3>6
  <2>4. ASSUME NEW q \in Queues, q # p, NEW i \in 1 .. Used(q)'
        PROVE  \E x \in Tasks : PresentNext(q, i, x)
    BY <2>1, <2>4, PresentKept DEF TakesFirst
  <2> QED
    BY <2>3, <2>4, PresentFrom
<1> QED
  BY <1>1, <1>2, <1>3, QuietSteps DEF Next, ClientStep, WorkerStep, IInv

\* The task in the worker's hand has left its queue for good.
LEMMA ServeNext ==
  ASSUME IInv, WaitInv, [Next]_vars
  PROVE  ServeInv'
<1> USE DEF queueVars, clientVars, workerVars
<1>1. CASE Advance
  <2>1. PICK p \in Queues : p = seq /\ TakesFirst(p, got)
    BY <1>1, AdvanceTakes DEF IInv
  <2>2. PICK g \in Tasks : g = got
    BY <1>1, AdvanceTakes DEF IInv
  <2>3. /\ Used(p) \in Nat \ {0} /\ Used(p)' = Used(p) - 1 /\ g = Fifo(p)[1]
        /\ \A i \in 1 .. Used(p) - 1 : Fifo(p)'[i] = Fifo(p)[i + 1]
    BY <2>1, <2>2, TakeEntries
  <2>4. SUFFICES ASSUME g.kind # "large"
                 PROVE  /\ Awaited(g)'
                        /\ \A q \in Queues : \A i \in 1 .. Used(q)' : Fifo(q)'[i] # g
    <3>1. got' = g
      BY <1>1, <2>2 DEF Advance
    <3> QED
      BY <2>4, <3>1 DEF ServeInv, Awaited
  <2>5. 1 \in 1 .. Used(p)
    BY <2>3
  <2>6. Awaited(g)'
    BY <2>3, <2>4, <2>5, EntryStaysAwaited
  <2>7. QueueOf(g.kind) = p /\ \A j \in 1 .. Used(p) : Fifo(p)[j] = g => j = 1
    BY <2>3, <2>4, <2>5 DEF WaitInv, PresentInv
  <2>8. ASSUME NEW q \in Queues, NEW i \in 1 .. Used(q)', Fifo(q)'[i] = g
        PROVE  FALSE
    <3>1. CASE q = p
      <4>1. i \in Nat /\ i # 0 /\ i + 1 \in 1 .. Used(p) /\ Fifo(p)[i + 1] = g
        BY <2>3, <2>8, <3>1
      <4> QED
        BY <2>7, <4>1
    <3>2. CASE q # p
      <4>1. Used(q)' = Used(q) /\ Fifo(q)' = Fifo(q)
        BY <2>1, <3>2 DEF TakesFirst
      <4>2. QueueOf(g.kind) = q
        BY <2>8, <4>1 DEF WaitInv, PresentInv
      <4> QED
        BY <2>7, <3>2, <4>2
    <3> QED
      BY <3>1, <3>2
  <2> QED
    BY <2>6, <2>8
<1>2. CASE wpc' # "serve"
  BY <1>2 DEF ServeInv
<1>3. CASE wpc = "serve" /\ UNCHANGED <<wpc, got>>
  <2>1. PICK g \in Tasks : g = got
    BY <1>3 DEF IInv, HandInv
  <2>2. SUFFICES ASSUME g.kind # "large"
                 PROVE  /\ Awaited(g)'
                        /\ \A q \in Queues : \A i \in 1 .. Used(q)' : Fifo(q)'[i] # g
    BY <1>3, <2>1, <2>2 DEF ServeInv, Awaited
  <2>3. Awaited(g) /\ \A q \in Queues : \A i \in 1 .. Used(q) : Fifo(q)[i] # g
    BY <1>3, <2>1, <2>2 DEF WaitInv, ServeInv
  <2>4. ~ Serve /\ ~ Advance
    BY <1>3 DEF Serve, Advance
  <2>5. Awaited(g)'
    BY <2>2, <2>3, <2>4, AwaitedStep
  <2>6. CASE Quiet
    BY <2>3, <2>5, <2>6 DEF Quiet
  <2>7. ASSUME NEW c \in Clients, Publish(c)
        PROVE  \A q \in Queues : \A i \in 1 .. Used(q)' : Fifo(q)'[i] # g
    <3>1. PICK p \in Queues : p = Q(c) /\ PutsLast(p, posted[c])
      BY <2>7, PublishPuts DEF IInv
    <3>2. PICK y \in Tasks : y = posted[c] /\ y.client = c
      BY <2>7 DEF IInv, LockInv, Publish
    <3>3. /\ Used(p) \in Nat /\ Used(p)' = Used(p) + 1
          /\ \A i \in 1 .. Used(p) : Fifo(p)'[i] = Fifo(p)[i]
          /\ Fifo(p)'[Used(p) + 1] = y
      BY <3>1, <3>2, PutEntries
    <3>4. y # g
      BY <2>3, <2>7, <3>2 DEF Awaited, Publish
    <3>5. \A i \in 1 .. Used(p)' : Fifo(p)'[i] # g
      BY <2>3, <3>3, <3>4
    <3> QED
      BY <2>3, <3>1, <3>5 DEF PutsLast
  <2> QED
    BY <2>4, <2>5, <2>6, <2>7, QuietSteps DEF Next, ClientStep, WorkerStep, IInv
<1> QED
  BY <1>1, <1>2, <1>3 DEF Next, ClientStep, WorkerStep, Request, Lock, Test, Fill, Publish,
     Unlock, Return, PollEmpty, ReadSlot, CheckSlot, Serve, vars

\* Where the task x of queue q is: in the queue or in the worker's hand.
At(q, x) ==
  \/ \E i \in 1 .. Used(q) : Fifo(q)[i] = x
  \/ wpc = "serve" /\ got = x

\* A task stays in the queue or in the worker's hand until it is served.
LEMMA AtNext ==
  ASSUME IInv, [Next]_vars, NEW q \in Queues, NEW x, At(q, x), ~ (Serve /\ got = x)
  PROVE  At(q, x)'
<1> USE DEF queueVars, clientVars, workerVars
<1>1. CASE wpc = "serve" /\ got = x
  BY <1>1 DEF At, Next, ClientStep, WorkerStep, Request, Lock, Test, Fill, Publish,
     Unlock, Return, PollEmpty, ReadSlot, CheckSlot, Advance, vars
<1>2. ASSUME NEW i \in 1 .. Used(q), Fifo(q)[i] = x
      PROVE  At(q, x)'
  <2>1. CASE Quiet
    BY <1>2, <2>1 DEF At, Quiet
  <2>2. ASSUME NEW c \in Clients, Publish(c) PROVE At(q, x)'
    <3>1. PICK p \in Queues : p = Q(c) /\ PutsLast(p, posted[c])
      BY <2>2, PublishPuts DEF IInv
    <3>2. posted[c] \in Tasks
      BY <2>2 DEF IInv, LockInv, Publish
    <3>3. CASE q = p
      <4>1. /\ Used(p) \in Nat /\ Used(p)' = Used(p) + 1
            /\ \A k \in 1 .. Used(p) : Fifo(p)'[k] = Fifo(p)[k]
        BY <3>1, <3>2, PutEntries
      <4> QED
        BY <1>2, <3>3, <4>1 DEF At
    <3>4. CASE q # p
      BY <1>2, <3>1, <3>4 DEF At, PutsLast
    <3> QED
      BY <3>3, <3>4
  <2>3. CASE Advance
    <3>1. PICK p \in Queues : p = seq /\ TakesFirst(p, got)
      BY <2>3, AdvanceTakes DEF IInv
    <3>2. CASE q = p
      <4>1. /\ Used(p) \in Nat \ {0} /\ Used(p)' = Used(p) - 1 /\ got = Fifo(p)[1]
            /\ \A k \in 1 .. Used(p) - 1 : Fifo(p)'[k] = Fifo(p)[k + 1]
        BY <3>1, TakeEntries
      <4>2. CASE i = 1
        BY <1>2, <2>3, <3>2, <4>1, <4>2 DEF At, Advance
      <4>3. CASE i # 1
        <5>1. i - 1 \in 1 .. Used(p) - 1 /\ (i - 1) + 1 = i
          BY <3>2, <4>1, <4>3
        <5>2. Fifo(p)'[i - 1] = x
          BY <1>2, <3>2, <4>1, <5>1
        <5> QED
          BY <3>2, <4>1, <5>1, <5>2 DEF At
      <4> QED
        BY <4>2, <4>3
    <3>3. CASE q # p
      BY <1>2, <3>1, <3>3 DEF At, TakesFirst
    <3> QED
      BY <3>2, <3>3
  <2> QED
    BY <2>1, <2>2, <2>3, QuietSteps DEF Next, ClientStep, WorkerStep, IInv
<1> QED
  BY <1>1, <1>2 DEF At

LEMMA LostNext ==
  ASSUME IInv, WaitInv, [Next]_vars
  PROVE  LostInv'
<1> USE DEF queueVars, clientVars, workerVars
<1> SUFFICES ASSUME NEW c \in Clients, NEW x, NEW q \in Queues, x = posted'[c], q = Q(c)',
                    cpc'[c] \in {"unlock", "wait"}, x.kind # "large", inflight'[c] = 1
             PROVE  At(q, x)'
  <2> SUFFICES ASSUME NEW c \in Clients, cpc'[c] \in {"unlock", "wait"},
                      posted'[c].kind # "large", inflight'[c] = 1
               PROVE  \/ \E i \in 1 .. Used(Q(c))' : Fifo(Q(c))'[i] = posted'[c]
                      \/ wpc' = "serve" /\ got' = posted'[c]
    BY DEF LostInv
  <2>1. PICK q \in Queues : q = Q(c)'
    BY DEF Q, QueueOf, Queues
  <2>2. PICK x : x = posted'[c]
    OBVIOUS
  <2>3. At(q, x)'
    BY <2>1, <2>2
  <2> QED
    BY <2>1, <2>2, <2>3 DEF At, Used, Fifo
<1>1. CASE Publish(c)
  <2>1. x = posted[c] /\ q = Q(c)
    BY <1>1 DEF Publish, Q
  <2>2. PICK p \in Queues : p = Q(c) /\ PutsLast(p, posted[c])
    BY <1>1, PublishPuts DEF IInv
  <2>3. posted[c] \in Tasks
    BY <1>1 DEF IInv, LockInv, Publish
  <2>4. Used(p) \in Nat /\ Used(p)' = Used(p) + 1 /\ Fifo(p)'[Used(p) + 1] = posted[c]
    BY <2>2, <2>3, PutEntries
  <2>5. Used(p)' \in 1 .. Used(p)' /\ Fifo(p)'[Used(p)'] = x
    BY <2>1, <2>4
  <2> QED
    BY <2>1, <2>2, <2>5 DEF At
<1>2. CASE Test(c)
  <2>1. posted[c].kind = "metadata" /\ ~ (Unused(Q(c)) > 0) /\ cpc[c] = "test"
    BY <1>2 DEF Test, IInv, TypeOK
  <2>2. Used(Q(c)) < Size
    BY <2>1, RoomForMetadata
  <2>3. Used(Q(c)) \in Nat /\ Size \in Nat
    BY UsedFacts, QueueOfClient, QueueAssumption DEF IInv
  <2> QED
    BY <2>1, <2>2, <2>3 DEF Unused
<1>3. CASE ~ Publish(c) /\ ~ Test(c)
  <2>1. cpc[c] \in {"unlock", "wait"} /\ posted[c] = x /\ inflight[c] = 1
    BY <1>3 DEF IInv, TypeOK, Next, ClientStep, WorkerStep, Request, Lock, Test, Fill, Publish,
       Unlock, Return, PollEmpty, ReadSlot, CheckSlot, Advance, Serve, vars
  <2>2. q = Q(c)
    BY <2>1 DEF Q
  <2>3. At(q, x)
    BY <2>1, <2>2 DEF WaitInv, LostInv, At
  <2>4. ~ (Serve /\ got = x)
    <3> SUFFICES ASSUME Serve, got = x PROVE FALSE
      OBVIOUS
    <3>1. x.client = c
      BY <2>1 DEF IInv, LockInv
    <3> QED
      BY <3>1 DEF Serve, IInv, TypeOK
  <2> QED
    BY <2>3, <2>4, AtNext
<1> QED
  BY <1>1, <1>2, <1>3

LEMMA InitWaitInv ==
  ASSUME Init
  PROVE  WaitInv
  BY InitRings DEF Init, WaitInv, OwnInv, PresentInv, ServeInv, LostInv

\* A client that waits has its task in the queue or in the worker's hand, or has
\* been served: mix_post_task_to_metadata may ignore what mix_enqueue returns.
THEOREM NoPostIsLost ==
  Spec => []NoLostPost
<1>1. Init => WaitInv
  BY InitWaitInv
<1>2. IInv /\ WaitInv /\ [Next]_vars => WaitInv'
  BY OwnNext, PresentStep, ServeNext, LostNext DEF WaitInv
<1>3. WaitInv => NoLostPost
  BY DEF WaitInv, OwnInv, LostInv, NoLostPost, Fifo
<1> QED
  BY <1>1, <1>2, <1>3, AlwaysIInv, PTL DEF Spec
===========================================================================
