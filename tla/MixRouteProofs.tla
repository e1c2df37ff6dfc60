--------------------------- MODULE MixRouteProofs ---------------------------
(***************************************************************************)
(* Proofs about the way of a request, for any number of clients, queues,   *)
(* blocks and requests and any word size that keeps the wrapped offsets    *)
(* off the device.                                                         *)
(***************************************************************************)
EXTENDS MixRoute, NatLemmas, SequenceTheorems

---------------------------------------------------------------------------
(* The inductive invariant *)

\* What a queue holds: a copy of a slot of tasks[].
TaskSet == [opcode : SUBSET {"read", "write", "clear"}, offset : 0 .. Word - 1,
            len : Nat, data : Data, client : Clients]

\* TypeOK with the types that it leaves open.
ShapeInv ==
  /\ TypeOK
  /\ request \in [Clients -> [op : Ops \union {"none"}, offset : Nat, len : Nat, data : Data]]
  /\ DOMAIN dst = Clients
  /\ posted \in [Clients -> Seq(TaskSet)]
  /\ nvm_queue \in [Queues -> Seq(TaskSet)]
  /\ buffer_queue \in [Queues -> Seq(TaskSet)]
  /\ issued \in Data

\* A slot in use holds a request of some client, on its route; a free slot
\* holds none.
RequestInv ==
  \A c \in Clients :
    /\ cpc[c] = "idle" => request[c] = NoRequest
    /\ cpc[c] # "idle" => request[c].op \in Ops /\ request[c].len # 0
    /\ cpc[c] = "nvm" => IsNvmTask(request[c])
    /\ cpc[c] \in {"small", "parts", "ssd"} => ~IsNvmTask(request[c])
    /\ cpc[c] = "parts" => request[c].op = "write"
    /\ cpc[c] = "small" => request[c].op = "write" /\ request[c].len = 1
    /\ cpc[c] = "wait" => \/ IsNvmTask(request[c])
                          \/ request[c].op = "write" /\ request[c].len = 1

\* Requests in flight do not overlap.
DisjointInv ==
  \A c, d \in Clients : c # d => Span(request[c]) \intersect Span(request[d]) = {}

\* The slot's inflight count is the length of its own request until it is
\* served.
InflightInv ==
  \A c \in Clients :
    /\ cpc[c] \notin {"idle", "wait"} => inflight[c] = request[c].len
    /\ cpc[c] = "wait" => inflight[c] \in {0, request[c].len}

\* A task in an NVM queue is the one its client waits for.
AwaitedNvm(t) ==
  /\ cpc[t.client] = "wait"
  /\ inflight[t.client] = request[t.client].len
  /\ IsNvmTask(request[t.client])
  /\ t = Task(t.client, {request[t.client].op}, TaskOffset(t.client), request[t.client].len)

NvmInv ==
  \A q \in Queues : \A i \in 1 .. Len(nvm_queue[q]) :
    /\ AwaitedNvm(nvm_queue[q][i])
    /\ \A p \in Queues : \A j \in 1 .. Len(nvm_queue[p]) :
         nvm_queue[p][j].client = nvm_queue[q][i].client => p = q /\ j = i

\* A task in a buffer queue is a part of a large write, or the small write its
\* client waits for, in the queue of its block.
AwaitedBuffer(t, q) ==
  /\ cpc[t.client] = "wait"
  /\ inflight[t.client] = request[t.client].len
  /\ ~IsNvmTask(request[t.client])
  /\ t = Task(t.client, {"write"}, TaskOffset(t.client), request[t.client].len)
  /\ q = TaskOffset(t.client) % QueueNum

Small(t) == t.opcode = {"write"}

\* A small write has one task.
Unique(Q) ==
  \A p, q \in Queues : \A i \in 1 .. Len(Q[p]), j \in 1 .. Len(Q[q]) :
    /\ Small(Q[p][i]) /\ Small(Q[q][j])
    /\ Q[p][i].client = Q[q][j].client
    => p = q /\ i = j

BufferInv ==
  /\ Unique(buffer_queue)
  /\ \A q \in Queues : \A i \in 1 .. Len(buffer_queue[q]) :
       Small(buffer_queue[q][i]) => AwaitedBuffer(buffer_queue[q][i], q)

\* Client c's write has been served, and its call has not returned.
ServedWrite(c) ==
  /\ cpc[c] = "wait"
  /\ inflight[c] <= 0
  /\ request[c].op = "write"
  /\ IsRouted(request[c])

\* What AreasKeepWrites says of a block.
Held(a) ==
  \/ HomeHolds(a) = routed[a]
  \/ /\ a - Threshold \in large
     /\ buffer[(a - Threshold) % QueueNum][a - Threshold] # None

\* Every block holds the last completed write sent to its area, unless a write on
\* it was served and is about to be completed.
HeldInv ==
  \A a \in Blocks :
    (\A c \in Clients : a \in Span(request[c]) => ~ServedWrite(c)) => Held(a)

\* The parts of client c's large write that are posted so far.
PartsOK(c) ==
  /\ cpc[c] # "parts" => post_idx[c] = 0
  /\ cpc[c] \notin {"parts", "ssd"} => posted[c] = <<>>
  /\ cpc[c] = "parts" =>
       Len(posted[c]) = post_idx[c] /\ PartLen(request[c].len, post_idx[c]) # 0
  /\ cpc[c] = "ssd" /\ request[c].op = "write" =>
       /\ Len(posted[c]) \in 1 .. QueueNum
       /\ Len(posted[c]) = QueueNum \/ PartLen(request[c].len, Len(posted[c])) = 0
  /\ \A i \in 1 .. Len(posted[c]) :
       /\ posted[c][i].offset = (TaskOffset(c) + (i - 1)) % Word
       /\ posted[c][i].len = PartLen(request[c].len, i - 1)

PartInv == \A c \in Clients : PartsOK(c)

RouteInv ==
  /\ ShapeInv /\ RequestInv /\ DisjointInv /\ InflightInv /\ NvmInv /\ BufferInv
  /\ CompletedIsServed /\ HeldInv /\ PartInv

---------------------------------------------------------------------------
(* Offsets, keys and queues *)

\* The sizes, as numbers.
LEMMA Sizes ==
  /\ Threshold \in Nat \ {0} /\ SsdNum \in Nat \ {0} /\ QueueNum \in Nat \ {0}
  /\ KeySpace \in Nat \ {0} /\ Word \in Nat \ {0} /\ QueueSize \in Nat /\ MaxWrites \in Nat
  /\ SsdNum < KeySpace /\ Threshold + SsdNum < Word /\ Word % KeySpace = 0
  BY RouteAssumption

\* A request on blocks of the store.
InRange(r) == r.offset \in Nat /\ r.len \in Nat \ {0} /\ Span(r) \subseteq Blocks

LEMMA RangeBound ==
  ASSUME NEW r, InRange(r)
  PROVE  /\ r.offset + r.len <= Threshold + SsdNum
         /\ r.offset \in 0 .. Word - 1 /\ r.offset \in Span(r)
<1>1. r.offset + r.len - 1 \in r.offset .. r.offset + r.len - 1
  BY DEF InRange
<1>2. r.offset + r.len - 1 \in 0 .. Threshold + SsdNum - 1
  BY <1>1 DEF InRange, Span, Blocks
<1>3. r.offset \in r.offset .. r.offset + r.len - 1
  BY DEF InRange
<1> QED
  BY <1>2, <1>3, Sizes DEF InRange, Span

\* task->offset -= threshold: the block of the SSD, or far behind the device.
LEMMA RebasedCases ==
  ASSUME NEW o \in Nat, o < Threshold + SsdNum
  PROVE  /\ Rebased(o) \in 0 .. Word - 1
         /\ o >= Threshold => Rebased(o) = o - Threshold /\ Rebased(o) \in SsdBlocks
         /\ o < Threshold => Rebased(o) = o - Threshold + Word /\ Rebased(o) \notin SsdBlocks
<1>1. o \in 0 .. Word - 1 /\ Threshold \in 0 .. Word - 1
  BY Sizes
<1>2. Rebased(o) = IF o >= Threshold THEN o - Threshold ELSE o - Threshold + Word
  BY <1>1, Sizes, SubMod DEF Rebased
<1> QED
  BY <1>1, <1>2, Sizes DEF SsdBlocks

\* A block of the SSD is a key of the buffer, with a worker.
LEMMA SsdKey ==
  ASSUME NEW k \in SsdBlocks
  PROVE  /\ k \in Nat /\ k % KeySpace = k /\ k \in 0 .. KeySpace - 1
         /\ k % QueueNum \in Queues
<1>1. k \in 0 .. KeySpace - 1 /\ k \in Nat
  BY Sizes DEF SsdBlocks
<1>2. k % KeySpace = k
  BY <1>1, Sizes, ModWrap
<1>3. k % QueueNum \in 0 .. QueueNum - 1
  BY <1>1, Sizes
<1> QED
  BY <1>1, <1>2, <1>3 DEF Queues

\* The key of the one small request that is not sent to its area: 2^32 - 1.
LEMMA CrossingKey ==
  ASSUME NEW o \in Nat, o + 1 = Threshold
  PROVE  Rebased(o) % KeySpace = KeySpace - 1 /\ KeySpace - 1 \notin SsdBlocks
<1>1. Rebased(o) = Word - 1
  BY RebasedCases, Sizes
<1>2. PICK p \in Nat, e \in 0 .. KeySpace - 1 : Word = p * KeySpace + e /\ Word % KeySpace = e
  BY Quotient, Sizes
<1>3. Word = p * KeySpace
  BY <1>2, Sizes
<1>4. p # 0
  BY <1>3, Sizes
<1>5. p - 1 \in Nat /\ KeySpace - 1 \in 0 .. KeySpace - 1
  BY <1>4, Sizes
<1>6. Word - 1 = (p - 1) * KeySpace + (KeySpace - 1)
  BY <1>3, Sizes
<1>7. (Word - 1) % KeySpace = KeySpace - 1
  BY <1>5, <1>6, Sizes, QuotientMod
<1> QED
  BY <1>1, <1>7, Sizes DEF SsdBlocks

\* R is the queues Q after mix_enqueue of t to queue q.
PushedTo(R, Q, q, t) ==
  /\ R \in [Queues -> Seq(TaskSet)]
  /\ Len(R[q]) = Len(Q[q]) + 1
  /\ \A p \in Queues : p # q => R[p] = Q[p]
  /\ \A p \in Queues : \A i \in 1 .. Len(R[p]) :
       \/ p = q /\ i = Len(Q[q]) + 1 /\ R[p][i] = t
       \/ i \in 1 .. Len(Q[p]) /\ R[p][i] = Q[p][i]

LEMMA Push ==
  ASSUME NEW Q \in [Queues -> Seq(TaskSet)], NEW q \in Queues, NEW t \in TaskSet
  PROVE  PushedTo([Q EXCEPT ![q] = Append(@, t)], Q, q, t)
<1> DEFINE R == [Q EXCEPT ![q] = Append(@, t)]
<1>1. Q[q] \in Seq(TaskSet) /\ R[q] = Append(Q[q], t) /\ \A p \in Queues : p # q => R[p] = Q[p]
  OBVIOUS
<1>2. Append(Q[q], t) \in Seq(TaskSet) /\ Len(Append(Q[q], t)) = Len(Q[q]) + 1
  BY <1>1
<1>3. R \in [Queues -> Seq(TaskSet)]
  BY <1>2
<1>4. ASSUME NEW p \in Queues, NEW i \in 1 .. Len(R[p])
      PROVE  \/ p = q /\ i = Len(Q[q]) + 1 /\ R[p][i] = t
             \/ i \in 1 .. Len(Q[p]) /\ R[p][i] = Q[p][i]
  <2>1. CASE p = q
    <3>1. i \in 1 .. Len(Q[q]) + 1 /\ Len(Q[q]) \in Nat
      BY <1>1, <1>2, <2>1
    <3>2. Append(Q[q], t)[i] = IF i = Len(Q[q]) + 1 THEN t ELSE Q[q][i]
      BY <1>1, <3>1
    <3> QED
      BY <1>1, <2>1, <3>1, <3>2
  <2>2. CASE p # q
    BY <1>1, <2>2
  <2> QED
    BY <2>1, <2>2
<1> HIDE DEF R
<1>5. Len(R[q]) = Len(Q[q]) + 1
  BY <1>1, <1>2
<1> QED
  BY <1>1, <1>3, <1>4, <1>5 DEF PushedTo, R

\* R is the queues Q after mix_dequeue from queue q.
PoppedFrom(R, Q, q) ==
  /\ R \in [Queues -> Seq(TaskSet)]
  /\ Len(Q[q]) >= 1 /\ Head(Q[q]) = Q[q][1] /\ Q[q][1] \in TaskSet
  /\ Len(R[q]) = Len(Q[q]) - 1
  /\ \A p \in Queues : p # q => R[p] = Q[p]
  /\ \A i \in 1 .. Len(R[q]) : i + 1 \in 2 .. Len(Q[q]) /\ R[q][i] = Q[q][i + 1]

LEMMA Pop ==
  ASSUME NEW Q \in [Queues -> Seq(TaskSet)], NEW q \in Queues, Q[q] # <<>>
  PROVE  PoppedFrom([Q EXCEPT ![q] = Tail(@)], Q, q)
<1> DEFINE R == [Q EXCEPT ![q] = Tail(@)]
<1>1. Q[q] \in Seq(TaskSet) /\ R[q] = Tail(Q[q]) /\ \A p \in Queues : p # q => R[p] = Q[p]
  OBVIOUS
<1>2. /\ Tail(Q[q]) \in Seq(TaskSet) /\ Len(Tail(Q[q])) = Len(Q[q]) - 1
      /\ Len(Q[q]) \in Nat /\ Len(Q[q]) >= 1
      /\ Head(Q[q]) = Q[q][1] /\ Q[q][1] \in TaskSet
  BY <1>1
<1>3. R \in [Queues -> Seq(TaskSet)]
  BY <1>2
<1>4. ASSUME NEW i \in 1 .. Len(R[q])
      PROVE  i + 1 \in 2 .. Len(Q[q]) /\ R[q][i] = Q[q][i + 1]
  <2>1. i \in 1 .. Len(Q[q]) - 1
    BY <1>1, <1>2
  <2>2. Tail(Q[q])[i] = Q[q][i + 1]
    BY <1>1, <2>1
  <2> QED
    BY <1>1, <1>2, <2>1, <2>2
<1> HIDE DEF R
<1>5. Len(R[q]) = Len(Q[q]) - 1
  BY <1>1, <1>2
<1> QED
  BY <1>1, <1>2, <1>3, <1>4, <1>5 DEF PoppedFrom, R

---------------------------------------------------------------------------
(* What the steps do *)

\* The request of a slot in use.
LEMMA RequestFacts ==
  ASSUME ShapeInv, RequestInv, NEW c \in Clients, cpc[c] # "idle"
  PROVE  /\ InRange(request[c]) /\ request[c].op \in Ops /\ request[c].data \in Data
         /\ TaskOffset(c) \in 0 .. Word - 1 /\ TaskOffset(c) % QueueNum \in Queues
         /\ Task(c, {request[c].op}, TaskOffset(c), request[c].len) \in TaskSet
         /\ Task(c, {"write"}, TaskOffset(c), request[c].len) \in TaskSet
<1>1. /\ request[c] \in [op : Ops \union {"none"}, offset : Nat, len : Nat, data : Data]
      /\ request[c].op \in Ops /\ request[c].len # 0 /\ Span(request[c]) \subseteq Blocks
  BY DEF ShapeInv, TypeOK, RequestInv
<1>2. InRange(request[c]) /\ request[c].data \in Data
  BY <1>1 DEF InRange
<1>3. PICK r : r = request[c]
  OBVIOUS
<1>4. r.offset + r.len <= Threshold + SsdNum /\ r.offset \in 0 .. Word - 1
  BY <1>2, <1>3, RangeBound
<1>5. r.offset \in Nat /\ r.offset < Threshold + SsdNum
  BY <1>2, <1>3, <1>4, Sizes DEF InRange
<1>6. Rebased(r.offset) \in 0 .. Word - 1
  BY <1>5, RebasedCases
<1>7. TaskOffset(c) \in 0 .. Word - 1
  BY <1>3, <1>4, <1>6 DEF TaskOffset
<1>8. TaskOffset(c) % QueueNum \in Queues
  BY <1>7, Sizes DEF Queues
<1>9. {request[c].op} \in SUBSET {"read", "write", "clear"} /\ request[c].len \in Nat
  BY <1>1 DEF Ops
<1> QED
  BY <1>1, <1>2, <1>7, <1>8, <1>9 DEF Task, TaskSet

\* A worker has served the NVM task at the head of queue q, client c's.
NvmServed(q, c) ==
  /\ nvm_queue[q][1].client = c
  /\ cpc[c] = "wait" /\ inflight[c] = request[c].len /\ IsNvmTask(request[c])
  /\ PoppedFrom(nvm_queue', nvm_queue, q)
  /\ inflight' = [inflight EXCEPT ![c] = 0]
  /\ UNCHANGED <<cpc, request, post_idx, posted, buffer_queue, buffer, ssd, migrating,
                 issued, routed, large>>
  /\ request[c].op = "write" =>
       /\ nvm' = [a \in Blocks |-> IF a \in Span(request[c]) THEN request[c].data ELSE nvm[a]]
       /\ dst' = dst
  /\ request[c].op # "write" =>
       /\ nvm' = nvm
       /\ dst' = [dst EXCEPT ![c] = [a \in Span(request[c]) |-> nvm[a]]]

LEMMA ServeNvmEffect ==
  ASSUME ShapeInv, NvmInv, NEW q \in Queues, ServeNvm(q)
  PROVE  \E c \in Clients : NvmServed(q, c)
<1>1. PoppedFrom(nvm_queue', nvm_queue, q)
  BY Pop DEF ServeNvm, ShapeInv
<1>2. PICK t \in TaskSet : t = nvm_queue[q][1] /\ t = Head(nvm_queue[q])
  BY <1>1 DEF PoppedFrom
<1>3. 1 \in 1 .. Len(nvm_queue[q])
  BY <1>1 DEF PoppedFrom, ShapeInv
<1>4. AwaitedNvm(t)
  BY <1>2, <1>3 DEF NvmInv
<1>5. PICK c \in Clients : c = t.client
  BY DEF TaskSet
<1>6. /\ cpc[c] = "wait" /\ inflight[c] = request[c].len /\ IsNvmTask(request[c])
      /\ t = Task(c, {request[c].op}, TaskOffset(c), request[c].len)
  BY <1>4, <1>5 DEF AwaitedNvm
<1>7. /\ t.opcode = {request[c].op} /\ t.len = request[c].len /\ t.offset = request[c].offset
      /\ t.data = request[c].data
  BY <1>6 DEF Task, TaskOffset
<1>8. Span(t) = Span(request[c])
  BY <1>7 DEF Span
<1>9. t.opcode = {"write"} <=> request[c].op = "write"
  BY <1>7
<1>10. inflight[c] - t.len = 0
  BY <1>6, <1>7 DEF ShapeInv
<1>11. inflight' = [inflight EXCEPT ![c] = 0]
  BY <1>2, <1>5, <1>10 DEF ServeNvm
<1>12. UNCHANGED <<cpc, request, post_idx, posted, buffer_queue, buffer, ssd, migrating,
                 issued, routed, large>>
  BY DEF ServeNvm, historyVars
<1>13. request[c].op = "write" =>
       /\ nvm' = [a \in Blocks |-> IF a \in Span(request[c]) THEN request[c].data ELSE nvm[a]]
       /\ dst' = dst
  BY <1>2, <1>7, <1>8, <1>9 DEF ServeNvm, mix_nvm_write
<1>14. request[c].op # "write" =>
       /\ nvm' = nvm
       /\ dst' = [dst EXCEPT ![c] = [a \in Span(request[c]) |-> nvm[a]]]
  BY <1>2, <1>5, <1>8, <1>9 DEF ServeNvm, mix_nvm_read
<1> QED
  BY <1>1, <1>2, <1>5, <1>6, <1>11, <1>12, <1>13, <1>14 DEF NvmServed

\* What every step of a worker on a buffer queue leaves alone.
BufferFrame(q) ==
  /\ PoppedFrom(buffer_queue', buffer_queue, q)
  /\ UNCHANGED <<cpc, request, dst, post_idx, posted, nvm_queue, nvm, ssd, migrating,
                 issued, routed, large>>

\* A worker has served the small write at the head of queue q, client c's.
SmallServed(q, c) ==
  /\ BufferFrame(q)
  /\ buffer_queue[q][1].client = c /\ Small(buffer_queue[q][1])
  /\ cpc[c] = "wait" /\ inflight[c] = request[c].len /\ ~IsNvmTask(request[c])
  /\ q = TaskOffset(c) % QueueNum
  /\ buffer' = [buffer EXCEPT ![q][TaskOffset(c) % KeySpace] = request[c].data]
  /\ inflight' = [inflight EXCEPT ![c] = 0]

\* A worker has dropped the task at the head of queue q: a part, or the small
\* write it is stuck with.
TaskDropped(q) == BufferFrame(q) /\ UNCHANGED <<buffer, inflight>>

LEMMA ServeBufferEffect ==
  ASSUME ShapeInv, BufferInv, NEW q \in Queues, ServeBuffer(q) \/ Stall(q)
  PROVE  TaskDropped(q) \/ \E c \in Clients : SmallServed(q, c)
<1>1. PoppedFrom(buffer_queue', buffer_queue, q)
  BY Pop DEF ServeBuffer, Stall, ShapeInv
<1>2. BufferFrame(q)
  BY <1>1 DEF ServeBuffer, Stall, BufferFrame, slotVars, dataVars, historyVars
<1>3. PICK t \in TaskSet : t = buffer_queue[q][1] /\ t = Head(buffer_queue[q])
  BY <1>1 DEF PoppedFrom
<1>4. CASE Stall(q) \/ ~Small(t)
  <2>1. UNCHANGED <<buffer, inflight>>
    BY <1>3, <1>4 DEF ServeBuffer, Stall, Small, slotVars, dataVars
  <2> QED
    BY <1>2, <2>1 DEF TaskDropped
<1>5. CASE ServeBuffer(q) /\ Small(t)
  <2>1. 1 \in 1 .. Len(buffer_queue[q])
    BY <1>1 DEF PoppedFrom, ShapeInv
  <2>2. AwaitedBuffer(t, q)
    BY <1>3, <1>5, <2>1 DEF BufferInv
  <2>3. PICK c \in Clients : c = t.client
    BY DEF TaskSet
  <2>4. /\ cpc[c] = "wait" /\ inflight[c] = request[c].len /\ ~IsNvmTask(request[c])
        /\ t = Task(c, {"write"}, TaskOffset(c), request[c].len)
        /\ q = TaskOffset(c) % QueueNum
    BY <2>2, <2>3 DEF AwaitedBuffer
  <2>5. t.len = request[c].len /\ t.offset = TaskOffset(c) /\ t.data = request[c].data
    BY <2>4 DEF Task
  <2>6. inflight[c] - t.len = 0
    BY <2>4, <2>5 DEF ShapeInv
  <2>7. inflight' = [inflight EXCEPT ![c] = 0]
    BY <1>3, <1>5, <2>3, <2>6 DEF ServeBuffer, Small
  <2>8. buffer' = [buffer EXCEPT ![q][TaskOffset(c) % KeySpace] = request[c].data]
    BY <1>3, <1>5, <2>5 DEF ServeBuffer, Small
  <2> QED
    BY <1>2, <1>3, <1>5, <2>3, <2>4, <2>7, <2>8 DEF SmallServed
<1> QED
  BY <1>4, <1>5

\* A part of a large write.
LEMMA PartTask ==
  ASSUME ShapeInv, RequestInv, NEW c \in Clients, cpc[c] # "idle", NEW i \in Nat
  PROVE  Task(c, {"write", "clear"}, (TaskOffset(c) + i) % Word, PartLen(request[c].len, i))
           \in TaskSet
<1>0. TaskOffset(c) \in 0 .. Word - 1 /\ request[c].len \in Nat
  BY RequestFacts DEF InRange
<1>1. PICK n \in Nat, o \in Nat : n = request[c].len /\ o = TaskOffset(c)
  BY <1>0, Sizes
<1>2. (o + i) % Word \in 0 .. Word - 1
  BY Sizes
<1>3. n \div QueueNum \in Nat
  BY Sizes
<1>4. PartLen(n, i) \in Nat
  BY <1>3 DEF PartLen
<1>5. {"write", "clear"} \in SUBSET {"read", "write", "clear"}
  OBVIOUS
<1> QED
  BY <1>1, <1>2, <1>4, <1>5, RequestFacts DEF Task, TaskSet

\* The queue of a part.
LEMMA PartQueue ==
  ASSUME ShapeInv, RequestInv, NEW c \in Clients, cpc[c] # "idle", NEW i \in Nat
  PROVE  ((TaskOffset(c) \div QueueNum) + i) % QueueNum \in Queues
<1>0. TaskOffset(c) \in 0 .. Word - 1
  BY RequestFacts
<1>1. PICK o \in Nat : o = TaskOffset(c)
  BY <1>0, Sizes
<1>2. PICK p \in Nat : p = (o \div QueueNum) + i
  BY Sizes
<1>3. p % QueueNum \in 0 .. QueueNum - 1
  BY Sizes
<1> QED
  BY <1>1, <1>2, <1>3 DEF Queues

\* What TypeOK says of the queues, and more.
QueuesOK(Q) ==
  /\ Q \in [Queues -> Seq(TaskSet)]
  /\ \A q \in Queues : Len(Q[q]) <= QueueSize

LEMMA QueueOffsets ==
  ASSUME NEW Q \in [Queues -> Seq(TaskSet)], NEW q \in Queues, NEW i \in DOMAIN Q[q]
  PROVE  Q[q][i] \in TaskSet /\ Q[q][i].offset \in 0 .. Word - 1
<1>1. Q[q][i] \in TaskSet
  OBVIOUS
<1> QED
  BY <1>1 DEF TaskSet

LEMMA QueuesPush ==
  ASSUME NEW Q, NEW R, QueuesOK(Q), NEW q \in Queues, Len(Q[q]) < QueueSize,
         NEW t, PushedTo(R, Q, q, t)
  PROVE  QueuesOK(R)
<1>1. ASSUME NEW p \in Queues PROVE Len(R[p]) <= QueueSize
  <2>1. CASE p = q
    BY <2>1, Sizes DEF PushedTo, QueuesOK
  <2>2. CASE p # q
    BY <2>2 DEF PushedTo, QueuesOK
  <2> QED
    BY <2>1, <2>2
<1> QED
  BY <1>1 DEF PushedTo, QueuesOK

LEMMA QueuesPop ==
  ASSUME NEW Q, NEW R, QueuesOK(Q), NEW q \in Queues, PoppedFrom(R, Q, q)
  PROVE  QueuesOK(R)
<1>1. ASSUME NEW p \in Queues PROVE Len(R[p]) <= QueueSize
  <2>1. CASE p = q
    BY <2>1, Sizes DEF PoppedFrom, QueuesOK
  <2>2. CASE p # q
    BY <2>2 DEF PoppedFrom, QueuesOK
  <2> QED
    BY <2>1, <2>2
<1> QED
  BY <1>1 DEF PoppedFrom, QueuesOK

\* ShapeInv in four groups, each disturbed by few steps.
SlotShape ==
  /\ cpc \in [Clients -> {"idle", "nvm", "small", "parts", "ssd", "wait"}]
  /\ inflight \in [Clients -> Int]
  /\ post_idx \in [Clients -> Queues]
  /\ DOMAIN dst = Clients
  /\ posted \in [Clients -> Seq(TaskSet)]

RequestShape ==
  /\ request \in [Clients -> [op : Ops \union {"none"}, offset : Nat, len : Nat, data : Data]]
  /\ \A c \in Clients : Span(request[c]) \subseteq Blocks
  /\ issued \in Data

QueueShape == QueuesOK(nvm_queue) /\ QueuesOK(buffer_queue)

DataShape ==
  /\ nvm \in [Blocks -> Data]
  /\ buffer \in [Queues -> [0 .. KeySpace - 1 -> Data \union {None}]]
  /\ ssd \in [SsdBlocks -> Data]
  /\ routed \in [Blocks -> Data]
  /\ large \subseteq SsdBlocks

LEMMA ShapeSplit ==
  ShapeInv <=> SlotShape /\ RequestShape /\ QueueShape /\ DataShape /\ stuck \subseteq Queues
<1>1. ASSUME QueueShape
      PROVE  \A q \in Queues : \A i \in DOMAIN buffer_queue[q] :
               buffer_queue[q][i].offset \in 0 .. Word - 1
  BY <1>1, QueueOffsets DEF QueueShape, QueuesOK
<1> QED
  BY <1>1 DEF ShapeInv, TypeOK, SlotShape, RequestShape, QueueShape, QueuesOK, DataShape

LEMMA IssueShape ==
  ASSUME ShapeInv, NEW c \in Clients, NEW r \in Requests, Issue(c, r)
  PROVE  SlotShape' /\ RequestShape' /\ Span(request'[c]) = Span(r) /\ InRange(request'[c])
         /\ request'[c].op = r.op
<1>1. r \in [op : Ops, offset : Nat, len : Nat \ {0}] /\ Span(r) \subseteq Blocks
  BY RouteAssumption
<1>2. PICK d : d = IF r.op = "write" THEN issued + 1 ELSE 0
  OBVIOUS
<1>3. d \in Data
  <2>1. issued \in 0 .. MaxWrites /\ (r.op = "write" => issued < MaxWrites)
    BY DEF ShapeInv, Issue, Data
  <2> QED
    BY <1>2, <2>1, Sizes DEF Data
<1>4. PICK x : x = [op |-> r.op, offset |-> r.offset, len |-> r.len, data |-> d]
  OBVIOUS
<1>5. /\ x \in [op : Ops \union {"none"}, offset : Nat, len : Nat, data : Data]
      /\ Span(x) = Span(r) /\ x.op = r.op /\ x.len = r.len /\ x.offset = r.offset
  BY <1>1, <1>3, <1>4 DEF Span
<1>6. request' = [request EXCEPT ![c] = x]
  BY <1>2, <1>4 DEF Issue
<1>7. RequestShape'
  <2>1. request' \in [Clients -> [op : Ops \union {"none"}, offset : Nat, len : Nat, data : Data]]
    BY <1>5, <1>6 DEF ShapeInv
  <2>2. \A b \in Clients : Span(request'[b]) \subseteq Blocks
    BY <1>1, <1>5, <1>6 DEF ShapeInv, TypeOK
  <2>3. issued' \in Data
    <3>1. issued \in 0 .. MaxWrites /\ (r.op = "write" => issued < MaxWrites)
      BY DEF ShapeInv, Issue, Data
    <3>2. issued' = issued + (IF r.op = "write" THEN 1 ELSE 0)
      BY DEF Issue
    <3> QED
      BY <3>1, <3>2, Sizes DEF Data
  <2> QED
    BY <2>1, <2>2, <2>3 DEF RequestShape, Span
<1>8. request'[c] = x
  BY <1>6 DEF ShapeInv
<1>9. SlotShape'
  <2>1. inflight' = [inflight EXCEPT ![c] = r.len] /\ r.len \in Int
    BY <1>1 DEF Issue
  <2>2. inflight' \in [Clients -> Int]
    BY <2>1 DEF ShapeInv, TypeOK
  <2>3. PICK pc \in {"idle", "nvm", "small", "parts", "ssd", "wait"} :
          cpc' = [cpc EXCEPT ![c] = pc]
    BY DEF Issue
  <2>4. cpc' \in [Clients -> {"idle", "nvm", "small", "parts", "ssd", "wait"}]
    BY <2>3 DEF ShapeInv, TypeOK
  <2>5. posted' \in [Clients -> Seq(TaskSet)]
    BY DEF ShapeInv, Issue
  <2> QED
    BY <2>2, <2>4, <2>5 DEF ShapeInv, TypeOK, Issue, SlotShape
<1> QED
  BY <1>1, <1>5, <1>7, <1>8, <1>9 DEF InRange

\* A client has posted part i of its large write, as task t to queue q.
LastPart(c, i) == i + 1 = QueueNum \/ PartLen(request[c].len, i + 1) = 0

PartPosted(c, q, t, i) ==
  /\ cpc[c] = "parts" /\ i = post_idx[c]
  /\ t.opcode = {"write", "clear"}
  /\ t.offset = (TaskOffset(c) + i) % Word /\ t.len = PartLen(request[c].len, i)
  /\ Len(buffer_queue[q]) < QueueSize
  /\ PushedTo(buffer_queue', buffer_queue, q, t)
  /\ posted' = [posted EXCEPT ![c] = Append(@, t)]
  /\ LastPart(c, i) => /\ cpc' = [cpc EXCEPT ![c] = "ssd"]
                       /\ post_idx' = [post_idx EXCEPT ![c] = 0]
  /\ ~LastPart(c, i) => /\ cpc' = cpc
                        /\ post_idx' = [post_idx EXCEPT ![c] = i + 1]
  /\ UNCHANGED <<request, inflight, dst, nvm_queue, nvm, buffer, ssd, migrating,
                 issued, routed, large>>

LEMMA PostPartEffect ==
  ASSUME ShapeInv, RequestInv, NEW c \in Clients, PostPart(c)
  PROVE  \E q \in Queues, t \in TaskSet, i \in Queues : PartPosted(c, q, t, i)
<1>1. cpc[c] = "parts"
  BY DEF PostPart
<1>2. PICK i \in Queues : i = post_idx[c]
  BY DEF ShapeInv, TypeOK
<1>3. i \in Nat
  BY Sizes DEF Queues
<1>4. PICK t \in TaskSet :
        t = Task(c, {"write", "clear"}, (TaskOffset(c) + i) % Word, PartLen(request[c].len, i))
  BY <1>1, <1>3, PartTask
<1>5. PICK q \in Queues : q = ((TaskOffset(c) \div QueueNum) + i) % QueueNum
  BY <1>1, <1>3, PartQueue
<1>6. /\ Len(buffer_queue[q]) < QueueSize
      /\ buffer_queue' = [buffer_queue EXCEPT ![q] = Append(@, t)]
      /\ posted' = [posted EXCEPT ![c] = Append(@, t)]
  BY <1>2, <1>4, <1>5 DEF PostPart
<1>7. PushedTo(buffer_queue', buffer_queue, q, t)
  BY <1>6, Push DEF ShapeInv
<1>8. /\ t.opcode = {"write", "clear"}
      /\ t.offset = (TaskOffset(c) + i) % Word /\ t.len = PartLen(request[c].len, i)
  BY <1>4 DEF Task
<1>9. LastPart(c, i) => /\ cpc' = [cpc EXCEPT ![c] = "ssd"]
                        /\ post_idx' = [post_idx EXCEPT ![c] = 0]
  BY <1>2 DEF PostPart, LastPart
<1>10. ~LastPart(c, i) => /\ cpc' = cpc
                          /\ post_idx' = [post_idx EXCEPT ![c] = i + 1]
  <2> SUFFICES ASSUME ~LastPart(c, i)
               PROVE  cpc' = cpc /\ post_idx' = [post_idx EXCEPT ![c] = i + 1]
    OBVIOUS
  <2>1. cpc' = [cpc EXCEPT ![c] = cpc[c]] /\ post_idx' = [post_idx EXCEPT ![c] = i + 1]
    BY <1>2 DEF PostPart, LastPart
  <2> QED
    BY <2>1 DEF ShapeInv, TypeOK
<1>11. UNCHANGED <<request, inflight, dst, nvm_queue, nvm, buffer, ssd, migrating,
                   issued, routed, large>>
  BY DEF PostPart, dataVars, historyVars
<1> QED
  BY <1>1, <1>2, <1>6, <1>7, <1>8, <1>9, <1>10, <1>11 DEF PartPosted

\* A client has posted its NVM task t to queue q, if there was room.
NvmPosted(c, q, t) ==
  /\ cpc[c] = "nvm"
  /\ t = Task(c, {request[c].op}, TaskOffset(c), request[c].len)
  /\ Len(nvm_queue[q]) = QueueSize => nvm_queue' = nvm_queue
  /\ Len(nvm_queue[q]) # QueueSize => PushedTo(nvm_queue', nvm_queue, q, t)
  /\ cpc' = [cpc EXCEPT ![c] = "wait"]
  /\ UNCHANGED <<request, inflight, dst, post_idx, posted, buffer_queue, nvm, buffer, ssd,
                 migrating, issued, routed, large>>

LEMMA PostNvmEffect ==
  ASSUME ShapeInv, RequestInv, NEW c \in Clients, PostNvm(c)
  PROVE  \E q \in Queues, t \in TaskSet : NvmPosted(c, q, t)
<1>1. cpc[c] = "nvm"
  BY DEF PostNvm
<1>2. PICK q \in Queues : q = TaskOffset(c) % QueueNum
  BY <1>1, RequestFacts
<1>3. PICK t \in TaskSet : t = Task(c, {request[c].op}, TaskOffset(c), request[c].len)
  BY <1>1, RequestFacts
<1>4. /\ Len(nvm_queue[q]) = QueueSize => nvm_queue' = nvm_queue
      /\ Len(nvm_queue[q]) # QueueSize => nvm_queue' = [nvm_queue EXCEPT ![q] = Append(@, t)]
  BY <1>2, <1>3 DEF PostNvm
<1>5. ASSUME Len(nvm_queue[q]) # QueueSize PROVE PushedTo(nvm_queue', nvm_queue, q, t)
  <2>1. nvm_queue' = [nvm_queue EXCEPT ![q] = Append(@, t)]
    BY <1>4, <1>5
  <2> QED
    BY <2>1, Push DEF ShapeInv
<1> QED
  BY <1>1, <1>3, <1>4, <1>5 DEF PostNvm, NvmPosted, dataVars, historyVars

\* A client has posted its small write t to queue q.
SmallPosted(c, q, t) ==
  /\ cpc[c] = "small"
  /\ t = Task(c, {"write"}, TaskOffset(c), request[c].len) /\ q = TaskOffset(c) % QueueNum
  /\ Len(buffer_queue[q]) < QueueSize
  /\ PushedTo(buffer_queue', buffer_queue, q, t)
  /\ cpc' = [cpc EXCEPT ![c] = "wait"]
  /\ UNCHANGED <<request, inflight, dst, post_idx, posted, nvm_queue, nvm, buffer, ssd,
                 migrating, issued, routed, large>>

LEMMA PostSmallEffect ==
  ASSUME ShapeInv, RequestInv, NEW c \in Clients, PostSmall(c)
  PROVE  \E q \in Queues, t \in TaskSet : SmallPosted(c, q, t)
<1>1. cpc[c] = "small"
  BY DEF PostSmall
<1>2. PICK q \in Queues : q = TaskOffset(c) % QueueNum
  BY <1>1, RequestFacts
<1>3. PICK t \in TaskSet : t = Task(c, {"write"}, TaskOffset(c), request[c].len)
  BY <1>1, RequestFacts
<1>4. /\ Len(buffer_queue[q]) < QueueSize
      /\ buffer_queue' = [buffer_queue EXCEPT ![q] = Append(@, t)]
  BY <1>2, <1>3 DEF PostSmall
<1>5. PushedTo(buffer_queue', buffer_queue, q, t)
  BY <1>4, Push DEF ShapeInv
<1> QED
  BY <1>1, <1>2, <1>3, <1>4, <1>5 DEF PostSmall, SmallPosted, dataVars, historyVars

\* A call returns: the slot is free again.
Freed(c) ==
  /\ cpc' = [cpc EXCEPT ![c] = "idle"]
  /\ request' = [request EXCEPT ![c] = NoRequest]
  /\ DOMAIN dst' = DOMAIN dst
  /\ \A d \in Clients : d # c => dst'[d] = dst[d]
  /\ UNCHANGED <<inflight, post_idx, nvm_queue, buffer_queue, nvm, buffer, migrating, issued>>

LEMMA FreedEffect ==
  ASSUME ShapeInv, NEW c \in Clients, SsdIo(c) \/ Return(c)
  PROVE  Freed(c) /\ posted' \in [Clients -> Seq(TaskSet)]
<1>1. CASE SsdIo(c)
  <2>1. posted' \in [Clients -> Seq(TaskSet)]
    BY <1>1 DEF SsdIo, ShapeInv
  <2> QED
    BY <1>1, <2>1 DEF SsdIo, Freed, queueVars
<1>2. CASE Return(c)
  <2>1. DOMAIN dst' = DOMAIN dst /\ \A d \in Clients : d # c => dst'[d] = dst[d]
    BY <1>2 DEF Return, ShapeInv
  <2> QED
    BY <1>2, <2>1 DEF Return, Freed, ShapeInv, queueVars, dataVars
<1> QED
  BY <1>1, <1>2

LEMMA FreedShape ==
  ASSUME ShapeInv, NEW c \in Clients, Freed(c), posted' \in [Clients -> Seq(TaskSet)]
  PROVE  SlotShape' /\ RequestShape' /\ QueueShape'
<1>1. SlotShape /\ RequestShape /\ QueueShape
  BY ShapeSplit
<1>2. SlotShape'
  BY <1>1 DEF Freed, SlotShape
<1>3. Span(NoRequest) = {} /\ NoRequest \in [op : Ops \union {"none"}, offset : Nat, len : Nat, data : Data]
  BY Sizes DEF NoRequest, Span, Data
<1>4. request' \in [Clients -> [op : Ops \union {"none"}, offset : Nat, len : Nat, data : Data]]
  BY <1>1, <1>3 DEF Freed, RequestShape
<1>5. ASSUME NEW d \in Clients PROVE Span(request'[d]) \subseteq Blocks
  <2>1. CASE d = c
    BY <1>1, <1>3, <2>1 DEF Freed, RequestShape
  <2>2. CASE d # c
    BY <1>1, <2>2 DEF Freed, RequestShape
  <2> QED
    BY <2>1, <2>2
<1>6. RequestShape'
  BY <1>1, <1>4, <1>5 DEF Freed, RequestShape, Span
<1>7. QueueShape'
  BY <1>1 DEF Freed, QueueShape
<1> QED
  BY <1>2, <1>6, <1>7

LEMMA CompletedType ==
  ASSUME ShapeInv, NEW c \in Clients
  PROVE  Completed(c) \in [Blocks -> Data]
<1>1. request[c].data \in Data /\ routed \in [Blocks -> Data]
  BY DEF ShapeInv, TypeOK
<1> QED
  BY <1>1 DEF Completed

LEMMA StuckNext ==
  ASSUME stuck \subseteq Queues, [Next]_vars
  PROVE  stuck' \subseteq Queues
<1>1. stuck' = stuck \/ \E q \in Queues : stuck' = stuck \union {q}
  BY DEF Next, ClientStep, vars, Issue, PostNvm, PostSmall, PostPart, SsdIo, Return,
         ServeNvm, ServeBuffer, Stall
<1> QED
  BY <1>1

LEMMA ShapeNext ==
  ASSUME ShapeInv, RequestInv, NvmInv, BufferInv, [Next]_vars
  PROVE  ShapeInv'
<1>0. SlotShape /\ RequestShape /\ QueueShape /\ DataShape
  BY ShapeSplit
<1>10. (stuck \subseteq Queues)'
  BY StuckNext DEF ShapeInv, TypeOK
<1>1. ASSUME NEW c \in Clients, NEW r \in Requests, Issue(c, r) PROVE ShapeInv'
  <2>1. SlotShape' /\ RequestShape'
    BY <1>1, IssueShape
  <2>2. QueueShape' /\ DataShape'
    BY <1>0, <1>1 DEF Issue, queueVars, dataVars, QueueShape, DataShape
  <2> QED
    BY <2>1, <2>2, <1>10, ShapeSplit, PTL
<1>2. ASSUME NEW c \in Clients, PostNvm(c) PROVE ShapeInv'
  <2>1. PICK q \in Queues, t \in TaskSet : NvmPosted(c, q, t)
    BY <1>2, PostNvmEffect
  <2>2. SlotShape' /\ RequestShape' /\ DataShape'
    BY <1>0, <2>1 DEF NvmPosted, SlotShape, RequestShape, DataShape
  <2>3. QueuesOK(nvm_queue')
    <3>1. CASE Len(nvm_queue[q]) = QueueSize
      BY <3>1, <1>0, <2>1 DEF NvmPosted, QueueShape
    <3>2. CASE Len(nvm_queue[q]) # QueueSize
      <4>1. Len(nvm_queue[q]) < QueueSize
        BY <3>2, <1>0, Sizes DEF QueueShape, QueuesOK
      <4> QED
        BY <3>2, <4>1, <1>0, <2>1, QueuesPush DEF NvmPosted, QueueShape
    <3> QED
      BY <3>1, <3>2
  <2>4. QueueShape'
    BY <1>0, <2>1, <2>3 DEF NvmPosted, QueueShape
  <2> QED
    BY <2>2, <2>4, <1>10, ShapeSplit, PTL
<1>3. ASSUME NEW c \in Clients, PostSmall(c) PROVE ShapeInv'
  <2>1. PICK q \in Queues, t \in TaskSet : SmallPosted(c, q, t)
    BY <1>3, PostSmallEffect
  <2>2. SlotShape' /\ RequestShape' /\ DataShape'
    BY <1>0, <2>1 DEF SmallPosted, SlotShape, RequestShape, DataShape
  <2>3. QueuesOK(buffer_queue')
    BY <1>0, <2>1, QueuesPush DEF SmallPosted, QueueShape
  <2>4. QueueShape'
    BY <1>0, <2>1, <2>3 DEF SmallPosted, QueueShape
  <2> QED
    BY <2>2, <2>4, <1>10, ShapeSplit, PTL
<1>4. ASSUME NEW c \in Clients, PostPart(c) PROVE ShapeInv'
  <2>1. PICK q \in Queues, t \in TaskSet, i \in Queues : PartPosted(c, q, t, i)
    BY <1>4, PostPartEffect
  <2>2. RequestShape' /\ DataShape'
    BY <1>0, <2>1 DEF PartPosted, RequestShape, DataShape
  <2>3. QueuesOK(buffer_queue')
    BY <1>0, <2>1, QueuesPush DEF PartPosted, QueueShape
  <2>4. QueueShape'
    BY <1>0, <2>1, <2>3 DEF PartPosted, QueueShape
  <2>5. posted' \in [Clients -> Seq(TaskSet)]
    <3>1. Append(posted[c], t) \in Seq(TaskSet)
      BY <1>0 DEF SlotShape
    <3> QED
      BY <1>0, <2>1, <3>1 DEF PartPosted, SlotShape
  <2>6. SlotShape'
    <3>1. CASE LastPart(c, i)
      <4>1. 0 \in Queues
        BY Sizes DEF Queues
      <4>2. /\ cpc' = [cpc EXCEPT ![c] = "ssd"] /\ post_idx' = [post_idx EXCEPT ![c] = 0]
            /\ UNCHANGED <<inflight, dst>>
        BY <2>1, <3>1 DEF PartPosted
      <4> QED
        BY <4>1, <4>2, <1>0, <2>5 DEF SlotShape
    <3>2. CASE ~LastPart(c, i)
      <4>1. i + 1 \in Queues
        BY <3>2, Sizes DEF LastPart, Queues
      <4>2. /\ cpc' = cpc /\ post_idx' = [post_idx EXCEPT ![c] = i + 1]
            /\ UNCHANGED <<inflight, dst>>
        BY <2>1, <3>2 DEF PartPosted
      <4> QED
        BY <4>1, <4>2, <1>0, <2>5 DEF SlotShape
    <3> QED
      BY <3>1, <3>2
  <2> QED
    BY <2>2, <2>4, <2>6, <1>10, ShapeSplit, PTL
<1>5. ASSUME NEW c \in Clients, SsdIo(c) PROVE ShapeInv'
  <2>1. SlotShape' /\ RequestShape' /\ QueueShape'
    BY <1>5, FreedEffect, FreedShape
  <2>2. Reached(c) \subseteq SsdBlocks
    BY DEF Reached
  <2>3. request[c].data \in Data
    BY DEF ShapeInv
  <2>4. DataShape'
    <3>1. ssd' \in [SsdBlocks -> Data]
      BY <1>0, <1>5, <2>3 DEF SsdIo, DataShape
    <3>2. routed' \in [Blocks -> Data]
      BY <1>0, <1>5, CompletedType DEF SsdIo, DataShape
    <3> QED
      BY <1>0, <1>5, <2>2, <3>1, <3>2 DEF SsdIo, DataShape
  <2> QED
    BY <2>1, <2>4, <1>10, ShapeSplit, PTL
<1>6. ASSUME NEW c \in Clients, Return(c) PROVE ShapeInv'
  <2>1. SlotShape' /\ RequestShape' /\ QueueShape'
    BY <1>6, FreedEffect, FreedShape
  <2>2. DataShape'
    <3>1. routed' \in [Blocks -> Data]
      BY <1>0, <1>6, CompletedType DEF Return, DataShape
    <3> QED
      BY <1>0, <1>6, <3>1 DEF Return, DataShape, dataVars
  <2> QED
    BY <2>1, <2>2, <1>10, ShapeSplit, PTL
<1>7. ASSUME NEW q \in Queues, ServeNvm(q) PROVE ShapeInv'
  <2>1. PICK c \in Clients : NvmServed(q, c)
    BY <1>7, ServeNvmEffect
  <2>2. RequestShape'
    BY <1>0, <2>1 DEF NvmServed, RequestShape
  <2>3. SlotShape'
    <3>1. DOMAIN dst' = Clients
      BY <1>0, <2>1 DEF NvmServed, SlotShape
    <3> QED
      BY <1>0, <2>1, <3>1 DEF NvmServed, SlotShape
  <2>4. QueueShape'
    <3>1. QueuesOK(nvm_queue')
      BY <1>0, <2>1, QueuesPop DEF NvmServed, QueueShape
    <3> QED
      BY <1>0, <2>1, <3>1 DEF NvmServed, QueueShape
  <2>5. DataShape'
    <3>1. request[c].data \in Data
      BY DEF ShapeInv
    <3>2. nvm' \in [Blocks -> Data]
      BY <1>0, <2>1, <3>1 DEF NvmServed, DataShape
    <3> QED
      BY <1>0, <2>1, <3>2 DEF NvmServed, DataShape
  <2> QED
    BY <2>2, <2>3, <2>4, <2>5, <1>10, ShapeSplit, PTL
<1>8. ASSUME NEW q \in Queues, ServeBuffer(q) \/ Stall(q) PROVE ShapeInv'
  <2>1. BufferFrame(q)
    BY <1>8, ServeBufferEffect DEF TaskDropped, SmallServed
  <2>2. RequestShape'
    BY <1>0, <2>1 DEF BufferFrame, RequestShape
  <2>3. QueueShape'
    <3>1. QueuesOK(buffer_queue')
      BY <1>0, <2>1, QueuesPop DEF BufferFrame, QueueShape
    <3> QED
      BY <1>0, <2>1, <3>1 DEF BufferFrame, QueueShape
  <2>4. SlotShape' /\ DataShape'
    <3>1. CASE TaskDropped(q)
      BY <1>0, <3>1 DEF TaskDropped, BufferFrame, SlotShape, DataShape
    <3>2. ASSUME NEW c \in Clients, SmallServed(q, c) PROVE SlotShape' /\ DataShape'
      <4>1. request[c].data \in Data
        BY DEF ShapeInv
      <4>2. buffer' \in [Queues -> [0 .. KeySpace - 1 -> Data \union {None}]]
        BY <1>0, <3>2, <4>1 DEF SmallServed, DataShape
      <4> QED
        BY <1>0, <3>2, <4>2 DEF SmallServed, BufferFrame, SlotShape, DataShape
    <3> QED
      BY <1>8, <3>1, <3>2, ServeBufferEffect
  <2> QED
    BY <2>2, <2>3, <2>4, <1>10, ShapeSplit, PTL
<1>9. CASE UNCHANGED vars
  <2>1. SlotShape' /\ RequestShape' /\ QueueShape' /\ DataShape'
    BY <1>0, <1>9 DEF vars, slotVars, queueVars, dataVars, historyVars,
         SlotShape, RequestShape, QueueShape, DataShape
  <2> QED
    BY <2>1, <1>10, ShapeSplit, PTL
<1> QED
  BY <1>1, <1>2, <1>3, <1>4, <1>5, <1>6, <1>7, <1>8, <1>9 DEF Next, ClientStep

---------------------------------------------------------------------------
(* The slots *)

\* What RequestInv and InflightInv say of a client.
SlotOK(c) ==
  /\ cpc[c] = "idle" => request[c] = NoRequest
  /\ cpc[c] # "idle" => request[c].op \in Ops /\ request[c].len # 0
  /\ cpc[c] = "nvm" => IsNvmTask(request[c])
  /\ cpc[c] \in {"small", "parts", "ssd"} => ~IsNvmTask(request[c])
  /\ cpc[c] = "parts" => request[c].op = "write"
  /\ cpc[c] = "small" => request[c].op = "write" /\ request[c].len = 1
  /\ cpc[c] = "wait" => \/ IsNvmTask(request[c])
                        \/ request[c].op = "write" /\ request[c].len = 1
  /\ cpc[c] \notin {"idle", "wait"} => inflight[c] = request[c].len
  /\ cpc[c] = "wait" => inflight[c] \in {0, request[c].len}

LEMMA SlotSplit ==
  RequestInv /\ InflightInv <=> \A c \in Clients : SlotOK(c)
  BY DEF RequestInv, InflightInv, SlotOK

\* A step leaves the slots of the others alone.
SlotSame(d) == cpc'[d] = cpc[d] /\ inflight'[d] = inflight[d] /\ request'[d] = request[d]
OthersSame(c) == \A d \in Clients : d # c => SlotSame(d)

LEMMA SlotFrame ==
  ASSUME NEW d \in Clients, SlotOK(d), SlotSame(d)
  PROVE  SlotOK(d)'
  BY DEF SlotOK, SlotSame

\* Whose slot a step changes.
LEMMA ClientOthers ==
  ASSUME ShapeInv, NEW c \in Clients,
         (\E r \in Requests : Issue(c, r)) \/ ClientStep(c)
  PROVE  OthersSame(c)
<1>1. ASSUME NEW r \in Requests, Issue(c, r), NEW d \in Clients, d # c PROVE SlotSame(d)
  BY <1>1 DEF Issue, SlotSame, ShapeInv, TypeOK
<1>2. ASSUME ClientStep(c), NEW d \in Clients, d # c PROVE SlotSame(d)
  <2>1. CASE PostNvm(c)
    BY <2>1, <1>2 DEF PostNvm, SlotSame, ShapeInv, TypeOK
  <2>2. CASE PostSmall(c)
    BY <2>2, <1>2 DEF PostSmall, SlotSame, ShapeInv, TypeOK
  <2>3. CASE PostPart(c)
    BY <2>3, <1>2 DEF PostPart, SlotSame, ShapeInv, TypeOK
  <2>4. CASE SsdIo(c) \/ Return(c)
    BY <2>4, <1>2, FreedEffect DEF Freed, SlotSame, ShapeInv, TypeOK
  <2> QED
    BY <1>2, <2>1, <2>2, <2>3, <2>4 DEF ClientStep
<1> QED
  BY <1>1, <1>2 DEF OthersSame

LEMMA ControlNext ==
  ASSUME ShapeInv, RequestInv, InflightInv, DisjointInv, NvmInv, BufferInv, [Next]_vars
  PROVE  RequestInv' /\ InflightInv' /\ DisjointInv'
<1>0. \A d \in Clients : SlotOK(d)
  BY SlotSplit
<1> DEFINE Goal == (\A d \in Clients : SlotOK(d)') /\ DisjointInv'
<1>1. ASSUME NEW c \in Clients, SlotOK(c)',
             (\E r \in Requests : Issue(c, r)) \/ ClientStep(c)
      PROVE  \A d \in Clients : SlotOK(d)'
  <2> SUFFICES ASSUME NEW d \in Clients, d # c PROVE SlotOK(d)'
    BY <1>1
  <2>1. SlotSame(d)
    BY <1>1, ClientOthers DEF OthersSame
  <2> QED
    BY <1>0, <2>1, SlotFrame
<1>2. ASSUME NEW c \in Clients, NEW r \in Requests, Issue(c, r) PROVE Goal
  <2>1. Span(request'[c]) = Span(r) /\ InRange(request'[c]) /\ request'[c].op = r.op
    BY <1>2, IssueShape
  <2>2. r.op \in Ops
    BY RouteAssumption
  <2>3. PICK x : x = request'[c]
    OBVIOUS
  <2>4. /\ cpc'[c] = IF IsNvmTask(x) THEN "nvm" ELSE IF x.op = "read" THEN "ssd"
                     ELSE IF x.len <= 1 THEN "small" ELSE "parts"
        /\ inflight'[c] = x.len
    BY <1>2, <2>3 DEF Issue, ShapeInv, TypeOK
  <2>5. x.len \in Nat \ {0} /\ x.op \in Ops
    BY <2>1, <2>2, <2>3 DEF InRange
  <2>6. SlotOK(c)'
    BY <2>3, <2>4, <2>5 DEF SlotOK, Ops, IsNvmTask
  <2>7. ASSUME NEW a \in Clients, NEW b \in Clients, a # b
        PROVE  Span(request'[a]) \intersect Span(request'[b]) = {}
    <3>1. \A d \in Clients : d # c => request'[d] = request[d]
      BY <1>2 DEF Issue, ShapeInv
    <3>2. \A d \in Clients : Span(request[d]) \intersect Span(r) = {}
      BY <1>2 DEF Issue
    <3>3. CASE a = c
      BY <2>1, <2>7, <3>1, <3>2, <3>3
    <3>4. CASE b = c
      BY <2>1, <2>7, <3>1, <3>2, <3>4
    <3>5. CASE a # c /\ b # c
      BY <2>7, <3>1, <3>5 DEF DisjointInv
    <3> QED
      BY <3>3, <3>4, <3>5
  <2>8. DisjointInv'
    BY <2>7 DEF DisjointInv, Span
  <2> QED
    BY <1>1, <1>2, <2>6, <2>8
<1>3. ASSUME NEW c \in Clients, PostNvm(c) PROVE Goal
  <2>1. /\ cpc[c] = "nvm" /\ cpc'[c] = "wait"
        /\ UNCHANGED <<request, inflight>>
    BY <1>3 DEF PostNvm, ShapeInv, TypeOK
  <2>2. SlotOK(c)'
    BY <1>0, <2>1 DEF SlotOK
  <2>3. DisjointInv'
    BY <2>1 DEF DisjointInv
  <2> QED
    BY <1>1, <1>3, <2>2, <2>3 DEF ClientStep
<1>4. ASSUME NEW c \in Clients, PostSmall(c) PROVE Goal
  <2>1. /\ cpc[c] = "small" /\ cpc'[c] = "wait"
        /\ UNCHANGED <<request, inflight>>
    BY <1>4 DEF PostSmall, ShapeInv, TypeOK
  <2>2. SlotOK(c)'
    BY <1>0, <2>1 DEF SlotOK
  <2>3. DisjointInv'
    BY <2>1 DEF DisjointInv
  <2> QED
    BY <1>1, <1>4, <2>2, <2>3 DEF ClientStep
<1>5. ASSUME NEW c \in Clients, PostPart(c) PROVE Goal
  <2>1. /\ cpc[c] = "parts" /\ cpc'[c] \in {"parts", "ssd"}
        /\ UNCHANGED <<request, inflight>>
    BY <1>5 DEF PostPart, ShapeInv, TypeOK
  <2>2. SlotOK(c)'
    BY <1>0, <2>1 DEF SlotOK
  <2>3. DisjointInv'
    BY <2>1 DEF DisjointInv
  <2> QED
    BY <1>1, <1>5, <2>2, <2>3 DEF ClientStep
<1>6. ASSUME NEW c \in Clients, SsdIo(c) \/ Return(c) PROVE Goal
  <2>1. Freed(c)
    BY <1>6, FreedEffect
  <2>2. cpc'[c] = "idle" /\ request'[c] = NoRequest
    BY <2>1 DEF Freed, ShapeInv, TypeOK
  <2>3. SlotOK(c)'
    BY <2>2 DEF SlotOK
  <2>4. Span(request'[c]) = {}
    BY <2>2 DEF NoRequest, Span
  <2>5. \A d \in Clients : d # c => request'[d] = request[d]
    BY <2>1 DEF Freed, ShapeInv
  <2>6. ASSUME NEW a \in Clients, NEW b \in Clients, a # b
        PROVE  Span(request'[a]) \intersect Span(request'[b]) = {}
    <3>1. CASE a = c \/ b = c
      BY <2>4, <3>1
    <3>2. CASE a # c /\ b # c
      BY <2>5, <2>6, <3>2 DEF DisjointInv
    <3> QED
      BY <3>1, <3>2
  <2>7. DisjointInv'
    BY <2>6 DEF DisjointInv, Span
  <2> QED
    BY <1>1, <1>6, <2>3, <2>7 DEF ClientStep
<1>7. ASSUME NEW c \in Clients, cpc[c] = "wait", cpc' = cpc, request' = request,
             inflight' = [inflight EXCEPT ![c] = 0]
      PROVE  Goal
  <2>1. ASSUME NEW d \in Clients PROVE SlotOK(d)'
    <3>1. CASE d = c
      BY <1>0, <1>7, <3>1 DEF SlotOK, ShapeInv, TypeOK
    <3>2. CASE d # c
      <4>1. SlotSame(d)
        BY <1>7, <3>2 DEF SlotSame, ShapeInv, TypeOK
      <4> QED
        BY <1>0, <4>1, SlotFrame
    <3> QED
      BY <3>1, <3>2
  <2>2. DisjointInv'
    BY <1>7 DEF DisjointInv
  <2> QED
    BY <2>1, <2>2
<1>8. ASSUME UNCHANGED <<cpc, request, inflight>> PROVE Goal
  BY <1>0, <1>8 DEF SlotOK, DisjointInv
<1>9. ASSUME NEW q \in Queues, ServeNvm(q) PROVE Goal
  BY <1>7, <1>9, ServeNvmEffect DEF NvmServed
<1>10. ASSUME NEW q \in Queues, ServeBuffer(q) \/ Stall(q) PROVE Goal
  BY <1>7, <1>8, <1>10, ServeBufferEffect DEF SmallServed, TaskDropped, BufferFrame
<1>11. ASSUME UNCHANGED vars PROVE Goal
  BY <1>8, <1>11 DEF vars, slotVars
<1>12. Goal
  BY <1>2, <1>3, <1>4, <1>5, <1>6, <1>9, <1>10, <1>11 DEF Next, ClientStep
<1> QED
  BY <1>12 DEF SlotOK, RequestInv, InflightInv

---------------------------------------------------------------------------
(* The queues *)

\* No task in the NVM queues is client c's.
NvmFree(c) ==
  \A q \in Queues : \A i \in 1 .. Len(nvm_queue[q]) : nvm_queue[q][i].client # c

LEMMA NvmFreeWhen ==
  ASSUME ShapeInv, RequestInv, NvmInv, NEW c \in Clients,
         cpc[c] # "wait" \/ inflight[c] <= 0 \/ ~IsNvmTask(request[c])
  PROVE  NvmFree(c)
<1> SUFFICES ASSUME NEW q \in Queues, NEW i \in 1 .. Len(nvm_queue[q]),
                    nvm_queue[q][i].client = c
             PROVE  FALSE
  BY DEF NvmFree
<1>1. AwaitedNvm(nvm_queue[q][i])
  BY DEF NvmInv
<1>2. cpc[c] = "wait" /\ inflight[c] = request[c].len /\ IsNvmTask(request[c])
  BY <1>1 DEF AwaitedNvm
<1>3. request[c].len \in Nat /\ request[c].len # 0
  BY <1>2 DEF ShapeInv, RequestInv
<1> QED
  BY <1>2, <1>3

LEMMA AwaitedNvmFrame ==
  ASSUME NEW t, AwaitedNvm(t), SlotSame(t.client)
  PROVE  AwaitedNvm(t)'
  BY DEF AwaitedNvm, SlotSame, Task, TaskOffset

LEMMA QueueTask ==
  ASSUME NEW Q \in [Queues -> Seq(TaskSet)], NEW q \in Queues, NEW i \in 1 .. Len(Q[q])
  PROVE  Q[q][i] \in TaskSet /\ Q[q][i].client \in Clients
<1>1. Q[q] \in Seq(TaskSet)
  OBVIOUS
<1>2. Q[q][i] \in TaskSet
  BY <1>1
<1> QED
  BY <1>2 DEF TaskSet

LEMMA NvmKeep ==
  ASSUME ShapeInv, NvmInv, NEW c, NvmFree(c), OthersSame(c), nvm_queue' = nvm_queue
  PROVE  NvmInv'
<1>1. ASSUME NEW q \in Queues, NEW i \in 1 .. Len(nvm_queue[q])
      PROVE  AwaitedNvm(nvm_queue[q][i])'
  <2>1. PICK t : t = nvm_queue[q][i]
    OBVIOUS
  <2>2. t.client \in Clients /\ t.client # c
    BY <2>1, QueueTask DEF ShapeInv, NvmFree
  <2>3. AwaitedNvm(t)'
    BY <2>1, <2>2, AwaitedNvmFrame DEF NvmInv, OthersSame
  <2>4. t = nvm_queue'[q][i]
    BY <2>1
  <2> QED
    BY <2>3, <2>4 DEF AwaitedNvm
<1> QED
  BY <1>1 DEF NvmInv

LEMMA NvmPush ==
  ASSUME ShapeInv, NvmInv, NEW c \in Clients, NvmFree(c), OthersSame(c),
         NEW q \in Queues, NEW t, t.client = c, AwaitedNvm(t)',
         PushedTo(nvm_queue', nvm_queue, q, t)
  PROVE  NvmInv'
<1>1. PICK Q : Q = nvm_queue
  OBVIOUS
<1>2. PICK R : R = nvm_queue'
  OBVIOUS
<1>3. \A p \in Queues : \A i \in 1 .. Len(R[p]) :
         \/ p = q /\ i = Len(Q[q]) + 1 /\ R[p][i] = t
         \/ i \in 1 .. Len(Q[p]) /\ R[p][i] = Q[p][i]
  BY <1>1, <1>2 DEF PushedTo
<1>4. ASSUME NEW p \in Queues, NEW i \in 1 .. Len(Q[p])
      PROVE  Q[p][i].client \in Clients /\ Q[p][i].client # c /\ AwaitedNvm(Q[p][i])
  BY <1>1, QueueTask DEF ShapeInv, NvmFree, NvmInv
<1>5. ASSUME NEW p \in Queues, NEW i \in 1 .. Len(R[p]) PROVE AwaitedNvm(R[p][i])'
  <2>1. CASE R[p][i] = t
    BY <2>1
  <2>2. CASE i \in 1 .. Len(Q[p]) /\ R[p][i] = Q[p][i]
    <3>1. PICK x : x = Q[p][i]
      OBVIOUS
    <3>2. AwaitedNvm(x) /\ SlotSame(x.client)
      BY <1>4, <2>2, <3>1 DEF OthersSame
    <3> QED
      BY <2>2, <3>1, <3>2, AwaitedNvmFrame
  <2> QED
    BY <1>3, <2>1, <2>2
<1>6. ASSUME NEW p \in Queues, NEW i \in 1 .. Len(R[p]),
             NEW b \in Queues, NEW j \in 1 .. Len(R[b]), R[p][i].client = R[b][j].client
      PROVE  p = b /\ i = j
  <2>1. CASE R[p][i] = t \/ R[b][j] = t
    <3>1. R[p][i].client = c /\ R[b][j].client = c
      BY <1>6, <2>1
    <3> QED
      BY <1>3, <1>4, <3>1
  <2>2. CASE R[p][i] # t /\ R[b][j] # t
    <3>1. /\ i \in 1 .. Len(Q[p]) /\ R[p][i] = Q[p][i]
          /\ j \in 1 .. Len(Q[b]) /\ R[b][j] = Q[b][j]
      BY <1>3, <2>2
    <3> QED
      BY <1>1, <1>6, <3>1 DEF NvmInv
  <2> QED
    BY <2>1, <2>2
<1>7. ASSUME NEW p \in Queues, NEW i \in 1 .. Len(nvm_queue'[p])
      PROVE  AwaitedNvm(nvm_queue[p][i])'
  <2>1. PICK x : x = R[p][i]
    OBVIOUS
  <2>2. AwaitedNvm(x)'
    BY <1>2, <1>5, <2>1
  <2>3. x = nvm_queue'[p][i]
    BY <1>2, <2>1
  <2> QED
    BY <2>2, <2>3 DEF AwaitedNvm
<1> QED
  BY <1>2, <1>6, <1>7 DEF NvmInv

LEMMA NvmPop ==
  ASSUME ShapeInv, NvmInv, NEW c \in Clients, OthersSame(c),
         NEW q \in Queues, nvm_queue[q][1].client = c,
         PoppedFrom(nvm_queue', nvm_queue, q)
  PROVE  NvmInv'
<1>1. PICK Q : Q = nvm_queue
  OBVIOUS
<1>2. PICK R : R = nvm_queue'
  OBVIOUS
<1>3. /\ \A p \in Queues : p # q => R[p] = Q[p]
      /\ \A i \in 1 .. Len(R[q]) : i + 1 \in 2 .. Len(Q[q]) /\ R[q][i] = Q[q][i + 1]
      /\ Len(Q[q]) >= 1 /\ Len(Q[q]) \in Nat
  BY <1>1, <1>2 DEF PoppedFrom, ShapeInv
<1> DEFINE At(p, i) == IF p = q THEN i + 1 ELSE i
<1>4. ASSUME NEW p \in Queues, NEW i \in 1 .. Len(R[p])
      PROVE  /\ At(p, i) \in 1 .. Len(Q[p]) /\ R[p][i] = Q[p][At(p, i)]
             /\ ~(p = q /\ At(p, i) = 1)
  <2>1. CASE p = q
    <3>1. i + 1 \in 2 .. Len(Q[q]) /\ R[q][i] = Q[q][i + 1]
      BY <1>3, <2>1
    <3> QED
      BY <2>1, <3>1
  <2>2. CASE p # q
    BY <1>3, <2>2
  <2> QED
    BY <2>1, <2>2
<1>5. ASSUME NEW p \in Queues, NEW i \in 1 .. Len(Q[p]),
             NEW b \in Queues, NEW j \in 1 .. Len(Q[b]), Q[p][i].client = Q[b][j].client
      PROVE  p = b /\ i = j
  BY <1>1, <1>5 DEF NvmInv
<1>6. Q[q][1].client = c /\ 1 \in 1 .. Len(Q[q])
  BY <1>1, <1>3
<1>7. ASSUME NEW p \in Queues, NEW i \in 1 .. Len(R[p]) PROVE AwaitedNvm(R[p][i])'
  <2>1. PICK n \in 1 .. Len(Q[p]) : n = At(p, i) /\ R[p][i] = Q[p][n] /\ ~(p = q /\ n = 1)
    BY <1>4
  <2>2. PICK x : x = Q[p][n]
    OBVIOUS
  <2>3. x.client \in Clients /\ AwaitedNvm(x)
    BY <1>1, <2>1, <2>2, QueueTask DEF ShapeInv, NvmInv
  <2>4. x.client # c
    BY <1>5, <1>6, <2>1, <2>2
  <2> QED
    BY <2>1, <2>2, <2>3, <2>4, AwaitedNvmFrame DEF OthersSame
<1>8. ASSUME NEW p \in Queues, NEW i \in 1 .. Len(R[p]),
             NEW b \in Queues, NEW j \in 1 .. Len(R[b]), R[p][i].client = R[b][j].client
      PROVE  p = b /\ i = j
  <2>1. p = b /\ At(p, i) = At(b, j)
    <3>1. PICK n \in 1 .. Len(Q[p]) : n = At(p, i) /\ R[p][i] = Q[p][n]
      BY <1>4
    <3>2. PICK m \in 1 .. Len(Q[b]) : m = At(b, j) /\ R[b][j] = Q[b][m]
      BY <1>4
    <3>3. p = b /\ n = m
      BY <1>5, <1>8, <3>1, <3>2
    <3> QED
      BY <3>1, <3>2, <3>3
  <2> QED
    BY <2>1
<1>9. ASSUME NEW p \in Queues, NEW i \in 1 .. Len(nvm_queue'[p])
      PROVE  AwaitedNvm(nvm_queue[p][i])'
  <2>1. PICK x : x = R[p][i]
    OBVIOUS
  <2>2. AwaitedNvm(x)'
    BY <1>2, <1>7, <2>1
  <2>3. x = nvm_queue'[p][i]
    BY <1>2, <2>1
  <2> QED
    BY <2>2, <2>3 DEF AwaitedNvm
<1> QED
  BY <1>2, <1>8, <1>9 DEF NvmInv

\* No small write in the buffer queues is client c's.
BufferFree(c) ==
  \A q \in Queues : \A i \in 1 .. Len(buffer_queue[q]) :
    Small(buffer_queue[q][i]) => buffer_queue[q][i].client # c

LEMMA BufferFreeWhen ==
  ASSUME ShapeInv, RequestInv, BufferInv, NEW c \in Clients,
         cpc[c] # "wait" \/ inflight[c] <= 0 \/ IsNvmTask(request[c])
  PROVE  BufferFree(c)
<1> SUFFICES ASSUME NEW q \in Queues, NEW i \in 1 .. Len(buffer_queue[q]),
                    Small(buffer_queue[q][i]), buffer_queue[q][i].client = c
             PROVE  FALSE
  BY DEF BufferFree
<1>1. AwaitedBuffer(buffer_queue[q][i], q)
  BY DEF BufferInv
<1>2. cpc[c] = "wait" /\ inflight[c] = request[c].len /\ ~IsNvmTask(request[c])
  BY <1>1 DEF AwaitedBuffer
<1>3. request[c].len \in Nat /\ request[c].len # 0
  BY <1>2 DEF ShapeInv, RequestInv
<1> QED
  BY <1>2, <1>3

LEMMA AwaitedBufferFrame ==
  ASSUME NEW t, NEW q, AwaitedBuffer(t, q), SlotSame(t.client)
  PROVE  AwaitedBuffer(t, q)'
  BY DEF AwaitedBuffer, SlotSame, Task, TaskOffset

\* BufferInv of the next state, from the tasks R as values.
AwaitedNext(R) ==
  \A q \in Queues : \A i \in 1 .. Len(R[q]) :
    Small(R[q][i]) => AwaitedBuffer(R[q][i], q)'

LEMMA BufferPrime ==
  ASSUME NEW R, R = buffer_queue', Unique(R), AwaitedNext(R)
  PROVE  BufferInv'
<1>1. ASSUME NEW p \in Queues, NEW i \in 1 .. Len(buffer_queue'[p]),
             Small(buffer_queue'[p][i])
      PROVE  AwaitedBuffer(buffer_queue[p][i], p)'
  <2>1. PICK x : x = R[p][i]
    OBVIOUS
  <2>2. AwaitedBuffer(x, p)'
    BY <1>1, <2>1 DEF AwaitedNext
  <2>3. x = buffer_queue'[p][i]
    BY <2>1
  <2> QED
    BY <2>2, <2>3 DEF AwaitedBuffer
<1> QED
  BY <1>1 DEF BufferInv

LEMMA BufferKeep ==
  ASSUME ShapeInv, BufferInv, NEW c, BufferFree(c), OthersSame(c), buffer_queue' = buffer_queue
  PROVE  BufferInv'
<1>1. PICK R : R = buffer_queue
  OBVIOUS
<1>2. ASSUME NEW q \in Queues, NEW i \in 1 .. Len(R[q]), Small(R[q][i])
      PROVE  AwaitedBuffer(R[q][i], q)'
  <2>1. PICK t : t = R[q][i]
    OBVIOUS
  <2>2. t.client \in Clients /\ t.client # c
    BY <1>1, <1>2, <2>1, QueueTask DEF ShapeInv, BufferFree
  <2>3. AwaitedBuffer(t, q)
    BY <1>1, <1>2, <2>1 DEF BufferInv
  <2> QED
    BY <2>1, <2>2, <2>3, AwaitedBufferFrame DEF OthersSame
<1>3. R = buffer_queue' /\ Unique(R)
  BY <1>1 DEF BufferInv
<1>4. AwaitedNext(R)
  BY <1>2 DEF AwaitedNext
<1> QED
  BY <1>3, <1>4, BufferPrime

LEMMA BufferPush ==
  ASSUME ShapeInv, BufferInv, NEW c \in Clients, BufferFree(c), OthersSame(c),
         NEW q \in Queues, NEW t,
         Small(t) => t.client = c /\ AwaitedBuffer(t, q)',
         PushedTo(buffer_queue', buffer_queue, q, t)
  PROVE  BufferInv'
<1>1. PICK Q : Q = buffer_queue
  OBVIOUS
<1>2. PICK R : R = buffer_queue'
  OBVIOUS
<1>3. \A p \in Queues : \A i \in 1 .. Len(R[p]) :
         \/ p = q /\ i = Len(Q[q]) + 1 /\ R[p][i] = t
         \/ i \in 1 .. Len(Q[p]) /\ R[p][i] = Q[p][i]
  BY <1>1, <1>2 DEF PushedTo
<1>4. ASSUME NEW p \in Queues, NEW i \in 1 .. Len(Q[p])
      PROVE  Small(Q[p][i]) =>
               Q[p][i].client \in Clients /\ Q[p][i].client # c /\ AwaitedBuffer(Q[p][i], p)
  BY <1>1, QueueTask DEF ShapeInv, BufferFree, BufferInv
<1>5. ASSUME NEW p \in Queues, NEW i \in 1 .. Len(R[p])
      PROVE  Small(R[p][i]) => AwaitedBuffer(R[p][i], p)'
  <2>1. CASE p = q /\ R[p][i] = t
    BY <2>1
  <2>2. CASE i \in 1 .. Len(Q[p]) /\ R[p][i] = Q[p][i]
    <3>1. PICK x : x = Q[p][i]
      OBVIOUS
    <3>2. Small(x) => AwaitedBuffer(x, p) /\ SlotSame(x.client)
      BY <1>4, <2>2, <3>1 DEF OthersSame
    <3>3. Small(x) => AwaitedBuffer(x, p)'
      BY <3>2, AwaitedBufferFrame
    <3> QED
      BY <1>4, <2>2, <3>1, <3>3
  <2> QED
    BY <1>3, <2>1, <2>2
<1>6. ASSUME NEW p \in Queues, NEW b \in Queues,
             NEW i \in 1 .. Len(R[p]), NEW j \in 1 .. Len(R[b]),
             Small(R[p][i]), Small(R[b][j]),
             R[p][i].client = R[b][j].client
      PROVE  p = b /\ i = j
  <2>1. CASE R[p][i] = t \/ R[b][j] = t
    <3>1. R[p][i].client = c /\ R[b][j].client = c
      BY <1>6, <2>1
    <3>2. ~(i \in 1 .. Len(Q[p]) /\ R[p][i] = Q[p][i])
      BY <1>4, <1>6, <3>1
    <3>3. ~(j \in 1 .. Len(Q[b]) /\ R[b][j] = Q[b][j])
      BY <1>4, <1>6, <3>1
    <3>4. p = q /\ i = Len(Q[q]) + 1
      BY <1>3, <3>2
    <3>5. b = q /\ j = Len(Q[q]) + 1
      BY <1>3, <3>3
    <3> QED
      BY <3>4, <3>5
  <2>2. CASE R[p][i] # t /\ R[b][j] # t
    <3>1. /\ i \in 1 .. Len(Q[p]) /\ R[p][i] = Q[p][i]
          /\ j \in 1 .. Len(Q[b]) /\ R[b][j] = Q[b][j]
      BY <1>3, <2>2
    <3> QED
      BY <1>1, <1>6, <3>1 DEF BufferInv, Unique
  <2> QED
    BY <2>1, <2>2
<1>7. AwaitedNext(R)
  BY <1>5 DEF AwaitedNext
<1>8. Unique(R)
  BY <1>6 DEF Unique
<1> QED
  BY <1>2, <1>7, <1>8, BufferPrime

LEMMA UniqueTask ==
  ASSUME NEW Q, Unique(Q), NEW p \in Queues, NEW q \in Queues,
         NEW i \in 1 .. Len(Q[p]), NEW j \in 1 .. Len(Q[q]),
         Small(Q[p][i]), Small(Q[q][j]),
         Q[p][i].client = Q[q][j].client
  PROVE  p = q /\ i = j
  BY DEF Unique

LEMMA BufferPop ==
  ASSUME ShapeInv, BufferInv, NEW c \in Clients, OthersSame(c), NEW q \in Queues,
         \/ SlotSame(c)
         \/ Small(buffer_queue[q][1]) /\ buffer_queue[q][1].client = c,
         PoppedFrom(buffer_queue', buffer_queue, q)
  PROVE  BufferInv'
<1>1. PICK Q : Q = buffer_queue
  OBVIOUS
<1>2. PICK R : R = buffer_queue'
  OBVIOUS
<1>3. /\ \A p \in Queues : p # q => R[p] = Q[p]
      /\ \A i \in 1 .. Len(R[q]) : i + 1 \in 2 .. Len(Q[q]) /\ R[q][i] = Q[q][i + 1]
      /\ Len(Q[q]) >= 1 /\ Len(Q[q]) \in Nat
  BY <1>1, <1>2 DEF PoppedFrom, ShapeInv
<1> DEFINE At(p, i) == IF p = q THEN i + 1 ELSE i
<1>4. ASSUME NEW p \in Queues, NEW i \in 1 .. Len(R[p])
      PROVE  /\ At(p, i) \in 1 .. Len(Q[p]) /\ R[p][i] = Q[p][At(p, i)]
             /\ ~(p = q /\ At(p, i) = 1)
  <2>1. CASE p = q
    <3>1. i + 1 \in 2 .. Len(Q[q]) /\ R[q][i] = Q[q][i + 1]
      BY <1>3, <2>1
    <3> QED
      BY <2>1, <3>1
  <2>2. CASE p # q
    BY <1>3, <2>2
  <2> QED
    BY <2>1, <2>2
<1>5. ASSUME NEW p \in Queues, NEW b \in Queues,
             NEW i \in 1 .. Len(Q[p]), NEW j \in 1 .. Len(Q[b]),
             Small(Q[p][i]), Small(Q[b][j]),
             Q[p][i].client = Q[b][j].client
      PROVE  p = b /\ i = j
  BY <1>1, <1>5 DEF BufferInv, Unique
<1>6. 1 \in 1 .. Len(Q[q])
  BY <1>3
<1>7. ASSUME NEW p \in Queues, NEW i \in 1 .. Len(R[p])
      PROVE  Small(R[p][i]) => AwaitedBuffer(R[p][i], p)'
  <2>1. PICK n \in 1 .. Len(Q[p]) : n = At(p, i) /\ R[p][i] = Q[p][n] /\ ~(p = q /\ n = 1)
    BY <1>4
  <2>2. PICK x : x = Q[p][n]
    OBVIOUS
  <2>3. /\ x.client \in Clients
        /\ Small(x) => AwaitedBuffer(x, p)
    BY <1>1, <2>1, <2>2, QueueTask DEF ShapeInv, BufferInv
  <2>4. Small(x) => x.client # c \/ SlotSame(c)
    BY <1>1, <1>5, <1>6, <2>1, <2>2
  <2>5. Small(x) => SlotSame(x.client)
    BY <2>3, <2>4 DEF OthersSame
  <2>6. Small(x) => AwaitedBuffer(x, p)'
    BY <2>3, <2>5, AwaitedBufferFrame
  <2> QED
    BY <2>1, <2>2, <2>3, <2>6
<1>8. ASSUME NEW p \in Queues, NEW b \in Queues,
             NEW i \in 1 .. Len(R[p]), NEW j \in 1 .. Len(R[b]),
             Small(R[p][i]), Small(R[b][j]),
             R[p][i].client = R[b][j].client
      PROVE  p = b /\ i = j
  <2>1. p = b /\ At(p, i) = At(b, j)
    <3>1. PICK n \in 1 .. Len(Q[p]) : n = At(p, i) /\ R[p][i] = Q[p][n]
      BY <1>4
    <3>2. PICK m \in 1 .. Len(Q[b]) : m = At(b, j) /\ R[b][j] = Q[b][m]
      BY <1>4
    <3>3. /\ Small(Q[p][n]) /\ Small(Q[b][m])
          /\ Q[p][n].client = Q[b][m].client
      BY <1>8, <3>1, <3>2
    <3>4. Unique(Q) /\ n \in 1 .. Len(Q[p]) /\ m \in 1 .. Len(Q[b])
      BY <1>1, <3>1, <3>2 DEF BufferInv
    <3>5. p = b /\ n = m
      BY <3>3, <3>4, UniqueTask
    <3> QED
      BY <3>1, <3>2, <3>5
  <2> QED
    BY <2>1
<1>9. AwaitedNext(R)
  BY <1>7 DEF AwaitedNext
<1>10. Unique(R)
  BY <1>8 DEF Unique
<1> QED
  BY <1>2, <1>9, <1>10, BufferPrime

LEMMA TasksSame ==
  ASSUME NvmInv, BufferInv, UNCHANGED <<cpc, request, inflight, nvm_queue, buffer_queue>>
  PROVE  NvmInv' /\ BufferInv'
<1>1. NvmInv'
  <2>1. ASSUME NEW q \in Queues, NEW i \in 1 .. Len(nvm_queue'[q])
        PROVE  AwaitedNvm(nvm_queue[q][i])'
    <3>1. AwaitedNvm(nvm_queue[q][i])
      BY <2>1 DEF NvmInv
    <3> QED
      BY <3>1 DEF AwaitedNvm, Task, TaskOffset
  <2>2. ASSUME NEW q \in Queues, NEW i \in 1 .. Len(nvm_queue'[q]),
               NEW p \in Queues, NEW j \in 1 .. Len(nvm_queue'[p]),
               nvm_queue'[p][j].client = nvm_queue'[q][i].client
        PROVE  p = q /\ j = i
    BY <2>2 DEF NvmInv
  <2> QED
    BY <2>1, <2>2 DEF NvmInv
<1>2. BufferInv'
  <2>1. Unique(buffer_queue)'
    BY DEF BufferInv, Unique, Small
  <2>2. ASSUME NEW q \in Queues, NEW i \in 1 .. Len(buffer_queue'[q]),
               Small(buffer_queue[q][i])'
        PROVE  AwaitedBuffer(buffer_queue[q][i], q)'
    <3>1. AwaitedBuffer(buffer_queue[q][i], q)
      BY <2>2 DEF BufferInv, Small
    <3> QED
      BY <3>1 DEF AwaitedBuffer, Task, TaskOffset
  <2> QED
    BY <2>1, <2>2 DEF BufferInv
<1> QED
  BY <1>1, <1>2

LEMMA TasksNext ==
  ASSUME ShapeInv, RequestInv, InflightInv, NvmInv, BufferInv, [Next]_vars
  PROVE  NvmInv' /\ BufferInv'
<1> DEFINE Goal == NvmInv' /\ BufferInv'
<1>1. ASSUME NEW c \in Clients, NEW r \in Requests, Issue(c, r) PROVE Goal
  <2>1. OthersSame(c)
    BY <1>1, ClientOthers
  <2>2. cpc[c] # "wait" /\ nvm_queue' = nvm_queue /\ buffer_queue' = buffer_queue
    BY <1>1 DEF Issue, queueVars
  <2> QED
    BY <2>1, <2>2, NvmFreeWhen, BufferFreeWhen, NvmKeep, BufferKeep
<1>2. ASSUME NEW c \in Clients, PostNvm(c) PROVE Goal
  <2>1. OthersSame(c)
    BY <1>2, ClientOthers DEF ClientStep
  <2>2. PICK q \in Queues, t \in TaskSet : NvmPosted(c, q, t)
    BY <1>2, PostNvmEffect
  <2>3. cpc[c] # "wait" /\ buffer_queue' = buffer_queue /\ cpc[c] = "nvm"
    BY <2>2 DEF NvmPosted
  <2>4. NvmFree(c) /\ BufferFree(c)
    BY <2>3, NvmFreeWhen, BufferFreeWhen
  <2>5. BufferInv'
    BY <2>1, <2>3, <2>4, BufferKeep
  <2>6. t.client = c /\ AwaitedNvm(t)'
    <3>1. t.client = c /\ t = Task(c, {request[c].op}, TaskOffset(c), request[c].len)
      BY <2>2 DEF NvmPosted, Task
    <3>2. IsNvmTask(request[c]) /\ inflight[c] = request[c].len
      BY <2>3 DEF RequestInv, InflightInv
    <3>3. cpc'[c] = "wait" /\ inflight' = inflight /\ request' = request
      BY <2>2 DEF NvmPosted, ShapeInv, TypeOK
    <3> QED
      BY <3>1, <3>2, <3>3 DEF AwaitedNvm, Task, TaskOffset
  <2>7. CASE Len(nvm_queue[q]) = QueueSize
    <3>1. nvm_queue' = nvm_queue
      BY <2>2, <2>7 DEF NvmPosted
    <3> QED
      BY <3>1, <2>1, <2>4, <2>5, NvmKeep
  <2>8. CASE Len(nvm_queue[q]) # QueueSize
    <3>1. PushedTo(nvm_queue', nvm_queue, q, t)
      BY <2>2, <2>8 DEF NvmPosted
    <3> QED
      BY <3>1, <2>1, <2>4, <2>5, <2>6, NvmPush
  <2> QED
    BY <2>7, <2>8
<1>3. ASSUME NEW c \in Clients, PostSmall(c) PROVE Goal
  <2>1. OthersSame(c)
    BY <1>3, ClientOthers DEF ClientStep
  <2>2. PICK q \in Queues, t \in TaskSet : SmallPosted(c, q, t)
    BY <1>3, PostSmallEffect
  <2>3. cpc[c] # "wait" /\ nvm_queue' = nvm_queue /\ cpc[c] = "small"
    BY <2>2 DEF SmallPosted
  <2>4. NvmFree(c) /\ BufferFree(c)
    BY <2>3, NvmFreeWhen, BufferFreeWhen
  <2>5. NvmInv'
    BY <2>1, <2>3, <2>4, NvmKeep
  <2>6. t.client = c /\ AwaitedBuffer(t, q)'
    <3>1. /\ t.client = c /\ t = Task(c, {"write"}, TaskOffset(c), request[c].len)
          /\ q = TaskOffset(c) % QueueNum
      BY <2>2 DEF SmallPosted, Task
    <3>2. ~IsNvmTask(request[c]) /\ inflight[c] = request[c].len
      BY <2>3 DEF RequestInv, InflightInv
    <3>3. cpc'[c] = "wait" /\ inflight' = inflight /\ request' = request
      BY <2>2 DEF SmallPosted, ShapeInv, TypeOK
    <3> QED
      BY <3>1, <3>2, <3>3 DEF AwaitedBuffer, Task, TaskOffset
  <2>7. PushedTo(buffer_queue', buffer_queue, q, t)
    BY <2>2 DEF SmallPosted
  <2> QED
    BY <2>1, <2>4, <2>5, <2>6, <2>7, BufferPush
<1>4. ASSUME NEW c \in Clients, PostPart(c) PROVE Goal
  <2>1. OthersSame(c)
    BY <1>4, ClientOthers DEF ClientStep
  <2>2. PICK q \in Queues, t \in TaskSet, i \in Queues : PartPosted(c, q, t, i)
    BY <1>4, PostPartEffect
  <2>3. cpc[c] # "wait" /\ nvm_queue' = nvm_queue
    BY <2>2 DEF PartPosted
  <2>4. NvmFree(c) /\ BufferFree(c)
    BY <2>3, NvmFreeWhen, BufferFreeWhen
  <2>5. NvmInv'
    BY <2>1, <2>3, <2>4, NvmKeep
  <2>6. ~Small(t)
    BY <2>2 DEF PartPosted, Small
  <2>7. PushedTo(buffer_queue', buffer_queue, q, t)
    BY <2>2 DEF PartPosted
  <2> QED
    BY <2>1, <2>4, <2>5, <2>6, <2>7, BufferPush
<1>5. ASSUME NEW c \in Clients, SsdIo(c) \/ Return(c) PROVE Goal
  <2>1. OthersSame(c)
    BY <1>5, ClientOthers DEF ClientStep
  <2>2. nvm_queue' = nvm_queue /\ buffer_queue' = buffer_queue
    BY <1>5, FreedEffect DEF Freed
  <2>3. cpc[c] # "wait" \/ inflight[c] <= 0
    BY <1>5 DEF SsdIo, Return
  <2> QED
    BY <2>1, <2>2, <2>3, NvmFreeWhen, BufferFreeWhen, NvmKeep, BufferKeep
<1>6. ASSUME NEW c \in Clients, cpc' = cpc, request' = request,
             inflight' = [inflight EXCEPT ![c] = 0]
      PROVE  OthersSame(c)
  BY <1>6 DEF OthersSame, SlotSame, ShapeInv, TypeOK
<1>7. ASSUME NEW q \in Queues, ServeNvm(q) PROVE Goal
  <2>1. PICK c \in Clients : NvmServed(q, c)
    BY <1>7, ServeNvmEffect
  <2>2. /\ nvm_queue[q][1].client = c /\ PoppedFrom(nvm_queue', nvm_queue, q)
        /\ IsNvmTask(request[c]) /\ buffer_queue' = buffer_queue
    BY <2>1 DEF NvmServed
  <2>3. OthersSame(c)
    BY <1>6, <2>1 DEF NvmServed
  <2>4. NvmInv'
    BY <2>2, <2>3, NvmPop
  <2>5. BufferInv'
    BY <2>2, <2>3, BufferFreeWhen, BufferKeep
  <2> QED
    BY <2>4, <2>5
<1>8. ASSUME NEW q \in Queues, ServeBuffer(q) \/ Stall(q) PROVE Goal
  <2>1. CASE TaskDropped(q)
    <3>1. UNCHANGED <<cpc, request, inflight, nvm_queue>> /\ BufferFrame(q)
      BY <2>1 DEF TaskDropped, BufferFrame
    <3>2. PoppedFrom(buffer_queue', buffer_queue, q)
      BY <3>1 DEF BufferFrame
    <3>3. PICK c \in Clients : c = buffer_queue[q][1].client
      BY <3>2 DEF PoppedFrom, TaskSet
    <3>4. OthersSame(c) /\ SlotSame(c)
      BY <3>1 DEF OthersSame, SlotSame
    <3>5. BufferInv'
      BY <3>2, <3>4, BufferPop
    <3>6. NvmInv'
      BY <3>1 DEF NvmInv, AwaitedNvm, Task, TaskOffset
    <3> QED
      BY <3>5, <3>6
  <2>2. ASSUME NEW c \in Clients, SmallServed(q, c) PROVE Goal
    <3>1. /\ BufferFrame(q) /\ Small(buffer_queue[q][1]) /\ buffer_queue[q][1].client = c
          /\ ~IsNvmTask(request[c])
      BY <2>2 DEF SmallServed
    <3>2. PoppedFrom(buffer_queue', buffer_queue, q) /\ nvm_queue' = nvm_queue
      BY <3>1 DEF BufferFrame
    <3>3. OthersSame(c)
      BY <1>6, <2>2 DEF SmallServed, BufferFrame
    <3>4. BufferInv'
      BY <3>1, <3>2, <3>3, BufferPop
    <3>5. NvmInv'
      BY <3>1, <3>2, <3>3, NvmFreeWhen, NvmKeep
    <3> QED
      BY <3>4, <3>5
  <2> QED
    BY <1>8, <2>1, <2>2, ServeBufferEffect
<1>9. ASSUME UNCHANGED vars PROVE Goal
  BY <1>9, TasksSame DEF vars, slotVars, queueVars
<1> QED
  BY <1>1, <1>2, <1>3, <1>4, <1>5, <1>7, <1>8, <1>9 DEF Next, ClientStep

---------------------------------------------------------------------------
(* The data *)

\* The blocks a client's request may change.
Touched(c) ==
  IF request[c].op = "write" /\ IsRouted(request[c]) THEN Span(request[c]) ELSE {}

\* A step changes nothing about the blocks outside B.
Quiet(B) ==
  \A a \in Blocks : a \notin B =>
    /\ HomeHolds(a)' = HomeHolds(a)
    /\ routed'[a] = routed[a]
    /\ Held(a) => Held(a)'

LEMMA SameHome ==
  ASSUME ShapeInv, NEW a \in Blocks,
         a < Threshold => nvm'[a] = nvm[a],
         \A k \in SsdBlocks : k + Threshold = a =>
           /\ ssd'[k] = ssd[k]
           /\ buffer'[k % QueueNum][k] = buffer[k % QueueNum][k],
         routed'[a] = routed[a], large \subseteq large'
  PROVE  HomeHolds(a)' = HomeHolds(a) /\ (Held(a) => Held(a)')
<1>0. a \in Nat /\ a < Threshold + SsdNum
  BY Sizes DEF Blocks
<1>1. CASE a < Threshold
  <2>1. HomeHolds(a)' = HomeHolds(a)
    BY <1>1 DEF HomeHolds
  <2>2. a - Threshold \notin SsdBlocks
    BY <1>0, <1>1, Sizes DEF SsdBlocks
  <2>3. Held(a) => HomeHolds(a) = routed[a]
    BY <2>2 DEF Held, ShapeInv, TypeOK
  <2> QED
    BY <2>1, <2>3 DEF Held
<1>2. CASE ~(a < Threshold)
  <2>1. PICK k \in SsdBlocks : k = a - Threshold /\ k + Threshold = a
    BY <1>0, <1>2, Sizes DEF SsdBlocks
  <2>2. ssd'[k] = ssd[k] /\ buffer'[k % QueueNum][k] = buffer[k % QueueNum][k]
    BY <2>1
  <2>3. k % KeySpace = k
    BY SsdKey
  <2>4. SsdAreaHolds(k)' = SsdAreaHolds(k)
    BY <2>2, <2>3 DEF SsdAreaHolds
  <2>5. HomeHolds(a)' = HomeHolds(a)
    BY <1>2, <2>1, <2>4 DEF HomeHolds
  <2> QED
    BY <2>1, <2>2, <2>5 DEF Held
<1> QED
  BY <1>1, <1>2

\* Steps that move no data.
LEMMA QuietSame ==
  ASSUME ShapeInv, UNCHANGED <<nvm, buffer, ssd, routed, large>>
  PROVE  Quiet({})
  BY SameHome DEF Quiet

LEMMA QuietNvm ==
  ASSUME ShapeInv, NEW q \in Queues, NEW c \in Clients, NvmServed(q, c),
         NEW B, B = Touched(c)
  PROVE  Quiet(B)
<1>1. IsRouted(request[c])
  <2>1. IsNvmTask(request[c]) /\ request[c].offset \in Nat /\ request[c].len \in Nat
    BY DEF NvmServed, ShapeInv
  <2> QED
    BY <2>1, Sizes DEF IsNvmTask, IsRouted
<1>2. UNCHANGED <<buffer, ssd, routed, large>>
  BY DEF NvmServed
<1>3. ASSUME NEW a \in Blocks, a \notin B PROVE nvm'[a] = nvm[a]
  BY <1>1, <1>3 DEF NvmServed, Touched
<1> QED
  BY <1>2, <1>3, SameHome DEF Quiet

\* Where a small write goes.
LEMMA SmallKey ==
  ASSUME ShapeInv, RequestInv, NEW c \in Clients, cpc[c] = "wait", ~IsNvmTask(request[c])
  PROVE  /\ request[c].op = "write" /\ Span(request[c]) = {request[c].offset}
         /\ IsRouted(request[c]) =>
              /\ TaskOffset(c) \in SsdBlocks /\ TaskOffset(c) % KeySpace = TaskOffset(c)
              /\ TaskOffset(c) + Threshold = request[c].offset
         /\ ~IsRouted(request[c]) => TaskOffset(c) % KeySpace \notin SsdBlocks
<1>1. PICK r : r = request[c]
  OBVIOUS
<1>2. InRange(r) /\ r.op = "write" /\ r.len = 1 /\ ~IsNvmTask(r)
  BY <1>1, RequestFacts DEF RequestInv
<1>3. r.offset \in Nat /\ r.offset < Threshold + SsdNum
  BY <1>2, RangeBound, Sizes DEF InRange
<1>4. Span(r) = {r.offset}
  BY <1>2, <1>3 DEF Span
<1>5. TaskOffset(c) = Rebased(r.offset)
  BY <1>1, <1>2 DEF TaskOffset
<1>6. ASSUME IsRouted(r)
      PROVE  /\ TaskOffset(c) \in SsdBlocks /\ TaskOffset(c) % KeySpace = TaskOffset(c)
             /\ TaskOffset(c) + Threshold = r.offset
  <2>1. r.offset >= Threshold
    BY <1>2, <1>3, <1>6, Sizes DEF IsRouted, IsNvmTask
  <2>2. Rebased(r.offset) = r.offset - Threshold /\ Rebased(r.offset) \in SsdBlocks
    BY <1>3, <2>1, RebasedCases
  <2> QED
    BY <1>3, <1>5, <2>2, SsdKey, Sizes
<1>7. ASSUME ~IsRouted(r) PROVE TaskOffset(c) % KeySpace \notin SsdBlocks
  <2>1. r.offset + 1 = Threshold
    BY <1>2, <1>3, <1>7, Sizes DEF IsRouted, IsNvmTask
  <2> QED
    BY <1>3, <1>5, <2>1, CrossingKey
<1> QED
  BY <1>1, <1>2, <1>4, <1>6, <1>7

LEMMA QuietSmall ==
  ASSUME ShapeInv, RequestInv, NEW q \in Queues, NEW c \in Clients, SmallServed(q, c),
         NEW B, B = Touched(c)
  PROVE  Quiet(B)
<1>1. cpc[c] = "wait" /\ ~IsNvmTask(request[c])
  BY DEF SmallServed
<1>2. UNCHANGED <<nvm, ssd, routed, large>>
  BY DEF SmallServed, BufferFrame
<1>3. PICK y : y = TaskOffset(c) % KeySpace
  OBVIOUS
<1>4. ASSUME NEW k \in SsdBlocks, k # y
      PROVE  buffer'[k % QueueNum][k] = buffer[k % QueueNum][k]
  <2>1. buffer' = [buffer EXCEPT ![q][y] = request[c].data]
    BY <1>3 DEF SmallServed
  <2>2. buffer \in [Queues -> [0 .. KeySpace - 1 -> Data \union {None}]]
    BY DEF ShapeInv, TypeOK
  <2>3. k % QueueNum \in Queues /\ k \in 0 .. KeySpace - 1
    BY SsdKey
  <2> QED
    BY <1>4, <2>1, <2>2, <2>3
<1>5. ASSUME NEW a \in Blocks, a \notin B, NEW k \in SsdBlocks, k + Threshold = a
      PROVE  buffer'[k % QueueNum][k] = buffer[k % QueueNum][k]
  <2>1. CASE ~IsRouted(request[c])
    <3>1. k # y
      BY <1>1, <1>3, <2>1, SmallKey
    <3> QED
      BY <1>4, <3>1
  <2>2. CASE IsRouted(request[c])
    <3>1. B = {request[c].offset} /\ y + Threshold = request[c].offset
      BY <1>1, <1>3, <2>2, SmallKey DEF Touched
    <3>2. k # y
      BY <1>5, <3>1
    <3> QED
      BY <1>4, <3>2
  <2> QED
    BY <2>1, <2>2
<1> QED
  BY <1>2, <1>5, SameHome DEF Quiet

\* Which blocks of the SSD a request reaches.
LEMMA ReachedBlocks ==
  ASSUME ShapeInv, RequestInv, NEW c \in Clients, cpc[c] = "ssd"
  PROVE  /\ ~IsRouted(request[c]) => Reached(c) = {}
         /\ IsRouted(request[c]) =>
              \A a \in Blocks : a \in Span(request[c]) <=>
                \E k \in Reached(c) : k \in SsdBlocks /\ k + Threshold = a
<1>1. PICK r : r = request[c]
  OBVIOUS
<1>2. InRange(r) /\ ~IsNvmTask(r)
  BY <1>1, RequestFacts DEF RequestInv
<1>3. r.offset \in Nat /\ r.offset < Threshold + SsdNum /\ r.len \in Nat \ {0}
  BY <1>2, RangeBound, Sizes DEF InRange
<1>5. TaskOffset(c) = Rebased(r.offset)
  BY <1>1, <1>2 DEF TaskOffset
<1>6. CASE ~IsRouted(r)
  <2>1. r.offset < Threshold
    BY <1>3, <1>6, Sizes DEF IsRouted
  <2>2. TaskOffset(c) \notin SsdBlocks
    BY <1>3, <1>5, <2>1, RebasedCases
  <2> QED
    BY <1>1, <1>6, <2>2 DEF Reached
<1>7. CASE IsRouted(r)
  <2>1. r.offset >= Threshold
    BY <1>2, <1>3, <1>7, Sizes DEF IsRouted, IsNvmTask
  <2>2. TaskOffset(c) = r.offset - Threshold /\ TaskOffset(c) \in SsdBlocks
    BY <1>3, <1>5, <2>1, RebasedCases
  <2>3. Reached(c) = (r.offset - Threshold .. r.offset - Threshold + r.len - 1) \intersect SsdBlocks
    BY <1>1, <2>2 DEF Reached
  <2>4. ASSUME NEW a \in Blocks, a \in Span(r)
        PROVE  \E k \in Reached(c) : k \in SsdBlocks /\ k + Threshold = a
    <3>1. a \in Nat /\ a < Threshold + SsdNum /\ a >= r.offset /\ a <= r.offset + r.len - 1
      BY <1>3, <2>4, Sizes DEF Blocks, Span
    <3>2. a - Threshold \in SsdBlocks /\ (a - Threshold) + Threshold = a
      BY <1>3, <2>1, <3>1, Sizes DEF SsdBlocks
    <3>3. a - Threshold \in r.offset - Threshold .. r.offset - Threshold + r.len - 1
      BY <1>3, <3>1, Sizes
    <3> QED
      BY <2>3, <3>2, <3>3
  <2>5. ASSUME NEW a \in Blocks, NEW k \in Reached(c), k \in SsdBlocks, k + Threshold = a
        PROVE  a \in Span(r)
    <3>1. k \in r.offset - Threshold .. r.offset - Threshold + r.len - 1
      BY <2>3
    <3> QED
      BY <1>3, <2>5, <3>1, Sizes DEF Span, SsdBlocks
  <2> QED
    BY <1>1, <1>7, <2>4, <2>5
<1> QED
  BY <1>6, <1>7, <1>1

LEMMA QuietSsd ==
  ASSUME ShapeInv, RequestInv, NEW c \in Clients, SsdIo(c), NEW B, B = Touched(c)
  PROVE  Quiet(B)
<1>1. cpc[c] = "ssd" /\ UNCHANGED <<nvm, buffer>> /\ large \subseteq large'
  BY DEF SsdIo
<1>2. ASSUME NEW a \in Blocks, a \notin B PROVE routed'[a] = routed[a]
  <2>1. CASE request[c].op = "write" /\ IsRouted(request[c])
    BY <1>2, <2>1 DEF SsdIo, Completed, Touched
  <2>2. CASE ~(request[c].op = "write" /\ IsRouted(request[c]))
    BY <2>2 DEF SsdIo
  <2> QED
    BY <2>1, <2>2
<1>3. ASSUME NEW a \in Blocks, a \notin B, NEW k \in SsdBlocks, k + Threshold = a
      PROVE  ssd'[k] = ssd[k]
  <2>0. ssd'[k] = IF request[c].op = "write" /\ k \in Reached(c) THEN request[c].data ELSE ssd[k]
    BY DEF SsdIo
  <2>1. CASE request[c].op = "write" /\ IsRouted(request[c])
    <3>1. a \notin Span(request[c])
      BY <1>3, <2>1 DEF Touched
    <3>2. k \notin Reached(c)
      BY <1>1, <1>3, <2>1, <3>1, ReachedBlocks
    <3> QED
      BY <2>0, <3>2
  <2>2. CASE ~IsRouted(request[c])
    BY <1>1, <2>0, <2>2, ReachedBlocks
  <2>3. CASE request[c].op # "write"
    BY <2>0, <2>3
  <2> QED
    BY <2>1, <2>2, <2>3
<1> QED
  BY <1>1, <1>2, <1>3, SameHome DEF Quiet

LEMMA QuietReturn ==
  ASSUME ShapeInv, NEW c \in Clients, Return(c), NEW B, B = Touched(c)
  PROVE  Quiet(B)
<1>1. UNCHANGED <<nvm, buffer, ssd, large>>
  BY DEF Return, dataVars
<1>2. ASSUME NEW a \in Blocks, a \notin B PROVE routed'[a] = routed[a]
  <2>1. CASE request[c].op = "write" /\ IsRouted(request[c])
    BY <1>2, <2>1 DEF Return, Completed, Touched
  <2>2. CASE ~(request[c].op = "write" /\ IsRouted(request[c]))
    BY <2>2 DEF Return
  <2> QED
    BY <2>1, <2>2
<1> QED
  BY <1>1, <1>2, SameHome DEF Quiet

\* What CompletedIsServed says of a client.
ServedOK(c) ==
  cpc[c] = "wait" /\ inflight[c] <= 0 /\ IsRouted(request[c]) =>
    \A a \in Span(request[c]) :
      IF request[c].op = "write" THEN HomeHolds(a) = request[c].data
      ELSE a \in DOMAIN dst[c] /\ dst[c][a] = routed[a]

LEMMA ServedFrame ==
  ASSUME ShapeInv, NEW d \in Clients, ServedOK(d), SlotSame(d), dst'[d] = dst[d],
         NEW B, Quiet(B), Span(request[d]) \intersect B = {}
  PROVE  ServedOK(d)'
<1> SUFFICES ASSUME cpc'[d] = "wait", inflight'[d] <= 0, IsRouted(request'[d]),
                    NEW a \in Span(request'[d])
             PROVE  IF request'[d].op = "write" THEN HomeHolds(a)' = request'[d].data
                    ELSE a \in DOMAIN dst'[d] /\ dst'[d][a] = routed'[a]
  BY DEF ServedOK, IsRouted, Span
<1>1. request'[d] = request[d] /\ cpc[d] = "wait" /\ inflight[d] <= 0
  BY DEF SlotSame
<1>2. a \in Blocks /\ a \notin B
  BY <1>1 DEF ShapeInv, TypeOK
<1>3. HomeHolds(a)' = HomeHolds(a) /\ routed'[a] = routed[a]
  BY <1>2 DEF Quiet
<1> QED
  BY <1>1, <1>3 DEF ServedOK

LEMMA HeldFrame ==
  ASSUME HeldInv, NEW c \in Clients, OthersSame(c), NEW B, Quiet(B),
         NEW a \in Blocks, a \notin B,
         \A d \in Clients : a \in Span(request'[d]) => ~ServedWrite(d)',
         a \in Span(request[c]) => ~ServedWrite(c)
  PROVE  Held(a)'
<1>1. ASSUME NEW d \in Clients, a \in Span(request[d]) PROVE ~ServedWrite(d)
  <2>1. CASE d = c
    BY <1>1, <2>1
  <2>2. CASE d # c
    <3>1. SlotSame(d)
      BY <2>2 DEF OthersSame
    <3>2. request'[d] = request[d] /\ (ServedWrite(d)' <=> ServedWrite(d))
      BY <3>1 DEF SlotSame, ServedWrite
    <3> QED
      BY <1>1, <3>2
  <2> QED
    BY <2>1, <2>2
<1>2. Held(a)
  BY <1>1 DEF HeldInv
<1> QED
  BY <1>2 DEF Quiet

\* Steps that move no data and complete nobody.
LEMMA DataSame ==
  ASSUME ShapeInv, RequestInv, DisjointInv, CompletedIsServed, HeldInv,
         NEW c \in Clients, OthersSame(c), UNCHANGED <<nvm, buffer, ssd, routed, large>>,
         \A d \in Clients : d # c => dst'[d] = dst[d],
         cpc'[c] = "wait" => inflight'[c] > 0 /\ inflight'[c] \in Int,
         ~ServedWrite(c)
  PROVE  CompletedIsServed' /\ HeldInv'
<1>1. Quiet({})
  BY QuietSame
<1>2. ASSUME NEW d \in Clients PROVE ServedOK(d)'
  <2>1. CASE d = c
    BY <2>1 DEF ServedOK
  <2>2. CASE d # c
    <3>1. ServedOK(d)
      BY DEF CompletedIsServed, ServedOK
    <3> QED
      BY <1>1, <2>2, <3>1, ServedFrame DEF OthersSame
  <2> QED
    BY <2>1, <2>2
<1>3. CompletedIsServed'
  BY <1>2 DEF CompletedIsServed, ServedOK
<1>4. ASSUME NEW a \in Blocks,
             \A d \in Clients : a \in Span(request'[d]) => ~ServedWrite(d)'
      PROVE  Held(a)'
  BY <1>1, <1>4, HeldFrame
<1>5. HeldInv'
  BY <1>4 DEF HeldInv, Span
<1> QED
  BY <1>3, <1>5

\* Steps that change blocks of client c's request only: it remains to be shown
\* what becomes of client c and of those blocks.
LEMMA DataTouched ==
  ASSUME ShapeInv, DisjointInv, CompletedIsServed, HeldInv,
         NEW c \in Clients, OthersSame(c), NEW B, B = Touched(c), Quiet(B),
         \A d \in Clients : d # c => dst'[d] = dst[d],
         ServedOK(c)',
         \A a \in Blocks : a \in B => (ServedWrite(c)' /\ a \in Span(request'[c])) \/ Held(a)',
         \A a \in Blocks : a \notin B /\ a \in Span(request[c]) => ~ServedWrite(c)
  PROVE  CompletedIsServed' /\ HeldInv'
<1>1. B \subseteq Span(request[c])
  BY DEF Touched
<1>2. ASSUME NEW d \in Clients PROVE ServedOK(d)'
  <2>1. CASE d = c
    BY <2>1
  <2>2. CASE d # c
    <3>1. ServedOK(d)
      BY DEF CompletedIsServed, ServedOK
    <3>2. Span(request[d]) \intersect B = {}
      BY <1>1, <2>2 DEF DisjointInv
    <3> QED
      BY <2>2, <3>1, <3>2, ServedFrame DEF OthersSame
  <2> QED
    BY <2>1, <2>2
<1>3. CompletedIsServed'
  BY <1>2 DEF CompletedIsServed, ServedOK
<1>4. ASSUME NEW a \in Blocks,
             \A d \in Clients : a \in Span(request'[d]) => ~ServedWrite(d)'
      PROVE  Held(a)'
  <2>1. CASE a \in B
    BY <1>4, <2>1
  <2>2. CASE a \notin B
    BY <1>4, <2>2, HeldFrame
  <2> QED
    BY <2>1, <2>2
<1>5. HeldInv'
  BY <1>4 DEF HeldInv, Span
<1> QED
  BY <1>3, <1>5

LEMMA DataNvm ==
  ASSUME ShapeInv, RequestInv, InflightInv, DisjointInv, NvmInv, CompletedIsServed, HeldInv,
         NEW q \in Queues, ServeNvm(q)
  PROVE  CompletedIsServed' /\ HeldInv'
<1>1. PICK c \in Clients : NvmServed(q, c)
  BY ServeNvmEffect
<1>2. PICK B : B = Touched(c)
  OBVIOUS
<1>3. Quiet(B)
  BY <1>1, <1>2, QuietNvm
<1>4. /\ cpc[c] = "wait" /\ inflight[c] = request[c].len /\ IsNvmTask(request[c])
      /\ cpc' = cpc /\ request' = request /\ inflight' = [inflight EXCEPT ![c] = 0]
      /\ routed' = routed
  BY <1>1 DEF NvmServed
<1>5. OthersSame(c)
  BY <1>4 DEF OthersSame, SlotSame, ShapeInv, TypeOK
<1>6. \A d \in Clients : d # c => dst'[d] = dst[d]
  BY <1>1 DEF NvmServed, ShapeInv
<1>7. InRange(request[c]) /\ request[c].len \in Nat \ {0}
  BY <1>4, RequestFacts DEF InRange
<1>8. ~ServedWrite(c) /\ inflight'[c] = 0
  BY <1>4, <1>7 DEF ServedWrite, ShapeInv, TypeOK
<1>9. \A a \in Span(request[c]) : a \in Blocks /\ a < Threshold
  <2> SUFFICES ASSUME NEW a \in Span(request[c]) PROVE a < Threshold /\ a \in Blocks
    OBVIOUS
  <2>1. a \in request[c].offset .. request[c].offset + request[c].len - 1
    BY DEF Span
  <2>2. request[c].offset \in Nat /\ request[c].offset + request[c].len < Threshold
    BY <1>4, <1>7 DEF InRange, IsNvmTask
  <2> QED
    BY <1>7, <2>1, <2>2, Sizes DEF InRange
<1>10. IsRouted(request[c])
  BY <1>4, <1>7, Sizes DEF IsRouted, IsNvmTask, InRange
<1>11. ASSUME NEW a \in Span(request[c])
       PROVE  IF request[c].op = "write" THEN HomeHolds(a)' = request[c].data
              ELSE a \in DOMAIN dst'[c] /\ dst'[c][a] = routed[a]
  <2>1. CASE request[c].op = "write"
    <3>1. nvm'[a] = request[c].data
      BY <1>1, <1>9, <2>1 DEF NvmServed
    <3> QED
      BY <1>9, <2>1, <3>1 DEF HomeHolds
  <2>2. CASE request[c].op # "write"
    <3>1. dst'[c] = [x \in Span(request[c]) |-> nvm[x]]
      BY <1>1, <2>2 DEF NvmServed, ShapeInv
    <3>2. a \in DOMAIN dst'[c] /\ dst'[c][a] = nvm[a]
      BY <3>1
    <3>3. ASSUME NEW d \in Clients, a \in Span(request[d]) PROVE ~ServedWrite(d)
      BY <1>8, <3>3 DEF DisjointInv
    <3>4. Held(a)
      BY <1>9, <3>3 DEF HeldInv
    <3>5. a - Threshold \notin SsdBlocks
      BY <1>9, Sizes DEF SsdBlocks, Blocks
    <3>6. HomeHolds(a) = routed[a]
      BY <3>4, <3>5 DEF Held, ShapeInv, TypeOK
    <3>7. HomeHolds(a) = nvm[a]
      BY <1>9 DEF HomeHolds
    <3> QED
      BY <2>2, <3>2, <3>6, <3>7
  <2> QED
    BY <2>1, <2>2
<1>12. ServedOK(c)'
  BY <1>4, <1>11 DEF ServedOK
<1>13. ASSUME NEW a \in B PROVE ServedWrite(c)' /\ a \in Span(request'[c])
  <2>1. request[c].op = "write" /\ a \in Span(request[c])
    BY <1>2, <1>13 DEF Touched
  <2> QED
    BY <1>4, <1>8, <1>10, <2>1 DEF ServedWrite
<1> QED
  BY <1>2, <1>3, <1>5, <1>6, <1>8, <1>12, <1>13, DataTouched

LEMMA DataSmall ==
  ASSUME ShapeInv, RequestInv, InflightInv, DisjointInv, CompletedIsServed, HeldInv,
         NEW q \in Queues, NEW c \in Clients, SmallServed(q, c)
  PROVE  CompletedIsServed' /\ HeldInv'
<1>2. PICK B : B = Touched(c)
  OBVIOUS
<1>3. Quiet(B)
  BY <1>2, QuietSmall
<1>4. /\ cpc[c] = "wait" /\ inflight[c] = request[c].len /\ ~IsNvmTask(request[c])
      /\ cpc' = cpc /\ request' = request /\ inflight' = [inflight EXCEPT ![c] = 0]
      /\ routed' = routed /\ dst' = dst
  BY DEF SmallServed, BufferFrame
<1>5. OthersSame(c)
  BY <1>4 DEF OthersSame, SlotSame, ShapeInv, TypeOK
<1>6. \A d \in Clients : d # c => dst'[d] = dst[d]
  BY <1>4
<1>7. InRange(request[c]) /\ request[c].len \in Nat \ {0} /\ request[c].data \in Data
  BY <1>4, RequestFacts DEF InRange
<1>8. ~ServedWrite(c) /\ inflight'[c] = 0
  BY <1>4, <1>7 DEF ServedWrite, ShapeInv, TypeOK
<1>9. /\ request[c].op = "write" /\ Span(request[c]) = {request[c].offset}
      /\ IsRouted(request[c]) =>
           /\ TaskOffset(c) \in SsdBlocks /\ TaskOffset(c) % KeySpace = TaskOffset(c)
           /\ TaskOffset(c) + Threshold = request[c].offset
  BY <1>4, SmallKey
<1>10. ASSUME IsRouted(request[c]), NEW a \in Span(request[c])
       PROVE  HomeHolds(a)' = request[c].data
  <2>1. PICK k \in SsdBlocks : k = TaskOffset(c) /\ k + Threshold = a /\ k % KeySpace = k
    BY <1>9, <1>10
  <2>2. q = k % QueueNum /\ buffer' = [buffer EXCEPT ![q][k] = request[c].data]
    BY <2>1 DEF SmallServed
  <2>3. buffer'[k % QueueNum][k % KeySpace] = request[c].data
    <3>1. buffer \in [Queues -> [0 .. KeySpace - 1 -> Data \union {None}]]
      BY DEF ShapeInv, TypeOK
    <3>2. k \in 0 .. KeySpace - 1
      BY SsdKey
    <3> QED
      BY <2>1, <2>2, <3>1, <3>2
  <2>4. request[c].data # None
    BY <1>7, Sizes DEF Data, None
  <2>5. SsdAreaHolds(k)' = request[c].data
    BY <2>3, <2>4 DEF SsdAreaHolds
  <2>6. ~(a < Threshold) /\ a - Threshold = k
    BY <2>1, Sizes DEF SsdBlocks
  <2> QED
    BY <2>5, <2>6 DEF HomeHolds
<1>11. ServedOK(c)'
  BY <1>4, <1>9, <1>10 DEF ServedOK
<1>12. ASSUME NEW a \in B PROVE ServedWrite(c)' /\ a \in Span(request'[c])
  <2>1. IsRouted(request[c]) /\ request[c].op = "write" /\ a \in Span(request[c])
    BY <1>2, <1>12 DEF Touched
  <2> QED
    BY <1>4, <1>8, <2>1 DEF ServedWrite
<1> QED
  BY <1>2, <1>3, <1>5, <1>6, <1>8, <1>11, <1>12, DataTouched

LEMMA DataSsd ==
  ASSUME ShapeInv, RequestInv, DisjointInv, CompletedIsServed, HeldInv,
         NEW c \in Clients, SsdIo(c)
  PROVE  CompletedIsServed' /\ HeldInv'
<1>2. PICK B : B = Touched(c)
  OBVIOUS
<1>3. Quiet(B)
  BY <1>2, QuietSsd
<1>4. cpc[c] = "ssd" /\ cpc'[c] = "idle" /\ UNCHANGED <<nvm, buffer>>
  BY DEF SsdIo, ShapeInv, TypeOK
<1>5. OthersSame(c)
  BY ClientOthers DEF ClientStep
<1>6. \A d \in Clients : d # c => dst'[d] = dst[d]
  BY DEF SsdIo
<1>7. ServedOK(c)' /\ ~ServedWrite(c)
  BY <1>4 DEF ServedOK, ServedWrite
<1>8. ASSUME NEW a \in Blocks, a \in B PROVE Held(a)'
  <2>1. request[c].op = "write" /\ IsRouted(request[c]) /\ a \in Span(request[c])
    BY <1>2, <1>8 DEF Touched
  <2>2. routed'[a] = request[c].data
    BY <2>1 DEF SsdIo, Completed
  <2>3. PICK k \in SsdBlocks : k \in Reached(c) /\ k + Threshold = a
    BY <1>4, <2>1, ReachedBlocks
  <2>4. k \in large' /\ ssd'[k] = request[c].data
    BY <2>1, <2>3 DEF SsdIo
  <2>5. k % KeySpace = k /\ ~(a < Threshold) /\ a - Threshold = k
    BY <2>3, SsdKey, Sizes DEF SsdBlocks
  <2>6. CASE buffer'[k % QueueNum][k] = None
    <3>1. SsdAreaHolds(k)' = request[c].data
      BY <2>4, <2>5, <2>6 DEF SsdAreaHolds
    <3>2. HomeHolds(a)' = request[c].data
      BY <2>5, <3>1 DEF HomeHolds
    <3> QED
      BY <2>2, <3>2 DEF Held
  <2>7. CASE buffer'[k % QueueNum][k] # None
    BY <2>4, <2>5, <2>7 DEF Held
  <2> QED
    BY <2>6, <2>7
<1> QED
  BY <1>2, <1>3, <1>5, <1>6, <1>7, <1>8, DataTouched

LEMMA DataReturn ==
  ASSUME ShapeInv, RequestInv, DisjointInv, CompletedIsServed, HeldInv,
         NEW c \in Clients, Return(c)
  PROVE  CompletedIsServed' /\ HeldInv'
<1>2. PICK B : B = Touched(c)
  OBVIOUS
<1>3. Quiet(B)
  BY <1>2, QuietReturn
<1>4. /\ cpc[c] = "wait" /\ inflight[c] <= 0 /\ cpc'[c] = "idle"
      /\ UNCHANGED <<nvm, buffer, ssd, large>>
  BY DEF Return, ShapeInv, TypeOK, dataVars
<1>5. OthersSame(c)
  BY ClientOthers DEF ClientStep
<1>6. \A d \in Clients : d # c => dst'[d] = dst[d]
  BY DEF Return, ShapeInv
<1>7. ServedOK(c)'
  BY <1>4 DEF ServedOK
<1>8. ASSUME NEW a \in Blocks, a \in B PROVE Held(a)'
  <2>1. request[c].op = "write" /\ IsRouted(request[c]) /\ a \in Span(request[c])
    BY <1>2, <1>8 DEF Touched
  <2>2. routed'[a] = request[c].data
    BY <2>1 DEF Return, Completed
  <2>3. HomeHolds(a) = request[c].data
    BY <1>4, <2>1 DEF CompletedIsServed
  <2>4. HomeHolds(a)' = HomeHolds(a)
    BY <1>4 DEF HomeHolds, SsdAreaHolds
  <2> QED
    BY <2>2, <2>3, <2>4 DEF Held
<1>9. ASSUME NEW a \in Blocks, a \notin B, a \in Span(request[c]) PROVE ~ServedWrite(c)
  BY <1>2, <1>9 DEF Touched, ServedWrite
<1> QED
  BY <1>2, <1>3, <1>5, <1>6, <1>7, <1>8, <1>9, DataTouched

LEMMA DataNext ==
  ASSUME ShapeInv, RequestInv, InflightInv, DisjointInv, NvmInv, BufferInv,
         CompletedIsServed, HeldInv, [Next]_vars
  PROVE  CompletedIsServed' /\ HeldInv'
<1> DEFINE Goal == CompletedIsServed' /\ HeldInv'
<1>1. ASSUME NEW c \in Clients, NEW r \in Requests, Issue(c, r) PROVE Goal
  <2>1. OthersSame(c)
    BY <1>1, ClientOthers
  <2>2. cpc[c] = "idle" /\ cpc'[c] # "wait" /\ UNCHANGED <<nvm, buffer, ssd, routed, large>>
    BY <1>1 DEF Issue, ShapeInv, TypeOK, dataVars
  <2>3. \A d \in Clients : d # c => dst'[d] = dst[d]
    BY <1>1 DEF Issue, ShapeInv
  <2>4. ~ServedWrite(c)
    BY <2>2 DEF ServedWrite
  <2> QED
    BY <2>1, <2>2, <2>3, <2>4, DataSame
<1>2. ASSUME NEW c \in Clients, PostNvm(c) \/ PostSmall(c) \/ PostPart(c) PROVE Goal
  <2>1. OthersSame(c)
    BY <1>2, ClientOthers DEF ClientStep
  <2>2. /\ cpc[c] \in {"nvm", "small", "parts"} /\ inflight' = inflight /\ dst' = dst
        /\ UNCHANGED <<nvm, buffer, ssd, routed, large>>
    BY <1>2 DEF PostNvm, PostSmall, PostPart, dataVars, historyVars
  <2>3. inflight'[c] \in Int /\ inflight'[c] > 0
    <3>1. inflight[c] = request[c].len
      BY <2>2 DEF InflightInv
    <3>2. request[c].len \in Nat \ {0}
      BY <2>2, RequestFacts DEF InRange
    <3> QED
      BY <2>2, <3>1, <3>2
  <2>4. ~ServedWrite(c)
    BY <2>2 DEF ServedWrite
  <2> QED
    BY <2>1, <2>2, <2>3, <2>4, DataSame
<1>3. ASSUME NEW c \in Clients, SsdIo(c) PROVE Goal
  BY <1>3, DataSsd
<1>4. ASSUME NEW c \in Clients, Return(c) PROVE Goal
  BY <1>4, DataReturn
<1>5. ASSUME NEW q \in Queues, ServeNvm(q) PROVE Goal
  BY <1>5, DataNvm
<1>6. ASSUME UNCHANGED <<cpc, request, inflight, dst, nvm, buffer, ssd, routed, large>> PROVE Goal
  <2>1. CompletedIsServed'
    BY <1>6 DEF CompletedIsServed, HomeHolds, SsdAreaHolds
  <2>2. HeldInv'
    BY <1>6 DEF HeldInv, Held, ServedWrite, HomeHolds, SsdAreaHolds
  <2> QED
    BY <2>1, <2>2
<1>7. ASSUME NEW q \in Queues, ServeBuffer(q) \/ Stall(q) PROVE Goal
  <2>1. CASE TaskDropped(q)
    BY <1>6, <2>1 DEF TaskDropped, BufferFrame
  <2>2. ASSUME NEW c \in Clients, SmallServed(q, c) PROVE Goal
    BY <2>2, DataSmall
  <2> QED
    BY <1>7, <2>1, <2>2, ServeBufferEffect
<1>8. ASSUME UNCHANGED vars PROVE Goal
  BY <1>6, <1>8 DEF vars, slotVars, dataVars, historyVars
<1> QED
  BY <1>1, <1>2, <1>3, <1>4, <1>5, <1>7, <1>8 DEF Next, ClientStep

---------------------------------------------------------------------------
(* The parts of a large write *)

LEMMA PartsFrame ==
  ASSUME NEW d, PartsOK(d), SlotSame(d), post_idx'[d] = post_idx[d], posted'[d] = posted[d]
  PROVE  PartsOK(d)'
  BY DEF PartsOK, SlotSame, TaskOffset

\* A slot with no parts.
LEMMA PartsNone ==
  ASSUME NEW c, cpc'[c] \notin {"parts"}, cpc'[c] = "ssd" => request'[c].op # "write",
         post_idx'[c] = 0, posted'[c] = <<>>
  PROVE  PartsOK(c)'
<1>1. 1 .. Len(posted'[c]) = {}
  OBVIOUS
<1> QED
  BY <1>1 DEF PartsOK

LEMMA PartsPosted ==
  ASSUME ShapeInv, RequestInv, NEW c \in Clients, PartsOK(c), PostPart(c)
  PROVE  PartsOK(c)'
<1>1. PICK q \in Queues, t \in TaskSet, i \in Queues : PartPosted(c, q, t, i)
  BY PostPartEffect
<1>2. /\ cpc[c] = "parts" /\ i = post_idx[c] /\ request' = request
      /\ t.offset = (TaskOffset(c) + i) % Word /\ t.len = PartLen(request[c].len, i)
      /\ posted' = [posted EXCEPT ![c] = Append(@, t)]
  BY <1>1 DEF PartPosted
<1>3. PICK s \in Seq(TaskSet) : s = posted[c]
  BY DEF ShapeInv
<1>4. posted'[c] = Append(s, t)
  BY <1>2, <1>3 DEF ShapeInv
<1>5. Len(s) = i /\ i \in Nat /\ Len(Append(s, t)) = i + 1
  BY <1>2, <1>3, Sizes DEF PartsOK, Queues
<1>6. ASSUME NEW j \in 1 .. i + 1
      PROVE  /\ Append(s, t)[j].offset = (TaskOffset(c) + (j - 1)) % Word
             /\ Append(s, t)[j].len = PartLen(request[c].len, j - 1)
  <2>1. CASE j = i + 1
    <3>1. Append(s, t)[j] = t /\ j - 1 = i
      BY <1>5, <2>1
    <3> QED
      BY <1>2, <3>1
  <2>2. CASE j # i + 1
    <3>1. j \in 1 .. Len(s) /\ Append(s, t)[j] = s[j]
      BY <1>5, <2>2
    <3> QED
      BY <1>3, <3>1 DEF PartsOK
  <2> QED
    BY <2>1, <2>2
<1>7. TaskOffset(c)' = TaskOffset(c)
  BY <1>2 DEF TaskOffset
<1>8. /\ \A j \in 1 .. Len(posted'[c]) :
           /\ posted'[c][j].offset = (TaskOffset(c)' + (j - 1)) % Word
           /\ posted'[c][j].len = PartLen(request'[c].len, j - 1)
      /\ Len(posted'[c]) = i + 1
  BY <1>2, <1>4, <1>5, <1>6, <1>7
<1>9. CASE LastPart(c, i)
  <2>1. cpc'[c] = "ssd" /\ post_idx'[c] = 0
    BY <1>1, <1>9 DEF PartPosted, ShapeInv, TypeOK
  <2>2. i + 1 \in 1 .. QueueNum
    BY Sizes DEF Queues
  <2>3. i + 1 = QueueNum \/ PartLen(request'[c].len, i + 1) = 0
    BY <1>2, <1>9 DEF LastPart
  <2> QED
    BY <1>8, <2>1, <2>2, <2>3 DEF PartsOK
<1>10. CASE ~LastPart(c, i)
  <2>1. cpc'[c] = "parts" /\ post_idx'[c] = i + 1
    BY <1>1, <1>2, <1>10 DEF PartPosted, ShapeInv, TypeOK
  <2>2. PartLen(request'[c].len, i + 1) # 0
    BY <1>2, <1>10 DEF LastPart
  <2> QED
    BY <1>8, <2>1, <2>2 DEF PartsOK
<1> QED
  BY <1>9, <1>10

\* There is a first part.
LEMMA FirstPart ==
  ASSUME NEW n \in Nat \ {0}
  PROVE  PartLen(n, 0) # 0
<1>1. n % QueueNum \in 0 .. QueueNum - 1 /\ n \div QueueNum \in Nat
  BY Sizes
<1>2. CASE n % QueueNum > 0
  BY <1>1, <1>2 DEF PartLen
<1>3. CASE n % QueueNum = 0
  <2>1. PICK p \in Nat, e \in 0 .. QueueNum - 1 : n = p * QueueNum + e /\ n % QueueNum = e
    BY Quotient, Sizes
  <2>2. n = p * QueueNum
    BY <1>3, <2>1, Sizes
  <2>3. p # 0
    BY <2>2, Sizes
  <2>4. n \div QueueNum = p
    <3>1. n < (p + 1) * QueueNum /\ p + 1 \in Nat /\ p * QueueNum + 0 = n /\ 0 \in 0 .. QueueNum - 1
      BY <2>2, Sizes
    <3> QED
      BY <3>1, FlatSplit, Sizes
  <2> QED
    BY <1>3, <2>3, <2>4 DEF PartLen
<1> QED
  BY <1>1, <1>2, <1>3

LEMMA PartsNext ==
  ASSUME ShapeInv, RequestInv, PartInv, [Next]_vars
  PROVE  PartInv'
<1> DEFINE Goal == \A d \in Clients : PartsOK(d)'
<1>0. ASSUME NEW c \in Clients, OthersSame(c), PartsOK(c)',
             \A d \in Clients : d # c => post_idx'[d] = post_idx[d] /\ posted'[d] = posted[d]
      PROVE  Goal
  <2> SUFFICES ASSUME NEW d \in Clients, d # c PROVE PartsOK(d)'
    BY <1>0
  <2>1. SlotSame(d) /\ PartsOK(d)
    BY <1>0 DEF OthersSame, PartInv
  <2> QED
    BY <1>0, <2>1, PartsFrame
<1>1. ASSUME NEW c \in Clients, NEW r \in Requests, Issue(c, r) PROVE Goal
  <2>1. OthersSame(c)
    BY <1>1, ClientOthers
  <2>2. /\ post_idx' = post_idx /\ posted'[c] = <<>> /\ post_idx[c] = 0
        /\ \A d \in Clients : d # c => posted'[d] = posted[d]
    BY <1>1 DEF Issue, ShapeInv, PartInv, PartsOK
  <2>3. /\ cpc'[c] = "ssd" => request'[c].op # "write"
        /\ request'[c].len = r.len /\ r.len \in Nat \ {0}
        /\ cpc'[c] \in {"nvm", "ssd", "small", "parts"}
    BY <1>1, RouteAssumption DEF Issue, ShapeInv, TypeOK
  <2>4. PartsOK(c)'
    <3>1. CASE cpc'[c] # "parts"
      BY <2>2, <2>3, <3>1, PartsNone
    <3>2. CASE cpc'[c] = "parts"
      <4>1. Len(posted'[c]) = 0 /\ 1 .. Len(posted'[c]) = {} /\ post_idx'[c] = 0
        BY <2>2
      <4>2. PartLen(request'[c].len, 0) # 0
        BY <2>3, FirstPart
      <4> QED
        BY <3>2, <4>1, <4>2 DEF PartsOK
    <3> QED
      BY <3>1, <3>2
  <2> QED
    BY <1>0, <2>1, <2>2, <2>4
<1>2. ASSUME NEW c \in Clients, PostNvm(c) \/ PostSmall(c) \/ Return(c) \/ SsdIo(c) PROVE Goal
  <2>1. OthersSame(c)
    BY <1>2, ClientOthers DEF ClientStep
  <2>2. /\ cpc[c] # "parts" /\ cpc'[c] \in {"wait", "idle"} /\ post_idx' = post_idx
        /\ \A d \in Clients : d # c => posted'[d] = posted[d]
    BY <1>2 DEF PostNvm, PostSmall, Return, SsdIo, ShapeInv, TypeOK
  <2>3. post_idx'[c] = 0
    BY <2>2 DEF PartInv, PartsOK
  <2>4. posted'[c] = <<>>
    <3>1. CASE SsdIo(c)
      BY <3>1 DEF SsdIo, ShapeInv
    <3>2. CASE PostNvm(c) \/ PostSmall(c) \/ Return(c)
      BY <3>2 DEF PostNvm, PostSmall, Return, PartInv, PartsOK
    <3> QED
      BY <1>2, <3>1, <3>2
  <2>5. PartsOK(c)'
    BY <2>2, <2>3, <2>4, PartsNone
  <2> QED
    BY <1>0, <2>1, <2>2, <2>5
<1>3. ASSUME NEW c \in Clients, PostPart(c) PROVE Goal
  <2>1. OthersSame(c) /\ PartsOK(c)'
    BY <1>3, ClientOthers, PartsPosted DEF ClientStep, PartInv
  <2>2. \A d \in Clients : d # c => post_idx'[d] = post_idx[d] /\ posted'[d] = posted[d]
    BY <1>3 DEF PostPart, ShapeInv, TypeOK
  <2> QED
    BY <1>0, <2>1, <2>2
<1>4. ASSUME UNCHANGED <<cpc, request, post_idx, posted>> PROVE Goal
  BY <1>4 DEF PartInv, PartsOK, TaskOffset
<1>5. ASSUME NEW q \in Queues, ServeNvm(q) \/ ServeBuffer(q) \/ Stall(q) PROVE Goal
  BY <1>4, <1>5 DEF ServeNvm, ServeBuffer, Stall, slotVars
<1>6. ASSUME UNCHANGED vars PROVE Goal
  BY <1>4, <1>6 DEF vars, slotVars
<1>7. Goal
  BY <1>1, <1>2, <1>3, <1>5, <1>6 DEF Next, ClientStep
<1> QED
  BY <1>7 DEF PartInv

---------------------------------------------------------------------------
(* The invariant and what it gives *)

LEMMA RouteInit == Init => RouteInv
<1> SUFFICES ASSUME Init PROVE RouteInv
  OBVIOUS
<1>1. /\ \A c \in Clients : cpc[c] = "idle" /\ request[c] = NoRequest
      /\ \A c \in Clients : post_idx[c] = 0 /\ posted[c] = <<>>
      /\ \A q \in Queues : nvm_queue[q] = <<>> /\ buffer_queue[q] = <<>>
  BY DEF Init
<1>2. Span(NoRequest) = {} /\ 0 \in Data /\ 0 \in Queues /\ 1 .. Len(<<>>) = {}
  BY Sizes DEF Span, NoRequest, Data, Queues
<1>3. ShapeInv
  <2>1. TypeOK
    BY <1>1, <1>2, Sizes DEF Init, TypeOK, None
  <2>2. NoRequest \in [op : Ops \union {"none"}, offset : Nat, len : Nat, data : Data]
    BY <1>2 DEF NoRequest
  <2>3. <<>> \in Seq(TaskSet)
    OBVIOUS
  <2> QED
    BY <1>2, <2>1, <2>2, <2>3 DEF Init, ShapeInv
<1>4. RequestInv /\ InflightInv
  BY <1>1 DEF RequestInv, InflightInv
<1>5. DisjointInv
  BY <1>1, <1>2 DEF DisjointInv
<1>6. NvmInv /\ BufferInv
  BY <1>1, <1>2 DEF NvmInv, BufferInv, Unique
<1>7. CompletedIsServed
  BY <1>1 DEF CompletedIsServed
<1>8. HeldInv
  <2> SUFFICES ASSUME NEW a \in Blocks PROVE HomeHolds(a) = routed[a]
    BY DEF HeldInv, Held
  <2>1. routed[a] = 0
    BY DEF Init
  <2>2. CASE a < Threshold
    BY <2>1, <2>2 DEF HomeHolds, Init
  <2>3. CASE ~(a < Threshold)
    <3>1. PICK k \in SsdBlocks : k = a - Threshold
      BY <2>3, Sizes DEF Blocks, SsdBlocks
    <3>2. k % KeySpace \in 0 .. KeySpace - 1 /\ k % QueueNum \in Queues
      BY SsdKey
    <3>3. buffer[k % QueueNum][k % KeySpace] = None /\ ssd[k] = 0
      BY <3>2 DEF Init
    <3> QED
      BY <2>1, <2>3, <3>1, <3>3 DEF HomeHolds, SsdAreaHolds
  <2> QED
    BY <2>2, <2>3
<1>9. PartInv
  BY <1>1, <1>2 DEF PartInv, PartsOK
<1> QED
  BY <1>3, <1>4, <1>5, <1>6, <1>7, <1>8, <1>9 DEF RouteInv

\* Every state keeps the slots, the queues and the data in agreement.
THEOREM RoutesAgree == Spec => []RouteInv
<1>1. Init => RouteInv
  BY RouteInit
<1>2. RouteInv /\ [Next]_vars => RouteInv'
  BY ShapeNext, ControlNext, TasksNext, DataNext, PartsNext DEF RouteInv
<1> QED
  BY <1>1, <1>2, PTL DEF Spec

\* The slots, the queues and the areas stay well typed: no queue overflows, no
\* request leaves the store, and a wrapped offset is still a size_t.
THEOREM TypeCorrect == Spec => []TypeOK
  BY RoutesAgree, PTL DEF RouteInv, ShapeInv

\* When the wait of mix_wait_for_task_completed ends, the client's own request
\* has been served, whatever parts of earlier large writes the queues hold, if
\* mix_post_task_to_io sent it to the area of its block.
THEOREM WaitMeansServed == Spec => []CompletedIsServed
  BY RoutesAgree, PTL DEF RouteInv

\* A block that no request covers holds the last completed write that
\* mix_post_task_to_io sent to the block's area; so no other request reaches it,
\* and a completed write that is not sent there is lost.
THEOREM AreasHoldWrites == Spec => []AreasKeepWrites
<1>1. RouteInv => AreasKeepWrites
  BY DEF RouteInv, HeldInv, AreasKeepWrites, Held
<1> QED
  BY <1>1, RoutesAgree, PTL
---------------------------------------------------------------------------
(* The parts cover a large write *)

\* Block j of part i is block i + j * QueueNum of the request.
LEMMA PartLenBound ==
  ASSUME NEW n \in Nat, NEW i \in 0 .. QueueNum - 1, NEW j \in Nat
  PROVE  PartLen(n, i) \in Nat /\ (j < PartLen(n, i) <=> i + (j * QueueNum) < n)
<1>1. PICK p \in Nat, e \in 0 .. QueueNum - 1 : n = p * QueueNum + e /\ n % QueueNum = e
  BY Quotient, Sizes
<1>2. n \div QueueNum = p
  <2>1. n < (p + 1) * QueueNum /\ p + 1 \in Nat
    BY <1>1, Sizes
  <2> QED
    BY <1>1, <2>1, FlatSplit, Sizes
<1>3. PartLen(n, i) = p + (IF e > i THEN 1 ELSE 0)
  BY <1>1, <1>2 DEF PartLen
<1>4. p * QueueNum \in Nat /\ j * QueueNum \in Nat
  BY Sizes
<1>5. CASE j < p
  <2>1. (p - 1 - j) * QueueNum >= 0 /\ (p - 1 - j) * QueueNum \in Int
    BY <1>5, Sizes
  <2>2. p * QueueNum = j * QueueNum + QueueNum + (p - 1 - j) * QueueNum
    BY Sizes
  <2>3. i + (j * QueueNum) < n
    BY <1>1, <1>4, <2>1, <2>2, Sizes
  <2> QED
    BY <1>3, <1>5, <2>3
<1>6. CASE j = p
  BY <1>1, <1>3, <1>4, <1>6, Sizes
<1>7. CASE j > p
  <2>1. (j - 1 - p) * QueueNum >= 0 /\ (j - 1 - p) * QueueNum \in Int
    BY <1>7, Sizes
  <2>2. j * QueueNum = p * QueueNum + QueueNum + (j - 1 - p) * QueueNum
    BY Sizes
  <2>3. ~(i + (j * QueueNum) < n)
    BY <1>1, <1>4, <2>1, <2>2, Sizes
  <2> QED
    BY <1>3, <1>7, <2>3
<1> QED
  BY <1>3, <1>5, <1>6, <1>7

\* The parts of a write of n blocks from offset o, when the loop is done.
AllParts(s, o, n) ==
  /\ s \in Seq(TaskSet)
  /\ Len(s) \in 1 .. QueueNum
  /\ Len(s) = QueueNum \/ PartLen(n, Len(s)) = 0
  /\ \A i \in 1 .. Len(s) :
       s[i].offset = (o + (i - 1)) % Word /\ s[i].len = PartLen(n, i - 1)

\* Block m of the request is in part i.
InPart(i, m, n) == m \in 0 .. n - 1 /\ m % QueueNum = i - 1

\* x is, modulo the word, a block of part i of n blocks from o on.
SomeBlock(i, o, n, x) == \E m \in Nat : InPart(i, m, n) /\ x = (o + m) % Word

LEMMA PartBlock ==
  ASSUME NEW o \in 0 .. Word - 1, NEW n \in Nat, NEW s, AllParts(s, o, n),
         NEW i \in 1 .. Len(s), NEW x
  PROVE  x \in PartBlocks(s[i]) <=> SomeBlock(i, o, n, x)
<1>1. /\ i \in Nat /\ i - 1 \in 0 .. QueueNum - 1 /\ s[i].offset = (o + (i - 1)) % Word
      /\ s[i].len = PartLen(n, i - 1)
  BY Sizes DEF AllParts
<1>2. ASSUME NEW j \in Nat
      PROVE  (s[i].offset + (j * QueueNum)) % Word = (o + (i - 1 + (j * QueueNum))) % Word
  <2>1. o + (i - 1) \in Nat /\ j * QueueNum \in Nat
    BY <1>1, Sizes
  <2>2. PICK p \in Nat, e \in 0 .. Word - 1 :
          o + (i - 1) = p * Word + e /\ (o + (i - 1)) % Word = e
    BY <2>1, Quotient, Sizes
  <2>3. e + (j * QueueNum) \in Nat /\ p * Word \in Nat
    BY <2>1, Sizes
  <2>4. o + (i - 1 + (j * QueueNum)) = (e + (j * QueueNum)) + p * Word
    <3>1. PICK k \in Nat, w \in Nat : k = j * QueueNum /\ w = p * Word
      BY <2>1, <2>3
    <3>2. o + (i - 1) = w + e
      BY <2>2, <3>1
    <3>3. o + (i - 1 + k) = (e + k) + w
      BY <1>1, <3>2
    <3> QED
      BY <3>1, <3>3
  <2>5. ((e + (j * QueueNum)) + p * Word) % Word = (e + (j * QueueNum)) % Word
    BY <2>3, ModMultiple, Sizes
  <2> QED
    BY <1>1, <2>2, <2>4, <2>5
<1>3. ASSUME x \in PartBlocks(s[i])
      PROVE  \E m \in Nat : InPart(i, m, n) /\ x = (o + m) % Word
  <2>1. PartLen(n, i - 1) \in Nat
    BY <1>1, PartLenBound
  <2>2. PICK j \in 0 .. s[i].len - 1 : x = (s[i].offset + (j * QueueNum)) % Word
    BY <1>3 DEF PartBlocks
  <2>3. j \in Nat /\ j < PartLen(n, i - 1)
    BY <1>1, <2>1, <2>2
  <2>4. i - 1 + (j * QueueNum) < n
    BY <1>1, <2>3, PartLenBound
  <2>5. j * QueueNum \in Nat /\ j * QueueNum + (i - 1) = i - 1 + (j * QueueNum)
    BY <1>1, <2>3, Sizes
  <2>6. (j * QueueNum + (i - 1)) % QueueNum = i - 1
    <3>1. PICK e \in 0 .. QueueNum - 1 : e = i - 1
      BY <1>1
    <3>2. (j * QueueNum + e) % QueueNum = e
      BY <2>3, QuotientMod, Sizes
    <3> QED
      BY <3>1, <3>2
  <2>7. PICK m \in Nat : m = i - 1 + (j * QueueNum)
    BY <1>1, <2>5
  <2>8. InPart(i, m, n)
    BY <2>4, <2>5, <2>6, <2>7 DEF InPart
  <2>9. x = (o + m) % Word
    BY <1>2, <2>2, <2>3, <2>7
  <2> QED
    BY <2>7, <2>8, <2>9
<1>4. ASSUME NEW m \in Nat, InPart(i, m, n), x = (o + m) % Word
      PROVE  x \in PartBlocks(s[i])
  <2>1. PICK j \in Nat, e \in 0 .. QueueNum - 1 : m = j * QueueNum + e /\ m % QueueNum = e
    BY Quotient, Sizes
  <2>2. e = i - 1 /\ j * QueueNum \in Nat
    BY <1>4, <2>1, Sizes DEF InPart
  <2>3. m = i - 1 + (j * QueueNum) /\ m < n
    BY <1>4, <2>1, <2>2, <1>1 DEF InPart
  <2>4. PartLen(n, i - 1) \in Nat /\ j < PartLen(n, i - 1)
    BY <1>1, <2>3, PartLenBound
  <2>5. j \in 0 .. s[i].len - 1
    BY <1>1, <2>4
  <2>6. x = (s[i].offset + (j * QueueNum)) % Word
    BY <1>2, <1>4, <2>3
  <2> QED
    BY <2>5, <2>6 DEF PartBlocks
<1> QED
  BY <1>3, <1>4 DEF SomeBlock

LEMMA PartsCover ==
  ASSUME NEW o \in 0 .. Word - 1, NEW n \in Nat, n < Word, NEW s, AllParts(s, o, n)
  PROVE  /\ UNION {PartBlocks(s[i]) : i \in DOMAIN s} = {(o + j) % Word : j \in 0 .. n - 1}
         /\ \A i, j \in DOMAIN s : i # j => PartBlocks(s[i]) \intersect PartBlocks(s[j]) = {}
<1>1. DOMAIN s = 1 .. Len(s)
  BY DEF AllParts
<1>2. ASSUME NEW m \in 0 .. n - 1 PROVE \E i \in 1 .. Len(s) : InPart(i, m, n)
  <2>1. m \in Nat /\ m % QueueNum \in 0 .. QueueNum - 1
    BY Sizes
  <2>2. PICK i \in 1 .. QueueNum : i = (m % QueueNum) + 1
    BY <2>1, Sizes
  <2>3. i <= Len(s)
    <3>1. CASE Len(s) = QueueNum
      BY <2>2, <3>1, Sizes
    <3>2. CASE Len(s) # QueueNum
      <4>1. Len(s) \in 0 .. QueueNum - 1 /\ PartLen(n, Len(s)) = 0
        BY <3>2, Sizes DEF AllParts
      <4>2. ~(Len(s) + (0 * QueueNum) < n)
        BY <4>1, PartLenBound
      <4>3. m < Len(s) /\ m \in 0 .. QueueNum - 1
        BY <4>1, <4>2, Sizes
      <4>4. m % QueueNum = m
        BY <4>3, ModWrap, Sizes
      <4> QED
        BY <2>2, <4>1, <4>3, <4>4
    <3> QED
      BY <3>1, <3>2
  <2>4. i \in 1 .. Len(s) /\ InPart(i, m, n)
    BY <2>1, <2>2, <2>3 DEF InPart, AllParts
  <2> QED
    BY <2>4
<1>3. ASSUME NEW x PROVE x \in UNION {PartBlocks(s[i]) : i \in DOMAIN s} <=>
                         x \in {(o + j) % Word : j \in 0 .. n - 1}
  <2>1. ASSUME NEW i \in 1 .. Len(s), x \in PartBlocks(s[i])
        PROVE  \E j \in 0 .. n - 1 : x = (o + j) % Word
    <3>1. SomeBlock(i, o, n, x)
      BY <2>1, PartBlock
    <3> QED
      BY <3>1 DEF SomeBlock, InPart
  <2>2. ASSUME NEW m \in 0 .. n - 1, x = (o + m) % Word
        PROVE  \E i \in 1 .. Len(s) : x \in PartBlocks(s[i])
    <3>1. PICK i \in 1 .. Len(s) : InPart(i, m, n)
      BY <1>2
    <3>2. m \in Nat
      OBVIOUS
    <3>3. x \in PartBlocks(s[i])
      BY <2>2, <3>1, <3>2, PartBlock DEF SomeBlock
    <3> QED
      BY <3>3
  <2> QED
    BY <1>1, <2>1, <2>2
<1>4. ASSUME NEW i \in 1 .. Len(s), NEW j \in 1 .. Len(s), NEW x,
             x \in PartBlocks(s[i]), x \in PartBlocks(s[j])
      PROVE  i = j
  <2>1. PICK l \in Nat : InPart(i, l, n) /\ x = (o + l) % Word
    <3>1. SomeBlock(i, o, n, x)
      BY <1>4, PartBlock
    <3> QED
      BY <3>1 DEF SomeBlock
  <2>2. PICK m \in Nat : InPart(j, m, n) /\ x = (o + m) % Word
    <3>1. SomeBlock(j, o, n, x)
      BY <1>4, PartBlock
    <3> QED
      BY <3>1 DEF SomeBlock
  <2>3. l < n /\ m < n /\ o + l \in Nat /\ o + m \in Nat /\ (o + l) % Word = (o + m) % Word
    BY <2>1, <2>2 DEF InPart
  <2>6. ASSUME l = m PROVE i = j
    BY <2>1, <2>2, <2>6 DEF InPart
  <2>4. CASE l <= m
    <3>1. o + l <= o + m /\ o + m < o + l + Word
      BY <2>3, <2>4, Sizes
    <3>2. o + l = o + m
      BY <2>3, <3>1, ResidueGap, Sizes
    <3>3. l = m
      BY <3>2
    <3> QED
      BY <2>6, <3>3
  <2>5. CASE m <= l
    <3>1. o + m <= o + l /\ o + l < o + m + Word
      BY <2>3, <2>5, Sizes
    <3>2. o + m = o + l
      BY <2>3, <3>1, ResidueGap, Sizes
    <3>3. l = m
      BY <3>2
    <3> QED
      BY <2>6, <3>3
  <2> QED
    BY <2>4, <2>5
<1>5. UNION {PartBlocks(s[i]) : i \in DOMAIN s} = {(o + j) % Word : j \in 0 .. n - 1}
  <2> HIDE DEF PartBlocks
  <2> QED
    BY <1>3, Zenon
<1> QED
  BY <1>1, <1>4, <1>5

\* The loop of mix_post_task_to_buffer hands every block of a large write to
\* exactly one queue, for every length and every offset, wrapped ones included.
THEOREM PartsAreExact == Spec => []PartsPartition
<1>1. RouteInv => PartsPartition
  <2> SUFFICES ASSUME RouteInv, NEW c \in Clients, cpc[c] = "ssd", request[c].op = "write"
               PROVE  /\ UNION {PartBlocks(posted[c][i]) : i \in DOMAIN posted[c]} =
                           {(TaskOffset(c) + j) % Word : j \in 0 .. request[c].len - 1}
                      /\ \A i, j \in DOMAIN posted[c] :
                           i # j => PartBlocks(posted[c][i]) \intersect PartBlocks(posted[c][j]) = {}
    BY DEF PartsPartition
  <2>1. InRange(request[c])
    BY RequestFacts DEF RouteInv
  <2>2. /\ request[c].offset \in Nat /\ request[c].offset < Threshold + SsdNum
        /\ request[c].len \in Nat /\ request[c].len < Word
    BY <2>1, RangeBound, Sizes DEF InRange
  <2>3. TaskOffset(c) \in 0 .. Word - 1
    BY <2>2, RebasedCases DEF TaskOffset, RouteInv, RequestInv
  <2>4. AllParts(posted[c], TaskOffset(c), request[c].len)
    BY DEF RouteInv, PartInv, PartsOK, AllParts, ShapeInv
  <2> QED
    BY <2>2, <2>3, <2>4, PartsCover
<1> QED
  BY <1>1, RoutesAgree, PTL
===========================================================================
