------------------------------ MODULE MixRoute ------------------------------
(***************************************************************************)
(* The way of a request from mixdk_write and mixdk_read (mixdk.c) through  *)
(* mix_post_task_to_io (scheduler.c) to the NVM area, the write buffer or  *)
(* the SSD, and back to the client through its inflight count.             *)
(*                                                                         *)
(* Blocks below Threshold belong to NVM, block Threshold + k is block k of *)
(* the SSD.  A slot of tasks[] and inflight_buffer[] is a client.  The     *)
(* queues are FIFOs (see MixQueue); the buffer is a map from a worker and  *)
(* a key to a datum, without its migration (see MixStore).  A datum is the *)
(* number of the write that produced it, 0 that of a block never written.  *)
(* Requests in flight at the same time do not overlap.                     *)
(***************************************************************************)
EXTENDS Integers, Sequences, FiniteSets

CONSTANTS
  Clients,    \* the slots, one client thread each
  Threshold,  \* threshold of scheduler.c, 1928765 in the code
  SsdNum,     \* blocks of the SSD
  Word,       \* 2^64: offsets are size_t
  KeySpace,   \* 2^32: a key of the buffer is a uint32_t
  QueueNum,   \* NVM_QUEUE_NUM and BUFFER_QUEUE_NUM, 4 in the code
  QueueSize,  \* tasks a queue holds, 4096 in the code
  Requests,   \* the requests the clients make: [op, offset, len]
  HeapFlags,  \* the flags segments[i].migration may have when malloc returns them
  MaxWrites   \* bound on the writes issued

Ops == {"read", "write"}
Queues == 0 .. QueueNum - 1
Blocks == 0 .. Threshold + SsdNum - 1
SsdBlocks == 0 .. SsdNum - 1
Data == 0 .. MaxWrites

\* The blocks of a request.
Span(r) == r.offset .. r.offset + r.len - 1

\* stripe_size is 4 as well.  mixdk_init admits no more clients than fit a
\* queue, and an SSD holds fewer than 2^32 blocks.
ASSUME RouteAssumption ==
  /\ Threshold \in Nat \ {0}
  /\ SsdNum \in Nat \ {0}
  /\ QueueNum \in Nat \ {0}
  /\ KeySpace \in Nat /\ SsdNum < KeySpace
  /\ Word \in Nat /\ Word % KeySpace = 0 /\ KeySpace % QueueNum = 0
  /\ Threshold + SsdNum < Word
  /\ QueueSize \in Nat /\ IsFiniteSet(Clients) /\ Cardinality(Clients) <= QueueSize
  /\ MaxWrites \in Nat
  /\ HeapFlags \subseteq [Queues -> BOOLEAN]
  /\ Requests \subseteq [op : Ops, offset : Nat, len : Nat \ {0}]
  /\ \A r \in Requests : Span(r) \subseteq Blocks

None == -1
NoRequest == [op |-> "none", offset |-> 0, len |-> 0, data |-> 0]

VARIABLES
  cpc,          \* where client c is
  request,      \* what it asked for
  inflight,     \* its inflight_buffer
  dst,          \* what its read has copied: a function on the blocks read
  post_idx,     \* i of the loop in mix_post_task_to_buffer
  posted,       \* the parts of its large write posted so far (history)
  nvm_queue, buffer_queue,
  nvm,          \* the data of the NVM area
  buffer,       \* the buffered datum of each worker and key, or None
  ssd,          \* the data of the SSD
  migrating,    \* segments[i].migration, which nothing sets
  issued,       \* writes issued so far
  stuck,        \* the workers that will never leave redirect_write
  routed,       \* the last completed write of each block that was sent to
                \*   the block's own area (history)
  large         \* SSD blocks some large write has covered (history)

slotVars == <<cpc, request, inflight, dst, post_idx, posted>>
queueVars == <<nvm_queue, buffer_queue>>
dataVars == <<nvm, buffer, ssd>>
historyVars == <<issued, routed, large>>
vars == <<slotVars, queueVars, dataVars, migrating, stuck, historyVars>>

TypeOK ==
  /\ cpc \in [Clients -> {"idle", "nvm", "small", "parts", "ssd", "wait"}]
  /\ \A c \in Clients : Span(request[c]) \subseteq Blocks
  /\ inflight \in [Clients -> Int]
  /\ post_idx \in [Clients -> Queues]
  /\ \A q \in Queues : Len(nvm_queue[q]) <= QueueSize
  /\ \A q \in Queues :
       /\ Len(buffer_queue[q]) <= QueueSize
       /\ \A i \in DOMAIN buffer_queue[q] : buffer_queue[q][i].offset \in 0 .. Word - 1
  /\ nvm \in [Blocks -> Data]
  /\ buffer \in [Queues -> [0 .. KeySpace - 1 -> Data \union {None}]]
  /\ ssd \in [SsdBlocks -> Data]
  /\ stuck \subseteq Queues
  /\ routed \in [Blocks -> Data]
  /\ large \subseteq SsdBlocks

\* mix_free_segment_init leaves segments[i].migration as malloc found it.
Init ==
  /\ cpc = [c \in Clients |-> "idle"]
  /\ request = [c \in Clients |-> NoRequest]
  /\ inflight = [c \in Clients |-> 0]
  /\ dst = [c \in Clients |-> <<>>]
  /\ post_idx = [c \in Clients |-> 0]
  /\ posted = [c \in Clients |-> <<>>]
  /\ nvm_queue = [q \in Queues |-> <<>>]
  /\ buffer_queue = [q \in Queues |-> <<>>]
  /\ nvm = [a \in Blocks |-> 0]
  /\ buffer = [q \in Queues |-> [k \in 0 .. KeySpace - 1 |-> None]]
  /\ ssd = [k \in SsdBlocks |-> 0]
  /\ migrating \in HeapFlags
  /\ issued = 0
  /\ stuck = {}
  /\ routed = [a \in Blocks |-> 0]
  /\ large = {}

---------------------------------------------------------------------------
(* mixdk.c and scheduler.c *)

\* Mutant: the request is routed by its first block.
NvmByStart(r) == r.offset < Threshold

\* mix_post_task_to_io sends a request to NVM when its end is below threshold:
\* the block before the threshold can be in no such request.
IsNvmTask(r) == r.offset + r.len < Threshold

\* Mutant: a signed offset.
RebasedSigned(o) == o - Threshold

\* task->offset -= threshold, which wraps for a request that starts below it.
Rebased(o) == (o - Threshold) % Word

\* task->offset of client c's slot once the request is routed.
TaskOffset(c) ==
  IF IsNvmTask(request[c]) THEN request[c].offset ELSE Rebased(request[c].offset)

\* init_io_task, the routing, and mix_post_task_to_data, where threshold is 1.
\* MIX_CLEAR, which a large write sets here, goes into the tasks posted.
Issue(c, q) ==
  LET r == [op |-> q.op, offset |-> q.offset, len |-> q.len,
            data |-> IF q.op = "write" THEN issued + 1 ELSE 0]
  IN /\ cpc[c] = "idle"
     /\ \A d \in Clients : Span(request[d]) \intersect Span(q) = {}
     /\ q.op = "write" => issued < MaxWrites
     /\ request' = [request EXCEPT ![c] = r]
     /\ inflight' = [inflight EXCEPT ![c] = r.len]
     /\ cpc' = [cpc EXCEPT ![c] = IF IsNvmTask(r) THEN "nvm"
                                  ELSE IF r.op = "read" THEN "ssd"
                                  ELSE IF r.len <= 1 THEN "small"
                                  ELSE "parts"]
     /\ dst' = [dst EXCEPT ![c] = <<>>]
     /\ posted' = [posted EXCEPT ![c] = <<>>]
     /\ issued' = issued + (IF r.op = "write" THEN 1 ELSE 0)
     /\ UNCHANGED <<post_idx, queueVars, dataVars, migrating, stuck, routed, large>>

---------------------------------------------------------------------------
(* The posting functions of nvm_worker.cpp *)

\* The copy of the slot that goes into a queue.
Task(c, opcode, o, n) ==
  [opcode |-> opcode, offset |-> o, len |-> n, data |-> request[c].data,
   client |-> c]

\* mix_post_task_to_metadata: the result of mix_enqueue is not looked at.
PostNvm(c) ==
  LET q == TaskOffset(c) % QueueNum
      task == Task(c, {request[c].op}, TaskOffset(c), request[c].len)
  IN /\ cpc[c] = "nvm"
     /\ nvm_queue' = IF Len(nvm_queue[q]) = QueueSize THEN nvm_queue
                     ELSE [nvm_queue EXCEPT ![q] = Append(@, task)]
     /\ cpc' = [cpc EXCEPT ![c] = "wait"]
     /\ UNCHANGED <<request, inflight, dst, post_idx, posted,
                    buffer_queue, dataVars, migrating, stuck, historyVars>>

\* mix_post_small_task_to_buffer, which spins until there is room.
PostSmall(c) ==
  LET q == TaskOffset(c) % QueueNum
  IN /\ cpc[c] = "small"
     /\ Len(buffer_queue[q]) < QueueSize
     /\ buffer_queue' = [buffer_queue EXCEPT ![q] =
          Append(@, Task(c, {"write"}, TaskOffset(c), request[c].len))]
     /\ cpc' = [cpc EXCEPT ![c] = "wait"]
     /\ UNCHANGED <<request, inflight, dst, post_idx, posted, nvm_queue,
                    dataVars, migrating, stuck, historyVars>>

\* Mutant: one part too many gets the extra block.
PartLenOneMore(n, i) == (n \div QueueNum) + (IF n % QueueNum >= i THEN 1 ELSE 0)

\* The length of part i of n blocks.
PartLen(n, i) == (n \div QueueNum) + (IF n % QueueNum > i THEN 1 ELSE 0)

\* mix_post_task_to_buffer, one part: queue (offset / stripe_size + i) & 3 gets
\* every QueueNum-th block from offset + i on.  Nobody waits for the parts.  (The
\* code keeps these offsets in an int: exact for an SSD of fewer than 2^31 blocks,
\* and a wrapped offset becomes the negative int that widens to it again.)
PostPart(c) ==
  LET i == post_idx[c]
      n == request[c].len
      q == ((TaskOffset(c) \div QueueNum) + i) % QueueNum
      part == Task(c, {"write", "clear"}, (TaskOffset(c) + i) % Word, PartLen(n, i))
      last == i + 1 = QueueNum \/ PartLen(n, i + 1) = 0
  IN /\ cpc[c] = "parts"
     /\ Len(buffer_queue[q]) < QueueSize
     /\ buffer_queue' = [buffer_queue EXCEPT ![q] = Append(@, part)]
     /\ posted' = [posted EXCEPT ![c] = Append(@, part)]
     /\ post_idx' = [post_idx EXCEPT ![c] = IF last THEN 0 ELSE i + 1]
     /\ cpc' = [cpc EXCEPT ![c] = IF last THEN "ssd" ELSE @]
     /\ UNCHANGED <<request, inflight, dst, nvm_queue, dataVars,
                    migrating, stuck, historyVars>>

---------------------------------------------------------------------------
(* ssd_worker.c *)

mix_buffer_migrating == \A q \in Queues : migrating[q]

\* The blocks pread and pwrite reach: none from an offset outside the device.
Reached(c) ==
  IF TaskOffset(c) \in SsdBlocks
  THEN (TaskOffset(c) .. TaskOffset(c) + request[c].len - 1) \intersect SsdBlocks
  ELSE {}

\* What the completion of client c's write makes of routed.
Completed(c) ==
  [a \in Blocks |-> IF a \in Span(request[c]) THEN request[c].data ELSE routed[a]]

\* Whether mix_post_task_to_io sends a request to the area of its first block.
\* It does not when the request starts below the threshold and goes to the SSD:
\* the offset wraps and names no block.  The one-block request at Threshold - 1
\* is one of these, although it lies wholly below the threshold.
IsRouted(r) == IsNvmTask(r) \/ r.offset >= Threshold

\* mix_post_task_to_ssd in the client's own thread; then the call returns, with
\* the inflight count as it is.
SsdIo(c) ==
  LET r == request[c]
      write == r.op = "write"
  IN /\ cpc[c] = "ssd"
     /\ ~mix_buffer_migrating
     /\ ssd' = [k \in SsdBlocks |->
                  IF write /\ k \in Reached(c) THEN r.data ELSE ssd[k]]
     /\ large' = IF write THEN large \union Reached(c) ELSE large
     /\ routed' = IF write /\ IsRouted(r) THEN Completed(c) ELSE routed
     /\ request' = [request EXCEPT ![c] = NoRequest]
     /\ posted' = [posted EXCEPT ![c] = <<>>]
     /\ cpc' = [cpc EXCEPT ![c] = "idle"]
     /\ UNCHANGED <<inflight, dst, post_idx, queueVars, nvm, buffer,
                    migrating, stuck, issued>>

\* mix_wait_for_task_completed ends and the call returns.
Return(c) ==
  LET r == request[c]
  IN /\ cpc[c] = "wait"
     /\ inflight[c] <= 0
     /\ routed' = IF r.op = "write" /\ IsRouted(r) THEN Completed(c) ELSE routed
     /\ request' = [request EXCEPT ![c] = NoRequest]
     /\ dst' = [dst EXCEPT ![c] = <<>>]
     /\ cpc' = [cpc EXCEPT ![c] = "idle"]
     /\ UNCHANGED <<inflight, post_idx, posted, queueVars, dataVars,
                    migrating, stuck, issued, large>>

---------------------------------------------------------------------------
(* nvm_worker *)

mix_nvm_read(t) == [a \in Span(t) |-> nvm[a]]

mix_nvm_write(t) == [a \in Blocks |-> IF a \in Span(t) THEN t.data ELSE nvm[a]]

\* Mutant: a served task counts one block.
CountOneBlock(q) ==
  LET t == Head(nvm_queue[q])
      c == t.client
  IN /\ q \notin stuck
     /\ nvm_queue[q] # <<>>
     /\ nvm_queue' = [nvm_queue EXCEPT ![q] = Tail(@)]
     /\ IF t.opcode = {"write"}
        THEN /\ nvm' = mix_nvm_write(t)
             /\ UNCHANGED dst
        ELSE /\ dst' = [dst EXCEPT ![c] = mix_nvm_read(t)]
             /\ UNCHANGED nvm
     /\ inflight' = [inflight EXCEPT ![c] = @ - 1]
     /\ UNCHANGED <<cpc, request, post_idx, posted, buffer_queue, buffer,
                    ssd, migrating, stuck, historyVars>>

\* NVM_TASK: mix_nvm_read or mix_nvm_write of all its blocks by the worker of
\* the first one, then the count.
ServeNvm(q) ==
  LET t == Head(nvm_queue[q])
      c == t.client
  IN /\ q \notin stuck
     /\ nvm_queue[q] # <<>>
     /\ nvm_queue' = [nvm_queue EXCEPT ![q] = Tail(@)]
     /\ IF t.opcode = {"write"}
        THEN /\ nvm' = mix_nvm_write(t)
             /\ UNCHANGED dst
        ELSE /\ dst' = [dst EXCEPT ![c] = mix_nvm_read(t)]
             /\ UNCHANGED nvm
     /\ inflight' = [inflight EXCEPT ![c] = @ - t.len]
     /\ UNCHANGED <<cpc, request, post_idx, posted, buffer_queue, buffer,
                    ssd, migrating, stuck, historyVars>>

\* Mutant: the count is lowered for every task, whether it had a case or not.
CountEveryTask(q) ==
  LET t == Head(buffer_queue[q])
  IN /\ q \notin stuck
     /\ buffer_queue[q] # <<>>
     /\ buffer_queue' = [buffer_queue EXCEPT ![q] = Tail(@)]
     /\ buffer' = IF t.opcode = {"write"}
                  THEN [buffer EXCEPT ![q][t.offset % KeySpace] = t.data]
                  ELSE buffer
     /\ inflight' = [inflight EXCEPT ![t.client] = @ - t.len]
     /\ UNCHANGED <<cpc, request, dst, post_idx, posted, nvm_queue, nvm,
                    ssd, migrating, stuck, historyVars>>

\* SSD_TASK: redirect_write keys the buffer with a uint32_t.  MIX_WRITE |
\* MIX_CLEAR has no case: the part is dropped and the count left alone.
ServeBuffer(q) ==
  LET t == Head(buffer_queue[q])
  IN /\ q \notin stuck
     /\ buffer_queue[q] # <<>>
     /\ buffer_queue' = [buffer_queue EXCEPT ![q] = Tail(@)]
     /\ IF t.opcode = {"write"}
        THEN /\ buffer' = [buffer EXCEPT ![q][t.offset % KeySpace] = t.data]
             /\ inflight' = [inflight EXCEPT ![t.client] = @ - t.len]
        ELSE UNCHANGED <<buffer, inflight>>
     /\ UNCHANGED <<cpc, request, dst, post_idx, posted, nvm_queue, nvm,
                    ssd, migrating, stuck, historyVars>>

\* redirect_write of a block that is not buffered, when mix_migrate_segment never
\* ends (migration_hang shows that it may): the worker serves neither of its
\* queues again.  A write of a buffered block needs no free one.
Stall(q) ==
  LET t == Head(buffer_queue[q])
  IN /\ q \notin stuck
     /\ buffer_queue[q] # <<>>
     /\ t.opcode = {"write"} /\ buffer[q][t.offset % KeySpace] = None
     /\ buffer_queue' = [buffer_queue EXCEPT ![q] = Tail(@)]
     /\ stuck' = stuck \union {q}
     /\ UNCHANGED <<slotVars, nvm_queue, dataVars, migrating, historyVars>>

---------------------------------------------------------------------------
ClientStep(c) ==
  PostNvm(c) \/ PostSmall(c) \/ PostPart(c) \/ SsdIo(c) \/ Return(c)

Next ==
  \/ \E c \in Clients : (\E r \in Requests : Issue(c, r)) \/ ClientStep(c)
  \/ \E q \in Queues : ServeNvm(q) \/ ServeBuffer(q) \/ Stall(q)

Spec == Init /\ [][Next]_vars

\* A client inside a call runs.  A worker looks at its two queues in turn (see
\* WaitingIsServed in MixQueue), until it is stuck: then nothing is assumed of it.
Fairness ==
  /\ \A c \in Clients : WF_vars(ClientStep(c))
  /\ \A q \in Queues : WF_vars(ServeNvm(q)) /\ WF_vars(ServeBuffer(q))

FairSpec == Spec /\ Fairness

---------------------------------------------------------------------------
(* Properties *)

\* Where block a of the SSD area is looked up: the buffered copy of the worker
\* its key belongs to, else the SSD.
SsdAreaHolds(k) ==
  LET copy == buffer[k % QueueNum][k % KeySpace]
  IN IF copy = None THEN ssd[k] ELSE copy

HomeHolds(a) == IF a < Threshold THEN nvm[a] ELSE SsdAreaHolds(a - Threshold)

\* A client whose wait is over has been served: its own write is at the home of
\* every block, or its own read has copied what was last sent there.  The
\* slot's inflight count is shared with the parts of the slot's earlier large
\* writes, which are still in the queues when the slot is used again.  Exempt is
\* the request that mix_post_task_to_io does not send to the area of its block:
\* the one-block write at Threshold - 1 waits, returns and is not at its home.
CompletedIsServed ==
  \A c \in Clients : cpc[c] = "wait" /\ inflight[c] <= 0 /\ IsRouted(request[c]) =>
    \A a \in Span(request[c]) :
      IF request[c].op = "write" THEN HomeHolds(a) = request[c].data
      ELSE a \in DOMAIN dst[c] /\ dst[c][a] = routed[a]

\* Both areas keep what is sent to them, and nothing else gets there: a block on
\* which no request is in flight holds the last completed write that
\* mix_post_task_to_io sent to the block's area.  So a completed write that starts
\* below the threshold and ends at or beyond it (every write of the block before
\* the threshold is one) disturbs no block of either area, wherever its wrapped
\* offset leads; but it is lost, although its client is told that it succeeded.
\* (A block that has a buffered copy and was also covered by a large write is
\* the subject of LargeWriteWins in MixStore.)
AreasKeepWrites ==
  \A a \in Blocks :
    (\A c \in Clients : a \notin Span(request[c])) =>
      \/ HomeHolds(a) = routed[a]
      \/ /\ a - Threshold \in large
         /\ buffer[(a - Threshold) % QueueNum][a - Threshold] # None

\* The blocks of part p.
PartBlocks(p) == {(p.offset + (j * QueueNum)) % Word : j \in 0 .. p.len - 1}

\* When the loop over the queues is done, the parts of a large write cover each
\* of its blocks once, also where the offset has wrapped.
PartsPartition ==
  \A c \in Clients : cpc[c] = "ssd" /\ request[c].op = "write" =>
    /\ UNION {PartBlocks(posted[c][i]) : i \in DOMAIN posted[c]} =
         {(TaskOffset(c) + j) % Word : j \in 0 .. request[c].len - 1}
    /\ \A i, j \in DOMAIN posted[c] :
         i # j => PartBlocks(posted[c][i]) \intersect PartBlocks(posted[c][j]) = {}

\* A worker that never leaves redirect_write holds up its own clients only: a
\* client whose task is posted gets its answer, whatever the other workers do,
\* unless the worker of its own queue is stuck.  (A client that is still posting
\* may spin at a full queue of a stuck worker, or be overtaken at the queue's
\* spinlock, and one that needs the SSD spins when all flags are up.)
PostedIsAnswered ==
  \A c \in Clients :
    cpc[c] = "wait" ~> (cpc[c] = "idle" \/ TaskOffset(c) % QueueNum \in stuck)
===========================================================================
