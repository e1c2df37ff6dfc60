----------------------------- MODULE MixStore -----------------------------
(***************************************************************************)
(* The data path of the block store above the scheduler's threshold: the   *)
(* clients of mixdk.c, the buffer queues, the blocks of the NVM buffer with *)
(* their self-descriptions, and the SSD.  Every worker and thread step is  *)
(* the step of MixMigration with the data it moves.                        *)
(*                                                                         *)
(* A datum is the number of the write that produced it; 0 is the datum of  *)
(* a block never written.  Clients do not issue overlapping requests at    *)
(* the same time, so the last completed write of a block is well defined.  *)
(***************************************************************************)
EXTENDS MixMigration

CONSTANTS
  Clients,      \* the threads that call mixdk_write and mixdk_read
  LargeStarts,  \* first blocks of the writes of more than threshold blocks
  LargeLen,     \* their length
  ReadKeys,     \* the blocks that are read
  MaxWrites     \* bound on the writes issued

ASSUME StoreAssumption ==
  /\ LargeLen \in Nat \ {0, 1}
  /\ MaxWrites \in Nat
  /\ ReadKeys \subseteq Keys
  /\ LargeStarts \subseteq Keys
  /\ \A k \in LargeStarts : k .. k + LargeLen - 1 \subseteq Keys

VARIABLES
  buffer,       \* the data of each buffer block
  buffer_meta,  \* its persistent buffer_meta_t: status and offset
  ssd,          \* the data of each SSD block
  migrate_buf,  \* the copy buffer of each migration thread
  queue,        \* buffer_queue[s], a FIFO (see MixQueue)
  buffer_task,  \* the task worker s dequeued last
  cpc,          \* where client c is
  request,      \* its request
  post_idx,     \* i of the loop in mix_post_task_to_buffer
  issued,       \* writes issued so far
  latest,       \* the last completed write of each block (history)
  large         \* blocks some large write has covered (history)

dataVars == <<buffer, buffer_meta, ssd, migrate_buf>>
clientVars == <<cpc, request, post_idx, issued, large>>
storeVars == <<vars, dataVars, queue, buffer_task, clientVars, latest>>

Data == 0 .. MaxWrites
BufferBlocks == 0 .. SegNum * PerBlock - 1
NoRequest == [op |-> "none", offset |-> None, len |-> 0, data |-> 0]

\* The blocks of a request.
Span(r) == IF r.op = "none" THEN {} ELSE r.offset .. r.offset + r.len - 1

\* A task in a buffer queue: the MIX_WRITE and MIX_CLEAR bits of its opcode.
NoTask == [offset |-> None, opcode |-> {}, data |-> 0, client |-> None]

StoreTypeOK ==
  /\ TypeOK
  /\ buffer \in [BufferBlocks -> Data]
  /\ buffer_meta \in [BufferBlocks -> [status : {0, 1}, offset : Keys \union {None}]]
  /\ ssd \in [Keys -> Data]
  /\ migrate_buf \in [Threads -> Data]
  /\ \A s \in Segments : \A i \in DOMAIN queue[s] :
       queue[s][i].offset \in Keys /\ queue[s][i].data \in Data
  /\ cpc \in [Clients -> {"idle", "post", "wait", "ssd", "read", "done"}]
  /\ \A c \in Clients : Span(request[c]) \subseteq Keys
  /\ post_idx \in [Clients -> 0 .. SegNum]
  /\ latest \in [Keys -> Data]

StoreInit ==
  /\ Init
  /\ buffer = [b \in BufferBlocks |-> 0]
  /\ buffer_meta = [b \in BufferBlocks |-> [status |-> 0, offset |-> None]]
  /\ ssd = [k \in Keys |-> 0]
  /\ migrate_buf = [t \in Threads |-> 0]
  /\ queue = [s \in Segments |-> <<>>]
  /\ buffer_task = [s \in Segments |-> NoTask]
  /\ cpc = [c \in Clients |-> "idle"]
  /\ request = [c \in Clients |-> NoRequest]
  /\ post_idx = [c \in Clients |-> 0]
  /\ issued = 0
  /\ latest = [k \in Keys |-> 0]
  /\ large = {}

---------------------------------------------------------------------------
(* Clients: mixdk_write, mixdk_read and mix_post_task_to_data *)

\* Client c has no request in flight, and none overlaps the blocks of r.
MayIssue(c, r) ==
  /\ cpc[c] = "idle"
  /\ \A d \in Clients : Span(request[d]) \intersect Span(r) = {}

\* A write of one block: mix_post_small_task_to_buffer picks queue offset & 3.
SmallWrite(c, k) ==
  LET r == [op |-> "write", offset |-> k, len |-> 1, data |-> issued + 1]
  IN /\ issued < MaxWrites
     /\ MayIssue(c, r)
     /\ request' = [request EXCEPT ![c] = r]
     /\ queue' = [queue EXCEPT ![k % SegNum] = Append(@,
          [offset |-> k, opcode |-> {"write"}, data |-> r.data, client |-> c])]
     /\ cpc' = [cpc EXCEPT ![c] = "wait"]
     /\ issued' = issued + 1
     /\ UNCHANGED <<vars, dataVars, buffer_task, post_idx, latest, large>>

\* A longer write sets MIX_CLEAR next to MIX_WRITE and is posted in parts.
LargeWrite(c, k) ==
  LET r == [op |-> "write", offset |-> k, len |-> LargeLen, data |-> issued + 1]
  IN /\ issued < MaxWrites
     /\ MayIssue(c, r)
     /\ request' = [request EXCEPT ![c] = r]
     /\ cpc' = [cpc EXCEPT ![c] = "post"]
     /\ post_idx' = [post_idx EXCEPT ![c] = 0]
     /\ issued' = issued + 1
     /\ large' = large \union Span(r)
     /\ UNCHANGED <<vars, dataVars, queue, buffer_task, latest>>

\* The length of part i of n blocks dealt to SegNum queues.
PartLen(n, i) == (n \div SegNum) + (IF n % SegNum > i THEN 1 ELSE 0)

\* Mutant: the loop over the queues has no bound of its own.
PostUnbounded(c) ==
  LET r == request[c]
      i == post_idx[c]
      q == ((r.offset \div SegNum) + i) % SegNum
      last == PartLen(r.len, i + 1) = 0
  IN /\ cpc[c] = "post"
     /\ queue' = [queue EXCEPT ![q] = Append(@,
          [offset |-> r.offset + i, opcode |-> {"write", "clear"},
           data |-> 0, client |-> c])]
     /\ post_idx' = [post_idx EXCEPT ![c] = IF last THEN 0 ELSE i + 1]
     /\ cpc' = [cpc EXCEPT ![c] = IF last THEN "ssd" ELSE @]
     /\ UNCHANGED <<vars, dataVars, buffer_task, request, issued, latest, large>>

\* mix_post_task_to_buffer, one part: queue (offset / stripe_size + i) & 3.
LargePost(c) ==
  LET r == request[c]
      i == post_idx[c]
      q == ((r.offset \div SegNum) + i) % SegNum
      last == i + 1 = SegNum \/ PartLen(r.len, i + 1) = 0
  IN /\ cpc[c] = "post"
     /\ queue' = [queue EXCEPT ![q] = Append(@,
          [offset |-> r.offset + i, opcode |-> {"write", "clear"},
           data |-> 0, client |-> c])]
     /\ post_idx' = [post_idx EXCEPT ![c] = IF last THEN 0 ELSE i + 1]
     /\ cpc' = [cpc EXCEPT ![c] = IF last THEN "ssd" ELSE @]
     /\ UNCHANGED <<vars, dataVars, buffer_task, request, issued, latest, large>>

\* mix_post_task_to_ssd for the whole write, which waits for no queue.
LargeSsd(c) ==
  LET r == request[c]
  IN /\ cpc[c] = "ssd"
     /\ ssd' = [k \in Keys |-> IF k \in Span(r) THEN r.data ELSE ssd[k]]
     /\ latest' = [k \in Keys |-> IF k \in Span(r) THEN r.data ELSE latest[k]]
     /\ request' = [request EXCEPT ![c] = NoRequest]
     /\ cpc' = [cpc EXCEPT ![c] = "idle"]
     /\ UNCHANGED <<vars, buffer, buffer_meta, migrate_buf, queue, buffer_task,
                    post_idx, issued, large>>

\* A read goes to the SSD only: posting it to the buffer is commented out.
ReadCall(c, k) ==
  LET r == [op |-> "read", offset |-> k, len |-> 1, data |-> 0]
  IN /\ MayIssue(c, r)
     /\ request' = [request EXCEPT ![c] = r]
     /\ cpc' = [cpc EXCEPT ![c] = "read"]
     /\ UNCHANGED <<vars, dataVars, queue, buffer_task, post_idx, issued,
                    latest, large>>

ReadSsd(c) ==
  /\ cpc[c] = "read"
  /\ request' = [request EXCEPT ![c].data = ssd[request[c].offset]]
  /\ cpc' = [cpc EXCEPT ![c] = "done"]
  /\ UNCHANGED <<vars, dataVars, queue, buffer_task, post_idx, issued, latest,
                 large>>

ReadReturn(c) ==
  /\ cpc[c] = "done"
  /\ request' = [request EXCEPT ![c] = NoRequest]
  /\ cpc' = [cpc EXCEPT ![c] = "idle"]
  /\ UNCHANGED <<vars, dataVars, queue, buffer_task, post_idx, issued, latest,
                 large>>

---------------------------------------------------------------------------
(* Workers *)

\* nvm_worker dequeues a task and switches on its opcode.  MIX_WRITE alone is
\* redirect_write; MIX_WRITE | MIX_CLEAR matches no case and is dropped.
Dispatch(s) ==
  /\ wpc[s] = "poll"
  /\ queue[s] # <<>>
  /\ queue' = [queue EXCEPT ![s] = Tail(@)]
  /\ buffer_task' = [buffer_task EXCEPT ![s] = Head(queue[s])]
  /\ IF Head(queue[s]).opcode = {"write"}
     THEN LET k == Head(queue[s]).offset
          IN RedirectHit(s, k) \/ RedirectNew(s, k) \/ RedirectFull(s, k)
     ELSE UNCHANGED vars
  /\ UNCHANGED <<dataVars, clientVars, latest>>

\* Mutant: the segment's base is forgotten.
TargetNoBase(s) == offset[s]

\* The block mix_buffer_write is given: the segment's base plus the offset.
TargetBlock(s) == s * PerBlock + offset[s]

StoreWriteData(s) ==
  /\ WriteData(s)
  /\ buffer' = [buffer EXCEPT ![TargetBlock(s)] = buffer_task[s].data]
  /\ UNCHANGED <<buffer_meta, ssd, migrate_buf, queue, buffer_task, clientVars,
                 latest>>

\* Mutant: the record keeps the block number of the block's last owner.
DescribeStatusOnly(s) ==
  LET b == buffer_task[s]
  IN /\ WriteMeta(s)
     /\ buffer_meta' = [buffer_meta EXCEPT ![TargetBlock(s)].status = 1]
     /\ latest' = [latest EXCEPT ![b.offset] = b.data]
     /\ request' = [request EXCEPT ![b.client] = NoRequest]
     /\ cpc' = [cpc EXCEPT ![b.client] = "idle"]
     /\ buffer_task' = [buffer_task EXCEPT ![s] = NoTask]
     /\ UNCHANGED <<buffer, ssd, migrate_buf, queue, post_idx, issued, large>>

\* The self-description, then the client's inflight count.
StoreWriteMeta(s) ==
  LET b == buffer_task[s]
  IN /\ WriteMeta(s)
     /\ buffer_meta' = [buffer_meta EXCEPT ![TargetBlock(s)] =
                          [status |-> 1, offset |-> b.offset]]
     /\ latest' = [latest EXCEPT ![b.offset] = b.data]
     /\ request' = [request EXCEPT ![b.client] = NoRequest]
     /\ cpc' = [cpc EXCEPT ![b.client] = "idle"]
     /\ buffer_task' = [buffer_task EXCEPT ![s] = NoTask]
     /\ UNCHANGED <<buffer, ssd, migrate_buf, queue, post_idx, issued, large>>

StoreWorkerStep(s) ==
  \/ Dispatch(s) \/ StoreWriteData(s) \/ StoreWriteMeta(s)
  \/ /\ \/ RedirectRetry(s) \/ MigrateLock(s) \/ MigrationBegin(s)
        \/ RaiseFlag(s) \/ MigrationEnd(s)
     /\ UNCHANGED <<dataVars, queue, buffer_task, clientVars, latest>>

---------------------------------------------------------------------------
(* Migration threads: migrate_from_buffer_to_ssd(kv.value, kv.key, t) *)

\* The block it copies from and clears: kv.value, without the segment's base.
SourceBlock(t) == kv[t].value

StoreThreadRead(t) ==
  /\ ThreadRead(t)
  /\ migrate_buf' = [migrate_buf EXCEPT ![t] = buffer[SourceBlock(t)]]
  /\ UNCHANGED <<buffer, buffer_meta, ssd, queue, buffer_task, clientVars, latest>>

\* Mutant: source and destination are swapped.
StoreAtSource(t) ==
  /\ ThreadStore(t)
  /\ ssd' = [ssd EXCEPT ![kv[t].value] = migrate_buf[t]]
  /\ UNCHANGED <<buffer, buffer_meta, migrate_buf, queue, buffer_task,
                 clientVars, latest>>

StoreThreadStore(t) ==
  /\ ThreadStore(t)
  /\ ssd' = [ssd EXCEPT ![kv[t].key] = migrate_buf[t]]
  /\ UNCHANGED <<buffer, buffer_meta, migrate_buf, queue, buffer_task,
                 clientVars, latest>>

StoreThreadClear(t) ==
  /\ ThreadClear(t)
  /\ buffer_meta' = [buffer_meta EXCEPT ![SourceBlock(t)].status = 0]
  /\ UNCHANGED <<buffer, ssd, migrate_buf, queue, buffer_task, clientVars, latest>>

StoreThreadStep(t) ==
  \/ StoreThreadRead(t) \/ StoreThreadStore(t) \/ StoreThreadClear(t)
  \/ /\ \/ ThreadSee(t) \/ ThreadLoad(t) \/ ThreadPop(t) \/ ThreadSkip(t)
        \/ ThreadCount(t) \/ ThreadLower(t)
     /\ UNCHANGED <<dataVars, queue, buffer_task, clientVars, latest>>

---------------------------------------------------------------------------
ClientStep(c) ==
  \/ \E k \in Keys : SmallWrite(c, k)
  \/ \E k \in ReadKeys : ReadCall(c, k)
  \/ \E k \in LargeStarts : LargeWrite(c, k)
  \/ LargePost(c) \/ LargeSsd(c) \/ ReadSsd(c) \/ ReadReturn(c)

StoreNext ==
  \/ \E c \in Clients : ClientStep(c)
  \/ \E s \in Segments : StoreWorkerStep(s)
  \/ \E t \in Threads : StoreThreadStep(t)

StoreSpec == StoreInit /\ [][StoreNext]_storeVars

---------------------------------------------------------------------------
(* Properties *)

\* No request on block k is in flight.
Quiet(k) == \A c \in Clients : k \notin Span(request[c])

\* Where the last write of block k is to be found: in the block the index
\* names, with the thread that migrates it, or on the SSD.
StoredAt(k) ==
  LET s == k % SegNum
      v == mix_buffer_block_test(segs[s], k)
      H == {t \in Holding(s) : kv[t].key = k}
  IN IF v # None THEN buffer[s * PerBlock + v]
     ELSE IF H = {} THEN ssd[k]
     ELSE LET t == CHOOSE t \in H : TRUE
          IN CASE tpc[t] = "read" -> buffer[s * PerBlock + kv[t].value]
               [] tpc[t] = "store" -> migrate_buf[t]
               [] OTHER -> ssd[k]

\* A write to the first segment survives: through overwrites in place,
\* migration, reuse of its buffer block and the migrations of the other
\* segments, the store still holds the last completed write.  (Block numbers
\* that large writes cover are the subject of LargeWriteWins.)
FirstSegmentKeepsWrites ==
  \A k \in KeysOf(0) \ large : Quiet(k) => StoredAt(k) = latest[k]

\* In every segment, a block the index names holds the last completed write of
\* its block number: no allocation or overwrite hits a block in use.
IndexedIsLatest ==
  \A s \in Segments : \A k \in KeysOf(s) \ large :
    LET v == mix_buffer_block_test(segs[s], k)
    IN Quiet(k) /\ v # None => buffer[s * PerBlock + v] = latest[k]

\* In the segments after the first, an indexed block is described by its
\* persistent record, from which mix_buffer_rebuild could index it again.
IndexedIsDescribed ==
  \A s \in Segments \ {0} : \A k \in KeysOf(s) :
    LET v == mix_buffer_block_test(segs[s], k)
    IN Quiet(k) /\ v # None =>
         buffer_meta[s * PerBlock + v] = [status |-> 1, offset |-> k]

\* A write to any segment survives: "the data of a full segment is migrated to
\* the SSD" (mix_migrate_segment, nvm_worker.cpp).
NoWriteLost ==
  \A k \in Keys \ large : Quiet(k) => StoredAt(k) = latest[k]

\* After a large write the buffer holds no older copy of its blocks: "large
\* write: look up the buffer and clear the metadata of the duplicates first".
LargeWriteWins ==
  \A k \in large : Quiet(k) => StoredAt(k) = latest[k]
===========================================================================
