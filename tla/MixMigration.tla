--------------------------- MODULE MixMigration ---------------------------
(***************************************************************************)
(* The buffer index and the migration of a full segment to the SSD.        *)
(*                                                                         *)
(* Processes: one nvm_worker per segment (nvm_worker.cpp), which is the    *)
(* only writer of its segment's index, and migrate_thread_num migration    *)
(* threads (migrate, mix_meta.c), which spin on migration[t].  A worker    *)
(* that finds its segment full takes migrate_mutex, publishes the segment  *)
(* number, raises every thread's flag, waits until completed_migrate_      *)
(* thread_num has counted every thread, clears the bitmap and goes on.     *)
(*                                                                         *)
(* The contents of blocks are left to MixStore, whose actions strengthen   *)
(* the ones here; the steps that move data are program-counter steps here. *)
(***************************************************************************)
EXTENDS MixSegment, FiniteSets

CONSTANTS
  ThreadNum,   \* migrate_thread_num, 8 in the code
  HeapFlags    \* the flags migration[] may have when malloc returns them

Threads == 0 .. ThreadNum - 1

ASSUME ThreadAssumption ==
  /\ ThreadNum \in Nat \ {0}
  /\ HeapFlags \subseteq [Threads -> BOOLEAN]

\* A heap that comes zeroed from the kernel: every flag is down.
ZeroHeap == {[t \in Threads |-> FALSE]}

VARIABLES
  segs,                 \* hash[s] and segments[s]: the index of each segment
  wpc,                  \* where worker s is in redirect_write
  task,                 \* the block number of the task worker s executes
  offset,               \* the buffer block it chose, relative to the segment
  migrate_mutex,        \* the worker that holds it, or None
  migrate_segment_idx,  \* the segment the threads are told to sweep
  raise_idx,            \* i of the loop in mix_segment_migration_begin
  migration,            \* the flag of each thread
  completed_migrate_thread_num,
  tpc,                  \* where thread t is in migrate
  segment_idx,          \* the thread's copy of migrate_segment_idx
  migrate_idx,          \* the bucket it sweeps
  kv                    \* the entry it popped last

workerVars == <<wpc, task, offset>>
handshakeVars == <<migrate_mutex, migrate_segment_idx, raise_idx>>
threadVars == <<tpc, segment_idx, migrate_idx, kv>>
vars == <<segs, workerVars, handshakeVars, migration,
          completed_migrate_thread_num, threadVars>>

\* poll: in the main loop; lock, begin, raise, end: in mix_migrate_segment;
\* retry: the second mix_get_next_free_block; data, meta: in mix_buffer_write.
WorkerPc == {"poll", "lock", "begin", "raise", "end", "retry", "data", "meta"}

\* poll: spin on the flag; load: read *segment_idx; sweep: pop the next entry;
\* read, store, clear: migrate_from_buffer_to_ssd; lower: after the count.
ThreadPc == {"poll", "load", "sweep", "read", "store", "clear", "lower"}

\* A kv both of whose fields are (uint32_t)-1.
NoEntry == [key |-> NoKey, value |-> None]

TypeOK ==
  /\ segs \in [Segments -> Segment]
  /\ wpc \in [Segments -> WorkerPc]
  /\ task \in [Segments -> Keys \union {None}]
  /\ offset \in [Segments -> Blocks \union {None}]
  /\ migrate_mutex \in Segments \union {None}
  /\ migrate_segment_idx \in Segments
  /\ raise_idx \in 0 .. ThreadNum
  /\ migration \in [Threads -> BOOLEAN]
  /\ completed_migrate_thread_num \in [Segments -> Nat]
  /\ tpc \in [Threads -> ThreadPc]
  /\ segment_idx \in [Threads -> Segments]
  /\ migrate_idx \in [Threads -> Nat]
  /\ kv \in [Threads -> Entry \union {NoEntry}]

\* mix_metadata_init after mix_rebuild has cleared the persistent metadata.
\* The flags and *migrate_segment_idx come out of malloc and nothing sets them:
\* the flags are one of HeapFlags, and segment 0 stands for any segment number.
Init ==
  /\ segs = [s \in Segments |-> mix_segment_init]
  /\ wpc = [s \in Segments |-> "poll"]
  /\ task = [s \in Segments |-> None]
  /\ offset = [s \in Segments |-> None]
  /\ migrate_mutex = None
  /\ migrate_segment_idx = 0
  /\ raise_idx = 0
  /\ migration \in HeapFlags
  /\ completed_migrate_thread_num = [s \in Segments |-> 0]
  /\ tpc = [t \in Threads |-> "poll"]
  /\ segment_idx = [t \in Threads |-> 0]
  /\ migrate_idx = [t \in Threads |-> 0]
  /\ kv = [t \in Threads |-> NoEntry]

---------------------------------------------------------------------------
(* redirect_write, by worker s *)

\* The block found for key k, its bit set, and its entry put in the index.
Allocate(s, k) ==
  LET g == segs[s]
      v == FoundBit(g)
  IN /\ HasZeroBit(g)
     /\ segs' = [segs EXCEPT ![s] =
          mix_write_redirect_blockmeta(mix_bitmap_next_zero_bit(g), s, k, v)]
     /\ offset' = [offset EXCEPT ![s] = v]
     /\ wpc' = [wpc EXCEPT ![s] = "data"]

\* The block is in the buffer already: it is overwritten in place.
RedirectHit(s, k) ==
  /\ wpc[s] = "poll"
  /\ mix_buffer_block_test(segs[s], k) # None
  /\ task' = [task EXCEPT ![s] = k]
  /\ offset' = [offset EXCEPT ![s] = mix_buffer_block_test(segs[s], k)]
  /\ wpc' = [wpc EXCEPT ![s] = "data"]
  /\ UNCHANGED <<segs, handshakeVars, migration,
                 completed_migrate_thread_num, threadVars>>

\* A new block, and the segment has one.
RedirectNew(s, k) ==
  /\ wpc[s] = "poll"
  /\ mix_buffer_block_test(segs[s], k) = None
  /\ ~SegmentFull(segs[s])
  /\ task' = [task EXCEPT ![s] = k]
  /\ Allocate(s, k)
  /\ UNCHANGED <<handshakeVars, migration, completed_migrate_thread_num,
                 threadVars>>

\* A new block, and the segment is full: mix_migrate_segment.
RedirectFull(s, k) ==
  /\ wpc[s] = "poll"
  /\ mix_buffer_block_test(segs[s], k) = None
  /\ SegmentFull(segs[s])
  /\ task' = [task EXCEPT ![s] = k]
  /\ offset' = [offset EXCEPT ![s] = None]
  /\ wpc' = [wpc EXCEPT ![s] = "lock"]
  /\ UNCHANGED <<segs, handshakeVars, migration,
                 completed_migrate_thread_num, threadVars>>

\* The second mix_get_next_free_block, after the migration.  The code would use
\* a second -1 as a block number; DrainedBeforeReuse says there is none.
RedirectRetry(s) ==
  /\ wpc[s] = "retry"
  /\ ~SegmentFull(segs[s])
  /\ Allocate(s, task[s])
  /\ UNCHANGED <<task, handshakeVars, migration,
                 completed_migrate_thread_num, threadVars>>

\* mix_buffer_write: first the data of the block, then its self-description.
WriteData(s) ==
  /\ wpc[s] = "data"
  /\ wpc' = [wpc EXCEPT ![s] = "meta"]
  /\ UNCHANGED <<segs, task, offset, handshakeVars, migration,
                 completed_migrate_thread_num, threadVars>>

\* ... and the task is complete: the client's inflight count goes down.
WriteMeta(s) ==
  /\ wpc[s] = "meta"
  /\ wpc' = [wpc EXCEPT ![s] = "poll"]
  /\ task' = [task EXCEPT ![s] = None]
  /\ offset' = [offset EXCEPT ![s] = None]
  /\ UNCHANGED <<segs, handshakeVars, migration,
                 completed_migrate_thread_num, threadVars>>

---------------------------------------------------------------------------
(* mix_migrate_segment, by worker s *)

MigrateLock(s) ==
  /\ wpc[s] = "lock"
  /\ migrate_mutex = None
  /\ migrate_mutex' = s
  /\ wpc' = [wpc EXCEPT ![s] = "begin"]
  /\ UNCHANGED <<segs, task, offset, migrate_segment_idx, raise_idx,
                 migration, completed_migrate_thread_num, threadVars>>

\* mix_segment_migration_begin, up to its loop.
MigrationBegin(s) ==
  /\ wpc[s] = "begin"
  /\ migrate_segment_idx' = s
  /\ completed_migrate_thread_num' =
       [completed_migrate_thread_num EXCEPT ![s] = 0]
  /\ raise_idx' = 0
  /\ wpc' = [wpc EXCEPT ![s] = "raise"]
  /\ UNCHANGED <<segs, task, offset, migrate_mutex, migration, threadVars>>

\* One turn of its loop: the flag of thread i goes up.  migration[] is declared
\* with SEGMENT_NUM entries, half of the threads: the others' flags are the bytes
\* behind it, which on LP64 are the padding before bloom_filter[], used by
\* nothing else.  So each thread has a flag of its own here as well.
RaiseFlag(s) ==
  /\ wpc[s] = "raise"
  /\ migration' = [migration EXCEPT ![raise_idx] = TRUE]
  /\ raise_idx' = raise_idx + 1
  /\ wpc' = [wpc EXCEPT ![s] = IF raise_idx + 1 = ThreadNum THEN "end" ELSE @]
  /\ UNCHANGED <<segs, task, offset, migrate_mutex, migrate_segment_idx,
                 completed_migrate_thread_num, threadVars>>

\* Mutant: the wait ends one thread early.
EndOneEarly(s) ==
  /\ wpc[s] = "end"
  /\ completed_migrate_thread_num[s] >= ThreadNum - 1
  /\ completed_migrate_thread_num' =
       [completed_migrate_thread_num EXCEPT ![s] = 0]
  /\ segs' = [segs EXCEPT ![s] = mix_bitmap_clear(@)]
  /\ migrate_mutex' = None
  /\ wpc' = [wpc EXCEPT ![s] = "retry"]
  /\ UNCHANGED <<task, offset, migrate_segment_idx, raise_idx, migration,
                 threadVars>>

\* mix_segment_migration_end once its spin is over, and the unlock.
MigrationEnd(s) ==
  /\ wpc[s] = "end"
  /\ completed_migrate_thread_num[s] >= ThreadNum
  /\ completed_migrate_thread_num' =
       [completed_migrate_thread_num EXCEPT ![s] = 0]
  /\ segs' = [segs EXCEPT ![s] = mix_bitmap_clear(@)]
  /\ migrate_mutex' = None
  /\ wpc' = [wpc EXCEPT ![s] = "retry"]
  /\ UNCHANGED <<task, offset, migrate_segment_idx, raise_idx, migration,
                 threadVars>>

---------------------------------------------------------------------------
(* migrate, by thread t *)

ThreadSee(t) ==
  /\ tpc[t] = "poll"
  /\ migration[t]
  /\ tpc' = [tpc EXCEPT ![t] = "load"]
  /\ UNCHANGED <<segs, workerVars, handshakeVars, migration,
                 completed_migrate_thread_num, segment_idx, migrate_idx, kv>>

\* Mutant: the thread's stripe starts one bucket late.
LoadOneLate(t) ==
  /\ tpc[t] = "load"
  /\ segment_idx' = [segment_idx EXCEPT ![t] = migrate_segment_idx]
  /\ migrate_idx' = [migrate_idx EXCEPT ![t] = t + 1]
  /\ tpc' = [tpc EXCEPT ![t] = "sweep"]
  /\ UNCHANGED <<segs, workerVars, handshakeVars, migration,
                 completed_migrate_thread_num, kv>>

ThreadLoad(t) ==
  /\ tpc[t] = "load"
  /\ segment_idx' = [segment_idx EXCEPT ![t] = migrate_segment_idx]
  /\ migrate_idx' = [migrate_idx EXCEPT ![t] = t]
  /\ tpc' = [tpc EXCEPT ![t] = "sweep"]
  /\ UNCHANGED <<segs, workerVars, handshakeVars, migration,
                 completed_migrate_thread_num, kv>>

Bucket(t) == segs[segment_idx[t]].hash_nodes[migrate_idx[t]]

\* Mutant: a block number of 0 is taken for the end of the bucket.
PopZeroIsEnd(t) ==
  /\ tpc[t] = "sweep"
  /\ migrate_idx[t] < HashSize
  /\ Bucket(t) # <<>>
  /\ kv' = [kv EXCEPT ![t] = Head(Bucket(t))]
  /\ segs' = [segs EXCEPT ![segment_idx[t]] = mix_hash_pop(@, migrate_idx[t])]
  /\ IF Head(Bucket(t)).value = 0
     THEN /\ migrate_idx' = [migrate_idx EXCEPT ![t] = @ + ThreadNum]
          /\ UNCHANGED tpc
     ELSE /\ tpc' = [tpc EXCEPT ![t] = "read"]
          /\ UNCHANGED migrate_idx
  /\ UNCHANGED <<workerVars, handshakeVars, migration,
                 completed_migrate_thread_num, segment_idx>>

\* The entry at the head of the bucket is popped.  If it is a real one it will
\* be copied; a key of (uint32_t)-1 is taken for the end of the bucket.
ThreadPop(t) ==
  /\ tpc[t] = "sweep"
  /\ migrate_idx[t] < HashSize
  /\ Bucket(t) # <<>>
  /\ kv' = [kv EXCEPT ![t] = Head(Bucket(t))]
  /\ segs' = [segs EXCEPT ![segment_idx[t]] = mix_hash_pop(@, migrate_idx[t])]
  /\ IF Head(Bucket(t)).key = NoKey
     THEN /\ migrate_idx' = [migrate_idx EXCEPT ![t] = @ + ThreadNum]
          /\ UNCHANGED tpc
     ELSE /\ tpc' = [tpc EXCEPT ![t] = "read"]
          /\ UNCHANGED migrate_idx
  /\ UNCHANGED <<workerVars, handshakeVars, migration,
                 completed_migrate_thread_num, segment_idx>>

\* Mutant: the thread stays at an empty bucket.
SkipNowhere(t) ==
  /\ tpc[t] = "sweep"
  /\ migrate_idx[t] < HashSize
  /\ Bucket(t) = <<>>
  /\ UNCHANGED vars

\* The bucket is empty: on to the next one of this thread.
ThreadSkip(t) ==
  /\ tpc[t] = "sweep"
  /\ migrate_idx[t] < HashSize
  /\ Bucket(t) = <<>>
  /\ kv' = [kv EXCEPT ![t] = NoEntry]
  /\ migrate_idx' = [migrate_idx EXCEPT ![t] = @ + ThreadNum]
  /\ UNCHANGED <<segs, workerVars, handshakeVars, migration,
                 completed_migrate_thread_num, tpc, segment_idx>>

\* migrate_from_buffer_to_ssd: mix_buffer_read, then mix_ssd_write.
ThreadRead(t) ==
  /\ tpc[t] = "read"
  /\ tpc' = [tpc EXCEPT ![t] = "store"]
  /\ UNCHANGED <<segs, workerVars, handshakeVars, migration,
                 completed_migrate_thread_num, segment_idx, migrate_idx, kv>>

ThreadStore(t) ==
  /\ tpc[t] = "store"
  /\ tpc' = [tpc EXCEPT ![t] = "clear"]
  /\ UNCHANGED <<segs, workerVars, handshakeVars, migration,
                 completed_migrate_thread_num, segment_idx, migrate_idx, kv>>

\* ... then mix_buffer_clear, and the caller's used_block_num--.
ThreadClear(t) ==
  /\ tpc[t] = "clear"
  /\ segs' = [segs EXCEPT ![segment_idx[t]].used_block_num = @ - 1]
  /\ tpc' = [tpc EXCEPT ![t] = "sweep"]
  /\ UNCHANGED <<workerVars, handshakeVars, migration,
                 completed_migrate_thread_num, segment_idx, migrate_idx, kv>>

\* The sweep is over: the thread counts itself ...
ThreadCount(t) ==
  /\ tpc[t] = "sweep"
  /\ migrate_idx[t] >= HashSize
  /\ completed_migrate_thread_num' =
       [completed_migrate_thread_num EXCEPT ![segment_idx[t]] = @ + 1]
  /\ tpc' = [tpc EXCEPT ![t] = "lower"]
  /\ UNCHANGED <<segs, workerVars, handshakeVars, migration, segment_idx,
                 migrate_idx, kv>>

\* ... and lowers its flag only after that.
ThreadLower(t) ==
  /\ tpc[t] = "lower"
  /\ migration' = [migration EXCEPT ![t] = FALSE]
  /\ tpc' = [tpc EXCEPT ![t] = "poll"]
  /\ UNCHANGED <<segs, workerVars, handshakeVars,
                 completed_migrate_thread_num, segment_idx, migrate_idx, kv>>

---------------------------------------------------------------------------
\* redirect_write for some task, and the steps that follow it.
Redirect(s) ==
  \E k \in KeysOf(s) : RedirectHit(s, k) \/ RedirectNew(s, k) \/ RedirectFull(s, k)

WorkerStep(s) ==
  \/ RedirectRetry(s) \/ WriteData(s) \/ WriteMeta(s)
  \/ MigrateLock(s) \/ MigrationBegin(s) \/ RaiseFlag(s) \/ MigrationEnd(s)

ThreadStep(t) ==
  \/ ThreadSee(t) \/ ThreadLoad(t) \/ ThreadPop(t) \/ ThreadSkip(t)
  \/ ThreadRead(t) \/ ThreadStore(t) \/ ThreadClear(t)
  \/ ThreadCount(t) \/ ThreadLower(t)

Next ==
  \/ \E s \in Segments : Redirect(s) \/ WorkerStep(s)
  \/ \E t \in Threads : ThreadStep(t)

Spec == Init /\ [][Next]_vars

\* The kernel runs every thread of the process; nothing is assumed about who
\* gets the mutex next, and clients need not send anything.
Fairness ==
  /\ \A s \in Segments : WF_vars(WorkerStep(s))
  /\ \A t \in Threads : WF_vars(ThreadStep(t))

FairSpec == Spec /\ Fairness

---------------------------------------------------------------------------
(* Properties *)

\* Thread t is between seeing its flag and counting itself.
Sweeping(t) == tpc[t] \in {"load", "sweep", "read", "store", "clear"}

\* The segment it works on, or will once it has loaded the number.
SweptBy(t) == IF tpc[t] = "load" THEN migrate_segment_idx ELSE segment_idx[t]

\* A migration thread only ever works on the segment whose worker holds
\* migrate_mutex and waits inside mix_segment_migration_begin or _end.  The
\* hash and the bitmap have no lock of their own: this is what makes the
\* worker's unlocked accesses and the threads' pops disjoint in time.
MigrationExclusive ==
  \A t \in Threads : Sweeping(t) =>
    /\ migrate_mutex = SweptBy(t)
    /\ wpc[SweptBy(t)] \in {"raise", "end"}

\* The entries of an index, as pairs of a bucket and a position in its list.
Positions(g) ==
  UNION {{<<b, i>> : i \in DOMAIN g.hash_nodes[b]} : b \in Buckets}

EntryAt(g, p) == g.hash_nodes[p[1]][p[2]]

\* The threads that hold a popped entry of segment s not yet counted off.
Holding(s) ==
  {t \in Threads : /\ tpc[t] \in {"read", "store", "clear"}
                   /\ segment_idx[t] = s}

\* When the worker asks for a block again after mix_migrate_segment, its
\* segment is empty: every entry went to the SSD, none is in a thread's hand,
\* every block and list node is free.
DrainedBeforeReuse ==
  \A s \in Segments : wpc[s] = "retry" =>
    /\ Holding(s) = {}
    /\ segs[s] = mix_segment_init

\* The index is consistent at every moment, also in the middle of a sweep:
\* an entry is in its hash bucket and its worker's segment, no block number
\* and no buffer block occurs twice, the block of an entry is marked in the
\* bitmap, used_block_num counts the entries plus those in a thread's hand,
\* and no list node is lost (the pool never runs dry, so no abort).
IndexConsistent ==
  \A s \in Segments :
    LET g == segs[s] P == Positions(g)
    IN /\ \A p \in P : /\ mix_hash_hash(EntryAt(g, p).key) = p[1]
                       /\ EntryAt(g, p).key \in KeysOf(s)
                       /\ EntryAt(g, p).value \in g.bitmap
       /\ \A p, q \in P : p # q =>
            /\ EntryAt(g, p).key # EntryAt(g, q).key
            /\ EntryAt(g, p).value # EntryAt(g, q).value
       /\ g.used_block_num = Cardinality(P) + Cardinality(Holding(s))
       /\ g.free_node_num + Cardinality(P) = PerBlock

\* Whenever a worker is about to write a block's data, the index maps the
\* block number to that block: the early return of
\* mix_write_redirect_blockmeta, on a bit that is computed with a stride the
\* allocator does not use, is never taken.
WriteIsIndexed ==
  \A s \in Segments : wpc[s] \in {"data", "meta"} =>
    mix_buffer_block_test(segs[s], task[s]) = offset[s]

\* The unbounded search of mix_bitmap_next_zero_bit always ends: a segment
\* whose used_block_num is below the limit has a clear bit.
SearchTerminates ==
  \A s \in Segments :
    wpc[s] \in {"poll", "retry"} /\ ~SegmentFull(segs[s]) => HasZeroBit(segs[s])

\* No step makes an entry vanish: one that leaves the index is in the hand of
\* a migration thread that goes on to copy it.
NoEntryDropped ==
  [][\A s \in Segments : \A p \in Positions(segs[s]) :
       LET e == EntryAt(segs[s], p)
       IN \/ \E q \in Positions(segs'[s]) : EntryAt(segs'[s], q) = e
          \/ \E t \in Threads : tpc'[t] = "read" /\ kv'[t] = e]_vars

\* A sweep ends: a thread that saw its flag goes back to polling, however the
\* workers interleave with it.
SweepTerminates == \A t \in Threads : Sweeping(t) ~> tpc[t] = "poll"

\* A migration ends: a worker that took migrate_mutex gives it back.
MigrationEnds == \A s \in Segments : migrate_mutex = s ~> migrate_mutex # s
===========================================================================
