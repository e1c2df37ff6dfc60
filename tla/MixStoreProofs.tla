--------------------------- MODULE MixStoreProofs ---------------------------
(***************************************************************************)
(* Proofs about the write buffer, for every number of segments, blocks,    *)
(* buckets and threads and every hash function, in three layers:           *)
(*                                                                         *)
(*   - migration: type correctness of the protocol, and mutual exclusion   *)
(*     between a segment's worker and the migration threads;               *)
(*   - the buffer index: its entries, bitmap, node pool and counters agree *)
(*     through allocation and migration;                                   *)
(*   - the data path: every step of it is a step of the migration or none, *)
(*     so the first two layers hold of it, and what the index points at is *)
(*     the last write of the block it is indexed for.                      *)
(***************************************************************************)
EXTENDS MixStore, MixSegmentProofs, FiniteSetTheorems

---------------------------------------------------------------------------
(* The inductive invariant of the migration *)

\* Thread t has been told to sweep and has not counted itself yet.
Pending(t) == Sweeping(t) \/ (tpc[t] = "poll" /\ migration[t])

\* The threads raised in the current migration that have counted themselves,
\* or that lost their flag to a late ThreadLower.
Finished == {t \in Threads : t < raise_idx /\ ~Pending(t)}

\* migrate_mutex is held exactly inside mix_migrate_segment, and a worker that
\* is not polling has a task.
MutexInv ==
  \A s \in Segments :
    /\ wpc[s] \in {"begin", "raise", "end"} <=> migrate_mutex = s
    /\ wpc[s] = "raise" => raise_idx < ThreadNum
    /\ wpc[s] \in {"raise", "end"} => migrate_segment_idx = s
    /\ wpc[s] # "poll" => task[s] \in Keys

\* A pending thread belongs to the migration of the mutex holder.
PendingInv ==
  \A t \in Threads : Pending(t) =>
    /\ migrate_mutex \in Segments
    /\ wpc[migrate_mutex] \in {"raise", "end"}
    /\ migrate_segment_idx = migrate_mutex
    /\ t < raise_idx
    /\ tpc[t] \in {"sweep", "read", "store", "clear"} =>
         segment_idx[t] = migrate_mutex

\* The count the holder waits for never exceeds the finished threads.
CountInv ==
  \A s \in Segments : wpc[s] \in {"raise", "end"} =>
    completed_migrate_thread_num[s] <= Cardinality(Finished)

IInv == TypeOK /\ MutexInv /\ PendingInv /\ CountInv

---------------------------------------------------------------------------
(* Types *)

\* mix_metadata_init sets every variable within its type, whatever the heap.
LEMMA InitType == Init => TypeOK
<1> SUFFICES ASSUME Init PROVE TypeOK
  OBVIOUS
<1>1. mix_segment_init \in Segment
  BY SegmentInitType
<1>2. 0 \in Segments /\ 0 \in 0 .. ThreadNum
  BY SegmentAssumption, ThreadAssumption DEF Segments
<1>3. migration \in [Threads -> BOOLEAN]
  BY ThreadAssumption DEF Init
<1> QED
  BY <1>1, <1>2, <1>3 DEF Init, TypeOK, WorkerPc, ThreadPc

\* Choosing a block and putting it in the index, for RedirectNew and
\* RedirectRetry.
LEMMA AllocateType ==
  ASSUME TypeOK, NEW s \in Segments, NEW k \in Keys, Allocate(s, k)
  PROVE  /\ segs' \in [Segments -> Segment]
         /\ offset' \in [Segments -> Blocks \union {None}]
         /\ wpc' \in [Segments -> WorkerPc]
<1> DEFINE g == segs[s]
           v == FoundBit(g)
           z == mix_bitmap_next_zero_bit(g)
<1>1. g \in Segment /\ HasZeroBit(g)
  BY DEF TypeOK, Allocate
<1>2. v \in Blocks
  BY <1>1, FoundBitIsClear
<1>3. z \in Segment
  BY <1>1, NextZeroBitType
<1>4. mix_write_redirect_blockmeta(z, s, k, v) \in Segment
  BY <1>2, <1>3, BlockmetaType
<1>5. /\ segs' = [segs EXCEPT ![s] = mix_write_redirect_blockmeta(z, s, k, v)]
      /\ offset' = [offset EXCEPT ![s] = v]
      /\ wpc' = [wpc EXCEPT ![s] = "data"]
  BY DEF Allocate
<1> HIDE DEF g, v, z
<1> QED
  BY <1>2, <1>4, <1>5 DEF TypeOK, WorkerPc

\* redirect_write and mix_migrate_segment keep the types.
LEMMA WorkerType ==
  ASSUME TypeOK, MutexInv, NEW s \in Segments, Redirect(s) \/ WorkerStep(s)
  PROVE  TypeOK'
<1> USE DEF TypeOK, workerVars, handshakeVars, threadVars, WorkerPc
<1>1. ASSUME NEW k \in KeysOf(s), RedirectHit(s, k) PROVE TypeOK'
  <2>1. mix_buffer_block_test(segs[s], k) \in Blocks \union {None} /\ k \in Keys
    BY BlockTestType DEF KeysOf
  <2> QED
    BY <1>1, <2>1 DEF RedirectHit
<1>2. ASSUME NEW k \in KeysOf(s), RedirectNew(s, k) PROVE TypeOK'
  <2>1. k \in Keys
    BY DEF KeysOf
  <2> QED
    BY <1>2, <2>1, AllocateType DEF RedirectNew
<1>3. ASSUME NEW k \in KeysOf(s), RedirectFull(s, k) PROVE TypeOK'
  BY <1>3 DEF RedirectFull, KeysOf
<1>4. CASE RedirectRetry(s)
  <2>1. task[s] \in Keys
    BY <1>4 DEF RedirectRetry, MutexInv
  <2> QED
    BY <1>4, <2>1, AllocateType DEF RedirectRetry
<1>5. CASE WriteData(s)
  BY <1>5 DEF WriteData
<1>6. CASE WriteMeta(s)
  BY <1>6 DEF WriteMeta
<1>7. CASE MigrateLock(s)
  BY <1>7 DEF MigrateLock
<1>8. CASE MigrationBegin(s)
  BY <1>8, ThreadAssumption DEF MigrationBegin
<1>9. CASE RaiseFlag(s)
  <2>1. raise_idx \in Nat /\ raise_idx < ThreadNum
    BY <1>9, ThreadAssumption DEF RaiseFlag, MutexInv
  <2>2. raise_idx + 1 \in 0 .. ThreadNum
    BY <2>1, ThreadAssumption
  <2>3. migration' \in [Threads -> BOOLEAN]
    BY <1>9, Zenon DEF RaiseFlag
  <2>4. wpc' \in [Segments -> WorkerPc]
    BY <1>9 DEF RaiseFlag
  <2> QED
    BY <1>9, <2>2, <2>3, <2>4 DEF RaiseFlag
<1>10. CASE MigrationEnd(s)
  <2>1. mix_bitmap_clear(segs[s]) \in Segment
    BY BitmapClearType
  <2> QED
    BY <1>10, <2>1 DEF MigrationEnd
<1> QED
  BY <1>1, <1>2, <1>3, <1>4, <1>5, <1>6, <1>7, <1>8, <1>9, <1>10
  DEF Redirect, WorkerStep

\* migrate keeps the types: its stripe only grows, what it pops is an entry.
LEMMA ThreadType ==
  ASSUME TypeOK, NEW t \in Threads, ThreadStep(t)
  PROVE  TypeOK'
<1> USE DEF TypeOK, workerVars, handshakeVars, threadVars, ThreadPc
<1>0. t \in Nat /\ ThreadNum \in Nat /\ HashSize \in Nat
  BY ThreadAssumption, SegmentAssumption DEF Threads
<1>1. CASE ThreadSee(t)
  BY <1>1 DEF ThreadSee
<1>2. CASE ThreadLoad(t)
  BY <1>0, <1>2 DEF ThreadLoad
<1>3. CASE ThreadPop(t)
  <2> DEFINE s == segment_idx[t]
             b == migrate_idx[t]
  <2>1. s \in Segments /\ segs[s] \in Segment
    OBVIOUS
  <2>2. b \in Buckets
    BY <1>0, <1>3 DEF ThreadPop, Buckets
  <2>3. /\ mix_hash_pop(segs[s], b) \in Segment
        /\ Head(segs[s].hash_nodes[b]) \in Entry
    BY <1>3, <2>1, <2>2, HashPopType DEF ThreadPop, Bucket
  <2>4. segs' \in [Segments -> Segment]
    BY <1>3, <2>1, <2>3 DEF ThreadPop
  <2>5. kv' \in [Threads -> Entry \union {NoEntry}]
    BY <1>3, <2>3 DEF ThreadPop, Bucket
  <2>6. b + ThreadNum \in Nat
    BY <1>0
  <2>7. tpc' \in [Threads -> ThreadPc] /\ migrate_idx' \in [Threads -> Nat]
    BY <1>3, <2>6 DEF ThreadPop
  <2> QED
    BY <1>3, <2>4, <2>5, <2>7 DEF ThreadPop
<1>4. CASE ThreadSkip(t)
  <2>1. migrate_idx[t] + ThreadNum \in Nat
    BY <1>0
  <2> QED
    BY <1>4, <2>1 DEF ThreadSkip
<1>5. CASE ThreadRead(t)
  BY <1>5 DEF ThreadRead
<1>6. CASE ThreadStore(t)
  BY <1>6 DEF ThreadStore
<1>7. CASE ThreadClear(t)
  <2> DEFINE s == segment_idx[t]
             g == [segs[s] EXCEPT !.used_block_num = @ - 1]
  <2>1. s \in Segments /\ segs[s] \in Segment
    OBVIOUS
  <2>2. g \in Segment
    <3>1. segs[s].used_block_num - 1 \in Int
      BY <2>1 DEF Segment
    <3> QED
      BY <2>1, <3>1 DEF Segment
  <2>3. segs' = [segs EXCEPT ![s] = g]
    BY <1>7 DEF ThreadClear
  <2> HIDE DEF g
  <2>4. segs' \in [Segments -> Segment]
    BY <2>1, <2>2, <2>3
  <2> QED
    BY <1>7, <2>4 DEF ThreadClear
<1>8. CASE ThreadCount(t)
  BY <1>8 DEF ThreadCount
<1>9. CASE ThreadLower(t)
  <2>1. migration' \in [Threads -> BOOLEAN]
    BY <1>9, Zenon DEF ThreadLower
  <2> QED
    BY <1>9, <2>1 DEF ThreadLower
<1> QED
  BY <1>1, <1>2, <1>3, <1>4, <1>5, <1>6, <1>7, <1>8, <1>9 DEF ThreadStep

---------------------------------------------------------------------------
(* The mutex *)

\* Only mix_migrate_segment takes and gives back migrate_mutex.
LEMMA WorkerMutex ==
  ASSUME TypeOK, MutexInv, NEW s \in Segments, Redirect(s) \/ WorkerStep(s)
  PROVE  MutexInv'
<1> USE DEF TypeOK, MutexInv, workerVars, handshakeVars, Segments, None
<1>1. ASSUME NEW k \in KeysOf(s), RedirectHit(s, k) PROVE MutexInv'
  BY <1>1 DEF RedirectHit, KeysOf
<1>2. ASSUME NEW k \in KeysOf(s), RedirectNew(s, k) PROVE MutexInv'
  BY <1>2 DEF RedirectNew, Allocate, KeysOf
<1>3. ASSUME NEW k \in KeysOf(s), RedirectFull(s, k) PROVE MutexInv'
  BY <1>3 DEF RedirectFull, KeysOf
<1>4. CASE RedirectRetry(s)
  BY <1>4 DEF RedirectRetry, Allocate
<1>5. CASE WriteData(s)
  BY <1>5 DEF WriteData
<1>6. CASE WriteMeta(s)
  BY <1>6 DEF WriteMeta
<1>7. CASE MigrateLock(s)
  BY <1>7 DEF MigrateLock
<1>8. CASE MigrationBegin(s)
  BY <1>8, ThreadAssumption DEF MigrationBegin
<1>9. CASE RaiseFlag(s)
  BY <1>9, ThreadAssumption DEF RaiseFlag
<1>10. CASE MigrationEnd(s)
  BY <1>10 DEF MigrationEnd
<1> QED
  BY <1>1, <1>2, <1>3, <1>4, <1>5, <1>6, <1>7, <1>8, <1>9, <1>10
  DEF Redirect, WorkerStep

\* The migration threads do not touch the mutex or what it protects.
LEMMA ThreadMutex ==
  ASSUME MutexInv, NEW t \in Threads, ThreadStep(t)
  PROVE  MutexInv'
  BY DEF MutexInv, ThreadStep, ThreadSee, ThreadLoad, ThreadPop, ThreadSkip,
         ThreadRead, ThreadStore, ThreadClear, ThreadCount, ThreadLower,
         workerVars, handshakeVars

---------------------------------------------------------------------------
(* Counting *)

\* The finished threads are threads, so all are finished when the count says so.
LEMMA FinishedFinite ==
  /\ IsFiniteSet(Finished)
  /\ Cardinality(Finished) \in Nat
  /\ Cardinality(Finished) <= ThreadNum
  /\ Cardinality(Finished) = ThreadNum => Finished = Threads
<1>1. IsFiniteSet(Threads) /\ Cardinality(Threads) = ThreadNum
  BY FS_Interval, ThreadAssumption DEF Threads
<1>2. Finished \subseteq Threads
  BY DEF Finished
<1> QED
  BY <1>1, <1>2, FS_Subset, FS_CardinalityType, ThreadAssumption

\* The wait of mix_segment_migration_end is long enough: when the count has
\* reached the number of threads, no thread is pending.
LEMMA NobodyPendingAtEnd ==
  ASSUME IInv, NEW s \in Segments, MigrationEnd(s)
  PROVE  \A t \in Threads : ~Pending(t)
<1>1. completed_migrate_thread_num[s] <= Cardinality(Finished)
  BY DEF IInv, CountInv, MigrationEnd
<1>2. completed_migrate_thread_num[s] \in Nat
  BY DEF IInv, TypeOK
<1>3. Cardinality(Finished) = ThreadNum
  BY <1>1, <1>2, FinishedFinite, ThreadAssumption DEF MigrationEnd
<1> QED
  BY <1>3, FinishedFinite DEF Finished

---------------------------------------------------------------------------
(* Pending threads *)

\* The steps of a worker outside the three that change flags or the mutex.
LEMMA WorkerPending ==
  ASSUME IInv, NEW s \in Segments, Redirect(s) \/ WorkerStep(s)
  PROVE  PendingInv'
<1> USE DEF IInv, PendingInv, Pending, Sweeping, workerVars, handshakeVars,
            threadVars
<1>0. /\ MutexInv /\ wpc \in [Segments -> WorkerPc] /\ raise_idx \in Nat
      /\ None \notin Segments
  BY ThreadAssumption DEF TypeOK, None, Segments
<1>1. ASSUME NEW k \in KeysOf(s), RedirectHit(s, k) PROVE PendingInv'
  BY <1>0, <1>1 DEF RedirectHit
<1>2. ASSUME NEW k \in KeysOf(s), RedirectNew(s, k) PROVE PendingInv'
  BY <1>0, <1>2 DEF RedirectNew, Allocate
<1>3. ASSUME NEW k \in KeysOf(s), RedirectFull(s, k) PROVE PendingInv'
  BY <1>0, <1>3 DEF RedirectFull
<1>4. CASE RedirectRetry(s)
  BY <1>0, <1>4 DEF RedirectRetry, Allocate
<1>5. CASE WriteData(s)
  BY <1>0, <1>5 DEF WriteData
<1>6. CASE WriteMeta(s)
  BY <1>0, <1>6 DEF WriteMeta
<1>7. CASE MigrateLock(s)
  BY <1>0, <1>7 DEF MigrateLock
<1>8. CASE MigrationBegin(s)
  <2>1. migrate_mutex = s
    BY <1>0, <1>8 DEF MutexInv, MigrationBegin
  <2>2. \A t \in Threads : ~Pending(t)
    BY <1>8, <2>1 DEF MigrationBegin
  <2> QED
    BY <1>8, <2>2 DEF MigrationBegin
<1>9. CASE RaiseFlag(s)
  <2>1. migrate_mutex = s /\ migrate_segment_idx = s
    BY <1>0, <1>9 DEF MutexInv, RaiseFlag
  <2>2. wpc'[s] \in {"raise", "end"} /\ migrate_mutex' = s
    BY <1>0, <1>9, <2>1 DEF RaiseFlag
  <2>3. raise_idx' = raise_idx + 1 /\ migrate_segment_idx' = s
    BY <1>9, <2>1 DEF RaiseFlag
  <2> SUFFICES ASSUME NEW t \in Threads, Pending(t)'
               PROVE  /\ t < raise_idx'
                      /\ tpc'[t] \in {"sweep", "read", "store", "clear"} =>
                           segment_idx'[t] = migrate_mutex'
    BY <2>2, <2>3
  <2>4. CASE t = raise_idx /\ tpc[t] = "poll"
    BY <1>0, <1>9, <2>3, <2>4 DEF RaiseFlag
  <2>5. CASE ~(t = raise_idx /\ tpc[t] = "poll")
    <3>1. Pending(t)
      BY <1>9, <2>5 DEF RaiseFlag, TypeOK
    <3>2. t \in Nat /\ t < raise_idx
      BY <3>1, ThreadAssumption DEF Threads
    <3> QED
      BY <1>0, <1>9, <2>1, <2>2, <2>3, <3>1, <3>2 DEF RaiseFlag
  <2> QED
    BY <2>4, <2>5
<1>10. CASE MigrationEnd(s)
  <2>1. \A t \in Threads : ~Pending(t)
    BY <1>10, NobodyPendingAtEnd
  <2> QED
    BY <1>10, <2>1 DEF MigrationEnd
<1> QED
  BY <1>1, <1>2, <1>3, <1>4, <1>5, <1>6, <1>7, <1>8, <1>9, <1>10
  DEF Redirect, WorkerStep

\* A thread becomes pending only through a raised flag, and works on the
\* segment it loaded.
LEMMA ThreadPending ==
  ASSUME IInv, NEW t \in Threads, ThreadStep(t)
  PROVE  PendingInv'
<1> USE DEF IInv, PendingInv, Pending, Sweeping, workerVars, handshakeVars,
            TypeOK
<1>1. CASE ThreadSee(t)
  BY <1>1 DEF ThreadSee
<1>2. CASE ThreadLoad(t)
  BY <1>2 DEF ThreadLoad
<1>3. CASE ThreadPop(t)
  BY <1>3 DEF ThreadPop
<1>4. CASE ThreadSkip(t)
  BY <1>4 DEF ThreadSkip
<1>5. CASE ThreadRead(t)
  BY <1>5 DEF ThreadRead
<1>6. CASE ThreadStore(t)
  BY <1>6 DEF ThreadStore
<1>7. CASE ThreadClear(t)
  BY <1>7 DEF ThreadClear
<1>8. CASE ThreadCount(t)
  BY <1>8 DEF ThreadCount
<1>9. CASE ThreadLower(t)
  BY <1>9 DEF ThreadLower
<1> QED
  BY <1>1, <1>2, <1>3, <1>4, <1>5, <1>6, <1>7, <1>8, <1>9 DEF ThreadStep

\* A step that leaves the set of pending threads and the flags raised alone
\* leaves the finished ones alone.
LEMMA FinishedSame ==
  ASSUME raise_idx' = raise_idx, \A t \in Threads : Pending(t)' <=> Pending(t)
  PROVE  Finished' = Finished
<1>1. \A t \in Threads : t < raise_idx' <=> t < raise_idx
  OBVIOUS
<1> QED
  BY <1>1 DEF Finished

\* A worker's step takes no thread out of the finished ones while it waits, and
\* a new migration starts its count at 0.
LEMMA WorkerCount ==
  ASSUME IInv, NEW s \in Segments, Redirect(s) \/ WorkerStep(s)
  PROVE  CountInv'
<1> USE DEF IInv, CountInv, workerVars, handshakeVars, threadVars
<1>0. /\ MutexInv /\ wpc \in [Segments -> WorkerPc] /\ raise_idx \in Nat
      /\ completed_migrate_thread_num \in [Segments -> Nat]
  BY ThreadAssumption DEF TypeOK
<1>1. CASE /\ UNCHANGED <<tpc, migration, raise_idx, completed_migrate_thread_num>>
           /\ \E p \in WorkerPc \ {"raise", "end"} : wpc' = [wpc EXCEPT ![s] = p]
  <2>1. Finished' = Finished
    BY <1>1, FinishedSame DEF Pending, Sweeping
  <2> QED
    BY <1>0, <1>1, <2>1
<1>2. CASE MigrationBegin(s)
  <2>1. \A r \in Segments \ {s} : wpc'[r] \notin {"raise", "end"}
    BY <1>0, <1>2 DEF MigrationBegin, MutexInv
  <2>2. completed_migrate_thread_num'[s] = 0
    BY <1>0, <1>2 DEF MigrationBegin
  <2>3. Cardinality(Finished)' \in Nat
    <3>1. IsFiniteSet(Threads)
      BY FS_Interval, ThreadAssumption DEF Threads
    <3>2. Finished' \subseteq Threads
      BY DEF Finished
    <3> QED
      BY <3>1, <3>2, FS_Subset, FS_CardinalityType
  <2> QED
    BY <2>1, <2>2, <2>3
<1>3. CASE RaiseFlag(s)
  <2>1. raise_idx' = raise_idx + 1
    BY <1>3 DEF RaiseFlag
  <2>2. Finished \subseteq Finished'
    <3> SUFFICES ASSUME NEW t \in Finished PROVE t \in Finished'
      OBVIOUS
    <3>1. t \in Threads /\ t \in Nat /\ t < raise_idx /\ ~Pending(t)
      BY ThreadAssumption DEF Finished, Threads
    <3>2. t # raise_idx
      BY <1>0, <3>1
    <3>3. ~Pending(t)'
      BY <1>3, <3>1, <3>2, Zenon DEF RaiseFlag, Pending, Sweeping, TypeOK
    <3>4. t < raise_idx'
      BY <1>0, <2>1, <3>1
    <3> QED
      BY <3>1, <3>3, <3>4 DEF Finished
  <2>3. IsFiniteSet(Finished')
    <3>1. IsFiniteSet(Threads)
      BY FS_Interval, ThreadAssumption DEF Threads
    <3>2. Finished' \subseteq Threads
      BY DEF Finished
    <3> QED
      BY <3>1, <3>2, FS_Subset
  <2>4. /\ Cardinality(Finished) \in Nat
        /\ Cardinality(Finished') \in Nat
        /\ Cardinality(Finished) <= Cardinality(Finished')
    BY <2>2, <2>3, FS_Subset, FS_CardinalityType
  <2>5. \A r \in Segments : wpc'[r] \in {"raise", "end"} => wpc[r] \in {"raise", "end"}
    BY <1>0, <1>3 DEF RaiseFlag
  <2>6. completed_migrate_thread_num' = completed_migrate_thread_num
    BY <1>3 DEF RaiseFlag
  <2> QED
    BY <1>0, <2>4, <2>5, <2>6
<1>4. CASE MigrationEnd(s)
  <2>1. \A r \in Segments : wpc'[r] \notin {"raise", "end"}
    BY <1>0, <1>4 DEF MigrationEnd, MutexInv
  <2> QED
    BY <2>1
<1>5. ASSUME NEW k \in KeysOf(s),
             RedirectHit(s, k) \/ RedirectNew(s, k) \/ RedirectFull(s, k)
      PROVE CountInv'
  BY <1>1, <1>5 DEF RedirectHit, RedirectNew, RedirectFull, Allocate, WorkerPc
<1>6. CASE RedirectRetry(s) \/ WriteData(s) \/ WriteMeta(s) \/ MigrateLock(s)
  BY <1>1, <1>6 DEF RedirectRetry, WriteData, WriteMeta, MigrateLock, Allocate,
                    WorkerPc
<1> QED
  BY <1>2, <1>3, <1>4, <1>5, <1>6 DEF Redirect, WorkerStep

\* A thread that counts itself joins the finished ones.
LEMMA ThreadCounting ==
  ASSUME IInv, NEW t \in Threads, ThreadStep(t)
  PROVE  CountInv'
<1> USE DEF IInv, CountInv, workerVars, handshakeVars
<1>1. CASE ~ThreadCount(t)
  <2>1. \A u \in Threads : Pending(u)' <=> Pending(u)
    BY <1>1 DEF ThreadStep, ThreadSee, ThreadLoad, ThreadPop, ThreadSkip,
                ThreadRead, ThreadStore, ThreadClear, ThreadLower, Pending,
                Sweeping, TypeOK
  <2>2. UNCHANGED <<wpc, raise_idx, completed_migrate_thread_num>>
    BY <1>1 DEF ThreadStep, ThreadSee, ThreadLoad, ThreadPop, ThreadSkip,
                ThreadRead, ThreadStore, ThreadClear, ThreadLower
  <2> QED
    BY <2>1, <2>2, FinishedSame
<1>2. CASE ThreadCount(t)
  <2> DEFINE s == segment_idx[t]
  <2>1. /\ Pending(t) /\ ~Pending(t)' /\ raise_idx' = raise_idx
        /\ \A u \in Threads \ {t} : Pending(u)' <=> Pending(u)
    BY <1>2 DEF ThreadCount, Pending, Sweeping, TypeOK
  <2>2. t < raise_idx /\ migrate_mutex = s /\ s \in Segments
    BY <1>2, <2>1 DEF PendingInv, ThreadCount
  <2>3. Finished' = Finished \union {t} /\ t \notin Finished
    BY <2>1, <2>2 DEF Finished
  <2>4. /\ Cardinality(Finished) \in Nat
        /\ Cardinality(Finished') = Cardinality(Finished) + 1
    BY <2>3, FinishedFinite, FS_AddElement
  <2>5. /\ wpc' = wpc
        /\ completed_migrate_thread_num'[s] = completed_migrate_thread_num[s] + 1
        /\ \A r \in Segments \ {s} : wpc[r] \notin {"raise", "end"}
    BY <1>2, <2>2 DEF ThreadCount, TypeOK, MutexInv
  <2>6. completed_migrate_thread_num[s] \in Nat
    BY <2>2 DEF TypeOK
  <2> QED
    BY <2>4, <2>5, <2>6
<1> QED
  BY <1>1, <1>2

---------------------------------------------------------------------------
(* The theorems about the migration *)

\* The mutex discipline needs nothing of the heap ...
LEMMA InitMutex == Init => TypeOK /\ MutexInv
<1> SUFFICES ASSUME Init PROVE MutexInv
  BY InitType
<1> QED
  BY DEF Init, MutexInv, Segments, None

\* ... and is kept by every step together with the types.
LEMMA NextMutex == TypeOK /\ MutexInv /\ [Next]_vars => (TypeOK /\ MutexInv)'
<1> SUFFICES ASSUME TypeOK, MutexInv, [Next]_vars PROVE TypeOK' /\ MutexInv'
  OBVIOUS
<1>1. ASSUME NEW s \in Segments, Redirect(s) \/ WorkerStep(s)
      PROVE  TypeOK' /\ MutexInv'
  BY <1>1, WorkerType, WorkerMutex
<1>2. ASSUME NEW t \in Threads, ThreadStep(t) PROVE TypeOK' /\ MutexInv'
  BY <1>2, ThreadType, ThreadMutex
<1>3. CASE UNCHANGED vars
  BY <1>3 DEF TypeOK, MutexInv, vars, workerVars, handshakeVars, threadVars
<1> QED
  BY <1>1, <1>2, <1>3 DEF Next

\* The invariant holds at the start when no flag is up: a flag that malloc left
\* up is a pending thread outside any migration.
LEMMA InitInv ==
  ASSUME HeapFlags = ZeroHeap
  PROVE  Init => IInv
<1> SUFFICES ASSUME Init PROVE IInv
  OBVIOUS
<1>1. TypeOK /\ MutexInv
  BY InitMutex
<1>2. PendingInv
  BY DEF Init, ZeroHeap, PendingInv, Pending, Sweeping
<1>3. CountInv
  BY DEF Init, CountInv
<1> QED
  BY <1>1, <1>2, <1>3 DEF IInv

\* Every step keeps the invariant.
LEMMA NextInv == IInv /\ [Next]_vars => IInv'
<1> SUFFICES ASSUME IInv, [Next]_vars PROVE IInv'
  OBVIOUS
<1>1. TypeOK' /\ MutexInv'
  BY NextMutex DEF IInv
<1>2. PendingInv' /\ CountInv'
  <2>1. ASSUME NEW s \in Segments, Redirect(s) \/ WorkerStep(s)
        PROVE  PendingInv' /\ CountInv'
    BY <2>1, WorkerPending, WorkerCount
  <2>2. ASSUME NEW t \in Threads, ThreadStep(t)
        PROVE  PendingInv' /\ CountInv'
    BY <2>2, ThreadPending, ThreadCounting
  <2>3. CASE UNCHANGED vars
    <3> USE <2>3 DEF vars, workerVars, handshakeVars, threadVars
    <3>1. PendingInv'
      BY DEF IInv, PendingInv, Pending, Sweeping
    <3>2. Finished' = Finished
      BY FinishedSame DEF Pending, Sweeping
    <3>3. CountInv'
      BY <3>2 DEF IInv, CountInv
    <3> QED
      BY <3>1, <3>3
  <2> QED
    BY <2>1, <2>2, <2>3 DEF Next
<1> QED
  BY <1>1, <1>2 DEF IInv

\* Every variable of the protocol keeps its type: no allocation leaves the
\* segment, next_bit and the raise loop stay in range, and only entries of the
\* index reach a migration thread.
THEOREM TypeCorrect == Spec => []TypeOK
BY InitMutex, NextMutex, PTL DEF Spec

\* Mutual exclusion on an index that has no lock: a migration thread works on a
\* segment only while that segment's worker holds migrate_mutex and waits.  It
\* rests on flags that are down at the start, which the code leaves to malloc.
THEOREM Exclusion ==
  ASSUME HeapFlags = ZeroHeap
  PROVE  Spec => []MigrationExclusive
<1>1. IInv => MigrationExclusive
  <2> SUFFICES ASSUME IInv, NEW t \in Threads, Sweeping(t)
               PROVE  /\ migrate_mutex = SweptBy(t)
                      /\ wpc[SweptBy(t)] \in {"raise", "end"}
    BY DEF MigrationExclusive
  <2>1. Pending(t)
    BY DEF Pending
  <2> QED
    BY <2>1 DEF IInv, PendingInv, SweptBy, Sweeping
<1> QED
  BY <1>1, InitInv, NextInv, PTL DEF Spec

---------------------------------------------------------------------------
(* The inductive invariant of the index *)

\* The buckets thread t sweeps.
Stripe(t) == {b \in Buckets : b % ThreadNum = t}

\* Thread t works on an entry or looks for the next one.
InSweep(t) == tpc[t] \in {"sweep", "read", "store", "clear"}

\* The raised threads that swept their stripe of segment s to the end: a thread
\* that lost its flag to a late ThreadLower is not one of them unless another
\* has emptied its buckets.
Counted(s) ==
  {t \in Threads : /\ t < raise_idx
                   /\ ~Pending(t)
                   /\ \A b \in Stripe(t) : segs[s].hash_nodes[b] = <<>>}

\* Entries, bitmap and node pool of an index of segment s agree.
GoodIndex(g, s) ==
  /\ \A p \in Positions(g) : /\ mix_hash_hash(EntryAt(g, p).key) = p[1]
                             /\ EntryAt(g, p).key \in KeysOf(s)
                             /\ EntryAt(g, p).value \in g.bitmap
  /\ \A p, q \in Positions(g) : p # q =>
       /\ EntryAt(g, p).key # EntryAt(g, q).key
       /\ EntryAt(g, p).value # EntryAt(g, q).value
  /\ IsFiniteSet(Positions(g))
  /\ g.free_node_num + Cardinality(Positions(g)) = PerBlock

GoodInv == \A s \in Segments : GoodIndex(segs[s], s)

\* Outside a sweep of the segment its blocks in use are a prefix; a sweep
\* starts on a full one and leaves the bitmap alone.
PrefixInv ==
  \A s \in Segments :
    /\ wpc[s] \notin {"raise", "end"} => Prefix(segs[s])
    /\ wpc[s] \in {"lock", "begin"} => segs[s].used_block_num = PerBlock
    /\ wpc[s] \in {"raise", "end"} => segs[s].bitmap = Blocks

\* used_block_num counts the entries and those in a thread's hand.
UsedInv ==
  \A s \in Segments :
    segs[s].used_block_num =
      Cardinality(Positions(segs[s])) + Cardinality(Holding(s))

\* Behind a sweeping thread its stripe is empty.
StripeInv ==
  \A t \in Threads : InSweep(t) =>
    /\ migrate_idx[t] % ThreadNum = t
    /\ \A b \in Stripe(t) :
         b < migrate_idx[t] => segs[segment_idx[t]].hash_nodes[b] = <<>>

\* The count the holder waits for never exceeds the threads that swept.
CountedInv ==
  \A s \in Segments : wpc[s] \in {"raise", "end"} =>
    completed_migrate_thread_num[s] <= Cardinality(Counted(s))

\* A worker that writes or retries has a task of its own segment.
TaskInv == \A s \in Segments : wpc[s] # "poll" => task[s] \in KeysOf(s)

IndexInv ==
  /\ IInv /\ GoodInv /\ PrefixInv /\ UsedInv /\ StripeInv /\ CountedInv
  /\ TaskInv /\ DrainedBeforeReuse /\ WriteIsIndexed

---------------------------------------------------------------------------
(* Arithmetic of the stripes *)

\* Every bucket is in the stripe of exactly the thread of its residue.
LEMMA StripeOf ==
  ASSUME NEW b \in Buckets
  PROVE  b % ThreadNum \in Threads /\ b \in Stripe(b % ThreadNum)
  BY SegmentAssumption, ThreadAssumption DEF Buckets, Threads, Stripe

---------------------------------------------------------------------------
(* Positions *)

\* The positions of an index are its buckets' list positions.
LEMMA PositionsDef ==
  ASSUME NEW g \in Segment
  PROVE  Positions(g) = {p \in Buckets \X Nat : p[2] \in 1 .. Len(g.hash_nodes[p[1]])}
<1>1. \A b \in Buckets : g.hash_nodes[b] \in Seq(Entry)
  BY DEF Segment
<1>2. \A b \in Buckets : /\ DOMAIN g.hash_nodes[b] = 1 .. Len(g.hash_nodes[b])
                         /\ Len(g.hash_nodes[b]) \in Nat
  BY <1>1, LenProperties
<1> QED
  BY <1>2 DEF Positions

\* The same, for one position.
LEMMA PositionsOf ==
  ASSUME NEW g \in Segment
  PROVE  /\ Positions(g) \subseteq Buckets \X Nat
         /\ \A c \in Buckets : \A i \in Nat :
              <<c, i>> \in Positions(g) <=> i \in 1 .. Len(g.hash_nodes[c])
  BY PositionsDef

\* An entry of the index is an entry.
LEMMA EntryAtType ==
  ASSUME NEW g \in Segment, NEW p \in Positions(g)
  PROVE  EntryAt(g, p) \in Entry
<1>1. p[1] \in Buckets /\ p[2] \in 1 .. Len(g.hash_nodes[p[1]])
  BY PositionsDef
<1>2. g.hash_nodes[p[1]] \in Seq(Entry)
  BY <1>1 DEF Segment
<1> QED
  BY <1>1, <1>2, ElementOfSeq DEF EntryAt

\* An index whose buckets are all empty has no positions.
LEMMA EmptyPositions ==
  ASSUME NEW g \in Segment, \A b \in Buckets : g.hash_nodes[b] = <<>>
  PROVE  Positions(g) = {}
  BY DEF Positions

\* The head of bucket b was taken; the other buckets are the same.
Popped(g, h, b) ==
  /\ g.hash_nodes[b] # <<>>
  /\ h.hash_nodes[b] = Tail(g.hash_nodes[b])
  /\ \A c \in Buckets \ {b} : h.hash_nodes[c] = g.hash_nodes[c]

\* What that does to the positions and the entries at them.
PushShape(g, h, b, e) ==
  LET n == Len(g.hash_nodes[b])
  IN /\ n \in Nat
     /\ Positions(h) = Positions(g) \union {<<b, n + 1>>}
     /\ <<b, n + 1>> \notin Positions(g)
     /\ <<b, 1>> \in Positions(h)
     /\ EntryAt(h, <<b, 1>>) = e
     /\ \A i \in 1 .. n : EntryAt(h, <<b, i + 1>>) = EntryAt(g, <<b, i>>)
     /\ \A c \in Buckets \ {b} : h.hash_nodes[c] = g.hash_nodes[c]

\* mix_hash_put adds one position at the end of the bucket, where the last
\* entry moves; the new entry is at the head.
LEMMA PutPositions ==
  ASSUME NEW g \in Segment, NEW h \in Segment, NEW b \in Buckets, NEW e \in Entry,
         Pushed(g, h, b, e)
  PROVE  PushShape(g, h, b, e)
<1> DEFINE L == g.hash_nodes[b]
           M == h.hash_nodes[b]
           n == Len(L)
<1>1. g.hash_nodes \in [Buckets -> Seq(Entry)]
  BY DEF Segment
<1>2. L \in Seq(Entry) /\ n \in Nat /\ n = Len(L)
  BY <1>1, LenProperties
<1>3. M = <<e>> \o L
  BY DEF Pushed
<1>4. Len(M) = n + 1 /\ M[1] = e /\ \A i \in 1 .. n : M[i + 1] = L[i]
  <2>1. <<e>> \in Seq(Entry) /\ Len(<<e>>) = 1 /\ <<e>>[1] = e
    OBVIOUS
  <2> HIDE DEF n, L, M
  <2> QED
    BY <1>2, <1>3, <2>1, ConcatProperties
<1>5. \A c \in Buckets \ {b} : h.hash_nodes[c] = g.hash_nodes[c]
  BY DEF Pushed
<1>6. Positions(h) = Positions(g) \union {<<b, n + 1>>}
  <2>1. \A c \in Buckets : \A i \in Nat :
          i \in 1 .. Len(h.hash_nodes[c]) <=>
            i \in 1 .. Len(g.hash_nodes[c]) \/ (c = b /\ i = n + 1)
    <3> SUFFICES ASSUME NEW c \in Buckets, NEW i \in Nat
                 PROVE  i \in 1 .. Len(h.hash_nodes[c]) <=>
                          i \in 1 .. Len(g.hash_nodes[c]) \/ (c = b /\ i = n + 1)
      OBVIOUS
    <3>1. CASE c = b
      BY <1>2, <1>4, <3>1
    <3>2. CASE c # b
      BY <1>5, <3>2
    <3> QED
      BY <3>1, <3>2
  <2>2. n + 1 \in Nat
    BY <1>2
  <2> HIDE DEF n, L, M
  <2>3. \A c \in Buckets : \A i \in Nat :
          <<c, i>> \in Positions(h) <=>
            <<c, i>> \in Positions(g) \/ <<c, i>> = <<b, n + 1>>
    BY <2>1, <2>2, PositionsOf
  <2>4. /\ Positions(h) \subseteq Buckets \X Nat
        /\ Positions(g) \subseteq Buckets \X Nat
        /\ <<b, n + 1>> \in Buckets \X Nat
    BY <2>2, PositionsDef
  <2> QED
    BY <2>3, <2>4
<1>7. <<b, n + 1>> \notin Positions(g)
  BY <1>2, PositionsDef
<1>8. <<b, 1>> \in Positions(h)
  BY <1>2, <1>4, PositionsDef
<1> QED
  BY <1>2, <1>4, <1>5, <1>6, <1>7, <1>8 DEF EntryAt, PushShape

\* And the same for a pop.
PopShape(g, h, b) ==
  LET n == Len(g.hash_nodes[b])
  IN /\ n \in Nat \ {0}
     /\ Positions(h) = Positions(g) \ {<<b, n>>}
     /\ <<b, n>> \in Positions(g)
     /\ EntryAt(g, <<b, 1>>) = Head(g.hash_nodes[b])
     /\ \A i \in 1 .. n - 1 : EntryAt(h, <<b, i>>) = EntryAt(g, <<b, i + 1>>)
     /\ \A c \in Buckets \ {b} : h.hash_nodes[c] = g.hash_nodes[c]

\* Popping the head of a bucket takes its last position away; the entries
\* behind the head move up.
LEMMA PopPositions ==
  ASSUME NEW g \in Segment, NEW h \in Segment, NEW b \in Buckets,
         Popped(g, h, b)
  PROVE  PopShape(g, h, b)
<1> DEFINE L == g.hash_nodes[b]
           M == h.hash_nodes[b]
           n == Len(L)
<1>1. g.hash_nodes \in [Buckets -> Seq(Entry)]
  BY DEF Segment
<1>2. L \in Seq(Entry) /\ n \in Nat \ {0} /\ n = Len(L)
  <2>1. L \in Seq(Entry) /\ L # <<>> /\ n = Len(L)
    BY <1>1 DEF Popped
  <2> HIDE DEF L
  <2> QED
    BY <2>1, EmptySeq, LenProperties
<1>3. M = Tail(L)
  BY DEF Popped
<1>4. Len(M) = n - 1 /\ L[1] = Head(L) /\ \A i \in 1 .. n - 1 : M[i] = L[i + 1]
  <2>1. L # <<>>
    BY DEF Popped
  <2> HIDE DEF n, L, M
  <2> QED
    BY <1>2, <1>3, <2>1, HeadTailProperties
<1>5. \A c \in Buckets \ {b} : h.hash_nodes[c] = g.hash_nodes[c]
  BY DEF Popped
<1>6. Positions(h) = Positions(g) \ {<<b, n>>}
  <2>1. \A c \in Buckets : \A i \in Nat :
          i \in 1 .. Len(h.hash_nodes[c]) <=>
            i \in 1 .. Len(g.hash_nodes[c]) /\ ~(c = b /\ i = n)
    <3> SUFFICES ASSUME NEW c \in Buckets, NEW i \in Nat
                 PROVE  i \in 1 .. Len(h.hash_nodes[c]) <=>
                          i \in 1 .. Len(g.hash_nodes[c]) /\ ~(c = b /\ i = n)
      OBVIOUS
    <3>1. CASE c = b
      BY <1>2, <1>4, <3>1
    <3>2. CASE c # b
      BY <1>5, <3>2
    <3> QED
      BY <3>1, <3>2
  <2> HIDE DEF n, L, M
  <2>3. \A c \in Buckets : \A i \in Nat :
          <<c, i>> \in Positions(h) <=> <<c, i>> \in Positions(g) /\ <<c, i>> # <<b, n>>
    BY <2>1, PositionsOf
  <2>4. Positions(h) \subseteq Buckets \X Nat /\ Positions(g) \subseteq Buckets \X Nat
    BY PositionsOf
  <2> QED
    BY <2>3, <2>4
<1>7. <<b, n>> \in Positions(g)
  BY <1>2, PositionsDef
<1> QED
  BY <1>2, <1>4, <1>5, <1>6, <1>7 DEF EntryAt, PopShape

---------------------------------------------------------------------------
(* Index operations *)

\* mix_buffer_block_test finds nothing only if no entry has the key: an entry
\* of a consistent index has its bit set.
LEMMA AbsentKey ==
  ASSUME NEW g \in Segment, NEW s \in Segments, GoodIndex(g, s), NEW k \in Keys,
         mix_buffer_block_test(g, k) = None
  PROVE  \A p \in Positions(g) : EntryAt(g, p).key # k
<1> USE DEF mix_hash_hash
<1> DEFINE c == HashOf[k]
           L == g.hash_nodes[c]
           i == CHOOSE i \in Hits(g, k) : \A j \in Hits(g, k) : i <= j
<1>1. c \in Buckets /\ L \in Seq(Entry)
  BY SegmentAssumption DEF Buckets, Segment
<1>2. Hits(g, k) \in SUBSET Nat /\ Hits(g, k) \subseteq DOMAIN L
  BY <1>1 DEF Hits
<1>3. Hits(g, k) = {}
  <2> SUFFICES ASSUME Hits(g, k) # {} PROVE FALSE
    OBVIOUS
  <2>1. \E x \in Hits(g, k) : \A j \in Hits(g, k) : x <= j
    BY <1>2, LeastNat
  <2>2. i \in DOMAIN L
    BY <1>2, <2>1
  <2>3. mix_hash_get(g, k) = L[i].value
    BY Zenon DEF mix_hash_get
  <2> HIDE DEF i
  <2>4. i \in 1 .. Len(L)
    BY <1>1, <2>2, LenProperties
  <2>5. <<c, i>> \in Positions(g) /\ EntryAt(g, <<c, i>>) = L[i]
    BY <1>1, <2>4, PositionsOf DEF EntryAt
  <2>6. L[i].value \in g.bitmap /\ L[i].value \in Blocks
    BY <2>5, EntryAtType DEF GoodIndex, Entry
  <2>7. L[i].value % PerBlock = L[i].value /\ L[i].value # None
    BY <2>6, ModWrap, SegmentAssumption DEF Blocks, None
  <2> QED
    BY <2>3, <2>6, <2>7 DEF mix_buffer_block_test
<1> SUFFICES ASSUME NEW p \in Positions(g), EntryAt(g, p).key = k PROVE FALSE
  OBVIOUS
<1>4. p[1] = c
  BY DEF GoodIndex
<1>5. p[2] \in 1 .. Len(L)
  BY <1>4, PositionsDef
<1>6. p[2] \in DOMAIN L /\ L[p[2]].key = k
  BY <1>1, <1>4, <1>5, LenProperties DEF EntryAt
<1> QED
  BY <1>3, <1>6 DEF Hits

\* A block for a new key keeps the index consistent: the key and the block were
\* in no entry.
LEMMA PutGood ==
  ASSUME NEW g \in Segment, NEW h \in Segment, NEW s \in Segments, GoodIndex(g, s),
         NEW k \in KeysOf(s), \A p \in Positions(g) : EntryAt(g, p).key # k,
         NEW v \in Blocks, v \notin g.bitmap,
         Pushed(g, h, mix_hash_hash(k), [key |-> k, value |-> v]),
         h.free_node_num = g.free_node_num - 1,
         g.bitmap \subseteq h.bitmap, v \in h.bitmap
  PROVE  /\ GoodIndex(h, s)
         /\ Cardinality(Positions(h)) = Cardinality(Positions(g)) + 1
<1> USE DEF mix_hash_hash
<1> DEFINE b == HashOf[k]
           e == [key |-> k, value |-> v]
           Old(q) == IF q[1] = b THEN <<b, q[2] - 1>> ELSE q
<1>0. PICK n : n = Len(g.hash_nodes[b])
  OBVIOUS
<1>1. b \in Buckets /\ k \in Keys /\ e \in Entry
  BY SegmentAssumption DEF Buckets, KeysOf, Entry
<1>2. Pushed(g, h, b, e)
  OBVIOUS
<1> HIDE DEF b, e
<1>3. /\ n \in Nat
      /\ Positions(h) = Positions(g) \union {<<b, n + 1>>}
      /\ <<b, n + 1>> \notin Positions(g)
      /\ EntryAt(h, <<b, 1>>) = e
      /\ \A i \in 1 .. n : EntryAt(h, <<b, i + 1>>) = EntryAt(g, <<b, i>>)
      /\ \A c \in Buckets \ {b} : h.hash_nodes[c] = g.hash_nodes[c]
  BY <1>0, <1>1, <1>2, PutPositions DEF PushShape
<1>4. /\ Positions(h) \subseteq Buckets \X Nat
      /\ \A i \in Nat : <<b, i>> \in Positions(g) <=> i \in 1 .. n
  BY <1>0, <1>1, PositionsOf
<1>5. ASSUME NEW q \in Positions(h), q # <<b, 1>>
      PROVE  /\ Old(q) \in Positions(g) /\ Old(q)[1] = q[1]
             /\ EntryAt(h, q) = EntryAt(g, Old(q))
  <2>1. PICK c \in Buckets, i \in Nat : q = <<c, i>>
    BY <1>4
  <2>2. CASE c = b
    <3>1. i \in 2 .. n + 1
      BY <1>3, <1>4, <1>5, <2>1, <2>2
    <3>2. i - 1 \in 1 .. n /\ i = (i - 1) + 1
      BY <1>3, <3>1
    <3>3. EntryAt(h, <<b, i>>) = EntryAt(g, <<b, i - 1>>)
      BY <1>3, <3>2
    <3> QED
      BY <1>3, <1>4, <2>1, <2>2, <3>2, <3>3
  <2>3. CASE c # b
    BY <1>3, <2>1, <2>3 DEF EntryAt
  <2> QED
    BY <2>2, <2>3
<1>6. ASSUME NEW p \in Positions(h), NEW q \in Positions(h),
             p # q, p # <<b, 1>>, q # <<b, 1>>
      PROVE  Old(p) # Old(q)
  <2>1. PICK c \in Buckets, i \in Nat : p = <<c, i>>
    BY <1>4
  <2>2. PICK d \in Buckets, j \in Nat : q = <<d, j>>
    BY <1>4
  <2> QED
    BY <1>6, <2>1, <2>2
<1> HIDE DEF Old
<1>7. ASSUME NEW q \in Positions(h)
      PROVE  /\ mix_hash_hash(EntryAt(h, q).key) = q[1]
             /\ EntryAt(h, q).key \in KeysOf(s)
             /\ EntryAt(h, q).value \in h.bitmap
  <2>1. CASE q = <<b, 1>>
    BY <1>1, <1>3, <2>1 DEF b, e
  <2>2. CASE q # <<b, 1>>
    BY <1>5, <2>2 DEF GoodIndex
  <2> QED
    BY <2>1, <2>2
<1>8. ASSUME NEW q \in Positions(h), q # <<b, 1>>
      PROVE  EntryAt(h, q).key # k /\ EntryAt(h, q).value # v
  BY <1>5, <1>8 DEF GoodIndex
<1>9. EntryAt(h, <<b, 1>>).key = k /\ EntryAt(h, <<b, 1>>).value = v
  BY <1>3 DEF e
<1>10. ASSUME NEW p \in Positions(h), NEW q \in Positions(h), p # q
       PROVE  /\ EntryAt(h, p).key # EntryAt(h, q).key
              /\ EntryAt(h, p).value # EntryAt(h, q).value
  <2>1. CASE p = <<b, 1>> \/ q = <<b, 1>>
    BY <1>8, <1>9, <1>10, <2>1
  <2>2. CASE p # <<b, 1>> /\ q # <<b, 1>>
    BY <1>5, <1>6, <1>10, <2>2 DEF GoodIndex
  <2> QED
    BY <2>1, <2>2
<1>11. /\ IsFiniteSet(Positions(h))
       /\ Cardinality(Positions(h)) = Cardinality(Positions(g)) + 1
       /\ Cardinality(Positions(g)) \in Nat
  BY <1>3, FS_AddElement, FS_CardinalityType DEF GoodIndex
<1>12. h.free_node_num + Cardinality(Positions(h)) = PerBlock
  BY <1>11 DEF GoodIndex, Segment
<1> QED
  BY <1>7, <1>10, <1>11, <1>12 DEF GoodIndex

\* Popping the head of a bucket keeps the index consistent.
LEMMA PopGood ==
  ASSUME NEW g \in Segment, NEW h \in Segment, NEW s \in Segments, GoodIndex(g, s),
         NEW b \in Buckets, Popped(g, h, b),
         h.free_node_num = g.free_node_num + 1, h.bitmap = g.bitmap
  PROVE  /\ GoodIndex(h, s)
         /\ Cardinality(Positions(g)) = Cardinality(Positions(h)) + 1
<1>0. PICK n : n = Len(g.hash_nodes[b])
  OBVIOUS
<1> DEFINE Old(q) == IF q[1] = b THEN <<b, q[2] + 1>> ELSE q
<1>1. PopShape(g, h, b)
  BY PopPositions
<1>2. /\ n \in Nat \ {0}
      /\ Positions(h) = Positions(g) \ {<<b, n>>}
      /\ <<b, n>> \in Positions(g)
      /\ \A i \in 1 .. n - 1 : EntryAt(h, <<b, i>>) = EntryAt(g, <<b, i + 1>>)
      /\ \A c \in Buckets \ {b} : h.hash_nodes[c] = g.hash_nodes[c]
  BY <1>0, <1>1 DEF PopShape
<1>3. /\ Positions(g) \subseteq Buckets \X Nat
      /\ \A i \in Nat : <<b, i>> \in Positions(g) <=> i \in 1 .. n
  BY <1>0, PositionsOf
<1>4. ASSUME NEW q \in Positions(h)
      PROVE  /\ Old(q) \in Positions(g) /\ Old(q)[1] = q[1]
             /\ EntryAt(h, q) = EntryAt(g, Old(q))
  <2>1. PICK c \in Buckets, i \in Nat : q = <<c, i>>
    BY <1>2, <1>3
  <2>2. CASE c = b
    <3>1. i \in 1 .. n - 1 /\ i + 1 \in 1 .. n
      BY <1>2, <1>3, <2>1, <2>2
    <3> QED
      BY <1>2, <1>3, <2>1, <2>2, <3>1
  <2>3. CASE c # b
    BY <1>2, <2>1, <2>3 DEF EntryAt
  <2> QED
    BY <2>2, <2>3
<1>5. ASSUME NEW p \in Positions(h), NEW q \in Positions(h), p # q
      PROVE  Old(p) # Old(q)
  <2>1. PICK c \in Buckets, i \in Nat : p = <<c, i>>
    BY <1>2, <1>3
  <2>2. PICK d \in Buckets, j \in Nat : q = <<d, j>>
    BY <1>2, <1>3
  <2> QED
    BY <1>5, <2>1, <2>2
<1> HIDE DEF Old
<1>6. ASSUME NEW q \in Positions(h)
      PROVE  /\ mix_hash_hash(EntryAt(h, q).key) = q[1]
             /\ EntryAt(h, q).key \in KeysOf(s)
             /\ EntryAt(h, q).value \in h.bitmap
  BY <1>4 DEF GoodIndex
<1>7. ASSUME NEW p \in Positions(h), NEW q \in Positions(h), p # q
      PROVE  /\ EntryAt(h, p).key # EntryAt(h, q).key
             /\ EntryAt(h, p).value # EntryAt(h, q).value
  BY <1>4, <1>5, <1>7 DEF GoodIndex
<1>8. /\ IsFiniteSet(Positions(h))
      /\ Cardinality(Positions(h)) = Cardinality(Positions(g)) - 1
      /\ Cardinality(Positions(g)) \in Nat
  BY <1>2, FS_RemoveElement, FS_CardinalityType DEF GoodIndex
<1>9. h.free_node_num + Cardinality(Positions(h)) = PerBlock
  BY <1>8 DEF GoodIndex, Segment
<1> QED
  BY <1>6, <1>7, <1>8, <1>9 DEF GoodIndex

---------------------------------------------------------------------------
(* What a step leaves alone *)

\* The part of the invariant about the index, without the one about the
\* handshake, which NextInv keeps.
IndexPart ==
  /\ GoodInv /\ PrefixInv /\ UsedInv /\ StripeInv /\ CountedInv
  /\ TaskInv /\ DrainedBeforeReuse /\ WriteIsIndexed

\* No thread sweeps the segment of a worker outside its own migration.
LEMMA Apart ==
  ASSUME IndexInv, NEW s \in Segments, wpc[s] \notin {"raise", "end"}
  PROVE  /\ \A t \in Threads : InSweep(t) => segment_idx[t] # s
         /\ Holding(s) = {}
<1>1. ASSUME NEW t \in Threads, InSweep(t) PROVE segment_idx[t] # s
  <2>1. Pending(t)
    BY <1>1 DEF InSweep, Pending, Sweeping
  <2> QED
    BY <1>1, <2>1 DEF IndexInv, IInv, PendingInv, InSweep
<1> QED
  BY <1>1 DEF Holding, InSweep

\* The swept threads of a segment depend on its buckets and on who is pending.
LEMMA CountedSame ==
  ASSUME NEW s \in Segments, raise_idx' = raise_idx,
         \A t \in Threads : Pending(t)' <=> Pending(t),
         segs'[s].hash_nodes = segs[s].hash_nodes
  PROVE  Counted(s)' = Counted(s)
<1>1. \A t \in Threads : t < raise_idx' <=> t < raise_idx
  OBVIOUS
<1> QED
  BY <1>1 DEF Counted, Stripe

\* The swept threads are threads.
LEMMA CountedFinite ==
  ASSUME NEW s \in Segments
  PROVE  /\ IsFiniteSet(Counted(s))
         /\ Cardinality(Counted(s)) \in Nat
         /\ Cardinality(Counted(s)) <= ThreadNum
         /\ Cardinality(Counted(s)) = ThreadNum => Counted(s) = Threads
<1>1. IsFiniteSet(Threads) /\ Cardinality(Threads) = ThreadNum
  BY FS_Interval, ThreadAssumption DEF Threads
<1>2. Counted(s) \subseteq Threads
  BY DEF Counted
<1> QED
  BY <1>1, <1>2, FS_Subset, FS_CardinalityType, ThreadAssumption

\* The threads that hold an entry are threads.
LEMMA HoldingFinite ==
  ASSUME NEW s \in Segments
  PROVE  IsFiniteSet(Holding(s)) /\ Cardinality(Holding(s)) \in Nat
<1>1. IsFiniteSet(Threads)
  BY FS_Interval, ThreadAssumption DEF Threads
<1>2. Holding(s) \subseteq Threads
  BY DEF Holding
<1> QED
  BY <1>1, <1>2, FS_Subset, FS_CardinalityType

\* A new segment, as it also is after a migration.
LEMMA InitSegment ==
  ASSUME NEW s \in Segments
  PROVE  /\ GoodIndex(mix_segment_init, s) /\ Prefix(mix_segment_init)
         /\ Positions(mix_segment_init) = {}
         /\ mix_segment_init.used_block_num = 0
<1>1. Positions(mix_segment_init) = {}
  BY EmptyPositions, SegmentInitType DEF mix_segment_init
<1>2. Prefix(mix_segment_init)
  BY SegmentAssumption DEF Prefix, mix_segment_init
<1>3. mix_segment_init.free_node_num = PerBlock /\ mix_segment_init.used_block_num = 0
  BY DEF mix_segment_init
<1>4. IsFiniteSet({}) /\ Cardinality({}) = 0 /\ PerBlock + 0 = PerBlock
  BY FS_EmptySet, SegmentAssumption
<1> QED
  BY <1>1, <1>2, <1>3, <1>4 DEF GoodIndex

---------------------------------------------------------------------------
(* The steps of a worker *)

\* A block for a new key, for RedirectNew and RedirectRetry.
LEMMA AllocateIndex ==
  ASSUME IndexInv, NEW s \in Segments, NEW k \in KeysOf(s),
         wpc[s] \in {"poll", "retry"}, ~SegmentFull(segs[s]),
         \A p \in Positions(segs[s]) : EntryAt(segs[s], p).key # k,
         Allocate(s, k), task' = [task EXCEPT ![s] = k],
         UNCHANGED <<handshakeVars, migration, completed_migrate_thread_num,
                     threadVars>>
  PROVE  IndexPart'
<1> USE DEF IndexInv, handshakeVars, threadVars
<1> DEFINE g == segs[s]
           v == FoundBit(g)
           h == mix_write_redirect_blockmeta(mix_bitmap_next_zero_bit(g), s, k, v)
<1>0. /\ segs \in [Segments -> Segment] /\ wpc \in [Segments -> WorkerPc]
      /\ offset \in [Segments -> Blocks \union {None}]
      /\ task \in [Segments -> Keys \union {None}]
  BY DEF IInv, TypeOK
<1>1. g \in Segment /\ Prefix(g) /\ k \in Keys
  BY <1>0 DEF PrefixInv, KeysOf
<1>2. /\ v \in Blocks /\ v \notin g.bitmap
      /\ h \in Segment /\ Prefix(h)
      /\ h.used_block_num = g.used_block_num + 1
      /\ h.free_node_num = g.free_node_num - 1
      /\ g.bitmap \subseteq h.bitmap /\ v \in h.bitmap
      /\ Pushed(g, h, mix_hash_hash(k), [key |-> k, value |-> v])
  BY <1>1, AllocateEffect
<1>3. /\ segs' = [segs EXCEPT ![s] = h]
      /\ offset' = [offset EXCEPT ![s] = v]
      /\ wpc' = [wpc EXCEPT ![s] = "data"]
  BY DEF Allocate
<1>4. GoodIndex(g, s)
  BY DEF GoodInv
<1> HIDE DEF g, v, h
<1>5. GoodIndex(h, s) /\ Cardinality(Positions(h)) = Cardinality(Positions(g)) + 1
  BY <1>1, <1>2, <1>4, PutGood DEF g
<1>6. mix_buffer_block_test(h, k) = v
  BY <1>1, <1>2, FoundAfterPut
<1>7. segs'[s] = h /\ \A r \in Segments \ {s} : segs'[r] = segs[r]
  BY <1>0, <1>3
<1>8. wpc'[s] = "data" /\ \A r \in Segments \ {s} : wpc'[r] = wpc[r]
  BY <1>0, <1>3
<1>9. /\ \A t \in Threads : InSweep(t) => segment_idx[t] # s
      /\ Holding(s) = {}
  BY Apart
<1>10. \A r \in Segments : Holding(r)' = Holding(r)
  BY DEF Holding
<1>11. GoodInv'
  BY <1>5, <1>7 DEF GoodInv
<1>12. PrefixInv'
  BY <1>2, <1>7, <1>8 DEF PrefixInv
<1>13. UsedInv'
  <2>1. h.used_block_num = Cardinality(Positions(h)) + Cardinality(Holding(s))
    <3>1. g.used_block_num = Cardinality(Positions(g)) + Cardinality(Holding(s))
      BY DEF UsedInv, g
    <3>2. Cardinality(Positions(g)) \in Nat /\ Cardinality(Holding(s)) \in Nat
      BY <1>4, FS_CardinalityType, HoldingFinite DEF GoodIndex
    <3> QED
      BY <1>2, <1>5, <3>1, <3>2
  <2> SUFFICES ASSUME NEW r \in Segments
               PROVE segs'[r].used_block_num =
                       Cardinality(Positions(segs'[r])) + Cardinality(Holding(r)')
    BY DEF UsedInv
  <2> QED
    BY <1>7, <1>10, <2>1 DEF UsedInv
<1>14. StripeInv'
  <2> SUFFICES ASSUME NEW t \in Threads, InSweep(t)'
               PROVE  /\ migrate_idx'[t] % ThreadNum = t
                      /\ \A b \in Stripe(t) : b < migrate_idx'[t] =>
                           segs'[segment_idx'[t]].hash_nodes[b] = <<>>
    BY DEF StripeInv, Stripe
  <2>1. InSweep(t) /\ segment_idx[t] \in Segments \ {s}
    BY <1>9 DEF InSweep, IInv, TypeOK
  <2> QED
    BY <1>7, <2>1 DEF StripeInv
<1>15. CountedInv'
  <2> SUFFICES ASSUME NEW r \in Segments, wpc'[r] \in {"raise", "end"}
               PROVE  completed_migrate_thread_num'[r] <= Cardinality(Counted(r)')
    BY DEF CountedInv
  <2>1. r # s /\ wpc[r] \in {"raise", "end"}
    BY <1>8
  <2>2. Counted(r)' = Counted(r)
    BY <1>7, <2>1, CountedSame DEF Pending, Sweeping
  <2> QED
    BY <2>1, <2>2 DEF CountedInv
<1>16. TaskInv'
  BY <1>0, <1>8 DEF TaskInv
<1>17. DrainedBeforeReuse'
  BY <1>7, <1>8, <1>10 DEF DrainedBeforeReuse
<1>18. WriteIsIndexed'
  <2> SUFFICES ASSUME NEW r \in Segments, wpc'[r] \in {"data", "meta"}
               PROVE  mix_buffer_block_test(segs'[r], task'[r]) = offset'[r]
    BY DEF WriteIsIndexed
  <2>1. CASE r = s
    BY <1>0, <1>3, <1>6, <1>7, <2>1
  <2>2. CASE r # s
    BY <1>0, <1>3, <1>7, <1>8, <2>2 DEF WriteIsIndexed
  <2> QED
    BY <2>1, <2>2
<1> QED
  BY <1>11, <1>12, <1>13, <1>14, <1>15, <1>16, <1>17, <1>18 DEF IndexPart

\* A step of a worker that moves its own program counter only.
LEMMA QuietIndex ==
  ASSUME IndexInv, NEW s \in Segments, wpc[s] \notin {"raise", "end"},
         NEW p \in WorkerPc \ {"raise", "end", "retry"},
         wpc' = [wpc EXCEPT ![s] = p],
         p \in {"lock", "begin"} => segs[s].used_block_num = PerBlock,
         p # "poll" => task'[s] \in KeysOf(s),
         p \in {"data", "meta"} =>
           mix_buffer_block_test(segs[s], task'[s]) = offset'[s],
         \A r \in Segments \ {s} : task'[r] = task[r] /\ offset'[r] = offset[r],
         UNCHANGED <<segs, raise_idx, migration, completed_migrate_thread_num,
                     threadVars>>
  PROVE  IndexPart'
<1> USE DEF IndexInv, threadVars
<1>1. wpc'[s] = p /\ \A r \in Segments \ {s} : wpc'[r] = wpc[r]
  BY DEF IInv, TypeOK
<1>2. \A r \in Segments : Holding(r)' = Holding(r)
  BY DEF Holding
<1>3. GoodInv'
  BY DEF GoodInv
<1>4. PrefixInv'
  BY <1>1 DEF PrefixInv
<1>5. UsedInv'
  BY <1>2 DEF UsedInv
<1>6. StripeInv'
  BY DEF StripeInv, Stripe, InSweep
<1>7. CountedInv'
  <2>1. \A r \in Segments : Counted(r)' = Counted(r)
    BY CountedSame DEF Pending, Sweeping
  <2> QED
    BY <1>1, <2>1 DEF CountedInv
<1>8. TaskInv'
  BY <1>1 DEF TaskInv
<1>9. DrainedBeforeReuse'
  BY <1>1, <1>2 DEF DrainedBeforeReuse
<1>10. WriteIsIndexed'
  BY <1>1 DEF WriteIsIndexed
<1> QED
  BY <1>3, <1>4, <1>5, <1>6, <1>7, <1>8, <1>9, <1>10 DEF IndexPart

\* The start of a migration: the full segment's blocks are all in use.
LEMMA BeginIndex ==
  ASSUME IndexInv, NEW s \in Segments, MigrationBegin(s)
  PROVE  IndexPart'
<1> USE DEF IndexInv, threadVars
<1>0. PerBlock \in Nat
  BY SegmentAssumption
<1>1. wpc'[s] = "raise" /\ \A r \in Segments \ {s} : wpc'[r] = wpc[r]
  BY DEF IInv, TypeOK, MigrationBegin
<1>2. \A r \in Segments : Holding(r)' = Holding(r)
  BY DEF Holding, MigrationBegin
<1>3. GoodInv'
  BY DEF GoodInv, MigrationBegin
<1>4. PrefixInv'
  <2>1. segs[s].bitmap = Blocks
    BY <1>0 DEF PrefixInv, Prefix, Blocks, MigrationBegin
  <2> QED
    BY <1>1, <2>1 DEF PrefixInv, MigrationBegin
<1>5. UsedInv'
  BY <1>2 DEF UsedInv, MigrationBegin
<1>6. StripeInv'
  BY DEF StripeInv, Stripe, InSweep, MigrationBegin
<1>7. CountedInv'
  <2>1. \A r \in Segments \ {s} : wpc'[r] \notin {"raise", "end"}
    BY <1>1 DEF IInv, MutexInv, MigrationBegin
  <2>2. completed_migrate_thread_num'[s] = 0
    BY DEF IInv, TypeOK, MigrationBegin
  <2>3. Cardinality(Counted(s)') \in Nat
    <3>1. IsFiniteSet(Threads)
      BY FS_Interval, ThreadAssumption DEF Threads
    <3>2. Counted(s)' \subseteq Threads
      BY DEF Counted
    <3> QED
      BY <3>1, <3>2, FS_Subset, FS_CardinalityType
  <2> QED
    BY <2>1, <2>2, <2>3 DEF CountedInv
<1>8. TaskInv'
  BY <1>1 DEF TaskInv, MigrationBegin
<1>9. DrainedBeforeReuse'
  BY <1>1, <1>2 DEF DrainedBeforeReuse, MigrationBegin
<1>10. WriteIsIndexed'
  BY <1>1 DEF WriteIsIndexed, MigrationBegin
<1> QED
  BY <1>3, <1>4, <1>5, <1>6, <1>7, <1>8, <1>9, <1>10 DEF IndexPart

\* A flag goes up: a thread that swept stays among those that did.
LEMMA RaiseIndex ==
  ASSUME IndexInv, NEW s \in Segments, RaiseFlag(s)
  PROVE  IndexPart'
<1> USE DEF IndexInv, threadVars
<1>1. /\ wpc[s] = "raise" /\ wpc'[s] \in {"raise", "end"}
      /\ \A r \in Segments \ {s} : wpc'[r] = wpc[r]
  BY DEF IInv, TypeOK, RaiseFlag
<1>2. \A r \in Segments : Holding(r)' = Holding(r)
  BY DEF Holding, RaiseFlag
<1>3. GoodInv'
  BY DEF GoodInv, RaiseFlag
<1>4. PrefixInv'
  BY <1>1 DEF PrefixInv, RaiseFlag
<1>5. UsedInv'
  BY <1>2 DEF UsedInv, RaiseFlag
<1>6. StripeInv'
  BY DEF StripeInv, Stripe, InSweep, RaiseFlag
<1>7. CountedInv'
  <2>0. raise_idx \in Nat /\ raise_idx' = raise_idx + 1
    BY ThreadAssumption DEF IInv, TypeOK, RaiseFlag
  <2>1. \A r \in Segments : wpc'[r] \in {"raise", "end"} => r = s
    BY <1>1 DEF IInv, MutexInv
  <2>2. Counted(s) \subseteq Counted(s)'
    <3> SUFFICES ASSUME NEW t \in Counted(s) PROVE t \in Counted(s)'
      OBVIOUS
    <3>1. /\ t \in Threads /\ t \in Nat /\ t < raise_idx /\ ~Pending(t)
          /\ \A b \in Stripe(t) : segs[s].hash_nodes[b] = <<>>
      BY ThreadAssumption DEF Counted, Threads
    <3>2. t # raise_idx
      BY <2>0, <3>1
    <3>3. ~Pending(t)'
      BY <3>1, <3>2, Zenon DEF RaiseFlag, Pending, Sweeping, IInv, TypeOK
    <3>4. t < raise_idx'
      BY <2>0, <3>1
    <3>5. segs' = segs
      BY DEF RaiseFlag
    <3> QED
      BY <3>1, <3>3, <3>4, <3>5 DEF Counted, Stripe
  <2>3. IsFiniteSet(Counted(s)')
    <3>1. IsFiniteSet(Threads)
      BY FS_Interval, ThreadAssumption DEF Threads
    <3>2. Counted(s)' \subseteq Threads
      BY DEF Counted
    <3> QED
      BY <3>1, <3>2, FS_Subset
  <2>4. /\ Cardinality(Counted(s)) \in Nat
        /\ Cardinality(Counted(s)') \in Nat
        /\ Cardinality(Counted(s)) <= Cardinality(Counted(s)')
    BY <2>2, <2>3, FS_Subset, FS_CardinalityType
  <2>5. /\ completed_migrate_thread_num'[s] <= Cardinality(Counted(s))
        /\ completed_migrate_thread_num'[s] \in Nat
    BY <1>1 DEF CountedInv, RaiseFlag, IInv, TypeOK
  <2>6. completed_migrate_thread_num'[s] <= Cardinality(Counted(s)')
    BY <2>4, <2>5
  <2> QED
    BY <2>1, <2>6 DEF CountedInv
<1>8. TaskInv'
  BY <1>1 DEF TaskInv, RaiseFlag
<1>9. DrainedBeforeReuse'
  BY <1>1, <1>2 DEF DrainedBeforeReuse, RaiseFlag
<1>10. WriteIsIndexed'
  BY <1>1 DEF WriteIsIndexed, RaiseFlag
<1> QED
  BY <1>3, <1>4, <1>5, <1>6, <1>7, <1>8, <1>9, <1>10 DEF IndexPart

\* When the wait of mix_segment_migration_end is over, every stripe of the
\* segment has been swept and no thread holds an entry.
LEMMA DrainedAtEnd ==
  ASSUME IndexInv, NEW s \in Segments, MigrationEnd(s)
  PROVE  /\ Holding(s) = {}
         /\ mix_bitmap_clear(segs[s]) = mix_segment_init
<1> USE DEF IndexInv
<1> DEFINE g == segs[s]
<1>1. g \in Segment /\ completed_migrate_thread_num[s] \in Nat
  BY DEF IInv, TypeOK
<1>2. Counted(s) = Threads
  <2>1. completed_migrate_thread_num[s] <= Cardinality(Counted(s))
    BY DEF CountedInv, MigrationEnd
  <2> QED
    BY <1>1, <2>1, CountedFinite, ThreadAssumption DEF MigrationEnd
<1>3. Holding(s) = {}
  BY <1>2 DEF Counted, Holding, Pending, Sweeping
<1>4. \A b \in Buckets : g.hash_nodes[b] = <<>>
  BY <1>2, StripeOf DEF Counted
<1>5. Positions(g) = {}
  BY <1>1, <1>4, EmptyPositions
<1>6. g.used_block_num = 0 /\ g.free_node_num = PerBlock
  <2>1. Cardinality(Positions(g)) = 0 /\ Cardinality(Holding(s)) = 0
    BY <1>3, <1>5, FS_EmptySet
  <2>2. g.used_block_num \in Int /\ g.free_node_num \in Int
    BY <1>1 DEF Segment
  <2> QED
    BY <2>1, <2>2 DEF UsedInv, GoodInv, GoodIndex
<1>7. g.hash_nodes = [b \in Buckets |-> <<>>]
  BY <1>1, <1>4 DEF Segment
<1> HIDE DEF g
<1>8. mix_bitmap_clear(g) = mix_segment_init
  <2> DEFINE none == [b \in Buckets |-> <<>>]
  <2> HIDE DEF none
  <2>1. g.hash_nodes = none
    BY <1>7 DEF none
  <2>2. mix_segment_init = [hash_nodes |-> none, free_node_num |-> PerBlock,
                            bitmap |-> {}, next_bit |-> 0, used_block_num |-> 0]
    BY DEF mix_segment_init, none
  <2> DEFINE h == mix_bitmap_clear(g)
  <2>3. h \in Segment
    BY <1>1, BitmapClearType
  <2>4. /\ h.hash_nodes = g.hash_nodes /\ h.free_node_num = g.free_node_num
        /\ h.bitmap = {} /\ h.next_bit = 0 /\ h.used_block_num = g.used_block_num
    BY <1>1 DEF mix_bitmap_clear, Segment
  <2> HIDE DEF h
  <2>5. h = [hash_nodes |-> h.hash_nodes, free_node_num |-> h.free_node_num,
             bitmap |-> h.bitmap, next_bit |-> h.next_bit,
             used_block_num |-> h.used_block_num]
    BY <2>3 DEF Segment
  <2>6. h = mix_segment_init
    BY <1>6, <2>1, <2>2, <2>4, <2>5
  <2> QED
    BY <2>6 DEF h
<1> QED
  BY <1>3, <1>8 DEF g

\* ... so the segment the worker goes on with is a new one.
LEMMA EndIndex ==
  ASSUME IndexInv, NEW s \in Segments, MigrationEnd(s)
  PROVE  IndexPart'
<1> USE DEF IndexInv, threadVars
<1>0. segs \in [Segments -> Segment] /\ wpc \in [Segments -> WorkerPc]
  BY DEF IInv, TypeOK
<1>1. wpc'[s] = "retry" /\ \A r \in Segments \ {s} : wpc'[r] = wpc[r]
  BY <1>0 DEF MigrationEnd
<1>2. segs'[s] = mix_segment_init /\ \A r \in Segments \ {s} : segs'[r] = segs[r]
  BY <1>0, DrainedAtEnd DEF MigrationEnd
<1>3. /\ \A r \in Segments : Holding(r)' = Holding(r)
      /\ Holding(s) = {}
  BY DrainedAtEnd DEF Holding, MigrationEnd
<1>4. GoodInv'
  BY <1>2, InitSegment DEF GoodInv
<1>5. PrefixInv'
  BY <1>1, <1>2, InitSegment DEF PrefixInv
<1>6. UsedInv'
  <2>1. mix_segment_init.used_block_num =
          Cardinality(Positions(mix_segment_init)) + Cardinality(Holding(s))
    BY <1>3, InitSegment, FS_EmptySet
  <2> QED
    BY <1>2, <1>3, <2>1 DEF UsedInv
<1>7. StripeInv'
  <2>1. \A t \in Threads : ~InSweep(t)'
    BY NobodyPendingAtEnd DEF InSweep, Pending, Sweeping, MigrationEnd
  <2> QED
    BY <2>1 DEF StripeInv
<1>8. CountedInv'
  <2>1. \A r \in Segments : wpc'[r] \notin {"raise", "end"}
    BY <1>1 DEF IInv, MutexInv, MigrationEnd
  <2> QED
    BY <2>1 DEF CountedInv
<1>9. TaskInv'
  BY <1>1 DEF TaskInv, MigrationEnd
<1>10. DrainedBeforeReuse'
  BY <1>1, <1>2, <1>3 DEF DrainedBeforeReuse
<1>11. WriteIsIndexed'
  BY <1>1, <1>2 DEF WriteIsIndexed, MigrationEnd
<1> QED
  BY <1>4, <1>5, <1>6, <1>7, <1>8, <1>9, <1>10, <1>11 DEF IndexPart

\* redirect_write and mix_migrate_segment keep the index consistent.
LEMMA WorkerIndex ==
  ASSUME IndexInv, NEW s \in Segments, Redirect(s) \/ WorkerStep(s)
  PROVE  IndexPart'
<1> USE DEF workerVars, handshakeVars, threadVars
<1>0. /\ TypeOK /\ GoodInv /\ PrefixInv /\ TaskInv /\ DrainedBeforeReuse
      /\ WriteIsIndexed
  BY DEF IndexInv, IInv
<1>1. ASSUME NEW k \in KeysOf(s), RedirectHit(s, k) PROVE IndexPart'
  BY <1>0, <1>1, QuietIndex DEF RedirectHit, TypeOK, WorkerPc
<1>2. ASSUME NEW k \in KeysOf(s), RedirectNew(s, k) PROVE IndexPart'
  <2>1. k \in Keys /\ segs[s] \in Segment /\ GoodIndex(segs[s], s)
    BY <1>0 DEF KeysOf, TypeOK, GoodInv
  <2>2. \A p \in Positions(segs[s]) : EntryAt(segs[s], p).key # k
    BY <1>2, <2>1, AbsentKey DEF RedirectNew
  <2> QED
    BY <1>2, <2>2, AllocateIndex DEF RedirectNew
<1>3. ASSUME NEW k \in KeysOf(s), RedirectFull(s, k) PROVE IndexPart'
  BY <1>0, <1>3, QuietIndex DEF RedirectFull, TypeOK, WorkerPc, SegmentFull
<1>4. CASE RedirectRetry(s)
  <2>1. wpc[s] = "retry" /\ task[s] \in KeysOf(s)
    BY <1>0, <1>4 DEF RedirectRetry, TaskInv
  <2>2. Positions(segs[s]) = {}
    BY <1>0, <2>1, InitSegment DEF DrainedBeforeReuse
  <2>3. task' = [task EXCEPT ![s] = task[s]]
    BY <1>0, <1>4 DEF RedirectRetry, TypeOK
  <2> QED
    BY <1>4, <2>1, <2>2, <2>3, AllocateIndex DEF RedirectRetry
<1>5. CASE WriteData(s)
  BY <1>0, <1>5, QuietIndex DEF WriteData, WorkerPc, WriteIsIndexed, TaskInv
<1>6. CASE WriteMeta(s)
  BY <1>0, <1>6, QuietIndex DEF WriteMeta, TypeOK, WorkerPc
<1>7. CASE MigrateLock(s)
  BY <1>0, <1>7, QuietIndex DEF MigrateLock, WorkerPc, PrefixInv, TaskInv
<1>8. CASE MigrationBegin(s)
  BY <1>8, BeginIndex
<1>9. CASE RaiseFlag(s)
  BY <1>9, RaiseIndex
<1>10. CASE MigrationEnd(s)
  BY <1>10, EndIndex
<1> QED
  BY <1>1, <1>2, <1>3, <1>4, <1>5, <1>6, <1>7, <1>8, <1>9, <1>10
  DEF Redirect, WorkerStep

---------------------------------------------------------------------------
(* The steps of a migration thread *)

\* A thread's step leaves every segment alone whose worker is not waiting for
\* its migration, so what the workers rely on stays.
LEMMA ThreadFrame ==
  ASSUME IndexInv, UNCHANGED workerVars,
         \A r \in Segments : wpc[r] \notin {"raise", "end"} =>
           segs'[r] = segs[r] /\ Holding(r)' = Holding(r),
         \A r \in Segments : segs'[r].bitmap = segs[r].bitmap,
         GoodInv', UsedInv', StripeInv', CountedInv'
  PROVE  IndexPart'
<1> USE DEF IndexInv, workerVars
<1>1. PrefixInv'
  BY DEF PrefixInv
<1>2. TaskInv'
  BY DEF TaskInv
<1>3. DrainedBeforeReuse'
  BY DEF DrainedBeforeReuse
<1>4. WriteIsIndexed'
  BY DEF WriteIsIndexed
<1> QED
  BY <1>1, <1>2, <1>3, <1>4 DEF IndexPart

\* A step of a thread that does not touch the index or the count.
LEMMA ThreadQuiet ==
  ASSUME IndexInv, UNCHANGED <<segs, workerVars, raise_idx,
                               completed_migrate_thread_num>>,
         \A r \in Segments : Holding(r)' = Holding(r),
         \A t \in Threads : Pending(t)' <=> Pending(t),
         StripeInv'
  PROVE  IndexPart'
<1> USE DEF IndexInv, workerVars
<1>1. GoodInv'
  BY DEF GoodInv
<1>2. UsedInv'
  BY DEF UsedInv
<1>3. CountedInv'
  <2>1. \A r \in Segments : Counted(r)' = Counted(r)
    BY CountedSame
  <2> QED
    BY <2>1 DEF CountedInv
<1> QED
  BY <1>1, <1>2, <1>3, ThreadFrame

\* A thread starts at the first bucket of its stripe.
LEMMA LoadIndex ==
  ASSUME IndexInv, NEW t \in Threads, ThreadLoad(t)
  PROVE  IndexPart'
<1> USE DEF IndexInv, IInv, TypeOK, workerVars
<1>1. \A r \in Segments : Holding(r)' = Holding(r)
  BY DEF ThreadLoad, Holding
<1>2. \A u \in Threads : Pending(u)' <=> Pending(u)
  BY DEF ThreadLoad, Pending, Sweeping
<1>3. StripeInv'
  <2> SUFFICES ASSUME NEW u \in Threads, InSweep(u)'
               PROVE  /\ migrate_idx'[u] % ThreadNum = u
                      /\ \A b \in Stripe(u) : b < migrate_idx'[u] =>
                           segs'[segment_idx'[u]].hash_nodes[b] = <<>>
    BY DEF StripeInv, Stripe
  <2>1. CASE u = t
    <3>1. migrate_idx'[t] = t
      BY DEF ThreadLoad
    <3>2. t \in 0 .. ThreadNum - 1 /\ ThreadNum \in Nat \ {0}
      BY ThreadAssumption DEF Threads
    <3>3. t % ThreadNum = t
      BY <3>2, ModWrap
    <3>4. ASSUME NEW b \in Stripe(t), b < t PROVE FALSE
      <4>1. b \in 0 .. ThreadNum - 1 /\ b % ThreadNum = t
        BY <3>2, <3>4, SegmentAssumption DEF Stripe, Buckets
      <4>2. b % ThreadNum = b
        BY <3>2, <4>1, ModWrap
      <4> QED
        BY <3>2, <3>4, <4>1, <4>2
    <3> QED
      BY <2>1, <3>1, <3>3, <3>4
  <2>2. CASE u # t
    BY <2>2 DEF ThreadLoad, StripeInv, InSweep
  <2> QED
    BY <2>1, <2>2
<1> QED
  BY <1>1, <1>2, <1>3, ThreadQuiet DEF ThreadLoad, handshakeVars

\* An empty bucket is behind the thread, and there is none of its stripe
\* between it and the next one.
LEMMA SkipIndex ==
  ASSUME IndexInv, NEW t \in Threads, ThreadSkip(t)
  PROVE  IndexPart'
<1> USE DEF IndexInv, IInv, TypeOK, workerVars
<1>1. \A r \in Segments : Holding(r)' = Holding(r)
  BY DEF ThreadSkip, Holding
<1>2. \A u \in Threads : Pending(u)' <=> Pending(u)
  BY DEF ThreadSkip, Pending, Sweeping
<1>3. StripeInv'
  <2> SUFFICES ASSUME NEW u \in Threads, InSweep(u)'
               PROVE  /\ migrate_idx'[u] % ThreadNum = u
                      /\ \A b \in Stripe(u) : b < migrate_idx'[u] =>
                           segs'[segment_idx'[u]].hash_nodes[b] = <<>>
    BY DEF StripeInv, Stripe
  <2>0. InSweep(u) /\ segs' = segs /\ segment_idx' = segment_idx
    BY DEF ThreadSkip, InSweep
  <2>1. CASE u = t
    <3> DEFINE m == migrate_idx[t]
    <3>1. m \in Nat /\ migrate_idx'[t] = m + ThreadNum /\ ThreadNum \in Nat \ {0}
      BY ThreadAssumption DEF ThreadSkip
    <3>2. m % ThreadNum = t
      BY <2>0, <2>1 DEF StripeInv
    <3>3. (m + ThreadNum) % ThreadNum = t
      BY <3>1, <3>2, ResidueStep
    <3>4. ASSUME NEW b \in Stripe(t), b < m + ThreadNum
          PROVE  segs[segment_idx[t]].hash_nodes[b] = <<>>
      <4>1. b \in Nat /\ b % ThreadNum = t
        BY SegmentAssumption DEF Stripe, Buckets
      <4>2. CASE b < m
        BY <2>0, <2>1, <4>2 DEF StripeInv
      <4>3. CASE b >= m
        <5>1. m = b
          BY <3>1, <3>2, <3>4, <4>1, <4>3, ResidueGap
        <5> QED
          BY <5>1 DEF ThreadSkip, Bucket
      <4> QED
        BY <3>1, <4>1, <4>2, <4>3
    <3> QED
      BY <2>0, <2>1, <3>1, <3>3, <3>4
  <2>2. CASE u # t
    BY <2>0, <2>2 DEF ThreadSkip, StripeInv
  <2> QED
    BY <2>1, <2>2
<1> QED
  BY <1>1, <1>2, <1>3, ThreadQuiet DEF ThreadSkip, handshakeVars

\* The steps that only move the thread's program counter.
LEMMA MoveIndex ==
  ASSUME IndexInv, NEW t \in Threads,
         ThreadSee(t) \/ ThreadRead(t) \/ ThreadStore(t) \/ ThreadLower(t)
  PROVE  IndexPart'
<1> USE DEF IndexInv, IInv, TypeOK, workerVars, ThreadSee, ThreadRead, ThreadStore,
            ThreadLower
<1>1. \A r \in Segments : Holding(r)' = Holding(r)
  BY DEF Holding
<1>2. \A u \in Threads : Pending(u)' <=> Pending(u)
  BY DEF Pending, Sweeping
<1>3. StripeInv'
  BY DEF StripeInv, Stripe, InSweep
<1> QED
  BY <1>1, <1>2, <1>3, ThreadQuiet DEF handshakeVars

\* The segment of a thread in its sweep is the one whose worker waits for it.
LEMMA SweepOwner ==
  ASSUME IndexInv, NEW t \in Threads, InSweep(t)
  PROVE  /\ segment_idx[t] \in Segments
         /\ wpc[segment_idx[t]] \in {"raise", "end"}
         /\ \A r \in Segments : wpc[r] \in {"raise", "end"} => r = segment_idx[t]
<1>1. Pending(t)
  BY DEF InSweep, Pending, Sweeping
<1> QED
  BY <1>1 DEF IndexInv, IInv, TypeOK, PendingInv, MutexInv, InSweep

\* An entry goes from its bucket to the thread's hand.
LEMMA PopIndex ==
  ASSUME NoKey \notin Keys, IndexInv, NEW t \in Threads, ThreadPop(t)
  PROVE  IndexPart'
<1> USE DEF IndexInv
<1>s. PICK s \in Segments : s = segment_idx[t]
  BY DEF IInv, TypeOK
<1> USE <1>s
<1> DEFINE b == migrate_idx[t]
           g == segs[s]
           h == mix_hash_pop(g, b)
<1>0. /\ segs \in [Segments -> Segment] /\ tpc \in [Threads -> ThreadPc]
      /\ s \in Segments /\ g \in Segment /\ b \in Nat
      /\ InSweep(t) /\ tpc[t] = "sweep"
  BY DEF IInv, TypeOK, InSweep, ThreadPop
<1>1. b \in Buckets /\ g.hash_nodes[b] # <<>>
  BY <1>0, SegmentAssumption DEF ThreadPop, Bucket, Buckets
<1>2. h \in Segment /\ Head(g.hash_nodes[b]) \in Entry
  BY <1>0, <1>1, HashPopType
<1>3. Head(g.hash_nodes[b]).key # NoKey
  BY <1>2 DEF Entry
<1>4. /\ segs' = [segs EXCEPT ![s] = h]
      /\ tpc' = [tpc EXCEPT ![t] = "read"]
      /\ UNCHANGED <<workerVars, handshakeVars, migration,
                     completed_migrate_thread_num, segment_idx, migrate_idx>>
  BY <1>3 DEF ThreadPop, Bucket
<1>5. /\ h.hash_nodes = [g.hash_nodes EXCEPT ![b] = Tail(g.hash_nodes[b])]
      /\ h.free_node_num = g.free_node_num + 1
      /\ h.bitmap = g.bitmap /\ h.used_block_num = g.used_block_num
  BY <1>0 DEF mix_hash_pop, Segment
<1>6. g.hash_nodes \in [Buckets -> Seq(Entry)] /\ GoodIndex(g, s)
  BY <1>0 DEF Segment, GoodInv
<1>7. /\ wpc[s] \in {"raise", "end"}
      /\ \A r \in Segments : wpc[r] \in {"raise", "end"} => r = s
  BY <1>0, SweepOwner
<1> HIDE DEF g, h, b
<1>8. Popped(g, h, b)
  BY <1>1, <1>5, <1>6 DEF Popped
<1>9. GoodIndex(h, s) /\ Cardinality(Positions(g)) = Cardinality(Positions(h)) + 1
  BY <1>0, <1>1, <1>2, <1>5, <1>6, <1>8, PopGood
<1>10. segs'[s] = h /\ \A r \in Segments \ {s} : segs'[r] = segs[r]
  BY <1>0, <1>4
<1>11. /\ Holding(s)' = Holding(s) \union {t} /\ t \notin Holding(s)
       /\ \A r \in Segments \ {s} : Holding(r)' = Holding(r)
  BY <1>0, <1>4 DEF Holding
<1>12. GoodInv'
  BY <1>9, <1>10 DEF GoodInv
<1>13. UsedInv'
  <2>1. /\ Cardinality(Holding(s)') = Cardinality(Holding(s)) + 1
        /\ Cardinality(Holding(s)) \in Nat
    BY <1>0, <1>11, HoldingFinite, FS_AddElement
  <2>2. Cardinality(Positions(h)) \in Nat
    BY <1>9, FS_CardinalityType DEF GoodIndex
  <2>3. g.used_block_num = Cardinality(Positions(g)) + Cardinality(Holding(s))
    BY <1>0 DEF UsedInv, g
  <2>4. h.used_block_num = Cardinality(Positions(h)) + Cardinality(Holding(s)')
    BY <1>5, <1>9, <2>1, <2>2, <2>3
  <2> SUFFICES ASSUME NEW r \in Segments
               PROVE segs'[r].used_block_num =
                       Cardinality(Positions(segs'[r])) + Cardinality(Holding(r)')
    BY DEF UsedInv
  <2> QED
    BY <1>10, <1>11, <2>4 DEF UsedInv
<1>14. \A r \in Segments : \A c \in Buckets :
         segs[r].hash_nodes[c] = <<>> => segs'[r].hash_nodes[c] = <<>>
  BY <1>1, <1>8, <1>10 DEF Popped, g
<1>15. StripeInv'
  <2> SUFFICES ASSUME NEW u \in Threads, InSweep(u)'
               PROVE  /\ migrate_idx'[u] % ThreadNum = u
                      /\ \A c \in Stripe(u) : c < migrate_idx'[u] =>
                           segs'[segment_idx'[u]].hash_nodes[c] = <<>>
    BY DEF StripeInv, Stripe
  <2>1. InSweep(u) /\ segment_idx[u] \in Segments
    BY <1>0, <1>4 DEF InSweep, IInv, TypeOK
  <2> QED
    BY <1>4, <1>14, <2>1 DEF StripeInv, Stripe
<1>16. CountedInv'
  <2>1. Counted(s) \subseteq Counted(s)'
    <3>1. \A u \in Threads : Pending(u)' <=> Pending(u)
      BY <1>0, <1>4 DEF Pending, Sweeping
    <3>2. raise_idx' = raise_idx
      BY <1>4 DEF handshakeVars
    <3> QED
      BY <1>0, <1>14, <3>1, <3>2 DEF Counted, Stripe
  <2>2. IsFiniteSet(Counted(s)')
    <3>1. IsFiniteSet(Threads)
      BY FS_Interval, ThreadAssumption DEF Threads
    <3>2. Counted(s)' \subseteq Threads
      BY DEF Counted
    <3> QED
      BY <3>1, <3>2, FS_Subset
  <2>3. /\ Cardinality(Counted(s)) \in Nat
        /\ Cardinality(Counted(s)') \in Nat
        /\ Cardinality(Counted(s)) <= Cardinality(Counted(s)')
    BY <2>1, <2>2, FS_Subset, FS_CardinalityType
  <2>4. /\ completed_migrate_thread_num'[s] <= Cardinality(Counted(s))
        /\ completed_migrate_thread_num'[s] \in Nat
    BY <1>0, <1>4, <1>7 DEF CountedInv, IInv, TypeOK
  <2>5. completed_migrate_thread_num'[s] <= Cardinality(Counted(s)')
    BY <2>3, <2>4
  <2> QED
    BY <1>4, <1>7, <2>5 DEF CountedInv, workerVars
<1>17. \A r \in Segments : segs'[r].bitmap = segs[r].bitmap
  BY <1>5, <1>10 DEF g
<1> QED
  BY <1>4, <1>7, <1>10, <1>11, <1>12, <1>13, <1>15, <1>16, <1>17, ThreadFrame

\* The entry in the thread's hand is counted off.
LEMMA ClearIndex ==
  ASSUME IndexInv, NEW t \in Threads, ThreadClear(t)
  PROVE  IndexPart'
<1> USE DEF IndexInv
<1>s. PICK s \in Segments : s = segment_idx[t]
  BY DEF IInv, TypeOK
<1> USE <1>s
<1> DEFINE g == segs[s]
           h == [g EXCEPT !.used_block_num = @ - 1]
<1>0. /\ segs \in [Segments -> Segment] /\ tpc \in [Threads -> ThreadPc]
      /\ s \in Segments /\ g \in Segment
      /\ InSweep(t) /\ tpc[t] = "clear"
  BY DEF IInv, TypeOK, InSweep, ThreadClear
<1>1. /\ segs' = [segs EXCEPT ![s] = h]
      /\ tpc' = [tpc EXCEPT ![t] = "sweep"]
      /\ UNCHANGED <<workerVars, handshakeVars, migration,
                     completed_migrate_thread_num, segment_idx, migrate_idx>>
  BY DEF ThreadClear
<1>2. /\ h.hash_nodes = g.hash_nodes /\ h.free_node_num = g.free_node_num
      /\ h.bitmap = g.bitmap /\ h.used_block_num = g.used_block_num - 1
  BY <1>0 DEF Segment
<1>3. /\ wpc[s] \in {"raise", "end"}
      /\ \A r \in Segments : wpc[r] \in {"raise", "end"} => r = s
  BY <1>0, SweepOwner
<1>4. GoodIndex(g, s)
  BY <1>0 DEF GoodInv
<1> HIDE DEF g, h
<1>5. Positions(h) = Positions(g) /\ \A p \in Positions(g) : EntryAt(h, p) = EntryAt(g, p)
  BY <1>2 DEF Positions, EntryAt
<1>6. GoodIndex(h, s)
  BY <1>2, <1>4, <1>5 DEF GoodIndex
<1>7. segs'[s] = h /\ \A r \in Segments \ {s} : segs'[r] = segs[r]
  BY <1>0, <1>1
<1>8. /\ Holding(s)' = Holding(s) \ {t} /\ t \in Holding(s)
      /\ \A r \in Segments \ {s} : Holding(r)' = Holding(r)
  BY <1>0, <1>1 DEF Holding
<1>9. GoodInv'
  BY <1>6, <1>7 DEF GoodInv
<1>10. UsedInv'
  <2>1. /\ Cardinality(Holding(s)') = Cardinality(Holding(s)) - 1
        /\ Cardinality(Holding(s)) \in Nat
    <3>1. IsFiniteSet(Holding(s)) /\ Cardinality(Holding(s)) \in Nat
      BY HoldingFinite
    <3> QED
      BY <1>8, <3>1, FS_RemoveElement
  <2>2. Cardinality(Positions(g)) \in Nat
    BY <1>4, FS_CardinalityType DEF GoodIndex
  <2>3. g.used_block_num = Cardinality(Positions(g)) + Cardinality(Holding(s))
    BY <1>0 DEF UsedInv, g
  <2>4. h.used_block_num = Cardinality(Positions(h)) + Cardinality(Holding(s)')
    BY <1>2, <1>5, <2>1, <2>2, <2>3
  <2> SUFFICES ASSUME NEW r \in Segments
               PROVE segs'[r].used_block_num =
                       Cardinality(Positions(segs'[r])) + Cardinality(Holding(r)')
    BY DEF UsedInv
  <2> QED
    BY <1>7, <1>8, <2>4 DEF UsedInv
<1>11. \A r \in Segments : segs'[r].hash_nodes = segs[r].hash_nodes
  BY <1>2, <1>7 DEF g
<1>12. StripeInv'
  <2> SUFFICES ASSUME NEW u \in Threads, InSweep(u)'
               PROVE  /\ migrate_idx'[u] % ThreadNum = u
                      /\ \A c \in Stripe(u) : c < migrate_idx'[u] =>
                           segs'[segment_idx'[u]].hash_nodes[c] = <<>>
    BY DEF StripeInv, Stripe
  <2>1. InSweep(u) /\ segment_idx[u] \in Segments
    BY <1>0, <1>1 DEF InSweep, IInv, TypeOK
  <2> QED
    BY <1>1, <1>11, <2>1 DEF StripeInv
<1>13. CountedInv'
  <2>1. \A u \in Threads : Pending(u)' <=> Pending(u)
    BY <1>0, <1>1 DEF Pending, Sweeping
  <2>2. Counted(s)' = Counted(s)
    BY <1>0, <1>1, <1>11, <2>1, CountedSame DEF handshakeVars
  <2> QED
    BY <1>1, <1>3, <2>2 DEF CountedInv, workerVars
<1>14. \A r \in Segments : segs'[r].bitmap = segs[r].bitmap
  BY <1>2, <1>7 DEF g
<1> QED
  BY <1>1, <1>3, <1>7, <1>8, <1>9, <1>10, <1>12, <1>13, <1>14, ThreadFrame

\* A thread counts itself when its whole stripe is empty.
LEMMA CountIndex ==
  ASSUME IndexInv, NEW t \in Threads, ThreadCount(t)
  PROVE  IndexPart'
<1> USE DEF IndexInv, workerVars
<1>s. PICK s \in Segments : s = segment_idx[t]
  BY DEF IInv, TypeOK
<1> USE <1>s
<1>0. /\ s \in Segments /\ InSweep(t) /\ segs' = segs
      /\ completed_migrate_thread_num \in [Segments -> Nat]
      /\ migrate_idx[t] \in Nat /\ migrate_idx[t] >= HashSize
      /\ tpc \in [Threads -> ThreadPc]
  BY DEF IInv, TypeOK, InSweep, ThreadCount
<1>1. /\ wpc[s] \in {"raise", "end"}
      /\ \A r \in Segments : wpc[r] \in {"raise", "end"} => r = s
  BY <1>0, SweepOwner
<1>2. \A r \in Segments : Holding(r)' = Holding(r)
  BY <1>0 DEF ThreadCount, Holding
<1>3. GoodInv' /\ UsedInv'
  BY <1>0, <1>2 DEF GoodInv, UsedInv
<1>4. StripeInv'
  BY <1>0 DEF StripeInv, Stripe, InSweep, ThreadCount
<1>5. CountedInv'
  <2>1. /\ Pending(t) /\ ~Pending(t)' /\ raise_idx' = raise_idx
        /\ \A u \in Threads \ {t} : Pending(u)' <=> Pending(u)
    BY <1>0 DEF ThreadCount, Pending, Sweeping, handshakeVars
  <2>2. t < raise_idx
    BY <2>1 DEF IInv, PendingInv
  <2>3. \A b \in Stripe(t) : segs[s].hash_nodes[b] = <<>>
    <3>1. \A b \in Stripe(t) : b < migrate_idx[t]
      BY <1>0, SegmentAssumption DEF Stripe, Buckets
    <3> QED
      BY <1>0, <3>1 DEF StripeInv
  <2>4. Counted(s)' = Counted(s) \union {t} /\ t \notin Counted(s)
    BY <1>0, <2>1, <2>2, <2>3 DEF Counted, Stripe
  <2>5. /\ Cardinality(Counted(s)) \in Nat
        /\ Cardinality(Counted(s)') = Cardinality(Counted(s)) + 1
    BY <1>0, <2>4, CountedFinite, FS_AddElement
  <2>6. completed_migrate_thread_num'[s] = completed_migrate_thread_num[s] + 1
    BY <1>0 DEF ThreadCount
  <2>7. completed_migrate_thread_num[s] <= Cardinality(Counted(s))
    BY <1>0, <1>1 DEF CountedInv
  <2>8. completed_migrate_thread_num'[s] <= Cardinality(Counted(s)')
    BY <1>0, <2>5, <2>6, <2>7
  <2>9. wpc' = wpc
    BY DEF ThreadCount
  <2> QED
    BY <1>1, <2>8, <2>9 DEF CountedInv
<1> QED
  BY <1>0, <1>2, <1>3, <1>4, <1>5, ThreadFrame DEF ThreadCount

\* migrate keeps the index consistent.
LEMMA ThreadIndex ==
  ASSUME NoKey \notin Keys, IndexInv, NEW t \in Threads, ThreadStep(t)
  PROVE  IndexPart'
  BY LoadIndex, SkipIndex, MoveIndex, PopIndex, ClearIndex, CountIndex
  DEF ThreadStep

---------------------------------------------------------------------------
(* The theorems about the index *)

\* The invariant holds at the start, with every flag down.
LEMMA IndexInit ==
  ASSUME HeapFlags = ZeroHeap
  PROVE  Init => IndexInv
<1> SUFFICES ASSUME Init PROVE IndexInv
  OBVIOUS
<1>1. IInv
  BY InitInv
<1>2. /\ \A s \in Segments : segs[s] = mix_segment_init /\ wpc[s] = "poll"
      /\ \A t \in Threads : tpc[t] = "poll"
  BY DEF Init
<1>3. \A s \in Segments : Holding(s) = {}
  BY <1>2 DEF Holding
<1>4. GoodInv /\ PrefixInv
  BY <1>2, InitSegment DEF GoodInv, PrefixInv
<1>5. UsedInv
  BY <1>2, <1>3, InitSegment, FS_EmptySet DEF UsedInv
<1>6. StripeInv /\ CountedInv /\ TaskInv /\ DrainedBeforeReuse /\ WriteIsIndexed
  BY <1>2 DEF StripeInv, InSweep, CountedInv, TaskInv, DrainedBeforeReuse,
              WriteIsIndexed
<1> QED
  BY <1>1, <1>4, <1>5, <1>6 DEF IndexInv

\* Every step keeps it.
LEMMA IndexNext ==
  ASSUME NoKey \notin Keys
  PROVE  IndexInv /\ [Next]_vars => IndexInv'
<1> SUFFICES ASSUME IndexInv, [Next]_vars PROVE IndexInv'
  OBVIOUS
<1>1. IInv'
  BY NextInv DEF IndexInv
<1>2. IndexPart'
  <2>1. ASSUME NEW s \in Segments, Redirect(s) \/ WorkerStep(s) PROVE IndexPart'
    BY <2>1, WorkerIndex
  <2>2. ASSUME NEW t \in Threads, ThreadStep(t) PROVE IndexPart'
    BY <2>2, ThreadIndex
  <2>3. CASE UNCHANGED vars
    <3> USE <2>3 DEF vars, workerVars, handshakeVars, threadVars, IndexInv
    <3>1. \A r \in Segments : Holding(r)' = Holding(r)
      BY DEF Holding
    <3>2. \A t \in Threads : Pending(t)' <=> Pending(t)
      BY DEF Pending, Sweeping
    <3>3. StripeInv'
      BY DEF StripeInv, Stripe, InSweep
    <3> QED
      BY <3>1, <3>2, <3>3, ThreadQuiet
  <2> QED
    BY <2>1, <2>2, <2>3 DEF Next
<1> QED
  BY <1>1, <1>2 DEF IndexInv, IndexPart

\* The buffer index is consistent at every moment of every migration: entries
\* sit in their bucket and segment, no block number and no buffer block twice,
\* every entry's block is marked, used_block_num and the node pool add up.
\* Besides the flags being down at the start it needs that no client writes the
\* block number (uint32_t)-1, which migrate takes for the end of a bucket.
THEOREM IndexIsConsistent ==
  ASSUME HeapFlags = ZeroHeap, NoKey \notin Keys
  PROVE  Spec => []IndexConsistent
<1>1. IndexInv => IndexConsistent
  BY DEF IndexInv, GoodInv, UsedInv, GoodIndex, IndexConsistent
<1> QED
  BY <1>1, IndexInit, IndexNext, PTL DEF Spec

\* A migration drains the segment: the worker goes on with an index that is as
\* new, nothing is left behind in a bucket or in a thread's hand.  A thread that
\* lost its flag to the late store of migrate is never counted, so the worker
\* then waits rather than goes on with a stripe unswept.
THEOREM MigrationDrains ==
  ASSUME HeapFlags = ZeroHeap, NoKey \notin Keys
  PROVE  Spec => []DrainedBeforeReuse
<1>1. IndexInv => DrainedBeforeReuse
  BY DEF IndexInv
<1> QED
  BY <1>1, IndexInit, IndexNext, PTL DEF Spec

\* A block whose data is written is the one the index gives for it: for every
\* number of segments the early return of mix_write_redirect_blockmeta is dead.
THEOREM WritesAreIndexed ==
  ASSUME HeapFlags = ZeroHeap, NoKey \notin Keys
  PROVE  Spec => []WriteIsIndexed
<1>1. IndexInv => WriteIsIndexed
  BY DEF IndexInv
<1> QED
  BY <1>1, IndexInit, IndexNext, PTL DEF Spec

\* The search loop of mix_bitmap_next_zero_bit never runs on a full bitmap.
THEOREM BitmapSearchEnds ==
  ASSUME HeapFlags = ZeroHeap, NoKey \notin Keys
  PROVE  Spec => []SearchTerminates
<1>1. IndexInv => SearchTerminates
  <2> SUFFICES ASSUME IndexInv, NEW s \in Segments, wpc[s] \in {"poll", "retry"},
                      ~SegmentFull(segs[s])
               PROVE  HasZeroBit(segs[s])
    BY DEF SearchTerminates
  <2>1. Prefix(segs[s])
    BY DEF IndexInv, PrefixInv
  <2>2. /\ segs[s].used_block_num \in 0 .. PerBlock - 1
        /\ segs[s].used_block_num \notin segs[s].bitmap
    BY <2>1, SegmentAssumption DEF Prefix, SegmentFull
  <2> QED
    BY <2>2, BitNumIsPerBlock DEF HasZeroBit
<1> QED
  BY <1>1, IndexInit, IndexNext, PTL DEF Spec

---------------------------------------------------------------------------
(* No entry is dropped *)

\* Every entry of g is an entry of h.
Kept(g, h) ==
  \A p \in Positions(g) : \E q \in Positions(h) : EntryAt(h, q) = EntryAt(g, p)

\* The step property behind NoEntryDropped.
Drops ==
  \A s \in Segments : \A p \in Positions(segs[s]) :
    LET e == EntryAt(segs[s], p)
    IN \/ \E q \in Positions(segs'[s]) : EntryAt(segs'[s], q) = e
       \/ \E t \in Threads : tpc'[t] = "read" /\ kv'[t] = e

\* The same buckets hold the same entries.
LEMMA KeptSame ==
  ASSUME NEW g, NEW h, h.hash_nodes = g.hash_nodes
  PROVE  Kept(g, h)
  BY DEF Kept, Positions, EntryAt

\* Putting an entry in keeps the others.
LEMMA KeptByPut ==
  ASSUME NEW g \in Segment, NEW h \in Segment, NEW b \in Buckets, NEW e \in Entry,
         Pushed(g, h, b, e)
  PROVE  Kept(g, h)
<1>1. PushShape(g, h, b, e)
  BY PutPositions
<1>2. PICK n : n = Len(g.hash_nodes[b])
  OBVIOUS
<1>3. /\ n \in Nat /\ Positions(h) = Positions(g) \union {<<b, n + 1>>}
      /\ \A i \in 1 .. n : EntryAt(h, <<b, i + 1>>) = EntryAt(g, <<b, i>>)
      /\ \A c \in Buckets \ {b} : h.hash_nodes[c] = g.hash_nodes[c]
  BY <1>1, <1>2 DEF PushShape
<1>4. /\ Positions(g) \subseteq Buckets \X Nat
      /\ \A i \in Nat : <<b, i>> \in Positions(g) <=> i \in 1 .. n
  BY <1>2, PositionsOf
<1> SUFFICES ASSUME NEW p \in Positions(g)
             PROVE  \E q \in Positions(h) : EntryAt(h, q) = EntryAt(g, p)
  BY DEF Kept
<1>5. PICK c \in Buckets, i \in Nat : p = <<c, i>>
  BY <1>4
<1>6. CASE c = b
  <2>1. i \in 1 .. n /\ i + 1 \in Nat
    BY <1>4, <1>5, <1>6
  <2>2. <<b, i + 1>> \in Positions(h)
    <3>1. CASE i = n
      BY <1>3, <3>1
    <3>2. CASE i # n
      <4>1. i + 1 \in 1 .. n
        BY <1>3, <2>1, <3>2
      <4> QED
        BY <1>3, <1>4, <2>1, <4>1
    <3> QED
      BY <3>1, <3>2
  <2>3. EntryAt(h, <<b, i + 1>>) = EntryAt(g, p)
    BY <1>3, <1>5, <1>6, <2>1
  <2> QED
    BY <2>2, <2>3
<1>7. CASE c # b
  BY <1>3, <1>5, <1>7 DEF EntryAt
<1> QED
  BY <1>6, <1>7

\* Popping the head keeps every entry but the head.
LEMMA KeptByPop ==
  ASSUME NEW g \in Segment, NEW h \in Segment, NEW b \in Buckets,
         Popped(g, h, b), NEW p \in Positions(g),
         EntryAt(g, p) # Head(g.hash_nodes[b])
  PROVE  \E q \in Positions(h) : EntryAt(h, q) = EntryAt(g, p)
<1>1. PopShape(g, h, b)
  BY PopPositions
<1>2. PICK n : n = Len(g.hash_nodes[b])
  OBVIOUS
<1>3. /\ n \in Nat \ {0} /\ Positions(h) = Positions(g) \ {<<b, n>>}
      /\ EntryAt(g, <<b, 1>>) = Head(g.hash_nodes[b])
      /\ \A i \in 1 .. n - 1 : EntryAt(h, <<b, i>>) = EntryAt(g, <<b, i + 1>>)
      /\ \A c \in Buckets \ {b} : h.hash_nodes[c] = g.hash_nodes[c]
  BY <1>1, <1>2 DEF PopShape
<1>4. /\ Positions(g) \subseteq Buckets \X Nat
      /\ \A i \in Nat : <<b, i>> \in Positions(g) <=> i \in 1 .. n
  BY <1>2, PositionsOf
<1>5. PICK c \in Buckets, i \in Nat : p = <<c, i>>
  BY <1>4
<1>6. CASE c = b
  <2>1. i \in 2 .. n
    BY <1>3, <1>4, <1>5, <1>6
  <2>2. i - 1 \in 1 .. n - 1 /\ i - 1 \in Nat /\ i = (i - 1) + 1 /\ i - 1 # n
    BY <1>3, <2>1
  <2>3. <<b, i - 1>> \in Positions(h)
    BY <1>3, <1>4, <2>2
  <2>4. EntryAt(h, <<b, i - 1>>) = EntryAt(g, p)
    BY <1>3, <1>5, <1>6, <2>2
  <2> QED
    BY <2>3, <2>4
<1>7. CASE c # b
  BY <1>3, <1>5, <1>7 DEF EntryAt
<1> QED
  BY <1>6, <1>7

\* mix_write_redirect_blockmeta keeps every entry on both of its paths.
LEMMA KeptByAllocate ==
  ASSUME TypeOK, NEW s \in Segments, NEW k \in Keys, Allocate(s, k)
  PROVE  \A r \in Segments : Kept(segs[r], segs'[r])
<1> DEFINE g == segs[s]
           v == FoundBit(g)
           z == mix_bitmap_next_zero_bit(g)
           bit == CDiv(v - s, SegNum)
           w == [z EXCEPT !.bitmap = @ \union {bit}]
           h == mix_write_redirect_blockmeta(z, s, k, v)
           b == mix_hash_hash(k)
           e == [key |-> k, value |-> v]
<1>1. g \in Segment /\ HasZeroBit(g) /\ segs \in [Segments -> Segment]
  BY DEF TypeOK, Allocate
<1>2. v \in Blocks /\ z \in Segment
  BY <1>1, FoundBitIsClear, NextZeroBitType
<1>3. h \in Segment /\ b \in Buckets /\ e \in Entry
  BY <1>2, BlockmetaType, SegmentAssumption DEF Buckets, mix_hash_hash, Entry
<1>4. z.hash_nodes = g.hash_nodes
  BY <1>1 DEF mix_bitmap_next_zero_bit, Segment
<1>5. segs' = [segs EXCEPT ![s] = h]
  BY DEF Allocate
<1>6. h = w \/ h = [mix_hash_put(w, k, v) EXCEPT !.used_block_num = @ + 1]
  BY DEF mix_write_redirect_blockmeta
<1> HIDE DEF g, v, z, bit
<1>7. w.hash_nodes = g.hash_nodes /\ w \in Segment
  <2>1. bit \in Blocks
    BY <1>2, BlockmetaBitBound, SegmentAssumption DEF Blocks, bit
  <2> QED
    BY <1>2, <1>4, <2>1 DEF Segment
<1> HIDE DEF w, h
<1>8. Kept(g, h)
  <2>1. CASE h = w
    BY <1>7, <2>1, KeptSame
  <2>2. CASE h = [mix_hash_put(w, k, v) EXCEPT !.used_block_num = @ + 1]
    <3>1. h.hash_nodes = [w.hash_nodes EXCEPT ![b] = <<e>> \o @]
      BY <1>7, <2>2 DEF mix_hash_put, Segment
    <3>2. Pushed(g, h, b, e)
      BY <1>1, <1>3, <1>7, <3>1 DEF Pushed, Segment
    <3> QED
      BY <1>1, <1>3, <3>2, KeptByPut
  <2> QED
    BY <1>6, <2>1, <2>2
<1>9. \A r \in Segments \ {s} : Kept(segs[r], segs'[r])
  BY <1>1, <1>5, KeptSame
<1>10. segs'[s] = h
  BY <1>1, <1>5
<1> QED
  BY <1>8, <1>9, <1>10 DEF g

\* No step of any worker or thread drops an entry.
LEMMA StepKeepsEntries ==
  ASSUME NoKey \notin Keys, TypeOK, MutexInv, Next
  PROVE  Drops
<1>0. segs \in [Segments -> Segment]
  BY DEF TypeOK
<1>1. ASSUME \A r \in Segments : Kept(segs[r], segs'[r]) PROVE Drops
  BY <1>1 DEF Drops, Kept
<1>2. ASSUME \A r \in Segments : segs'[r].hash_nodes = segs[r].hash_nodes
      PROVE  Drops
  BY <1>1, <1>2, KeptSame
<1>3. ASSUME NEW s \in Segments, NEW k \in KeysOf(s), RedirectNew(s, k)
      PROVE  Drops
  <2>1. k \in Keys
    BY DEF KeysOf
  <2> QED
    BY <1>1, <1>3, <2>1, KeptByAllocate DEF RedirectNew
<1>4. ASSUME NEW s \in Segments, RedirectRetry(s) PROVE Drops
  <2>1. task[s] \in Keys
    BY <1>4 DEF RedirectRetry, MutexInv
  <2> QED
    BY <1>1, <1>4, <2>1, KeptByAllocate DEF RedirectRetry
<1>5. ASSUME NEW s \in Segments, MigrationEnd(s) PROVE Drops
  <2>1. mix_bitmap_clear(segs[s]).hash_nodes = segs[s].hash_nodes
    BY <1>0 DEF mix_bitmap_clear, Segment
  <2>2. segs' = [segs EXCEPT ![s] = mix_bitmap_clear(segs[s])]
    BY <1>5 DEF MigrationEnd
  <2> QED
    BY <1>0, <1>2, <2>1, <2>2
<1>6. ASSUME NEW t \in Threads, ThreadClear(t) PROVE Drops
  <2> DEFINE s == segment_idx[t]
             h == [segs[s] EXCEPT !.used_block_num = @ - 1]
  <2>1. s \in Segments /\ h.hash_nodes = segs[s].hash_nodes
    BY <1>0 DEF TypeOK, Segment
  <2>2. segs' = [segs EXCEPT ![s] = h]
    BY <1>6 DEF ThreadClear
  <2> HIDE DEF h
  <2> QED
    BY <1>0, <1>2, <2>1, <2>2
<1>7. ASSUME NEW t \in Threads, ThreadPop(t) PROVE Drops
  <2> DEFINE s == segment_idx[t]
             b == migrate_idx[t]
             g == segs[s]
             h == mix_hash_pop(g, b)
  <2>1. s \in Segments /\ g \in Segment /\ b \in Buckets /\ g.hash_nodes[b] # <<>>
    BY <1>7, SegmentAssumption DEF TypeOK, ThreadPop, Bucket, Buckets
  <2>2. h \in Segment /\ Head(g.hash_nodes[b]) \in Entry
    BY <2>1, HashPopType
  <2>3. h.hash_nodes = [g.hash_nodes EXCEPT ![b] = Tail(g.hash_nodes[b])]
    BY <2>1 DEF mix_hash_pop, Segment
  <2>4. Popped(g, h, b)
    <3>1. g.hash_nodes \in [Buckets -> Seq(Entry)]
      BY <2>1 DEF Segment
    <3> HIDE DEF g, h
    <3> QED
      BY <2>1, <2>3, <3>1 DEF Popped
  <2>5. segs' = [segs EXCEPT ![s] = h]
    BY <1>7 DEF ThreadPop
  <2>6. Head(g.hash_nodes[b]).key # NoKey
    BY <2>2 DEF Entry
  <2>7. tpc'[t] = "read" /\ kv'[t] = Head(g.hash_nodes[b])
    BY <1>7, <2>6 DEF ThreadPop, Bucket, TypeOK
  <2> HIDE DEF h, g, b, s
  <2>8. segs'[s] = h /\ \A r \in Segments \ {s} : segs'[r] = segs[r]
    BY <1>0, <2>1, <2>5
  <2> SUFFICES ASSUME NEW r \in Segments, NEW p \in Positions(segs[r])
               PROVE  \/ \E q \in Positions(segs'[r]) :
                           EntryAt(segs'[r], q) = EntryAt(segs[r], p)
                      \/ \E u \in Threads : /\ tpc'[u] = "read"
                                            /\ kv'[u] = EntryAt(segs[r], p)
    BY DEF Drops
  <2>9. CASE r # s
    BY <2>8, <2>9
  <2>10. CASE r = s /\ EntryAt(g, p) = Head(g.hash_nodes[b])
    BY <2>7, <2>10 DEF g
  <2>11. CASE r = s /\ EntryAt(g, p) # Head(g.hash_nodes[b])
    <3>1. p \in Positions(g)
      BY <2>11 DEF g
    <3>2. \E q \in Positions(h) : EntryAt(h, q) = EntryAt(g, p)
      BY <2>1, <2>2, <2>4, <2>11, <3>1, KeptByPop
    <3> QED
      BY <2>8, <2>11, <3>2 DEF g
  <2> QED
    BY <2>9, <2>10, <2>11
<1>8. CASE segs' = segs
  BY <1>2, <1>8
<1> QED
  BY <1>3, <1>4, <1>5, <1>6, <1>7, <1>8
  DEF Next, Redirect, WorkerStep, ThreadStep, RedirectHit, RedirectFull, WriteData,
      WriteMeta, MigrateLock, MigrationBegin, RaiseFlag, ThreadSee, ThreadLoad,
      ThreadSkip, ThreadRead, ThreadStore, ThreadCount, ThreadLower

\* No step makes an entry vanish, whatever malloc left in the flags: one that
\* leaves the index is in the hand of a migration thread that goes on to copy
\* it.
THEOREM NothingIsDropped ==
  ASSUME NoKey \notin Keys
  PROVE  Spec => NoEntryDropped
<1>1. TypeOK /\ MutexInv /\ [Next]_vars => [Drops]_vars
  BY StepKeepsEntries
<1> QED
  BY <1>1, InitMutex, NextMutex, PTL DEF Spec, NoEntryDropped, Drops

---------------------------------------------------------------------------
(* The inductive invariant of the data path *)

\* The index of a segment has an entry for block number k in buffer block v.
Has(g, k, v) ==
  \E p \in Positions(g) : EntryAt(g, p).key = k /\ EntryAt(g, p).value = v

Tasks == [offset : Keys, opcode : SUBSET {"write", "clear"}, data : Data,
          client : Clients]
Requests == [op : {"write", "read"}, offset : Keys, len : Nat, data : Data]
ClientPc == {"idle", "post", "wait", "ssd", "read", "done"}

\* The task of a write of one block: the only kind nvm_worker acts on.
Small(b) == b.opcode = {"write"}

\* The client of a small task waits for it.
Awaited(b) ==
  /\ cpc[b.client] = "wait"
  /\ request[b.client] = [op |-> "write", offset |-> b.offset, len |-> 1,
                          data |-> b.data]

DataType ==
  /\ buffer \in [BufferBlocks -> Data]
  /\ buffer_meta \in [BufferBlocks -> [status : {0, 1}, offset : Keys \union {None}]]
  /\ ssd \in [Keys -> Data]
  /\ migrate_buf \in [Threads -> Data]
  /\ latest \in [Keys -> Data]

ClientType ==
  /\ queue \in [Segments -> Seq(Tasks)]
  /\ buffer_task \in [Segments -> Tasks \union {NoTask}]
  /\ cpc \in [Clients -> ClientPc]
  /\ request \in [Clients -> Requests \union {NoRequest}]
  /\ \A c \in Clients : Span(request[c]) \subseteq Keys
  /\ post_idx \in [Clients -> 0 .. SegNum]
  /\ issued \in Data

\* What a client that posts, stores or reads has as its request.
ClientInv ==
  \A c \in Clients :
    /\ cpc[c] \in {"post", "ssd", "read"} => request[c] \in Requests
    /\ cpc[c] \in {"post", "ssd"} => Span(request[c]) \subseteq large
    /\ cpc[c] = "post" =>
         request[c].op = "write" /\ post_idx[c] < SegNum /\ post_idx[c] < request[c].len

\* A small task in a queue is in the queue of its block number, and awaited.
QueueInv ==
  \A s \in Segments : \A i \in DOMAIN queue[s] :
    Small(queue[s][i]) => queue[s][i].offset \in KeysOf(s) /\ Awaited(queue[s][i])

\* So is the task a worker executes.
HandInv ==
  \A s \in Segments : wpc[s] # "poll" =>
    /\ buffer_task[s] \in Tasks
    /\ buffer_task[s].offset = task[s]
    /\ Awaited(buffer_task[s])

\* A client waits for one task.
UniqueInv ==
  \A s \in Segments :
    /\ \A i, j \in DOMAIN queue[s] :
         i # j /\ Small(queue[s][i]) /\ Small(queue[s][j])
           => queue[s][i].client # queue[s][j].client
    /\ wpc[s] # "poll" =>
         \A i \in DOMAIN queue[s] :
           Small(queue[s][i]) => queue[s][i].client # buffer_task[s].client

\* An entry in a thread's hand is one of the segment it sweeps.
HeldInv ==
  \A t \in Threads : tpc[t] \in {"read", "store", "clear"} =>
    kv[t] \in Entry /\ kv[t].key \in KeysOf(segment_idx[t])

\* Worker s is between choosing the block for k and completing the write.
Writing(s, k) == wpc[s] \in {"data", "meta"} /\ task[s] = k

\* A worker that writes has a block to write to; between the data and the
\* self-description the data is there.
MetaInv ==
  \A s \in Segments :
    /\ wpc[s] \in {"data", "meta"} => offset[s] \in Blocks
    /\ wpc[s] = "meta" => buffer[TargetBlock(s)] = buffer_task[s].data

\* A block the index names holds the last write unless it is being written.
IndexedInv ==
  \A s \in Segments : \A k \in KeysOf(s) \ large : \A v \in Blocks :
    Has(segs[s], k, v) /\ ~Writing(s, k) => buffer[s * PerBlock + v] = latest[k]

\* After the first segment its record says so.
DescribedInv ==
  \A s \in Segments \ {0} : \A k \in KeysOf(s) : \A v \in Blocks :
    Has(segs[s], k, v) /\ ~Writing(s, k) =>
      buffer_meta[s * PerBlock + v] = [status |-> 1, offset |-> k]

\* An entry of the first segment in a thread's hand: the last write is where
\* the copy has got to.
CopyInv ==
  \A t \in Holding(0) : kv[t].key \notin large =>
    /\ tpc[t] = "read" => buffer[kv[t].value] = latest[kv[t].key]
    /\ tpc[t] = "store" => migrate_buf[t] = latest[kv[t].key]
    /\ tpc[t] = "clear" => ssd[kv[t].key] = latest[kv[t].key]

\* A block number of the first segment that is neither indexed nor in a
\* thread's hand is on the SSD.
Elsewhere(k) ==
  \/ \E v \in Blocks : Has(segs[0], k, v)
  \/ \E t \in Holding(0) : kv[t].key = k

SsdInv ==
  \A k \in KeysOf(0) \ large : ~Elsewhere(k) => ssd[k] = latest[k]

TaskPart == ClientType /\ ClientInv /\ QueueInv /\ HandInv /\ UniqueInv
DataPart ==
  DataType /\ HeldInv /\ MetaInv /\ IndexedInv /\ DescribedInv /\ CopyInv /\ SsdInv

StoreInv == IndexInv /\ TaskPart /\ DataPart

---------------------------------------------------------------------------
(* Queues, workers' tasks and clients *)

\* What one client's step leaves of the others: a task that was awaited by
\* another client still is.
LEMMA AwaitedKept ==
  ASSUME NEW c \in Clients, cpc[c] # "wait",
         \A d \in Clients \ {c} : cpc'[d] = cpc[d] /\ request'[d] = request[d],
         NEW b \in Tasks, Awaited(b)
  PROVE  b.client # c /\ Awaited(b)'
<1>1. b.client \in Clients
  BY DEF Tasks
<1>2. b.client # c
  BY DEF Awaited
<1> QED
  BY <1>1, <1>2 DEF Awaited

\* A task in a queue is a task.
LEMMA QueuedType ==
  ASSUME ClientType, NEW s \in Segments, NEW i \in DOMAIN queue[s]
  PROVE  queue[s][i] \in Tasks
  BY DEF ClientType

\* The steps of a client that posts nothing.
LEMMA ClientFrame ==
  ASSUME TaskPart, NEW c \in Clients, cpc[c] # "wait",
         \A d \in Clients \ {c} : /\ cpc'[d] = cpc[d] /\ request'[d] = request[d]
                                  /\ post_idx'[d] = post_idx[d],
         large \subseteq large',
         UNCHANGED <<wpc, task, queue, buffer_task>>
  PROVE  /\ QueueInv' /\ HandInv' /\ UniqueInv'
         /\ \A d \in Clients \ {c} :
              /\ cpc'[d] \in {"post", "ssd", "read"} => request'[d] \in Requests
              /\ cpc'[d] \in {"post", "ssd"} => Span(request'[d]) \subseteq large'
              /\ cpc'[d] = "post" => /\ request'[d].op = "write"
                                     /\ post_idx'[d] < SegNum
                                     /\ post_idx'[d] < request'[d].len
<1> USE DEF TaskPart
<1>1. QueueInv'
  <2> SUFFICES ASSUME NEW s \in Segments, NEW i \in DOMAIN queue[s], Small(queue[s][i])
               PROVE  queue[s][i].offset \in KeysOf(s) /\ Awaited(queue[s][i])'
    BY DEF QueueInv, Small, Awaited
  <2>1. PICK b : b = queue[s][i]
    OBVIOUS
  <2>2. b \in Tasks /\ b.offset \in KeysOf(s) /\ Awaited(b)
    BY <2>1, QueuedType DEF QueueInv
  <2>3. Awaited(b)'
    BY <2>2, AwaitedKept
  <2> QED
    BY <2>1, <2>2, <2>3 DEF Awaited
<1>2. HandInv'
  <2> SUFFICES ASSUME NEW s \in Segments, wpc[s] # "poll"
               PROVE  /\ buffer_task[s] \in Tasks
                      /\ buffer_task[s].offset = task[s]
                      /\ Awaited(buffer_task[s])'
    BY DEF HandInv, Awaited
  <2>1. PICK b : b = buffer_task[s]
    OBVIOUS
  <2>2. b \in Tasks /\ b.offset = task[s] /\ Awaited(b)
    BY <2>1 DEF HandInv
  <2>3. Awaited(b)'
    BY <2>2, AwaitedKept
  <2> QED
    BY <2>1, <2>2, <2>3 DEF Awaited
<1>3. UniqueInv'
  BY DEF UniqueInv, Small
<1>4. \A d \in Clients \ {c} :
        /\ cpc'[d] \in {"post", "ssd", "read"} => request'[d] \in Requests
        /\ cpc'[d] \in {"post", "ssd"} => Span(request'[d]) \subseteq large'
        /\ cpc'[d] = "post" => /\ request'[d].op = "write"
                               /\ post_idx'[d] < SegNum
                               /\ post_idx'[d] < request'[d].len
  BY DEF ClientInv
<1> QED
  BY <1>1, <1>2, <1>3, <1>4

\* A client posts a task.
LEMMA QueueAppend ==
  ASSUME TaskPart, NEW c \in Clients, cpc[c] # "wait",
         \A d \in Clients \ {c} : cpc'[d] = cpc[d] /\ request'[d] = request[d],
         NEW q \in Segments, NEW b \in Tasks, b.client = c,
         queue' = [queue EXCEPT ![q] = Append(@, b)],
         Small(b) => b.offset \in KeysOf(q) /\ Awaited(b)',
         UNCHANGED <<wpc, task, buffer_task>>
  PROVE  /\ queue' \in [Segments -> Seq(Tasks)]
         /\ QueueInv' /\ HandInv' /\ UniqueInv'
<1> USE DEF TaskPart
<1> DEFINE Q == queue[q]
<1>1. queue \in [Segments -> Seq(Tasks)] /\ Q \in Seq(Tasks) /\ Len(Q) \in Nat
  BY DEF ClientType
<1>2. /\ queue' \in [Segments -> Seq(Tasks)]
      /\ queue'[q] = Append(Q, b)
      /\ \A s \in Segments \ {q} : queue'[s] = queue[s]
  BY <1>1
<1>3. /\ DOMAIN queue'[q] = 1 .. Len(Q) + 1
      /\ DOMAIN Q = 1 .. Len(Q)
      /\ queue'[q][Len(Q) + 1] = b
      /\ \A i \in 1 .. Len(Q) : queue'[q][i] = Q[i]
  BY <1>1, <1>2
\* A queued task is an old one or the new one.
<1>4. ASSUME NEW s \in Segments, NEW i \in DOMAIN queue'[s]
      PROVE  \/ i \in DOMAIN queue[s] /\ queue'[s][i] = queue[s][i]
             \/ s = q /\ i = Len(Q) + 1 /\ i \notin DOMAIN queue[s] /\ queue'[s][i] = b
  BY <1>2, <1>3
<1>5. ASSUME NEW s \in Segments, NEW i \in DOMAIN queue[s], Small(queue[s][i])
      PROVE  /\ queue[s][i].offset \in KeysOf(s)
             /\ Awaited(queue[s][i])'
             /\ queue[s][i].client # c
  <2>1. PICK a : a = queue[s][i]
    OBVIOUS
  <2>2. a \in Tasks /\ a.offset \in KeysOf(s) /\ Awaited(a)
    BY <1>5, <2>1, QueuedType DEF QueueInv
  <2>3. Awaited(a)' /\ a.client # c
    BY <2>2, AwaitedKept
  <2> QED
    BY <2>1, <2>2, <2>3 DEF Awaited
<1>6. ASSUME NEW s \in Segments, wpc[s] # "poll"
      PROVE  /\ buffer_task[s] \in Tasks
             /\ buffer_task[s].offset = task[s]
             /\ Awaited(buffer_task[s])'
             /\ buffer_task[s].client # c
  <2>1. PICK a : a = buffer_task[s]
    OBVIOUS
  <2>2. a \in Tasks /\ a.offset = task[s] /\ Awaited(a)
    BY <1>6, <2>1 DEF HandInv
  <2>3. Awaited(a)' /\ a.client # c
    BY <2>2, AwaitedKept
  <2> QED
    BY <2>1, <2>2, <2>3 DEF Awaited
<1>7. QueueInv'
  <2> SUFFICES ASSUME NEW s \in Segments, NEW i \in DOMAIN queue'[s], Small(queue'[s][i])
               PROVE  queue'[s][i].offset \in KeysOf(s) /\ Awaited(queue[s][i])'
    BY DEF QueueInv, Small, Awaited
  <2>1. CASE i \in DOMAIN queue[s] /\ queue'[s][i] = queue[s][i]
    BY <2>1, <1>5 DEF Awaited
  <2>2. CASE s = q /\ queue'[s][i] = b
    BY <2>2 DEF Awaited
  <2> QED
    BY <2>1, <2>2, <1>4
<1>8. HandInv'
  BY <1>6 DEF HandInv, Awaited
<1>9. UniqueInv'
  <2>1. ASSUME NEW s \in Segments, NEW i \in DOMAIN queue'[s], NEW j \in DOMAIN queue'[s],
               i # j, Small(queue'[s][i]), Small(queue'[s][j])
        PROVE  queue'[s][i].client # queue'[s][j].client
    <3>1. CASE /\ i \in DOMAIN queue[s] /\ queue'[s][i] = queue[s][i]
               /\ j \in DOMAIN queue[s] /\ queue'[s][j] = queue[s][j]
      BY <2>1, <3>1 DEF UniqueInv
    <3>2. CASE i \in DOMAIN queue[s] /\ queue'[s][i] = queue[s][i] /\ queue'[s][j] = b
      BY <2>1, <3>2, <1>5
    <3>3. CASE j \in DOMAIN queue[s] /\ queue'[s][j] = queue[s][j] /\ queue'[s][i] = b
      BY <2>1, <3>3, <1>5
    <3> QED
      BY <2>1, <3>1, <3>2, <3>3, <1>4
  <2>2. ASSUME NEW s \in Segments, wpc[s] # "poll", NEW i \in DOMAIN queue'[s],
               Small(queue'[s][i])
        PROVE  queue'[s][i].client # buffer_task[s].client
    <3>1. CASE i \in DOMAIN queue[s] /\ queue'[s][i] = queue[s][i]
      BY <2>2, <3>1 DEF UniqueInv
    <3>2. CASE queue'[s][i] = b
      BY <2>2, <3>2, <1>6
    <3> QED
      BY <3>1, <3>2, <1>4
  <2> QED
    BY <2>1, <2>2 DEF UniqueInv, Small
<1> QED
  BY <1>2, <1>7, <1>8, <1>9

\* Block numbers are naturals.
LEMMA KeysAreNat == \A k \in Keys : k \in Nat
<1>1. Keys \subseteq 0 .. KeySpace - 1
  BY SegmentAssumption
<1>2. \A k \in 0 .. KeySpace - 1 : k \in Nat
  OBVIOUS
<1> QED
  BY <1>1, <1>2

\* The blocks of a request for one block.
LEMMA SpanOne ==
  ASSUME NEW r \in Requests, r.len = 1
  PROVE  Span(r) = {r.offset}
<1>1. r.op # "none" /\ r.offset \in Keys
  BY DEF Requests
<1>2. r.offset \in Int
  BY <1>1, KeysAreNat
<1> QED
  BY <1>1, <1>2 DEF Span

\* mixdk_write of one block.
LEMMA SmallWriteTask ==
  ASSUME TaskPart, NEW c \in Clients, NEW k \in Keys, SmallWrite(c, k)
  PROVE  TaskPart'
<1> USE DEF TaskPart
<1>a. PICK n : n = issued + 1
  OBVIOUS
<1> DEFINE r == [op |-> "write", offset |-> k, len |-> 1, data |-> n]
           b == [offset |-> k, opcode |-> {"write"}, data |-> n, client |-> c]
           q == k % SegNum
<1>1. /\ cpc[c] = "idle" /\ issued < MaxWrites
      /\ request' = [request EXCEPT ![c] = r]
      /\ queue' = [queue EXCEPT ![q] = Append(@, b)]
      /\ cpc' = [cpc EXCEPT ![c] = "wait"]
      /\ issued' = n
      /\ UNCHANGED <<vars, dataVars, buffer_task, post_idx, latest, large>>
  BY <1>a DEF SmallWrite, MayIssue
<1>2. n \in Data
  BY <1>1, <1>a, StoreAssumption DEF ClientType, Data
<1>3. r \in Requests /\ b \in Tasks /\ Small(b) /\ Span(r) = {k}
  <2>1. r \in Requests /\ b \in Tasks /\ Small(b)
    BY <1>2 DEF Requests, Tasks, Small
  <2> QED
    BY <2>1, SpanOne
<1>4. q \in Segments /\ k \in KeysOf(q) /\ SegNum \in Nat
  BY SegmentAssumption DEF Segments, KeysOf
<1>5. /\ \A d \in Clients \ {c} : cpc'[d] = cpc[d] /\ request'[d] = request[d]
      /\ cpc'[c] = "wait" /\ request'[c] = r
  BY <1>1 DEF ClientType
<1>6. Awaited(b)'
  BY <1>5 DEF Awaited
<1>7. UNCHANGED <<wpc, task, buffer_task, post_idx, large>>
  BY <1>1 DEF vars, workerVars
<1>8. /\ queue' \in [Segments -> Seq(Tasks)]
      /\ QueueInv' /\ HandInv' /\ UniqueInv'
  <2> HIDE DEF q, b, r
  <2>1. b.client = c /\ b.offset = k /\ cpc[c] # "wait"
    BY <1>1 DEF b
  <2>2. Small(b) => b.offset \in KeysOf(q) /\ Awaited(b)'
    BY <1>4, <1>6, <2>1
  <2> QED
    BY <1>1, <1>3, <1>4, <1>5, <1>6, <1>7, <2>1, <2>2, QueueAppend
<1>9. ClientType'
  <2>1. /\ cpc' \in [Clients -> ClientPc]
        /\ request' \in [Clients -> Requests \union {NoRequest}]
    BY <1>1, <1>3 DEF ClientType, ClientPc
  <2>2. \A d \in Clients : Span(request'[d]) \subseteq Keys
    BY <1>3, <1>5 DEF ClientType
  <2> QED
    BY <1>1, <1>2, <1>7, <1>8, <2>1, <2>2 DEF ClientType
<1>10. ClientInv'
  BY <1>5, <1>7 DEF ClientInv
<1> QED
  BY <1>8, <1>9, <1>10

\* A client moves on without posting a task.
LEMMA ClientMove ==
  ASSUME TaskPart, NEW c \in Clients, cpc[c] # "wait",
         NEW p \in ClientPc, cpc' = [cpc EXCEPT ![c] = p],
         NEW r \in Requests \union {NoRequest}, request' = [request EXCEPT ![c] = r],
         Span(r) \subseteq Keys,
         NEW i \in 0 .. SegNum, post_idx' = [post_idx EXCEPT ![c] = i],
         issued' \in Data, large \subseteq large',
         UNCHANGED <<wpc, task, queue, buffer_task>>,
         p \in {"post", "ssd", "read"} => r \in Requests,
         p \in {"post", "ssd"} => Span(r) \subseteq large',
         p = "post" => r.op = "write" /\ i < SegNum /\ i < r.len
  PROVE  TaskPart'
<1> USE DEF TaskPart
<1>1. /\ \A d \in Clients \ {c} : /\ cpc'[d] = cpc[d] /\ request'[d] = request[d]
                                  /\ post_idx'[d] = post_idx[d]
      /\ cpc'[c] = p /\ request'[c] = r /\ post_idx'[c] = i
  BY DEF ClientType
<1>2. /\ QueueInv' /\ HandInv' /\ UniqueInv'
      /\ \A d \in Clients \ {c} :
           /\ cpc'[d] \in {"post", "ssd", "read"} => request'[d] \in Requests
           /\ cpc'[d] \in {"post", "ssd"} => Span(request'[d]) \subseteq large'
           /\ cpc'[d] = "post" => /\ request'[d].op = "write"
                                  /\ post_idx'[d] < SegNum
                                  /\ post_idx'[d] < request'[d].len
  BY <1>1, ClientFrame
<1>3. ClientInv'
  BY <1>1, <1>2 DEF ClientInv
<1>4. ClientType'
  <2>1. cpc' \in [Clients -> ClientPc]
    BY DEF ClientType
  <2>2. request' \in [Clients -> Requests \union {NoRequest}]
    BY DEF ClientType
  <2>3. post_idx' \in [Clients -> 0 .. SegNum]
    BY DEF ClientType
  <2>4. \A d \in Clients : Span(request'[d]) \subseteq Keys
    BY <1>1 DEF ClientType
  <2> QED
    BY <2>1, <2>2, <2>3, <2>4 DEF ClientType
<1> QED
  BY <1>2, <1>3, <1>4

\* The request of a client that has none covers nothing.
LEMMA SpanNone == Span(NoRequest) = {}
  BY DEF Span, NoRequest

\* mixdk_write of more blocks than the threshold.
LEMMA LargeWriteTask ==
  ASSUME TaskPart, NEW c \in Clients, NEW k \in LargeStarts, LargeWrite(c, k)
  PROVE  TaskPart'
<1> USE DEF TaskPart
<1>a. PICK n : n = issued + 1
  OBVIOUS
<1> DEFINE r == [op |-> "write", offset |-> k, len |-> LargeLen, data |-> n]
<1>1. /\ cpc[c] = "idle" /\ issued < MaxWrites
      /\ request' = [request EXCEPT ![c] = r]
      /\ cpc' = [cpc EXCEPT ![c] = "post"]
      /\ post_idx' = [post_idx EXCEPT ![c] = 0]
      /\ issued' = n
      /\ large' = large \union Span(r)
      /\ UNCHANGED <<vars, queue, buffer_task>>
  BY <1>a DEF LargeWrite, MayIssue
<1>2. n \in Data
  BY <1>1, <1>a, StoreAssumption DEF ClientType, Data
<1>3. k \in Keys /\ LargeLen \in Nat /\ LargeLen > 0 /\ 0 \in 0 .. SegNum /\ 0 < SegNum
  BY StoreAssumption, SegmentAssumption
<1>4. r \in Requests /\ r.op = "write" /\ r.len = LargeLen
  BY <1>2, <1>3 DEF Requests
<1>5. Span(r) \subseteq Keys
  BY StoreAssumption DEF Span
<1>6. UNCHANGED <<wpc, task, queue, buffer_task>>
  BY <1>1 DEF vars, workerVars
<1> HIDE DEF r
<1>7. "post" \in ClientPc
  BY DEF ClientPc
<1> QED
  BY <1>1, <1>2, <1>3, <1>4, <1>5, <1>6, <1>7, ClientMove

\* The parts of mix_post_task_to_buffer are no more than the blocks of the write.
LEMMA PartInside ==
  ASSUME NEW n \in Nat, NEW i \in Nat, i < SegNum, PartLen(n, i) # 0
  PROVE  i < n
<1>1. SegNum \in Nat \ {0}
  BY SegmentAssumption
<1>2. PICK m : m = SegNum
  OBVIOUS
<1>3. m \in Nat \ {0} /\ i < m /\ (n \div m # 0 \/ n % m > i)
  BY <1>1, <1>2 DEF PartLen
<1>4. ASSUME n < m PROVE n \div m = 0 /\ n % m = n
  BY <1>3, <1>4
<1> QED
  BY <1>3, <1>4

\* mix_post_task_to_buffer, one part.
LEMMA LargePostTask ==
  ASSUME TaskPart, NEW c \in Clients, LargePost(c)
  PROVE  TaskPart'
<1> USE DEF TaskPart
<1>1. PICK r, i, q, l : /\ r = request[c] /\ i = post_idx[c]
                        /\ q = ((r.offset \div SegNum) + i) % SegNum
                        /\ l = (i + 1 = SegNum \/ PartLen(r.len, i + 1) = 0)
  OBVIOUS
<1>2. PICK b : b = [offset |-> r.offset + i, opcode |-> {"write", "clear"},
                    data |-> 0, client |-> c]
  OBVIOUS
<1>3. /\ cpc[c] = "post"
      /\ queue' = [queue EXCEPT ![q] = Append(@, b)]
      /\ post_idx' = [post_idx EXCEPT ![c] = IF l THEN 0 ELSE i + 1]
      /\ cpc' = [cpc EXCEPT ![c] = IF l THEN "ssd" ELSE @]
      /\ UNCHANGED <<vars, buffer_task, request, issued, large>>
  BY <1>1, <1>2 DEF LargePost
<1>4. /\ r \in Requests /\ r.op = "write" /\ Span(r) \subseteq Keys
      /\ Span(r) \subseteq large /\ i < SegNum /\ i < r.len
  BY <1>1, <1>3 DEF ClientInv, ClientType
<1>5. i \in Nat /\ r.offset \in Nat /\ r.len \in Nat /\ SegNum \in Nat \ {0}
  <2>1. r.offset \in Keys /\ r.len \in Nat
    BY <1>4 DEF Requests
  <2>2. i \in 0 .. SegNum /\ SegNum \in Nat \ {0}
    BY <1>1, SegmentAssumption DEF ClientType
  <2> QED
    BY <2>1, <2>2, KeysAreNat
<1>6. r.offset + i \in Keys
  <2>1. r.offset + i \in Span(r)
    BY <1>4, <1>5 DEF Span
  <2> QED
    BY <2>1, <1>4
<1>7. q \in Segments
  <2>1. (r.offset \div SegNum) + i \in Nat
    BY <1>5
  <2> QED
    BY <1>1, <1>5, <2>1 DEF Segments
<1>8. b \in Tasks /\ ~Small(b) /\ b.client = c
  <2>1. 0 \in Data
    BY StoreAssumption DEF Data
  <2>2. b.opcode # {"write"}
    <3>1. "clear" \in b.opcode
      BY <1>2
    <3> QED
      BY <3>1
  <2> QED
    BY <1>2, <1>6, <2>1, <2>2 DEF Tasks, Small
<1>9. /\ \A d \in Clients \ {c} : /\ cpc'[d] = cpc[d] /\ request'[d] = request[d]
                                  /\ post_idx'[d] = post_idx[d]
      /\ cpc'[c] = (IF l THEN "ssd" ELSE "post") /\ request'[c] = r
      /\ post_idx'[c] = (IF l THEN 0 ELSE i + 1)
  BY <1>1, <1>3 DEF ClientType
<1>10. UNCHANGED <<wpc, task, buffer_task, request, issued, large>>
  BY <1>3 DEF vars, workerVars
<1>11. /\ queue' \in [Segments -> Seq(Tasks)]
       /\ QueueInv' /\ HandInv' /\ UniqueInv'
  <2>1. cpc[c] # "wait"
    BY <1>3
  <2> QED
    BY <2>1, <1>3, <1>7, <1>8, <1>9, <1>10, QueueAppend
<1>12. ~l => i + 1 < SegNum /\ i + 1 < r.len
  <2> SUFFICES ASSUME ~l PROVE i + 1 < SegNum /\ i + 1 < r.len
    OBVIOUS
  <2>1. i + 1 < SegNum /\ PartLen(r.len, i + 1) # 0 /\ i + 1 \in Nat
    <3>1. ~(i + 1 = SegNum) /\ ~(PartLen(r.len, i + 1) = 0)
      BY <1>1, Zenon
    <3> QED
      BY <3>1, <1>4, <1>5
  <2> QED
    BY <2>1, <1>5, PartInside
<1>13. ClientInv'
  <2> SUFFICES ASSUME NEW d \in Clients
               PROVE  /\ cpc'[d] \in {"post", "ssd", "read"} => request'[d] \in Requests
                      /\ cpc'[d] \in {"post", "ssd"} => Span(request'[d]) \subseteq large'
                      /\ cpc'[d] = "post" => /\ request'[d].op = "write"
                                             /\ post_idx'[d] < SegNum
                                             /\ post_idx'[d] < request'[d].len
    BY DEF ClientInv
  <2>1. CASE d = c
    BY <2>1, <1>4, <1>9, <1>10, <1>12
  <2>2. CASE d # c
    BY <2>2, <1>9, <1>10 DEF ClientInv
  <2> QED
    BY <2>1, <2>2
<1>14. ClientType'
  <2>1. cpc' \in [Clients -> ClientPc]
    BY <1>3 DEF ClientType, ClientPc
  <2>2. post_idx' \in [Clients -> 0 .. SegNum]
    <3>1. (IF l THEN 0 ELSE i + 1) \in 0 .. SegNum
      BY <1>5, <1>12
    <3> QED
      BY <3>1, <1>3 DEF ClientType
  <2> QED
    BY <2>1, <2>2, <1>10, <1>11 DEF ClientType
<1> QED
  BY <1>11, <1>13, <1>14

\* The large write goes to the SSD, and the call returns.
LEMMA LargeSsdTask ==
  ASSUME TaskPart, NEW c \in Clients, LargeSsd(c)
  PROVE  TaskPart'
<1> USE DEF TaskPart
<1>1. /\ cpc[c] = "ssd"
      /\ request' = [request EXCEPT ![c] = NoRequest]
      /\ cpc' = [cpc EXCEPT ![c] = "idle"]
      /\ UNCHANGED <<vars, queue, buffer_task, post_idx, issued, large>>
  BY DEF LargeSsd
<1>2. UNCHANGED <<wpc, task, queue, buffer_task, issued, large>>
  BY <1>1 DEF vars, workerVars
<1>3. post_idx[c] \in 0 .. SegNum /\ post_idx' = [post_idx EXCEPT ![c] = post_idx[c]]
  BY <1>1 DEF ClientType
<1>4. "idle" \in ClientPc /\ issued' \in Data
  BY <1>2 DEF ClientPc, ClientType
<1> QED
  BY <1>1, <1>2, <1>3, <1>4, SpanNone, ClientMove

\* mixdk_read is called, is answered from the SSD and returns.
LEMMA ReadTask ==
  ASSUME TaskPart, DataType, NEW c \in Clients,
         (\E k \in ReadKeys : ReadCall(c, k)) \/ ReadSsd(c) \/ ReadReturn(c)
  PROVE  TaskPart'
<1> USE DEF TaskPart
<1>1. UNCHANGED <<vars, queue, buffer_task, post_idx, issued, large>>
  BY DEF ReadCall, ReadSsd, ReadReturn
<1>2. UNCHANGED <<wpc, task, queue, buffer_task, issued, large>>
  BY <1>1 DEF vars, workerVars
<1>3. post_idx[c] \in 0 .. SegNum /\ post_idx' = [post_idx EXCEPT ![c] = post_idx[c]]
  BY <1>1 DEF ClientType
<1>4. "idle" \in ClientPc /\ "read" \in ClientPc /\ "done" \in ClientPc /\ issued' \in Data
  BY <1>2 DEF ClientPc, ClientType
<1>5. ASSUME NEW k \in ReadKeys, ReadCall(c, k) PROVE TaskPart'
  <2> DEFINE r == [op |-> "read", offset |-> k, len |-> 1, data |-> 0]
  <2>1. r \in Requests /\ r.len = 1 /\ r.offset = k
    BY StoreAssumption DEF Requests, Data
  <2>2. cpc[c] = "idle" /\ request' = [request EXCEPT ![c] = r]
        /\ cpc' = [cpc EXCEPT ![c] = "read"]
    BY <1>5 DEF ReadCall, MayIssue
  <2> HIDE DEF r
  <2>3. Span(r) \subseteq Keys
    BY <2>1, SpanOne, StoreAssumption
  <2> QED
    BY <1>2, <1>3, <1>4, <2>1, <2>2, <2>3, ClientMove
<1>6. CASE ReadSsd(c)
  <2>1. PICK r, x : /\ x = ssd[request[c].offset]
                    /\ r = [request[c] EXCEPT !.data = x]
    OBVIOUS
  <2>2. cpc[c] = "read" /\ request[c] \in Requests /\ request[c].offset \in Keys
    BY <1>6 DEF ReadSsd, ClientInv, Requests
  <2>3. x \in Data
    BY <2>1, <2>2 DEF DataType
  <2>4. r \in Requests /\ r.op = request[c].op /\ r.offset = request[c].offset
        /\ r.len = request[c].len
    BY <2>1, <2>2, <2>3 DEF Requests
  <2>5. Span(r) \subseteq Keys
    BY <2>4 DEF Span, ClientType
  <2>6. request' = [request EXCEPT ![c] = r] /\ cpc' = [cpc EXCEPT ![c] = "done"]
    BY <1>6, <2>1 DEF ReadSsd
  <2> QED
    BY <1>2, <1>3, <1>4, <2>2, <2>4, <2>5, <2>6, ClientMove
<1>7. CASE ReadReturn(c)
  <2>1. cpc[c] = "done" /\ request' = [request EXCEPT ![c] = NoRequest]
        /\ cpc' = [cpc EXCEPT ![c] = "idle"]
    BY <1>7 DEF ReadReturn
  <2> QED
    BY <1>2, <1>3, <1>4, <2>1, SpanNone, ClientMove
<1> QED
  BY <1>5, <1>6, <1>7

\* A step that leaves the queues, the clients and the workers' tasks alone.
LEMMA TaskFrame ==
  ASSUME TaskPart, UNCHANGED <<queue, buffer_task, clientVars>>,
         \A r \in Segments : wpc'[r] # "poll" => wpc[r] # "poll" /\ task'[r] = task[r]
  PROVE  TaskPart'
<1> USE DEF TaskPart, clientVars
<1>1. ClientType'
  BY DEF ClientType
<1>2. ClientInv'
  BY DEF ClientInv
<1>3. QueueInv'
  BY DEF QueueInv, Small, Awaited
<1>4. HandInv'
  BY DEF HandInv, Awaited
<1>5. UniqueInv'
  BY DEF UniqueInv, Small
<1> QED
  BY <1>1, <1>2, <1>3, <1>4, <1>5

\* A task leaves its queue for the hand of its worker.
LEMMA DequeueTask ==
  ASSUME TaskPart, NEW s \in Segments, wpc[s] = "poll", queue[s] # <<>>,
         queue' = [queue EXCEPT ![s] = Tail(@)],
         buffer_task' = [buffer_task EXCEPT ![s] = Head(queue[s])],
         \A r \in Segments \ {s} : wpc'[r] = wpc[r] /\ task'[r] = task[r],
         wpc'[s] # "poll" =>
           Small(Head(queue[s])) /\ task'[s] = Head(queue[s]).offset,
         UNCHANGED clientVars
  PROVE  TaskPart'
<1> USE DEF TaskPart, clientVars
<1> DEFINE Q == queue[s]
<1>1. PICK b : b = Head(Q)
  OBVIOUS
<1>2. /\ queue \in [Segments -> Seq(Tasks)] /\ Q \in Seq(Tasks) /\ Len(Q) \in Nat \ {0}
      /\ b = Q[1] /\ 1 \in DOMAIN Q /\ b \in Tasks /\ Tail(Q) \in Seq(Tasks)
  BY <1>1 DEF ClientType
<1>3. /\ queue' \in [Segments -> Seq(Tasks)]
      /\ \A r \in Segments \ {s} : queue'[r] = queue[r]
      /\ queue'[s] = Tail(Q)
  BY <1>2
<1>4. \A i \in DOMAIN Tail(Q) : i \in Nat \ {0} /\ i + 1 \in DOMAIN Q /\ Tail(Q)[i] = Q[i + 1]
  BY <1>2
<1>5. /\ buffer_task' \in [Segments -> Tasks \union {NoTask}]
      /\ buffer_task'[s] = b
      /\ \A r \in Segments \ {s} : buffer_task'[r] = buffer_task[r]
  BY <1>1, <1>2 DEF ClientType
<1>6. ClientType'
  BY <1>3, <1>5 DEF ClientType
<1>7. ClientInv'
  BY DEF ClientInv
<1>8. QueueInv'
  <2> SUFFICES ASSUME NEW r \in Segments, NEW i \in DOMAIN queue'[r], Small(queue'[r][i])
               PROVE  queue'[r][i].offset \in KeysOf(r) /\ Awaited(queue[r][i])'
    BY DEF QueueInv, Small, Awaited
  <2>1. CASE r # s
    BY <2>1, <1>3 DEF QueueInv, Awaited
  <2>2. CASE r = s
    <3>1. i + 1 \in DOMAIN queue[s] /\ queue'[r][i] = queue[s][i + 1]
      BY <2>2, <1>3, <1>4
    <3> QED
      BY <3>1, <2>2 DEF QueueInv, Awaited
  <2> QED
    BY <2>1, <2>2
<1>9. HandInv'
  <2> SUFFICES ASSUME NEW r \in Segments, wpc'[r] # "poll"
               PROVE  /\ buffer_task'[r] \in Tasks
                      /\ buffer_task'[r].offset = task'[r]
                      /\ Awaited(buffer_task[r])'
    BY DEF HandInv, Awaited
  <2>1. CASE r # s
    BY <2>1, <1>5 DEF HandInv, Awaited
  <2>2. CASE r = s
    <3>1. Small(b) /\ task'[s] = b.offset
      BY <2>2, <1>1
    <3>2. Awaited(b)
      BY <3>1, <1>2 DEF QueueInv
    <3> QED
      BY <2>2, <3>1, <3>2, <1>2, <1>5 DEF Awaited
  <2> QED
    BY <2>1, <2>2
<1>10. UniqueInv'
  <2>1. ASSUME NEW r \in Segments, NEW i \in DOMAIN queue'[r], NEW j \in DOMAIN queue'[r],
               i # j, Small(queue'[r][i]), Small(queue'[r][j])
        PROVE  queue'[r][i].client # queue'[r][j].client
    <3>1. CASE r # s
      BY <2>1, <3>1, <1>3 DEF UniqueInv
    <3>2. CASE r = s
      <4>1. /\ i + 1 \in DOMAIN Q /\ j + 1 \in DOMAIN Q /\ i + 1 # j + 1
            /\ queue'[r][i] = Q[i + 1] /\ queue'[r][j] = Q[j + 1]
        BY <2>1, <3>2, <1>3, <1>4
      <4> QED
        BY <2>1, <3>2, <4>1 DEF UniqueInv
    <3> QED
      BY <3>1, <3>2
  <2>2. ASSUME NEW r \in Segments, wpc'[r] # "poll", NEW i \in DOMAIN queue'[r],
               Small(queue'[r][i])
        PROVE  queue'[r][i].client # buffer_task'[r].client
    <3>1. CASE r # s
      BY <2>2, <3>1, <1>3, <1>5 DEF UniqueInv
    <3>2. CASE r = s
      <4>1. i + 1 \in DOMAIN Q /\ i + 1 # 1 /\ queue'[r][i] = Q[i + 1]
        BY <2>2, <3>2, <1>3, <1>4
      <4>2. Small(b)
        BY <2>2, <3>2, <1>1
      <4> QED
        BY <2>2, <3>2, <4>1, <4>2, <1>2, <1>5 DEF UniqueInv
    <3> QED
      BY <3>1, <3>2
  <2> QED
    BY <2>1, <2>2 DEF UniqueInv, Small
<1> QED
  BY <1>6, <1>7, <1>8, <1>9, <1>10

\* No block number belongs to two segments.
LEMMA OneSegment ==
  ASSUME NEW s, NEW r, NEW k \in KeysOf(s), k \in KeysOf(r)
  PROVE  r = s
  BY DEF KeysOf

\* A write is complete: its client goes on, and waited for nothing else.
LEMMA WriteMetaTask ==
  ASSUME TaskPart, TaskInv, NEW s \in Segments, StoreWriteMeta(s),
         \A r \in Segments \ {s} : wpc'[r] = wpc[r] /\ task'[r] = task[r],
         wpc'[s] = "poll", wpc[s] = "meta"
  PROVE  TaskPart'
<1> USE DEF TaskPart
<1>1. PICK b : b = buffer_task[s]
  OBVIOUS
<1>2. /\ request' = [request EXCEPT ![b.client] = NoRequest]
      /\ cpc' = [cpc EXCEPT ![b.client] = "idle"]
      /\ buffer_task' = [buffer_task EXCEPT ![s] = NoTask]
      /\ UNCHANGED <<queue, post_idx, issued, large>>
  BY <1>1 DEF StoreWriteMeta
<1>3. /\ b \in Tasks /\ b.client \in Clients /\ b.offset = task[s] /\ Awaited(b)
      /\ b.offset \in KeysOf(s)
  BY <1>1 DEF HandInv, TaskInv, Tasks
<1>4. /\ \A d \in Clients \ {b.client} : cpc'[d] = cpc[d] /\ request'[d] = request[d]
      /\ cpc'[b.client] = "idle" /\ request'[b.client] = NoRequest
      /\ \A r \in Segments \ {s} : buffer_task'[r] = buffer_task[r]
  BY <1>2, <1>3 DEF ClientType
\* Two tasks one client waits for are of one block, so of one segment.
<1>5. ASSUME NEW a \in Tasks, Awaited(a), NEW r \in Segments, a.offset \in KeysOf(r),
             a.client = b.client
      PROVE  r = s
  <2>1. a.offset = b.offset
    BY <1>3, <1>5 DEF Awaited
  <2> QED
    BY <2>1, <1>3, <1>5, OneSegment
<1>6. ASSUME NEW a \in Tasks, Awaited(a), a.client # b.client
      PROVE  Awaited(a)'
  BY <1>4, <1>6 DEF Awaited, Tasks
<1>7. QueueInv'
  <2> SUFFICES ASSUME NEW r \in Segments, NEW i \in DOMAIN queue[r], Small(queue[r][i])
               PROVE  queue[r][i].offset \in KeysOf(r) /\ Awaited(queue[r][i])'
    BY <1>2 DEF QueueInv, Small, Awaited
  <2>1. PICK a : a = queue[r][i]
    OBVIOUS
  <2>2. a \in Tasks /\ a.offset \in KeysOf(r) /\ Awaited(a)
    BY <2>1, QueuedType DEF QueueInv
  <2>3. a.client # b.client
    <3> SUFFICES ASSUME a.client = b.client PROVE FALSE
      OBVIOUS
    <3>1. r = s
      BY <2>2, <1>5
    <3> QED
      BY <3>1, <2>1, <1>1 DEF UniqueInv
  <2>4. Awaited(a)'
    BY <2>2, <2>3, <1>6
  <2> QED
    BY <1>2, <2>1, <2>2, <2>4 DEF Awaited
<1>8. HandInv'
  <2> SUFFICES ASSUME NEW r \in Segments, wpc'[r] # "poll"
               PROVE  /\ buffer_task'[r] \in Tasks
                      /\ buffer_task'[r].offset = task'[r]
                      /\ Awaited(buffer_task[r])'
    BY DEF HandInv, Awaited
  <2>1. r # s /\ wpc[r] # "poll" /\ task'[r] = task[r]
    OBVIOUS
  <2>2. PICK a : a = buffer_task[r]
    OBVIOUS
  <2>3. a \in Tasks /\ a.offset = task[r] /\ Awaited(a) /\ a.offset \in KeysOf(r)
    BY <2>1, <2>2 DEF HandInv, TaskInv
  <2>4. a.client # b.client
    BY <2>1, <2>3, <1>5
  <2>5. Awaited(a)'
    BY <2>3, <2>4, <1>6
  <2> QED
    BY <2>1, <2>2, <2>3, <2>5, <1>4 DEF Awaited
<1>9. UniqueInv'
  BY <1>2, <1>4 DEF UniqueInv, Small
<1>10. ClientInv'
  BY <1>2, <1>4 DEF ClientInv
<1>11. ClientType'
  <2>1. cpc' \in [Clients -> ClientPc]
    BY <1>2, <1>3 DEF ClientType, ClientPc
  <2>2. request' \in [Clients -> Requests \union {NoRequest}]
    BY <1>2, <1>3 DEF ClientType
  <2>3. buffer_task' \in [Segments -> Tasks \union {NoTask}]
    BY <1>2 DEF ClientType
  <2>4. \A d \in Clients : Span(request'[d]) \subseteq Keys
    BY <1>4, SpanNone DEF ClientType
  <2> QED
    BY <1>2, <2>1, <2>2, <2>3, <2>4 DEF ClientType
<1> QED
  BY <1>7, <1>8, <1>9, <1>10, <1>11

\* redirect_write of k by worker s.
RedirectTo(s, k) == RedirectHit(s, k) \/ RedirectNew(s, k) \/ RedirectFull(s, k)

\* nvm_worker's switch: a task that is not small is dropped.
LEMMA DispatchCases ==
  ASSUME NEW s \in Segments, Dispatch(s)
  PROVE  \/ Small(Head(queue[s])) /\ RedirectTo(s, Head(queue[s]).offset)
         \/ ~Small(Head(queue[s])) /\ UNCHANGED vars
  BY DEF Dispatch, Small, RedirectTo

\* What the redirection moves.
LEMMA RedirectMoves ==
  ASSUME TypeOK, NEW s \in Segments, NEW k, RedirectTo(s, k)
  PROVE  /\ wpc'[s] \in {"data", "lock"} /\ task'[s] = k
         /\ \A r \in Segments \ {s} : wpc'[r] = wpc[r] /\ task'[r] = task[r]
  BY DEF RedirectTo, RedirectHit, RedirectNew, RedirectFull, Allocate, TypeOK

\* Every step of the store is a step of the index and its migration.
LEMMA StoreRefines ==
  ASSUME TaskPart, StoreNext
  PROVE  [Next]_vars
<1>1. ASSUME NEW c \in Clients, ClientStep(c) PROVE [Next]_vars
  <2>1. UNCHANGED vars
    BY <1>1 DEF ClientStep, SmallWrite, LargeWrite, LargePost, LargeSsd, ReadCall,
                ReadSsd, ReadReturn
  <2> QED
    BY <2>1
<1>2. ASSUME NEW s \in Segments, StoreWorkerStep(s) PROVE [Next]_vars
  <2>1. CASE Dispatch(s)
    <3>1. PICK b : b = Head(queue[s])
      OBVIOUS
    <3>2. Small(b) => b.offset \in KeysOf(s)
      <4>1. queue[s] \in Seq(Tasks) /\ queue[s] # <<>>
        BY <2>1 DEF Dispatch, TaskPart, ClientType
      <4>2. b = queue[s][1] /\ 1 \in DOMAIN queue[s]
        BY <3>1, <4>1
      <4> QED
        BY <4>2 DEF TaskPart, QueueInv
    <3>3. Small(b) /\ RedirectTo(s, b.offset) => Next
      BY <3>2 DEF RedirectTo, Redirect, Next
    <3> QED
      BY <2>1, <3>1, <3>3, DispatchCases
  <2>2. CASE ~Dispatch(s)
    <3>1. WorkerStep(s)
      BY <1>2, <2>2 DEF StoreWorkerStep, StoreWriteData, StoreWriteMeta, WorkerStep
    <3> QED
      BY <3>1 DEF Next
  <2> QED
    BY <2>1, <2>2
<1>3. ASSUME NEW t \in Threads, StoreThreadStep(t) PROVE [Next]_vars
  <2>1. ThreadStep(t)
    BY <1>3 DEF StoreThreadStep, StoreThreadRead, StoreThreadStore, StoreThreadClear,
                ThreadStep
  <2> QED
    BY <2>1 DEF Next
<1> QED
  BY <1>1, <1>2, <1>3 DEF StoreNext

\* Every step keeps the queues, the workers' tasks and the clients consistent.
LEMMA StoreTask ==
  ASSUME IndexInv, TaskPart, DataType, StoreNext
  PROVE  TaskPart'
<1> USE DEF IndexInv, IInv
<1>1. ASSUME NEW c \in Clients, ClientStep(c) PROVE TaskPart'
  BY <1>1, SmallWriteTask, LargeWriteTask, LargePostTask, LargeSsdTask, ReadTask
     DEF ClientStep
<1>2. ASSUME NEW s \in Segments, StoreWorkerStep(s) PROVE TaskPart'
  <2>1. CASE Dispatch(s)
    <3>1. /\ wpc[s] = "poll" /\ queue[s] # <<>>
          /\ queue' = [queue EXCEPT ![s] = Tail(@)]
          /\ buffer_task' = [buffer_task EXCEPT ![s] = Head(queue[s])]
          /\ UNCHANGED clientVars
      BY <2>1 DEF Dispatch
    <3>2. /\ \A r \in Segments \ {s} : wpc'[r] = wpc[r] /\ task'[r] = task[r]
          /\ wpc'[s] # "poll" =>
               Small(Head(queue[s])) /\ task'[s] = Head(queue[s]).offset
      <4>1. CASE Small(Head(queue[s])) /\ RedirectTo(s, Head(queue[s]).offset)
        <5>1. PICK k : k = Head(queue[s]).offset
          OBVIOUS
        <5> QED
          BY <4>1, <5>1, RedirectMoves
      <4>2. CASE UNCHANGED vars
        BY <4>2, <3>1 DEF vars, workerVars
      <4> QED
        BY <2>1, <4>1, <4>2, DispatchCases
    <3> QED
      BY <3>1, <3>2, DequeueTask
  <2>2. CASE StoreWriteMeta(s)
    <3>1. /\ \A r \in Segments \ {s} : wpc'[r] = wpc[r] /\ task'[r] = task[r]
          /\ wpc'[s] = "poll" /\ wpc[s] = "meta"
      BY <2>2 DEF StoreWriteMeta, WriteMeta, TypeOK
    <3> QED
      BY <2>2, <3>1, WriteMetaTask
  <2>3. CASE StoreWriteData(s)
    <3>1. \A r \in Segments : wpc'[r] # "poll" => wpc[r] # "poll" /\ task'[r] = task[r]
      BY <2>3 DEF StoreWriteData, WriteData, TypeOK
    <3> QED
      BY <2>3, <3>1, TaskFrame DEF StoreWriteData
  <2>4. CASE /\ \/ RedirectRetry(s) \/ MigrateLock(s) \/ MigrationBegin(s)
                \/ RaiseFlag(s) \/ MigrationEnd(s)
             /\ UNCHANGED <<queue, buffer_task, clientVars>>
    <3>1. \A r \in Segments : wpc'[r] # "poll" => wpc[r] # "poll" /\ task'[r] = task[r]
      BY <2>4 DEF RedirectRetry, Allocate, MigrateLock, MigrationBegin, RaiseFlag,
                  MigrationEnd, TypeOK
    <3> QED
      BY <2>4, <3>1, TaskFrame
  <2> QED
    BY <1>2, <2>1, <2>2, <2>3, <2>4 DEF StoreWorkerStep
<1>3. ASSUME NEW t \in Threads, StoreThreadStep(t) PROVE TaskPart'
  <2>1. UNCHANGED <<wpc, task, queue, buffer_task, clientVars>>
    BY <1>3 DEF StoreThreadStep, StoreThreadRead, StoreThreadStore, StoreThreadClear,
                ThreadSee, ThreadLoad, ThreadPop, ThreadSkip, ThreadRead, ThreadStore,
                ThreadClear, ThreadCount, ThreadLower, workerVars
  <2> QED
    BY <2>1, TaskFrame
<1> QED
  BY <1>1, <1>2, <1>3 DEF StoreNext

---------------------------------------------------------------------------
(* The entries of an index *)

\* An entry maps a block number to a buffer block.
LEMMA HasType ==
  ASSUME NEW g \in Segment, NEW k, NEW v, Has(g, k, v)
  PROVE  k \in Keys /\ v \in Blocks
<1>1. PICK p \in Positions(g) : EntryAt(g, p).key = k /\ EntryAt(g, p).value = v
  BY DEF Has
<1>2. EntryAt(g, p) \in Entry
  BY EntryAtType
<1> QED
  BY <1>1, <1>2 DEF Entry

\* In a consistent index it maps one to one.
LEMMA HasUnique ==
  ASSUME NEW g \in Segment, NEW s \in Segments, GoodIndex(g, s),
         NEW k, NEW v, NEW j, NEW w, Has(g, k, v), Has(g, j, w)
  PROVE  k = j <=> v = w
<1>1. PICK p \in Positions(g) : EntryAt(g, p).key = k /\ EntryAt(g, p).value = v
  BY DEF Has
<1>2. PICK q \in Positions(g) : EntryAt(g, q).key = j /\ EntryAt(g, q).value = w
  BY DEF Has
<1>3. p # q => k # j /\ v # w
  BY <1>1, <1>2 DEF GoodIndex
<1> QED
  BY <1>1, <1>2, <1>3

\* ... and only block numbers of the segment.
LEMMA HasKey ==
  ASSUME NEW g \in Segment, NEW s \in Segments, GoodIndex(g, s), NEW k, NEW v, Has(g, k, v)
  PROVE  k \in KeysOf(s)
  BY DEF GoodIndex, Has

\* A block the lookup returns is the one of an entry.
LEMMA TestFinds ==
  ASSUME NEW g \in Segment, NEW k \in Keys, mix_buffer_block_test(g, k) # None
  PROVE  Has(g, k, mix_buffer_block_test(g, k))
<1> DEFINE c == mix_hash_hash(k)
           L == g.hash_nodes[c]
           i == CHOOSE i \in Hits(g, k) : \A j \in Hits(g, k) : i <= j
<1>1. c \in Buckets /\ L \in Seq(Entry) /\ Len(L) \in Nat /\ DOMAIN L = 1 .. Len(L)
  BY SegmentAssumption DEF mix_hash_hash, Buckets, Segment
<1>2. Hits(g, k) # {} /\ mix_buffer_block_test(g, k) = mix_hash_get(g, k)
  BY DEF mix_buffer_block_test, mix_hash_get
<1>3. Hits(g, k) \in SUBSET Nat /\ Hits(g, k) = {x \in DOMAIN L : L[x].key = k}
  BY <1>1 DEF Hits
<1>4. \E x \in Hits(g, k) : \A j \in Hits(g, k) : x <= j
  BY <1>2, <1>3, LeastNat
<1>5. i \in Hits(g, k)
  BY <1>4
<1>6. mix_buffer_block_test(g, k) = L[i].value
  BY <1>2 DEF mix_hash_get
<1>7. i \in 1 .. Len(L) /\ L[i].key = k /\ i \in Nat
  BY <1>1, <1>3, <1>5
<1>8. <<c, i>> \in Positions(g)
  BY <1>1, <1>7, PositionsOf
<1>9. EntryAt(g, <<c, i>>) = L[i]
  BY DEF EntryAt
<1> QED
  BY <1>6, <1>7, <1>8, <1>9 DEF Has

\* ... and where it returns none there is no entry.
LEMMA TestMisses ==
  ASSUME NEW g \in Segment, NEW s \in Segments, GoodIndex(g, s), NEW k \in Keys,
         mix_buffer_block_test(g, k) = None, NEW v
  PROVE  ~Has(g, k, v)
  BY AbsentKey DEF Has

\* The entries are those of the buckets.
LEMMA HasSame ==
  ASSUME NEW g, NEW h, h.hash_nodes = g.hash_nodes, NEW k, NEW v
  PROVE  Has(h, k, v) <=> Has(g, k, v)
  BY DEF Has, Positions, EntryAt

\* mix_hash_put adds one entry.
LEMMA HasAfterPut ==
  ASSUME NEW g \in Segment, NEW h \in Segment, NEW b \in Buckets, NEW e \in Entry,
         Pushed(g, h, b, e), NEW k, NEW v
  PROVE  Has(h, k, v) <=> Has(g, k, v) \/ (k = e.key /\ v = e.value)
<1>1. PushShape(g, h, b, e)
  BY PutPositions
<1>2. Has(g, k, v) => Has(h, k, v)
  BY KeptByPut DEF Kept, Has
<1>3. Has(h, e.key, e.value)
  BY <1>1 DEF PushShape, Has
<1>4. ASSUME Has(h, k, v) PROVE Has(g, k, v) \/ (k = e.key /\ v = e.value)
  <2>1. PICK p \in Positions(h) : EntryAt(h, p).key = k /\ EntryAt(h, p).value = v
    BY <1>4 DEF Has
  <2>2. PICK c \in Buckets, i \in Nat : p = <<c, i>>
    BY PositionsOf
  <2>3. i \in 1 .. Len(h.hash_nodes[c])
    BY <2>1, <2>2, PositionsOf
  <2>4. CASE c # b
    <3>1. h.hash_nodes[c] = g.hash_nodes[c]
      BY <2>4 DEF Pushed
    <3>2. <<c, i>> \in Positions(g)
      BY <2>3, <3>1, PositionsOf
    <3>3. EntryAt(g, <<c, i>>) = EntryAt(h, <<c, i>>)
      BY <3>1 DEF EntryAt
    <3> QED
      BY <2>1, <2>2, <3>2, <3>3 DEF Has
  <2>5. CASE c = b
    <3>1. PICK n \in Nat : n = Len(g.hash_nodes[b])
      BY <1>1 DEF PushShape
    <3>2. /\ EntryAt(h, <<b, 1>>) = e
          /\ \A j \in 1 .. n : EntryAt(h, <<b, j + 1>>) = EntryAt(g, <<b, j>>)
      BY <1>1, <3>1 DEF PushShape
    <3>3. Len(h.hash_nodes[b]) = n + 1
      <4>1. g.hash_nodes[b] \in Seq(Entry) /\ <<e>> \in Seq(Entry) /\ Len(<<e>>) = 1
        BY DEF Segment
      <4> QED
        BY <4>1, <3>1 DEF Pushed
    <3>4. CASE i = 1
      BY <2>1, <2>2, <2>5, <3>2, <3>4
    <3>5. CASE i # 1
      <4>1. PICK j \in 1 .. n : i = j + 1
        <5>1. i - 1 \in 1 .. n /\ i = (i - 1) + 1
          BY <2>3, <2>5, <3>3, <3>5
        <5> QED
          BY <5>1
      <4>2. <<b, j>> \in Positions(g)
        BY <3>1, <4>1, PositionsOf
      <4> QED
        BY <2>1, <2>2, <2>5, <3>2, <4>1, <4>2 DEF Has
    <3> QED
      BY <3>4, <3>5
  <2> QED
    BY <2>4, <2>5
<1> QED
  BY <1>2, <1>3, <1>4

\* mix_hash_get_entry_by_idx takes the entry at the head.
LEMMA HasAfterPop ==
  ASSUME NEW g \in Segment, NEW h \in Segment, NEW b \in Buckets, Popped(g, h, b),
         NEW e, e = Head(g.hash_nodes[b]), NEW k, NEW v
  PROVE  /\ Has(g, e.key, e.value)
         /\ Has(h, k, v) => Has(g, k, v)
         /\ Has(g, k, v) => Has(h, k, v) \/ (k = e.key /\ v = e.value)
<1>1. PopShape(g, h, b)
  BY PopPositions
<1>2. PICK n \in Nat \ {0} : n = Len(g.hash_nodes[b])
  BY <1>1 DEF PopShape
<1>3. Has(g, e.key, e.value)
  <2>1. <<b, 1>> \in Positions(g)
    BY <1>2, PositionsOf
  <2>2. EntryAt(g, <<b, 1>>) = e
    BY <1>1 DEF PopShape
  <2> QED
    BY <2>1, <2>2 DEF Has
<1>4. ASSUME Has(h, k, v) PROVE Has(g, k, v)
  <2>1. PICK p \in Positions(h) : EntryAt(h, p).key = k /\ EntryAt(h, p).value = v
    BY <1>4 DEF Has
  <2>2. PICK c \in Buckets, i \in Nat : p = <<c, i>>
    BY PositionsOf
  <2>3. i \in 1 .. Len(h.hash_nodes[c])
    BY <2>1, <2>2, PositionsOf
  <2>4. CASE c # b
    <3>1. h.hash_nodes[c] = g.hash_nodes[c]
      BY <2>4 DEF Popped
    <3>2. <<c, i>> \in Positions(g)
      BY <2>3, <3>1, PositionsOf
    <3>3. EntryAt(g, <<c, i>>) = EntryAt(h, <<c, i>>)
      BY <3>1 DEF EntryAt
    <3> QED
      BY <2>1, <2>2, <3>2, <3>3 DEF Has
  <2>5. CASE c = b
    <3>1. Len(h.hash_nodes[b]) = n - 1
      <4>1. g.hash_nodes[b] \in Seq(Entry) /\ g.hash_nodes[b] # <<>>
        BY DEF Segment, Popped
      <4> QED
        BY <4>1, <1>2 DEF Popped
    <3>2. i \in 1 .. n - 1 /\ i + 1 \in 1 .. n
      BY <2>3, <2>5, <3>1
    <3>3. EntryAt(h, <<b, i>>) = EntryAt(g, <<b, i + 1>>)
      BY <1>1, <1>2, <3>2 DEF PopShape
    <3>4. <<b, i + 1>> \in Positions(g)
      BY <1>2, <3>2, PositionsOf
    <3> QED
      BY <2>1, <2>2, <2>5, <3>3, <3>4 DEF Has
  <2> QED
    BY <2>4, <2>5
<1>5. ASSUME Has(g, k, v) PROVE Has(h, k, v) \/ (k = e.key /\ v = e.value)
  <2>1. PICK p \in Positions(g) : EntryAt(g, p).key = k /\ EntryAt(g, p).value = v
    BY <1>5 DEF Has
  <2>2. CASE EntryAt(g, p) = e
    BY <2>1, <2>2
  <2>3. CASE EntryAt(g, p) # e
    <3>1. \E q \in Positions(h) : EntryAt(h, q) = EntryAt(g, p)
      BY <2>3, KeptByPop
    <3> QED
      BY <2>1, <3>1 DEF Has
  <2> QED
    BY <2>2, <2>3
<1> QED
  BY <1>3, <1>4, <1>5

---------------------------------------------------------------------------
(* The data *)

\* The blocks of the buffer are those of its segments, one after the other.
LEMMA FlatBlocks ==
  ASSUME NEW s \in Segments, NEW v \in Blocks
  PROVE  /\ s * PerBlock + v \in BufferBlocks
         /\ \A r \in Segments : \A w \in Blocks :
              s * PerBlock + v = r * PerBlock + w => s = r /\ v = w
         /\ s = 0 => s * PerBlock + v = v
<1>1. /\ PerBlock \in Nat \ {0} /\ SegNum \in Nat \ {0}
      /\ s \in 0 .. SegNum - 1 /\ v \in 0 .. PerBlock - 1
  BY SegmentAssumption DEF Segments, Blocks
<1>2. PICK n, m : n = PerBlock /\ m = SegNum
  OBVIOUS
<1>3. PICK a : a = s * n + v
  OBVIOUS
<1>4. /\ n \in Nat \ {0} /\ m \in Nat /\ s \in 0 .. m - 1 /\ v \in 0 .. n - 1
  BY <1>1, <1>2
<1>5. a \in Nat /\ a < m * n
  BY <1>3, <1>4, FlatBound
<1>6. \A r \in Nat : \A w \in 0 .. n - 1 : r * n + w = a => r = a \div n /\ w = a % n
  BY <1>4, <1>5, FlatSplit
<1>7. \A r \in Segments : \A w \in Blocks : s * n + v = r * n + w => s = r /\ v = w
  <2> SUFFICES ASSUME NEW r \in Segments, NEW w \in Blocks, s * n + v = r * n + w
               PROVE  s = r /\ v = w
    OBVIOUS
  <2>1. s \in Nat /\ r \in Nat /\ w \in 0 .. n - 1 /\ v \in 0 .. n - 1
    BY <1>1, <1>2 DEF Segments, Blocks
  <2>2. r * n + w = a /\ s * n + v = a
    BY <1>3
  <2>3. r = a \div n /\ w = a % n
    BY <1>6, <2>1, <2>2
  <2>4. s = a \div n /\ v = a % n
    BY <1>6, <2>1, <2>2
  <2> QED
    BY <2>3, <2>4
<1>8. s = 0 => s * n + v = v
  BY <1>4
<1>9. a \in 0 .. m * n - 1
  <2>1. PICK z : z = m * n
    OBVIOUS
  <2>2. z \in Int
    BY <1>4, <2>1
  <2> QED
    BY <1>5, <2>1, <2>2
<1> QED
  BY <1>2, <1>3, <1>7, <1>8, <1>9 DEF BufferBlocks

\* The first segment is one, and its blocks are the first of the buffer.
LEMMA FirstSegment ==
  /\ 0 \in Segments
  /\ \A v \in Blocks : 0 * PerBlock + v = v /\ v \in BufferBlocks
<1>1. 0 \in Segments
  BY SegmentAssumption DEF Segments
<1>2. ASSUME NEW v \in Blocks PROVE 0 * PerBlock + v = v /\ v \in BufferBlocks
  <2>1. 0 * PerBlock + v \in BufferBlocks /\ 0 * PerBlock + v = v
    BY <1>1, FlatBlocks
  <2> QED
    BY <2>1
<1> QED
  BY <1>1, <1>2

\* A step brings no entry into play: one that is there and not being written
\* was there and not being written.
NothingNew ==
  \A s \in Segments : \A k \in Keys : \A v \in Blocks :
    Has(segs'[s], k, v) /\ ~Writing(s, k)' => Has(segs[s], k, v) /\ ~Writing(s, k)

\* Such a step keeps what is said of the entries.
LEMMA IndexedFrame ==
  ASSUME IndexedInv, DescribedInv, NothingNew, UNCHANGED <<buffer, buffer_meta, latest>>,
         large \subseteq large'
  PROVE  IndexedInv' /\ DescribedInv'
<1>1. ASSUME NEW s \in Segments, NEW k \in KeysOf(s) \ large', NEW v \in Blocks,
             Has(segs'[s], k, v), ~Writing(s, k)'
      PROVE  buffer'[s * PerBlock + v] = latest'[k]
  <2>1. Has(segs[s], k, v) /\ ~Writing(s, k) /\ k \in KeysOf(s) \ large
    BY <1>1 DEF NothingNew, KeysOf
  <2> QED
    BY <2>1 DEF IndexedInv
<1>2. ASSUME NEW s \in Segments \ {0}, NEW k \in KeysOf(s), NEW v \in Blocks,
             Has(segs'[s], k, v), ~Writing(s, k)'
      PROVE  buffer_meta'[s * PerBlock + v] = [status |-> 1, offset |-> k]
  <2>1. Has(segs[s], k, v) /\ ~Writing(s, k)
    BY <1>2 DEF NothingNew, KeysOf
  <2> QED
    BY <2>1 DEF DescribedInv
<1>3. IndexedInv'
  <2>1. (\A s \in Segments : \A k \in KeysOf(s) \ large : \A v \in Blocks :
           Has(segs[s], k, v) /\ ~Writing(s, k) => buffer[s * PerBlock + v] = latest[k])'
    BY <1>1 DEF KeysOf
  <2> QED
    BY <2>1 DEF IndexedInv
<1>4. DescribedInv'
  <2>1. (\A s \in Segments \ {0} : \A k \in KeysOf(s) : \A v \in Blocks :
           Has(segs[s], k, v) /\ ~Writing(s, k) =>
             buffer_meta[s * PerBlock + v] = [status |-> 1, offset |-> k])'
    BY <1>2 DEF KeysOf
  <2> QED
    BY <2>1 DEF DescribedInv
<1> QED
  BY <1>3, <1>4

\* A step that moves no copy keeps what is said of the copies.
LEMMA CopyFrame ==
  ASSUME CopyInv, UNCHANGED <<buffer, migrate_buf, ssd, latest, large>>,
         Holding(0)' \subseteq Holding(0),
         \A t \in Holding(0)' : tpc'[t] = tpc[t] /\ kv'[t] = kv[t]
  PROVE  CopyInv'
<1>1. ASSUME NEW t \in Holding(0)', kv'[t].key \notin large'
      PROVE  /\ tpc'[t] = "read" => buffer'[kv'[t].value] = latest'[kv'[t].key]
             /\ tpc'[t] = "store" => migrate_buf'[t] = latest'[kv'[t].key]
             /\ tpc'[t] = "clear" => ssd'[kv'[t].key] = latest'[kv'[t].key]
  BY <1>1 DEF CopyInv
<1> QED
  BY <1>1 DEF CopyInv

\* A step that keeps entries and copies keeps what is said of the SSD.
LEMMA SsdFrame ==
  ASSUME SsdInv, UNCHANGED <<ssd, latest>>, large \subseteq large',
         \A k \in KeysOf(0) \ large : Elsewhere(k) => Elsewhere(k)'
  PROVE  SsdInv'
<1>1. ASSUME NEW k \in KeysOf(0) \ large', ~Elsewhere(k)' PROVE ssd'[k] = latest'[k]
  BY <1>1 DEF SsdInv
<1>2. (\A k \in KeysOf(0) \ large : ~Elsewhere(k) => ssd[k] = latest[k])'
  BY <1>1 DEF KeysOf
<1> QED
  BY <1>2 DEF SsdInv

\* A client's step changes data at most on the blocks of its own large write.
LEMMA ClientData ==
  ASSUME StoreInv, UNCHANGED <<vars, buffer, buffer_meta, migrate_buf, buffer_task>>,
         large \subseteq large', ssd' \in [Keys -> Data], latest' \in [Keys -> Data],
         \A k \in Keys \ large' : ssd'[k] = ssd[k] /\ latest'[k] = latest[k]
  PROVE  DataPart'
<1> USE DEF StoreInv, DataPart
<1>0. UNCHANGED <<segs, wpc, task, offset, tpc, segment_idx, kv>>
  BY DEF vars, workerVars, threadVars
<1>1. DataType'
  BY DEF DataType
<1>2. HeldInv'
  BY <1>0 DEF HeldInv
<1>3. MetaInv'
  BY <1>0 DEF MetaInv, TargetBlock
<1>4. \A s \in Segments : \A k, v : (Has(segs'[s], k, v) <=> Has(segs[s], k, v))
                                     /\ (Writing(s, k)' <=> Writing(s, k))
  BY <1>0 DEF Writing
<1>5. IndexedInv'
  <2>1. ASSUME NEW s \in Segments, NEW k \in KeysOf(s) \ large', NEW v \in Blocks,
               Has(segs'[s], k, v), ~Writing(s, k)'
        PROVE  buffer'[s * PerBlock + v] = latest'[k]
    <3>1. k \in Keys \ large' /\ k \in KeysOf(s) \ large
      BY <2>1 DEF KeysOf
    <3>2. buffer[s * PerBlock + v] = latest[k]
      BY <2>1, <3>1, <1>4 DEF IndexedInv
    <3> QED
      BY <3>1, <3>2
  <2>2. (\A s \in Segments : \A k \in KeysOf(s) \ large : \A v \in Blocks :
           Has(segs[s], k, v) /\ ~Writing(s, k) => buffer[s * PerBlock + v] = latest[k])'
    BY <2>1 DEF KeysOf
  <2> QED
    BY <2>2 DEF IndexedInv
<1>6. DescribedInv'
  <2>1. ASSUME NEW s \in Segments \ {0}, NEW k \in KeysOf(s), NEW v \in Blocks,
               Has(segs'[s], k, v), ~Writing(s, k)'
        PROVE  buffer_meta'[s * PerBlock + v] = [status |-> 1, offset |-> k]
    BY <2>1, <1>4 DEF DescribedInv
  <2>2. (\A s \in Segments \ {0} : \A k \in KeysOf(s) : \A v \in Blocks :
           Has(segs[s], k, v) /\ ~Writing(s, k) =>
             buffer_meta[s * PerBlock + v] = [status |-> 1, offset |-> k])'
    BY <2>1 DEF KeysOf
  <2> QED
    BY <2>2 DEF DescribedInv
<1>7. CopyInv'
  <2>1. Holding(0)' = Holding(0)
    BY <1>0 DEF Holding
  <2>2. ASSUME NEW t \in Holding(0), kv[t].key \notin large'
        PROVE  /\ tpc[t] = "read" => buffer[kv[t].value] = latest'[kv[t].key]
               /\ tpc[t] = "store" => migrate_buf[t] = latest'[kv[t].key]
               /\ tpc[t] = "clear" => ssd'[kv[t].key] = latest'[kv[t].key]
    <3>1. kv[t].key \in Keys \ large' /\ kv[t].key \notin large
      BY <2>2 DEF Holding, HeldInv, Entry
    <3> QED
      BY <3>1 DEF CopyInv
  <2> QED
    BY <2>1, <2>2, <1>0 DEF CopyInv
<1>8. SsdInv'
  <2>1. ASSUME NEW k \in KeysOf(0) \ large', ~Elsewhere(k)' PROVE ssd'[k] = latest'[k]
    <3>1. k \in Keys \ large' /\ k \in KeysOf(0) \ large
      BY DEF KeysOf
    <3>2. ~Elsewhere(k)
      BY <2>1, <1>0 DEF Elsewhere, Holding
    <3> QED
      BY <3>1, <3>2 DEF SsdInv
  <2>2. (\A k \in KeysOf(0) \ large : ~Elsewhere(k) => ssd[k] = latest[k])'
    BY <2>1 DEF KeysOf
  <2> QED
    BY <2>2 DEF SsdInv
<1> QED
  BY <1>1, <1>2, <1>3, <1>5, <1>6, <1>7, <1>8

\* Clients: mixdk_write and mixdk_read.
LEMMA ClientKeepsData ==
  ASSUME StoreInv, NEW c \in Clients, ClientStep(c)
  PROVE  DataPart'
<1> USE DEF StoreInv, TaskPart, DataPart
<1>1. CASE LargeSsd(c)
  <2>1. PICK r : r = request[c]
    OBVIOUS
  <2>2. /\ cpc[c] = "ssd"
        /\ ssd' = [k \in Keys |-> IF k \in Span(r) THEN r.data ELSE ssd[k]]
        /\ latest' = [k \in Keys |-> IF k \in Span(r) THEN r.data ELSE latest[k]]
        /\ UNCHANGED <<vars, buffer, buffer_meta, migrate_buf, buffer_task, large>>
    BY <1>1, <2>1 DEF LargeSsd
  <2>3. r.data \in Data /\ Span(r) \subseteq large
    BY <2>1, <2>2 DEF ClientInv, Requests
  <2>4. ssd' \in [Keys -> Data] /\ latest' \in [Keys -> Data]
    BY <2>2, <2>3 DEF DataType
  <2>5. \A k \in Keys \ large' : ssd'[k] = ssd[k] /\ latest'[k] = latest[k]
    BY <2>2, <2>3
  <2> QED
    BY <2>2, <2>4, <2>5, ClientData
<1>2. CASE ~LargeSsd(c)
  <2>1. UNCHANGED <<vars, buffer, buffer_meta, migrate_buf, buffer_task, ssd, latest>>
    BY <1>2 DEF ClientStep, SmallWrite, LargeWrite, LargePost, ReadCall, ReadSsd,
                ReadReturn, dataVars
  <2>2. large \subseteq large'
    <3>1. ASSUME NEW k \in LargeStarts, LargeWrite(c, k) PROVE large \subseteq large'
      BY <3>1 DEF LargeWrite
    <3>2. CASE UNCHANGED large
      BY <3>2
    <3> QED
      BY <1>2, <3>1, <3>2 DEF ClientStep, SmallWrite, LargePost, ReadCall, ReadSsd,
                              ReadReturn
  <2>3. ssd' \in [Keys -> Data] /\ latest' \in [Keys -> Data]
    BY <2>1 DEF DataType
  <2> QED
    BY <2>1, <2>2, <2>3, ClientData
<1> QED
  BY <1>1, <1>2

\* A step of worker s that moves no data: its own entries only.
LEMMA WorkerFrame ==
  ASSUME StoreInv, NEW s \in Segments,
         UNCHANGED <<buffer, buffer_meta, ssd, migrate_buf, latest, large, threadVars>>,
         \A r \in Segments : wpc'[r] = "meta" =>
           wpc[r] = "meta" /\ offset'[r] = offset[r] /\ buffer_task'[r] = buffer_task[r],
         \A r \in Segments : wpc'[r] = "data" => offset'[r] \in Blocks,
         \A r \in Segments : \A k \in Keys : \A v \in Blocks :
           Has(segs[r], k, v) => Has(segs'[r], k, v),
         NothingNew
  PROVE  DataPart'
<1> USE DEF StoreInv, DataPart
<1>1. DataType'
  BY DEF DataType
<1>2. HeldInv'
  BY DEF HeldInv, threadVars
<1>3. MetaInv'
  BY DEF MetaInv, TargetBlock
<1>4. IndexedInv' /\ DescribedInv'
  BY IndexedFrame
<1>5. Holding(0)' = Holding(0)
  BY DEF Holding, threadVars
<1>6. CopyInv'
  BY <1>5, CopyFrame DEF threadVars
<1>7. SsdInv'
  <2>1. \A k \in KeysOf(0) \ large : Elsewhere(k) => Elsewhere(k)'
    BY <1>5, FirstSegment DEF Elsewhere, threadVars, KeysOf
  <2> QED
    BY <2>1, SsdFrame
<1> QED
  BY <1>1, <1>2, <1>3, <1>4, <1>6, <1>7

\* A block for a new key: one entry more.
LEMMA AllocateHas ==
  ASSUME IndexInv, NEW s \in Segments, NEW k \in Keys, wpc[s] \in {"poll", "retry"},
         ~SegmentFull(segs[s]), Allocate(s, k), NEW r \in Segments, NEW j, NEW w
  PROVE  Has(segs'[r], j, w) <=>
           Has(segs[r], j, w) \/ (r = s /\ j = k /\ w = FoundBit(segs[s]))
<1>1. PICK g, v, h : /\ g = segs[s] /\ v = FoundBit(g)
                     /\ h = mix_write_redirect_blockmeta(mix_bitmap_next_zero_bit(g), s, k, v)
  OBVIOUS
<1>2. segs \in [Segments -> Segment] /\ segs' = [segs EXCEPT ![s] = h]
  BY <1>1 DEF Allocate, IndexInv, IInv, TypeOK
<1>3. g \in Segment /\ Prefix(g)
  BY <1>1, <1>2 DEF IndexInv, PrefixInv
<1>4. /\ v \in Blocks /\ h \in Segment
      /\ Pushed(g, h, mix_hash_hash(k), [key |-> k, value |-> v])
  BY <1>1, <1>3, AllocateEffect
<1>5. mix_hash_hash(k) \in Buckets /\ [key |-> k, value |-> v] \in Entry
  BY <1>4, SegmentAssumption DEF mix_hash_hash, Buckets, Entry
<1>6. PICK e \in Entry : e = [key |-> k, value |-> v]
  BY <1>5
<1>7. Has(h, j, w) <=> Has(g, j, w) \/ (j = e.key /\ w = e.value)
  BY <1>3, <1>4, <1>5, <1>6, HasAfterPut
<1>8. CASE r = s
  BY <1>1, <1>2, <1>6, <1>7, <1>8
<1>9. CASE r # s
  BY <1>2, <1>9
<1> QED
  BY <1>8, <1>9

\* The block is one of the segment.
LEMMA AllocateBlock ==
  ASSUME IndexInv, NEW s \in Segments, NEW k \in Keys, wpc[s] \in {"poll", "retry"},
         ~SegmentFull(segs[s]), Allocate(s, k)
  PROVE  offset'[s] \in Blocks
<1>1. PICK g, v, h : /\ g = segs[s] /\ v = FoundBit(g)
                     /\ h = mix_write_redirect_blockmeta(mix_bitmap_next_zero_bit(g), s, k, v)
  OBVIOUS
<1>2. segs \in [Segments -> Segment] /\ offset'[s] = v
  BY <1>1 DEF Allocate, IndexInv, IInv, TypeOK
<1>3. g \in Segment /\ Prefix(g)
  BY <1>1, <1>2 DEF IndexInv, PrefixInv
<1>4. /\ v \in Blocks /\ h \in Segment
      /\ Pushed(g, h, mix_hash_hash(k), [key |-> k, value |-> v])
  BY <1>1, <1>3, AllocateEffect
<1> QED
  BY <1>2, <1>4

\* An entry that comes in is that of the block worker s goes on to write.
LEMMA WorkerNothingNew ==
  ASSUME NEW s \in Segments, wpc[s] \notin {"data", "meta"},
         \A r \in Segments \ {s} : wpc'[r] = wpc[r] /\ task'[r] = task[r],
         NEW k,
         \A r \in Segments : \A j, w : Has(segs'[r], j, w) =>
           \/ Has(segs[r], j, w)
           \/ r = s /\ j = k /\ wpc'[s] = "data" /\ task'[s] = k
  PROVE  NothingNew
<1> SUFFICES ASSUME NEW r \in Segments, NEW j \in Keys, NEW w \in Blocks,
                    Has(segs'[r], j, w), ~Writing(r, j)'
             PROVE  Has(segs[r], j, w) /\ ~Writing(r, j)
  BY DEF NothingNew
<1>1. CASE r = s
  BY <1>1 DEF Writing
<1>2. CASE r # s
  BY <1>2 DEF Writing
<1> QED
  BY <1>1, <1>2

\* redirect_write up to the block it writes.
LEMMA RedirectData ==
  ASSUME StoreInv, NEW s \in Segments, NEW k \in Keys, wpc[s] = "poll", RedirectTo(s, k),
         UNCHANGED <<dataVars, latest, large>>,
         \A r \in Segments \ {s} : buffer_task'[r] = buffer_task[r]
  PROVE  DataPart'
<1> USE DEF StoreInv
<1>1. TypeOK
  BY DEF IndexInv, IInv
<1>2. UNCHANGED <<buffer, buffer_meta, ssd, migrate_buf, latest, large, threadVars>>
  BY DEF dataVars, RedirectTo, RedirectHit, RedirectNew, RedirectFull
<1>3. /\ wpc'[s] \in {"data", "lock"} /\ task'[s] = k
      /\ \A r \in Segments \ {s} : wpc'[r] = wpc[r] /\ task'[r] = task[r]
  BY <1>1, RedirectMoves
<1>4. \A r \in Segments \ {s} : offset'[r] = offset[r]
  BY <1>1 DEF RedirectTo, RedirectHit, RedirectNew, RedirectFull, Allocate, TypeOK
<1>5. \A r \in Segments : wpc'[r] = "meta" =>
        wpc[r] = "meta" /\ offset'[r] = offset[r] /\ buffer_task'[r] = buffer_task[r]
  BY <1>3, <1>4
<1>a. \A r \in Segments : wpc'[r] = "data" => offset'[r] \in Blocks
  <2>1. ASSUME NEW r \in Segments, wpc'[r] = "data", r # s PROVE offset'[r] \in Blocks
    BY <2>1, <1>3, <1>4 DEF DataPart, MetaInv
  <2>2. CASE RedirectHit(s, k)
    <3>1. PICK v : v = mix_buffer_block_test(segs[s], k)
      OBVIOUS
    <3>2. offset'[s] = v /\ v # None
      BY <2>2, <3>1, <1>1 DEF RedirectHit, TypeOK
    <3>3. v \in Blocks \union {None}
      BY <3>1, <1>1, BlockTestType DEF TypeOK
    <3> QED
      BY <3>2, <3>3, <2>1
  <2>3. CASE RedirectNew(s, k)
    BY <2>1, <2>3, AllocateBlock DEF RedirectNew
  <2>4. CASE RedirectFull(s, k)
    BY <2>1, <2>4, <1>1 DEF RedirectFull, TypeOK
  <2> QED
    BY <2>2, <2>3, <2>4 DEF RedirectTo
<1>6. /\ \A r \in Segments : \A j, w : Has(segs[r], j, w) => Has(segs'[r], j, w)
      /\ \A r \in Segments : \A j, w : Has(segs'[r], j, w) =>
           \/ Has(segs[r], j, w)
           \/ r = s /\ j = k /\ wpc'[s] = "data" /\ task'[s] = k
  <2>1. CASE RedirectNew(s, k)
    <3>1. ~SegmentFull(segs[s]) /\ Allocate(s, k) /\ wpc'[s] = "data"
      BY <2>1, <1>1 DEF RedirectNew, Allocate, TypeOK
    <3>2. PICK v : v = FoundBit(segs[s])
      OBVIOUS
    <3>3. \A r \in Segments : \A j, w :
            Has(segs'[r], j, w) <=> Has(segs[r], j, w) \/ (r = s /\ j = k /\ w = v)
      BY <3>1, <3>2, AllocateHas
    <3> QED
      BY <3>1, <3>3, <1>3
  <2>2. CASE UNCHANGED segs
    BY <2>2
  <2> QED
    BY <2>1, <2>2 DEF RedirectTo, RedirectHit, RedirectFull
<1>7. NothingNew
  BY <1>3, <1>6, WorkerNothingNew
<1> QED
  BY <1>2, <1>5, <1>a, <1>6, <1>7, WorkerFrame

\* nvm_worker takes a task off its queue.
LEMMA DispatchData ==
  ASSUME StoreInv, NEW s \in Segments, Dispatch(s)
  PROVE  DataPart'
<1> USE DEF StoreInv
<1>1. /\ wpc[s] = "poll" /\ queue[s] # <<>>
      /\ buffer_task' = [buffer_task EXCEPT ![s] = Head(queue[s])]
      /\ UNCHANGED <<dataVars, clientVars, latest>>
  BY DEF Dispatch
<1>2. \A r \in Segments \ {s} : buffer_task'[r] = buffer_task[r]
  BY <1>1 DEF TaskPart, ClientType
<1>3. UNCHANGED <<dataVars, latest, large>>
  BY <1>1 DEF clientVars
<1>4. PICK k : k = Head(queue[s]).offset
  OBVIOUS
<1>5. k \in Keys
  <2>1. queue[s] \in Seq(Tasks)
    BY DEF TaskPart, ClientType
  <2>2. Head(queue[s]) \in Tasks
    BY <1>1, <2>1
  <2> QED
    BY <1>4, <2>2 DEF Tasks
<1>6. CASE RedirectTo(s, k)
  BY <1>1, <1>2, <1>3, <1>5, <1>6, RedirectData
<1>7. CASE UNCHANGED vars
  <2>1. UNCHANGED <<segs, wpc, task, offset, threadVars>>
    BY <1>7 DEF vars, workerVars
  <2>2. \A r \in Segments : wpc'[r] = "meta" =>
          wpc[r] = "meta" /\ offset'[r] = offset[r] /\ buffer_task'[r] = buffer_task[r]
    BY <1>1, <1>2, <2>1
  <2>3. NothingNew
    BY <2>1 DEF NothingNew, Writing
  <2>4. \A r \in Segments : wpc'[r] = "data" => offset'[r] \in Blocks
    BY <2>1 DEF DataPart, MetaInv
  <2> QED
    BY <1>3, <2>1, <2>2, <2>3, <2>4, WorkerFrame DEF dataVars
<1> QED
  BY <1>4, <1>6, <1>7, DispatchCases

\* mix_migrate_segment, and the second attempt after it.
LEMMA HandshakeData ==
  ASSUME StoreInv, NEW s \in Segments,
         \/ RedirectRetry(s) \/ MigrateLock(s) \/ MigrationBegin(s)
         \/ RaiseFlag(s) \/ MigrationEnd(s),
         UNCHANGED <<dataVars, queue, buffer_task, clientVars, latest>>
  PROVE  DataPart'
<1> USE DEF StoreInv
<1>1. TypeOK
  BY DEF IndexInv, IInv
<1>2. UNCHANGED <<buffer, buffer_meta, ssd, migrate_buf, latest, large, threadVars,
                  buffer_task, task>>
  BY DEF dataVars, clientVars, RedirectRetry, MigrateLock, MigrationBegin, RaiseFlag,
         MigrationEnd
<1>3. /\ \A r \in Segments \ {s} : wpc'[r] = wpc[r] /\ offset'[r] = offset[r]
      /\ wpc[s] \in {"retry", "lock", "begin", "raise", "end"}
      /\ wpc'[s] \in {"data", "begin", "raise", "end", "retry"}
  BY <1>1 DEF RedirectRetry, Allocate, MigrateLock, MigrationBegin, RaiseFlag,
              MigrationEnd, TypeOK
<1>4. \A r \in Segments : wpc'[r] = "meta" =>
        wpc[r] = "meta" /\ offset'[r] = offset[r] /\ buffer_task'[r] = buffer_task[r]
  BY <1>2, <1>3
<1>5. PICK k : k = task[s]
  OBVIOUS
<1>6. k \in Keys
  BY <1>3, <1>5 DEF IndexInv, TaskInv, KeysOf
<1>7. /\ \A r \in Segments : \A j, w : Has(segs[r], j, w) => Has(segs'[r], j, w)
      /\ \A r \in Segments : \A j, w : Has(segs'[r], j, w) =>
           \/ Has(segs[r], j, w)
           \/ r = s /\ j = k /\ wpc'[s] = "data" /\ task'[s] = k
  <2>1. CASE RedirectRetry(s)
    <3>1. ~SegmentFull(segs[s]) /\ Allocate(s, k) /\ wpc'[s] = "data" /\ wpc[s] = "retry"
      BY <2>1, <1>1, <1>5 DEF RedirectRetry, Allocate, TypeOK
    <3>2. PICK v : v = FoundBit(segs[s])
      OBVIOUS
    <3>3. \A r \in Segments : \A j, w :
            Has(segs'[r], j, w) <=> Has(segs[r], j, w) \/ (r = s /\ j = k /\ w = v)
      BY <3>1, <3>2, <1>6, AllocateHas
    <3> QED
      BY <3>1, <3>3, <1>2, <1>5
  <2>2. CASE MigrationEnd(s)
    <3>1. \A r \in Segments : segs'[r].hash_nodes = segs[r].hash_nodes
      BY <2>2, <1>1 DEF MigrationEnd, mix_bitmap_clear, TypeOK, Segment
    <3>2. \A r \in Segments : \A j, w : Has(segs'[r], j, w) <=> Has(segs[r], j, w)
      BY <3>1, HasSame
    <3> QED
      BY <3>2
  <2>3. CASE UNCHANGED segs
    BY <2>3
  <2> QED
    BY <2>1, <2>2, <2>3 DEF MigrateLock, MigrationBegin, RaiseFlag
<1>8. NothingNew
  BY <1>2, <1>3, <1>7, WorkerNothingNew
<1>9. \A r \in Segments : wpc'[r] = "data" => offset'[r] \in Blocks
  <2>1. ASSUME NEW r \in Segments, wpc'[r] = "data", r # s PROVE offset'[r] \in Blocks
    BY <2>1, <1>3 DEF DataPart, MetaInv
  <2>2. CASE RedirectRetry(s)
    <3>1. ~SegmentFull(segs[s]) /\ Allocate(s, k) /\ wpc[s] = "retry"
      BY <2>2, <1>5 DEF RedirectRetry
    <3>2. offset'[s] \in Blocks
      BY <3>1, <1>6, AllocateBlock
    <3> QED
      BY <2>1, <3>2
  <2>3. CASE ~RedirectRetry(s)
    <3>1. wpc'[s] # "data"
      BY <2>3, <1>1 DEF MigrateLock, MigrationBegin, RaiseFlag, MigrationEnd, TypeOK
    <3> QED
      BY <2>1, <3>1
  <2> QED
    BY <2>2, <2>3
<1> QED
  BY <1>2, <1>4, <1>7, <1>8, <1>9, WorkerFrame

\* The block worker s writes is that of the entry of its task.
LEMMA TargetHas ==
  ASSUME StoreInv, NEW s \in Segments, wpc[s] \in {"data", "meta"}
  PROVE  /\ segs[s] \in Segment /\ GoodIndex(segs[s], s)
         /\ offset[s] \in Blocks /\ Has(segs[s], task[s], offset[s])
         /\ TargetBlock(s) \in BufferBlocks
         /\ buffer_task[s] \in Tasks /\ buffer_task[s].offset = task[s]
         /\ task[s] \in KeysOf(s) /\ task[s] \in Keys
         /\ Holding(s) = {}
<1> USE DEF StoreInv
<1>1. segs[s] \in Segment /\ GoodIndex(segs[s], s)
  BY DEF IndexInv, IInv, TypeOK, GoodInv
<1>2. offset[s] \in Blocks /\ offset[s] # None
  <2>1. offset[s] \in Blocks
    BY DEF DataPart, MetaInv
  <2> QED
    BY <2>1, SegmentAssumption DEF Blocks, None
<1>3. task[s] \in KeysOf(s) /\ task[s] \in Keys
  BY DEF IndexInv, TaskInv, KeysOf
<1>4. mix_buffer_block_test(segs[s], task[s]) = offset[s]
  BY DEF IndexInv, WriteIsIndexed
<1>5. Has(segs[s], task[s], offset[s])
  BY <1>1, <1>2, <1>3, <1>4, TestFinds
<1>6. TargetBlock(s) \in BufferBlocks
  BY <1>2, FlatBlocks DEF TargetBlock
<1>7. buffer_task[s] \in Tasks /\ buffer_task[s].offset = task[s]
  BY DEF TaskPart, HandInv
<1>8. Holding(s) = {}
  BY Apart
<1> QED
  BY <1>1, <1>2, <1>3, <1>5, <1>6, <1>7, <1>8

\* The block of another entry is another block.
LEMMA OtherBlock ==
  ASSUME StoreInv, NEW s \in Segments, wpc[s] \in {"data", "meta"},
         NEW r \in Segments, NEW k \in Keys, NEW v \in Blocks, Has(segs[r], k, v),
         r * PerBlock + v = TargetBlock(s)
  PROVE  r = s /\ v = offset[s] /\ k = task[s]
<1>1. /\ segs[s] \in Segment /\ GoodIndex(segs[s], s)
      /\ offset[s] \in Blocks /\ Has(segs[s], task[s], offset[s])
  BY TargetHas
<1>2. r = s /\ v = offset[s]
  <2>1. PICK w : w = offset[s]
    OBVIOUS
  <2>2. r * PerBlock + v = s * PerBlock + w /\ w \in Blocks
    BY <1>1, <2>1 DEF TargetBlock
  <2> QED
    BY <2>1, <2>2, FlatBlocks
<1>3. k = task[s]
  <2>1. PICK g, j, w : g = segs[s] /\ j = task[s] /\ w = offset[s]
    OBVIOUS
  <2>2. g \in Segment /\ GoodIndex(g, s) /\ Has(g, j, w) /\ Has(g, k, v) /\ v = w
    BY <1>1, <1>2, <2>1
  <2> QED
    BY <2>1, <2>2, HasUnique
<1> QED
  BY <1>2, <1>3

\* mix_buffer_write puts the data into the block.
LEMMA WriteDataData ==
  ASSUME StoreInv, NEW s \in Segments, StoreWriteData(s)
  PROVE  DataPart'
<1> USE DEF StoreInv, DataPart
<1>0. TypeOK
  BY DEF IndexInv, IInv
<1>1. PICK a, x : a = TargetBlock(s) /\ x = buffer_task[s].data
  OBVIOUS
<1>2. /\ wpc[s] = "data" /\ wpc' = [wpc EXCEPT ![s] = "meta"]
      /\ UNCHANGED <<segs, task, offset, threadVars, buffer_meta, ssd, migrate_buf,
                     buffer_task, latest, large>>
      /\ buffer' = [buffer EXCEPT ![a] = x]
  BY <1>1 DEF StoreWriteData, WriteData, clientVars
<1>3. wpc'[s] = "meta" /\ \A r \in Segments \ {s} : wpc'[r] = wpc[r]
  BY <1>0, <1>2 DEF TypeOK
<1>4. /\ offset[s] \in Blocks /\ a \in BufferBlocks /\ x \in Data /\ Holding(s) = {}
  BY <1>1, <1>2, TargetHas DEF Tasks
<1>5. /\ buffer'[a] = x
      /\ \A z \in BufferBlocks \ {a} : buffer'[z] = buffer[z]
      /\ buffer' \in [BufferBlocks -> Data]
  BY <1>2, <1>4 DEF DataType
<1>6. DataType'
  BY <1>2, <1>5 DEF DataType
<1>7. HeldInv'
  BY <1>2 DEF HeldInv, threadVars
<1>8. MetaInv'
  <2> SUFFICES ASSUME NEW r \in Segments
               PROVE  /\ wpc'[r] \in {"data", "meta"} => offset[r] \in Blocks
                      /\ wpc'[r] = "meta" => buffer'[TargetBlock(r)] = buffer_task[r].data
    BY <1>2 DEF MetaInv, TargetBlock
  <2>1. CASE r = s
    BY <2>1, <1>1, <1>4, <1>5
  <2>2. CASE r # s
    <3>1. wpc[r] \in {"data", "meta"} => offset[r] \in Blocks
      BY DEF MetaInv
    <3>2. ASSUME wpc[r] = "meta" PROVE buffer'[TargetBlock(r)] = buffer_task[r].data
      <4>1. /\ TargetBlock(r) \in BufferBlocks /\ offset[r] \in Blocks
            /\ buffer[TargetBlock(r)] = buffer_task[r].data
        BY <3>2, TargetHas DEF MetaInv
      <4>2. TargetBlock(r) # a
        BY <1>1, <1>4, <2>2, <4>1, FlatBlocks DEF TargetBlock
      <4> QED
        BY <4>1, <4>2, <1>5
    <3> QED
      BY <2>2, <1>3, <3>1, <3>2
  <2> QED
    BY <2>1, <2>2
<1>9. NothingNew
  BY <1>2, <1>3 DEF NothingNew, Writing
<1>10. DescribedInv'
  <2>1. ASSUME NEW r \in Segments \ {0}, NEW k \in KeysOf(r), NEW v \in Blocks,
               Has(segs'[r], k, v), ~Writing(r, k)'
        PROVE  buffer_meta'[r * PerBlock + v] = [status |-> 1, offset |-> k]
    <3>1. Has(segs[r], k, v) /\ ~Writing(r, k)
      BY <2>1, <1>9 DEF NothingNew, KeysOf
    <3> QED
      BY <3>1, <1>2 DEF DescribedInv
  <2>2. (\A r \in Segments \ {0} : \A k \in KeysOf(r) : \A v \in Blocks :
           Has(segs[r], k, v) /\ ~Writing(r, k) =>
             buffer_meta[r * PerBlock + v] = [status |-> 1, offset |-> k])'
    BY <2>1 DEF KeysOf
  <2> QED
    BY <2>2 DEF DescribedInv
<1>11. IndexedInv'
  <2>1. ASSUME NEW r \in Segments, NEW k \in KeysOf(r) \ large, NEW v \in Blocks,
               Has(segs'[r], k, v), ~Writing(r, k)'
        PROVE  buffer'[r * PerBlock + v] = latest'[k]
    <3>1. Has(segs[r], k, v) /\ ~Writing(r, k) /\ k \in Keys
      BY <2>1, <1>9 DEF NothingNew, KeysOf
    <3>2. buffer[r * PerBlock + v] = latest[k]
      BY <3>1 DEF IndexedInv
    <3>3. r * PerBlock + v \in BufferBlocks
      BY FlatBlocks
    <3>4. r * PerBlock + v # a
      BY <3>1, <1>1, <1>2, OtherBlock DEF Writing
    <3> QED
      BY <3>2, <3>3, <3>4, <1>2, <1>5
  <2>2. (\A r \in Segments : \A k \in KeysOf(r) \ large : \A v \in Blocks :
           Has(segs[r], k, v) /\ ~Writing(r, k) => buffer[r * PerBlock + v] = latest[k])'
    BY <1>2, <2>1 DEF KeysOf
  <2> QED
    BY <2>2 DEF IndexedInv
<1>12. Holding(0)' = Holding(0)
  BY <1>2 DEF Holding, threadVars
<1>13. CopyInv'
  <2>1. ASSUME NEW t \in Holding(0) PROVE kv[t].value \in BufferBlocks /\ kv[t].value # a
    <3>1. kv[t].value \in Blocks /\ s # 0
      BY <2>1, <1>4 DEF Holding, HeldInv, Entry
    <3>2. PICK w : w = kv[t].value
      OBVIOUS
    <3>3. 0 * PerBlock + w = w /\ w \in BufferBlocks /\ 0 \in Segments
      BY <3>1, <3>2, FirstSegment
    <3>4. 0 * PerBlock + w # s * PerBlock + offset[s]
      BY <3>1, <3>2, <3>3, <1>4, FlatBlocks
    <3> QED
      BY <3>2, <3>3, <3>4, <1>1 DEF TargetBlock
  <2>2. \A t \in Holding(0) : buffer'[kv[t].value] = buffer[kv[t].value]
    BY <2>1, <1>5
  <2> QED
    BY <2>2, <1>2, <1>12 DEF CopyInv, threadVars
<1>14. SsdInv'
  <2>1. \A k \in KeysOf(0) \ large : Elsewhere(k) => Elsewhere(k)'
    BY <1>2, <1>12 DEF Elsewhere, threadVars
  <2> QED
    BY <2>1, <1>2, SsdFrame
<1> QED
  BY <1>6, <1>7, <1>8, <1>10, <1>11, <1>13, <1>14

\* ... and then its self-description; the write is complete.
LEMMA WriteMetaData ==
  ASSUME StoreInv, NEW s \in Segments, StoreWriteMeta(s)
  PROVE  DataPart'
<1> USE DEF StoreInv, DataPart
<1>0. TypeOK
  BY DEF IndexInv, IInv
<1>1. PICK a, k, v, x : /\ a = TargetBlock(s) /\ k = task[s] /\ v = offset[s]
                        /\ x = buffer_task[s].data
  OBVIOUS
<1>2. wpc[s] = "meta"
  BY DEF StoreWriteMeta, WriteMeta
<1>3. /\ v \in Blocks /\ a \in BufferBlocks /\ x \in Data /\ Holding(s) = {}
      /\ k \in KeysOf(s) /\ k \in Keys /\ buffer_task[s].offset = k
      /\ segs[s] \in Segment /\ GoodIndex(segs[s], s) /\ Has(segs[s], k, v)
  BY <1>1, <1>2, TargetHas DEF Tasks
<1>4. /\ wpc' = [wpc EXCEPT ![s] = "poll"]
      /\ task' = [task EXCEPT ![s] = None]
      /\ offset' = [offset EXCEPT ![s] = None]
      /\ buffer_task' = [buffer_task EXCEPT ![s] = NoTask]
      /\ UNCHANGED <<segs, threadVars, buffer, ssd, migrate_buf, large>>
      /\ buffer_meta' = [buffer_meta EXCEPT ![a] = [status |-> 1, offset |-> k]]
      /\ latest' = [latest EXCEPT ![k] = x]
  BY <1>1, <1>3 DEF StoreWriteMeta, WriteMeta
<1>5. /\ wpc'[s] = "poll"
      /\ \A r \in Segments \ {s} : /\ wpc'[r] = wpc[r] /\ task'[r] = task[r]
                                   /\ offset'[r] = offset[r]
                                   /\ buffer_task'[r] = buffer_task[r]
  BY <1>0, <1>4 DEF TypeOK, TaskPart, ClientType
<1>6. /\ buffer_meta'[a] = [status |-> 1, offset |-> k]
      /\ \A z \in BufferBlocks \ {a} : buffer_meta'[z] = buffer_meta[z]
      /\ latest'[k] = x
      /\ \A j \in Keys \ {k} : latest'[j] = latest[j]
  BY <1>3, <1>4 DEF DataType
<1>7. DataType'
  <2>1. latest' \in [Keys -> Data]
    BY <1>3, <1>4 DEF DataType
  <2>2. buffer_meta' \in [BufferBlocks -> [status : {0, 1}, offset : Keys \union {None}]]
    <3>1. [status |-> 1, offset |-> k] \in [status : {0, 1}, offset : Keys \union {None}]
      BY <1>3
    <3> QED
      BY <3>1, <1>3, <1>4 DEF DataType
  <2> QED
    BY <2>1, <2>2, <1>4 DEF DataType
<1>8. HeldInv'
  BY <1>4 DEF HeldInv, threadVars
<1>9. MetaInv'
  <2> SUFFICES ASSUME NEW r \in Segments, wpc'[r] \in {"data", "meta"}
               PROVE  /\ offset'[r] \in Blocks
                      /\ wpc'[r] = "meta" => buffer[r * PerBlock + offset'[r]] = buffer_task'[r].data
    BY <1>4 DEF MetaInv, TargetBlock
  <2>1. r # s
    BY <1>5
  <2> QED
    BY <2>1, <1>5 DEF MetaInv, TargetBlock
\* An entry not being written: the one just written, or one that was not before.
<1>10. ASSUME NEW r \in Segments, NEW j \in KeysOf(r), NEW w \in Blocks,
              Has(segs'[r], j, w), ~Writing(r, j)'
       PROVE  \/ r = s /\ j = k /\ w = v
              \/ Has(segs[r], j, w) /\ ~Writing(r, j) /\ j # k /\ r * PerBlock + w # a
  <2>1. Has(segs[r], j, w) /\ j \in Keys
    BY <1>4, <1>10 DEF KeysOf
  <2>2. CASE j = k
    <3>1. r = s
      BY <2>2, <1>3, OneSegment
    <3>2. PICK g : g = segs[s]
      OBVIOUS
    <3>3. g \in Segment /\ GoodIndex(g, s) /\ Has(g, k, v) /\ Has(g, j, w)
      BY <2>1, <3>1, <3>2, <1>3
    <3>4. w = v
      BY <2>2, <3>3, HasUnique
    <3> QED
      BY <2>2, <3>1, <3>4
  <2>3. CASE j # k
    <3>1. r * PerBlock + w # a
      BY <2>1, <2>3, <1>1, <1>2, OtherBlock
    <3>2. ~Writing(r, j)
      <4>1. CASE r = s
        BY <4>1, <2>3, <1>1 DEF Writing
      <4>2. CASE r # s
        BY <4>2, <1>5, <1>10 DEF Writing
      <4> QED
        BY <4>1, <4>2
    <3> QED
      BY <2>1, <2>3, <3>1, <3>2
  <2> QED
    BY <2>2, <2>3
<1>11. a = s * PerBlock + v /\ buffer[a] = x
  BY <1>1, <1>2 DEF MetaInv, TargetBlock
<1>12. IndexedInv'
  <2>1. ASSUME NEW r \in Segments, NEW j \in KeysOf(r) \ large, NEW w \in Blocks,
               Has(segs'[r], j, w), ~Writing(r, j)'
        PROVE  buffer'[r * PerBlock + w] = latest'[j]
    <3>1. CASE r = s /\ j = k /\ w = v
      BY <3>1, <1>4, <1>6, <1>11
    <3>2. CASE Has(segs[r], j, w) /\ ~Writing(r, j) /\ j # k
      BY <3>2, <1>4, <1>6 DEF IndexedInv, KeysOf
    <3> QED
      BY <2>1, <3>1, <3>2, <1>10
  <2>2. (\A r \in Segments : \A j \in KeysOf(r) \ large : \A w \in Blocks :
           Has(segs[r], j, w) /\ ~Writing(r, j) => buffer[r * PerBlock + w] = latest[j])'
    BY <1>4, <2>1 DEF KeysOf
  <2> QED
    BY <2>2 DEF IndexedInv
<1>13. DescribedInv'
  <2>1. ASSUME NEW r \in Segments \ {0}, NEW j \in KeysOf(r), NEW w \in Blocks,
               Has(segs'[r], j, w), ~Writing(r, j)'
        PROVE  buffer_meta'[r * PerBlock + w] = [status |-> 1, offset |-> j]
    <3>1. CASE r = s /\ j = k /\ w = v
      BY <3>1, <1>6, <1>11
    <3>2. CASE Has(segs[r], j, w) /\ ~Writing(r, j) /\ r * PerBlock + w # a
      <4>1. r * PerBlock + w \in BufferBlocks
        BY FlatBlocks
      <4>2. buffer_meta[r * PerBlock + w] = [status |-> 1, offset |-> j]
        BY <3>2 DEF DescribedInv
      <4> QED
        BY <3>2, <4>1, <4>2, <1>6
    <3> QED
      BY <2>1, <3>1, <3>2, <1>10
  <2>2. (\A r \in Segments \ {0} : \A j \in KeysOf(r) : \A w \in Blocks :
           Has(segs[r], j, w) /\ ~Writing(r, j) =>
             buffer_meta[r * PerBlock + w] = [status |-> 1, offset |-> j])'
    BY <2>1 DEF KeysOf
  <2> QED
    BY <2>2 DEF DescribedInv
<1>14. Holding(0)' = Holding(0)
  BY <1>4 DEF Holding, threadVars
<1>15. CopyInv'
  <2>1. ASSUME NEW t \in Holding(0) PROVE latest'[kv[t].key] = latest[kv[t].key]
    <3>1. kv[t].key \in KeysOf(0) /\ kv[t].key \in Keys /\ s # 0
      BY <2>1, <1>3 DEF Holding, HeldInv, KeysOf
    <3>2. kv[t].key # k
      <4>1. PICK j : j = kv[t].key
        OBVIOUS
      <4> QED
        BY <3>1, <4>1, <1>3, OneSegment
    <3> QED
      BY <3>1, <3>2, <1>6
  <2> QED
    BY <2>1, <1>4, <1>14 DEF CopyInv, threadVars
<1>16. SsdInv'
  <2>1. ASSUME NEW j \in KeysOf(0) \ large, ~Elsewhere(j)' PROVE ssd'[j] = latest'[j]
    <3>1. ~Elsewhere(j)
      BY <2>1, <1>4, <1>14 DEF Elsewhere, threadVars
    <3>2. j # k
      <4> SUFFICES ASSUME j = k PROVE FALSE
        OBVIOUS
      <4>1. s = 0
        BY <1>3, OneSegment
      <4> QED
        BY <3>1, <4>1, <1>3 DEF Elsewhere
    <3> QED
      BY <3>1, <3>2, <1>4, <1>6 DEF SsdInv, KeysOf
  <2>2. (\A j \in KeysOf(0) \ large : ~Elsewhere(j) => ssd[j] = latest[j])'
    BY <1>4, <2>1 DEF KeysOf
  <2> QED
    BY <2>2 DEF SsdInv
<1> QED
  BY <1>7, <1>8, <1>9, <1>12, <1>13, <1>15, <1>16

\* A thread's step leaves the workers alone.
LEMMA ThreadMeta ==
  ASSUME MetaInv, UNCHANGED <<workerVars, buffer, buffer_task>>
  PROVE  MetaInv'
<1>1. UNCHANGED <<wpc, task, offset>>
  BY DEF workerVars
<1> QED
  BY <1>1 DEF MetaInv, TargetBlock

\* ... and brings no entry into play.
LEMMA ThreadNothingNew ==
  ASSUME UNCHANGED workerVars,
         \A r \in Segments : \A j, w : Has(segs'[r], j, w) => Has(segs[r], j, w)
  PROVE  NothingNew
<1>1. UNCHANGED <<wpc, task, offset>>
  BY DEF workerVars
<1> QED
  BY <1>1 DEF NothingNew, Writing

\* The steps of a thread that has no entry in its hand and takes none.
LEMMA ThreadQuietData ==
  ASSUME StoreInv, NEW t \in Threads,
         ThreadSee(t) \/ ThreadLoad(t) \/ ThreadSkip(t) \/ ThreadCount(t) \/ ThreadLower(t),
         UNCHANGED <<dataVars, queue, buffer_task, clientVars, latest>>
  PROVE  DataPart'
<1> USE DEF StoreInv, DataPart
<1>0. TypeOK
  BY DEF IndexInv, IInv
<1>1. UNCHANGED <<buffer, buffer_meta, ssd, migrate_buf, latest, large, buffer_task>>
  BY DEF dataVars, clientVars
<1>2. UNCHANGED <<segs, workerVars>>
  BY DEF ThreadSee, ThreadLoad, ThreadSkip, ThreadCount, ThreadLower
<1>3. /\ tpc[t] \notin {"read", "store", "clear"}
      /\ tpc'[t] \notin {"read", "store", "clear"}
      /\ \A u \in Threads \ {t} : /\ tpc'[u] = tpc[u] /\ kv'[u] = kv[u]
                                  /\ segment_idx'[u] = segment_idx[u]
  BY <1>0 DEF ThreadSee, ThreadLoad, ThreadSkip, ThreadCount, ThreadLower, TypeOK
<1>4. /\ Holding(0)' = Holding(0)
      /\ \A u \in Holding(0) : tpc'[u] = tpc[u] /\ kv'[u] = kv[u]
  BY <1>3 DEF Holding
<1>5. DataType'
  BY <1>1 DEF DataType
<1>6. HeldInv'
  BY <1>3 DEF HeldInv
<1>7. MetaInv'
  BY <1>1, <1>2, ThreadMeta
<1>8. NothingNew
  BY <1>2, ThreadNothingNew
<1>9. IndexedInv' /\ DescribedInv'
  BY <1>1, <1>8, IndexedFrame
<1>10. CopyInv'
  BY <1>1, <1>4, CopyFrame
<1>11. SsdInv'
  <2>1. \A k \in KeysOf(0) \ large : Elsewhere(k) => Elsewhere(k)'
    BY <1>2, <1>4 DEF Elsewhere
  <2> QED
    BY <2>1, <1>1, SsdFrame
<1> QED
  BY <1>5, <1>6, <1>7, <1>9, <1>10, <1>11

\* A thread with an entry in its hand.
LEMMA HeldEntry ==
  ASSUME StoreInv, NEW t \in Threads, tpc[t] \in {"read", "store", "clear"}
  PROVE  /\ kv[t] \in Entry /\ kv[t].key \in Keys /\ kv[t].key \in KeysOf(segment_idx[t])
         /\ kv[t].value \in Blocks /\ kv[t].value \in BufferBlocks
         /\ t \in Holding(0) <=> segment_idx[t] = 0
<1>1. kv[t] \in Entry /\ kv[t].key \in KeysOf(segment_idx[t])
  BY DEF StoreInv, DataPart, HeldInv
<1>2. kv[t].key \in Keys /\ kv[t].value \in Blocks
  BY <1>1 DEF Entry
<1>3. kv[t].value \in BufferBlocks
  BY <1>2, FirstSegment
<1> QED
  BY <1>1, <1>2, <1>3 DEF Holding

\* mix_buffer_read: the copy is in the thread's own buffer.
LEMMA ReadData ==
  ASSUME StoreInv, NEW t \in Threads, StoreThreadRead(t)
  PROVE  DataPart'
<1> USE DEF StoreInv, DataPart
<1>0. TypeOK
  BY DEF IndexInv, IInv
<1>1. PICK x : x = buffer[kv[t].value]
  OBVIOUS
<1>2. /\ tpc[t] = "read" /\ tpc' = [tpc EXCEPT ![t] = "store"]
      /\ UNCHANGED <<segs, workerVars, segment_idx, kv>>
      /\ migrate_buf' = [migrate_buf EXCEPT ![t] = x]
      /\ UNCHANGED <<buffer, buffer_meta, ssd, buffer_task, latest, large>>
  BY <1>1 DEF StoreThreadRead, ThreadRead, SourceBlock, clientVars
<1>3. tpc'[t] = "store" /\ \A u \in Threads \ {t} : tpc'[u] = tpc[u]
  BY <1>0, <1>2 DEF TypeOK
<1>4. x \in Data
  BY <1>1, <1>2, HeldEntry DEF DataType
<1>5. migrate_buf'[t] = x /\ \A u \in Threads \ {t} : migrate_buf'[u] = migrate_buf[u]
  BY <1>2 DEF DataType
<1>6. DataType'
  BY <1>2, <1>4 DEF DataType
<1>7. HeldInv'
  BY <1>2, <1>3 DEF HeldInv
<1>8. MetaInv'
  BY <1>2, ThreadMeta
<1>9. IndexedInv' /\ DescribedInv'
  <2>1. NothingNew
    BY <1>2, ThreadNothingNew
  <2> QED
    BY <2>1, <1>2, IndexedFrame
<1>10. Holding(0)' = Holding(0)
  BY <1>2, <1>3 DEF Holding
<1>11. CopyInv'
  <2> SUFFICES ASSUME NEW u \in Holding(0), kv[u].key \notin large
               PROVE  /\ tpc'[u] = "read" => buffer[kv[u].value] = latest[kv[u].key]
                      /\ tpc'[u] = "store" => migrate_buf'[u] = latest[kv[u].key]
                      /\ tpc'[u] = "clear" => ssd[kv[u].key] = latest[kv[u].key]
    BY <1>2, <1>10 DEF CopyInv
  <2>1. CASE u = t
    BY <2>1, <1>1, <1>2, <1>3, <1>5 DEF CopyInv
  <2>2. CASE u # t
    BY <2>2, <1>3, <1>5 DEF CopyInv, Holding
  <2> QED
    BY <2>1, <2>2
<1>12. SsdInv'
  <2>1. \A k \in KeysOf(0) \ large : Elsewhere(k) => Elsewhere(k)'
    BY <1>2, <1>10 DEF Elsewhere
  <2> QED
    BY <2>1, <1>2, SsdFrame
<1> QED
  BY <1>6, <1>7, <1>8, <1>9, <1>11, <1>12

\* mix_ssd_write: the copy is on the SSD.
LEMMA StoreData ==
  ASSUME StoreInv, NEW t \in Threads, StoreThreadStore(t)
  PROVE  DataPart'
<1> USE DEF StoreInv, DataPart
<1>0. TypeOK
  BY DEF IndexInv, IInv
<1>1. PICK x, k : x = migrate_buf[t] /\ k = kv[t].key
  OBVIOUS
<1>2. /\ tpc[t] = "store" /\ tpc' = [tpc EXCEPT ![t] = "clear"]
      /\ UNCHANGED <<segs, workerVars, segment_idx, kv>>
      /\ ssd' = [ssd EXCEPT ![k] = x]
      /\ UNCHANGED <<buffer, buffer_meta, migrate_buf, buffer_task, latest, large>>
  BY <1>1 DEF StoreThreadStore, ThreadStore, clientVars
<1>3. tpc'[t] = "clear" /\ \A u \in Threads \ {t} : tpc'[u] = tpc[u]
  BY <1>0, <1>2 DEF TypeOK
<1>4. x \in Data /\ k \in Keys /\ k \in KeysOf(segment_idx[t])
      /\ (t \in Holding(0) <=> segment_idx[t] = 0)
  BY <1>1, <1>2, HeldEntry DEF DataType
<1>5. ssd'[k] = x /\ \A j \in Keys \ {k} : ssd'[j] = ssd[j]
  BY <1>2, <1>4 DEF DataType
<1>6. DataType'
  BY <1>2, <1>4 DEF DataType
<1>7. HeldInv'
  BY <1>2, <1>3 DEF HeldInv
<1>8. MetaInv'
  BY <1>2, ThreadMeta
<1>9. IndexedInv' /\ DescribedInv'
  <2>1. NothingNew
    BY <1>2, ThreadNothingNew
  <2> QED
    BY <2>1, <1>2, IndexedFrame
<1>10. Holding(0)' = Holding(0)
  BY <1>2, <1>3 DEF Holding
\* The block number it stores is of the first segment only if it holds it there.
<1>11. k \in KeysOf(0) => t \in Holding(0)
  <2>1. PICK r : r = segment_idx[t]
    OBVIOUS
  <2>2. k \in KeysOf(0) => r = 0
    BY <2>1, <1>4, OneSegment
  <2> QED
    BY <2>1, <2>2, <1>4
<1>12. CopyInv'
  <2> SUFFICES ASSUME NEW u \in Holding(0), kv[u].key \notin large
               PROVE  /\ tpc'[u] = "read" => buffer[kv[u].value] = latest[kv[u].key]
                      /\ tpc'[u] = "store" => migrate_buf[u] = latest[kv[u].key]
                      /\ tpc'[u] = "clear" => ssd'[kv[u].key] = latest[kv[u].key]
    BY <1>2, <1>10 DEF CopyInv
  <2>1. kv[u].key \in Keys /\ kv[u].key \in KeysOf(0) /\ u \in Threads
    BY DEF Holding, HeldInv, KeysOf
  <2>2. CASE kv[u].key = k
    <3>1. t \in Holding(0) /\ k \notin large
      BY <2>1, <2>2, <1>11
    <3>2. x = latest[k]
      BY <3>1, <1>1, <1>2 DEF CopyInv
    <3>3. ssd'[k] = latest[k]
      BY <3>2, <1>5
    <3>4. u # t => tpc'[u] = tpc[u]
      BY <2>1, <1>3
    <3> QED
      BY <2>2, <3>3, <3>4, <1>3 DEF CopyInv
  <2>3. CASE kv[u].key # k
    <3>1. u # t /\ tpc'[u] = tpc[u]
      BY <2>1, <2>3, <1>1, <1>3
    <3>2. ssd'[kv[u].key] = ssd[kv[u].key]
      BY <2>1, <2>3, <1>5
    <3> QED
      BY <3>1, <3>2 DEF CopyInv
  <2> QED
    BY <2>2, <2>3
<1>13. SsdInv'
  <2>1. ASSUME NEW j \in KeysOf(0) \ large, ~Elsewhere(j)' PROVE ssd'[j] = latest'[j]
    <3>1. ~Elsewhere(j)
      BY <2>1, <1>2, <1>10 DEF Elsewhere
    <3>2. j # k
      BY <3>1, <1>1, <1>11 DEF Elsewhere
    <3> QED
      BY <3>1, <3>2, <1>2, <1>5 DEF SsdInv, KeysOf
  <2>2. (\A j \in KeysOf(0) \ large : ~Elsewhere(j) => ssd[j] = latest[j])'
    BY <1>2, <2>1 DEF KeysOf
  <2> QED
    BY <2>2 DEF SsdInv
<1> QED
  BY <1>6, <1>7, <1>8, <1>9, <1>12, <1>13

\* mix_buffer_clear and used_block_num--: the thread lets go of the entry.
LEMMA ClearData ==
  ASSUME StoreInv, NEW t \in Threads, StoreThreadClear(t)
  PROVE  DataPart'
<1> USE DEF StoreInv, DataPart
<1>0. TypeOK
  BY DEF IndexInv, IInv
<1>1. PICK a, q : a = kv[t].value /\ q = segment_idx[t]
  OBVIOUS
<1>2. /\ tpc[t] = "clear" /\ tpc' = [tpc EXCEPT ![t] = "sweep"]
      /\ segs' = [segs EXCEPT ![q].used_block_num = @ - 1]
      /\ UNCHANGED <<workerVars, segment_idx, kv>>
      /\ buffer_meta' = [buffer_meta EXCEPT ![a].status = 0]
      /\ UNCHANGED <<buffer, ssd, migrate_buf, buffer_task, latest, large>>
  BY <1>1 DEF StoreThreadClear, ThreadClear, SourceBlock, clientVars
<1>3. tpc'[t] = "sweep" /\ \A u \in Threads \ {t} : tpc'[u] = tpc[u]
  BY <1>0, <1>2 DEF TypeOK
<1>4. a \in Blocks /\ a \in BufferBlocks /\ 0 \in Segments /\ 0 * PerBlock + a = a
  BY <1>1, <1>2, HeldEntry, FirstSegment
<1>5. \A z \in BufferBlocks \ {a} : buffer_meta'[z] = buffer_meta[z]
  BY <1>2 DEF DataType
<1>6. DataType'
  <2>1. PICK m : m = [buffer_meta[a] EXCEPT !.status = 0]
    OBVIOUS
  <2>2. m \in [status : {0, 1}, offset : Keys \union {None}]
    BY <2>1, <1>4 DEF DataType
  <2>3. buffer_meta' = [buffer_meta EXCEPT ![a] = m]
    BY <2>1, <1>2
  <2>4. buffer_meta' \in [BufferBlocks -> [status : {0, 1}, offset : Keys \union {None}]]
    BY <2>2, <2>3, <1>4 DEF DataType
  <2> QED
    BY <2>4, <1>2 DEF DataType
<1>7. HeldInv'
  BY <1>2, <1>3 DEF HeldInv
<1>8. MetaInv'
  BY <1>2, ThreadMeta
<1>9. \A r \in Segments : \A j, w : Has(segs'[r], j, w) <=> Has(segs[r], j, w)
  <2>1. \A r \in Segments : segs'[r].hash_nodes = segs[r].hash_nodes
    BY <1>0, <1>2 DEF TypeOK, Segment
  <2> QED
    BY <2>1, HasSame
<1>10. NothingNew
  BY <1>2, <1>9, ThreadNothingNew
<1>11. IndexedInv'
  <2>1. ASSUME NEW r \in Segments, NEW j \in KeysOf(r) \ large, NEW w \in Blocks,
               Has(segs'[r], j, w), ~Writing(r, j)'
        PROVE  buffer'[r * PerBlock + w] = latest'[j]
    <3>1. Has(segs[r], j, w) /\ ~Writing(r, j)
      BY <2>1, <1>10 DEF NothingNew, KeysOf
    <3> QED
      BY <3>1, <1>2 DEF IndexedInv
  <2>2. (\A r \in Segments : \A j \in KeysOf(r) \ large : \A w \in Blocks :
           Has(segs[r], j, w) /\ ~Writing(r, j) => buffer[r * PerBlock + w] = latest[j])'
    BY <1>2, <2>1 DEF KeysOf
  <2> QED
    BY <2>2 DEF IndexedInv
\* The record it clears is of the first segment, whatever segment it sweeps.
<1>12. DescribedInv'
  <2>1. ASSUME NEW r \in Segments \ {0}, NEW j \in KeysOf(r), NEW w \in Blocks,
               Has(segs'[r], j, w), ~Writing(r, j)'
        PROVE  buffer_meta'[r * PerBlock + w] = [status |-> 1, offset |-> j]
    <3>1. Has(segs[r], j, w) /\ ~Writing(r, j)
      BY <2>1, <1>10 DEF NothingNew, KeysOf
    <3>2. buffer_meta[r * PerBlock + w] = [status |-> 1, offset |-> j]
      BY <3>1 DEF DescribedInv
    <3>3. r * PerBlock + w \in BufferBlocks /\ r * PerBlock + w # 0 * PerBlock + a
      BY <1>4, FlatBlocks
    <3> QED
      BY <3>2, <3>3, <1>4, <1>5
  <2>2. (\A r \in Segments \ {0} : \A j \in KeysOf(r) : \A w \in Blocks :
           Has(segs[r], j, w) /\ ~Writing(r, j) =>
             buffer_meta[r * PerBlock + w] = [status |-> 1, offset |-> j])'
    BY <2>1 DEF KeysOf
  <2> QED
    BY <2>2 DEF DescribedInv
<1>13. Holding(0)' = Holding(0) \ {t}
  BY <1>2, <1>3 DEF Holding
<1>14. CopyInv'
  <2>1. \A u \in Holding(0)' : tpc'[u] = tpc[u] /\ kv'[u] = kv[u]
    BY <1>2, <1>3, <1>13 DEF Holding
  <2> QED
    BY <2>1, <1>2, <1>13, CopyFrame
<1>15. SsdInv'
  <2>1. ASSUME NEW j \in KeysOf(0) \ large, ~Elsewhere(j)' PROVE ssd'[j] = latest'[j]
    <3>1. ~ \E v \in Blocks : Has(segs[0], j, v)
      BY <2>1, <1>4, <1>9 DEF Elsewhere
    <3>2. \A u \in Holding(0) : kv[u].key = j => u = t
      BY <2>1, <1>2, <1>13 DEF Elsewhere
    <3>3. CASE t \in Holding(0) /\ kv[t].key = j
      BY <3>3, <1>2 DEF CopyInv
    <3>4. CASE ~(t \in Holding(0) /\ kv[t].key = j)
      <4>1. ~Elsewhere(j)
        BY <3>1, <3>2, <3>4 DEF Elsewhere
      <4> QED
        BY <4>1, <1>2 DEF SsdInv
    <3> QED
      BY <3>3, <3>4
  <2>2. (\A j \in KeysOf(0) \ large : ~Elsewhere(j) => ssd[j] = latest[j])'
    BY <1>2, <2>1 DEF KeysOf
  <2> QED
    BY <2>2 DEF SsdInv
<1> QED
  BY <1>6, <1>7, <1>8, <1>11, <1>12, <1>14, <1>15

\* An entry goes from the index to the thread's hand.
LEMMA PopData ==
  ASSUME NoKey \notin Keys, StoreInv, NEW t \in Threads, ThreadPop(t),
         UNCHANGED <<dataVars, queue, buffer_task, clientVars, latest>>
  PROVE  DataPart'
<1> USE DEF StoreInv, DataPart
<1>0. TypeOK
  BY DEF IndexInv, IInv
<1>1. PICK q, b, g, h, e : /\ q = segment_idx[t] /\ b = migrate_idx[t] /\ g = segs[q]
                           /\ h = mix_hash_pop(g, b) /\ e = Head(g.hash_nodes[b])
  OBVIOUS
<1>2. /\ tpc[t] = "sweep" /\ b < HashSize /\ g.hash_nodes[b] # <<>>
      /\ kv' = [kv EXCEPT ![t] = e] /\ segs' = [segs EXCEPT ![q] = h]
      /\ UNCHANGED <<workerVars, segment_idx>>
  BY <1>1 DEF ThreadPop, Bucket
<1>3. UNCHANGED <<buffer, buffer_meta, ssd, migrate_buf, latest, large, buffer_task>>
  BY DEF dataVars, clientVars
<1>4. /\ q \in Segments /\ g \in Segment /\ b \in Buckets /\ GoodIndex(g, q)
      /\ wpc[q] \in {"raise", "end"}
  <2>1. q \in Segments /\ g \in Segment /\ b \in Nat
    BY <1>0, <1>1 DEF TypeOK
  <2>2. b \in Buckets
    BY <2>1, <1>2, SegmentAssumption DEF Buckets
  <2>3. GoodIndex(g, q)
    BY <2>1, <1>1 DEF IndexInv, GoodInv
  <2>4. wpc[q] \in {"raise", "end"}
    BY <1>1, <1>2, SweepOwner DEF InSweep
  <2> QED
    BY <2>1, <2>2, <2>3, <2>4
<1>5. h \in Segment /\ e \in Entry
  BY <1>1, <1>2, <1>4, HashPopType
<1>6. Popped(g, h, b)
  BY <1>1, <1>2, <1>4 DEF Popped, mix_hash_pop, Segment
<1>7. /\ Has(g, e.key, e.value)
      /\ \A j, w : Has(h, j, w) => Has(g, j, w)
      /\ \A j, w : Has(g, j, w) => Has(h, j, w) \/ (j = e.key /\ w = e.value)
  BY <1>1, <1>4, <1>5, <1>6, HasAfterPop
<1>8. e.key \in KeysOf(q) /\ e.key \in Keys /\ e.value \in Blocks /\ e.key # NoKey
  <2>1. e.key \in Keys /\ e.value \in Blocks
    BY <1>5 DEF Entry
  <2> QED
    BY <2>1, <1>4, <1>7, HasKey
<1>9. tpc' = [tpc EXCEPT ![t] = "read"]
  BY <1>1, <1>8 DEF ThreadPop, Bucket
<1>10. /\ tpc'[t] = "read" /\ kv'[t] = e
       /\ \A u \in Threads \ {t} : tpc'[u] = tpc[u] /\ kv'[u] = kv[u]
       /\ segs'[q] = h /\ \A r \in Segments \ {q} : segs'[r] = segs[r]
  BY <1>0, <1>2, <1>4, <1>9 DEF TypeOK
<1>11. DataType'
  BY <1>3 DEF DataType
<1>12. HeldInv'
  <2> SUFFICES ASSUME NEW u \in Threads, tpc'[u] \in {"read", "store", "clear"}
               PROVE  kv'[u] \in Entry /\ kv'[u].key \in KeysOf(segment_idx[u])
    BY <1>2 DEF HeldInv, KeysOf
  <2>1. CASE u = t
    BY <2>1, <1>1, <1>5, <1>8, <1>10
  <2>2. CASE u # t
    BY <2>2, <1>10 DEF HeldInv
  <2> QED
    BY <2>1, <2>2
<1>13. MetaInv'
  BY <1>2, <1>3, ThreadMeta
<1>14. \A r \in Segments : \A j, w : Has(segs'[r], j, w) => Has(segs[r], j, w)
  BY <1>1, <1>7, <1>10
<1>15. IndexedInv' /\ DescribedInv'
  <2>1. NothingNew
    BY <1>2, <1>14, ThreadNothingNew
  <2> QED
    BY <2>1, <1>3, IndexedFrame
<1>16. \A u \in Threads : u \in Holding(0)' <=> u \in Holding(0) \/ (u = t /\ q = 0)
  BY <1>1, <1>2, <1>10 DEF Holding
<1>17. t \notin Holding(0) /\ Holding(0)' \subseteq Threads /\ Holding(0) \subseteq Threads
  BY <1>2 DEF Holding
<1>18. CopyInv'
  <2> SUFFICES ASSUME NEW u \in Holding(0)', kv'[u].key \notin large
               PROVE  /\ tpc'[u] = "read" => buffer[kv'[u].value] = latest[kv'[u].key]
                      /\ tpc'[u] = "store" => migrate_buf[u] = latest[kv'[u].key]
                      /\ tpc'[u] = "clear" => ssd[kv'[u].key] = latest[kv'[u].key]
    BY <1>3 DEF CopyInv
  <2>1. CASE u = t
    <3>1. q = 0 /\ 0 \in Segments
      BY <2>1, <1>16, <1>17, <1>4
    <3>2. ~Writing(0, e.key)
      BY <3>1, <1>4 DEF Writing
    <3>3. Has(segs[0], e.key, e.value) /\ e.key \in KeysOf(0) \ large
      BY <2>1, <3>1, <1>1, <1>7, <1>8, <1>10
    <3>4. buffer[0 * PerBlock + e.value] = latest[e.key]
      BY <3>1, <3>2, <3>3, <1>8 DEF IndexedInv
    <3>5. 0 * PerBlock + e.value = e.value
      BY <1>8, FirstSegment
    <3> QED
      BY <2>1, <3>4, <3>5, <1>10
  <2>2. CASE u # t
    <3>1. u \in Holding(0) /\ u \in Threads /\ tpc'[u] = tpc[u] /\ kv'[u] = kv[u]
      BY <2>2, <1>10, <1>16, <1>17
    <3> QED
      BY <3>1 DEF CopyInv
  <2> QED
    BY <2>1, <2>2
<1>19. SsdInv'
  <2>1. ASSUME NEW k \in KeysOf(0) \ large, Elsewhere(k) PROVE Elsewhere(k)'
    <3>1. ASSUME NEW v \in Blocks, Has(segs[0], k, v) PROVE Elsewhere(k)'
      <4>1. CASE q = 0
        <5>1. Has(segs'[0], k, v) \/ k = e.key
          BY <3>1, <4>1, <1>1, <1>7, <1>10
        <5>2. t \in Holding(0)' /\ kv'[t] = e
          BY <4>1, <1>10, <1>16
        <5> QED
          BY <5>1, <5>2 DEF Elsewhere
      <4>2. CASE q # 0
        <5>1. segs'[0] = segs[0]
          BY <4>2, <1>10, FirstSegment
        <5> QED
          BY <3>1, <5>1 DEF Elsewhere
      <4> QED
        BY <4>1, <4>2
    <3>2. ASSUME NEW u \in Holding(0), kv[u].key = k PROVE Elsewhere(k)'
      <4>1. u \in Threads /\ u # t /\ u \in Holding(0)' /\ kv'[u] = kv[u]
        BY <1>10, <1>16, <1>17
      <4> QED
        BY <3>2, <4>1 DEF Elsewhere
    <3> QED
      BY <2>1, <3>1, <3>2 DEF Elsewhere
  <2> QED
    BY <2>1, <1>3, SsdFrame
<1> QED
  BY <1>11, <1>12, <1>13, <1>15, <1>18, <1>19

---------------------------------------------------------------------------
(* The theorems about the data path *)

\* Every step keeps the data where it is looked for.
LEMMA StoreKeepsData ==
  ASSUME NoKey \notin Keys, StoreInv, StoreNext
  PROVE  DataPart'
<1>1. ASSUME NEW c \in Clients, ClientStep(c) PROVE DataPart'
  BY <1>1, ClientKeepsData
<1>2. ASSUME NEW s \in Segments, StoreWorkerStep(s) PROVE DataPart'
  BY <1>2, DispatchData, WriteDataData, WriteMetaData, HandshakeData DEF StoreWorkerStep
<1>3. ASSUME NEW t \in Threads, StoreThreadStep(t) PROVE DataPart'
  BY <1>3, ReadData, StoreData, ClearData, PopData, ThreadQuietData DEF StoreThreadStep
<1> QED
  BY <1>1, <1>2, <1>3 DEF StoreNext

\* The invariant holds at the start: nothing is indexed, held or written.
LEMMA StoreInitInv ==
  ASSUME HeapFlags = ZeroHeap
  PROVE  StoreInit => StoreInv
<1> SUFFICES ASSUME StoreInit PROVE StoreInv
  OBVIOUS
<1> USE DEF StoreInit
<1>1. IndexInv
  BY IndexInit
<1>2. /\ \A s \in Segments : wpc[s] = "poll" /\ segs[s] = mix_segment_init
      /\ \A t \in Threads : tpc[t] = "poll"
  BY DEF Init
<1>3. 0 \in Data /\ 0 \in 0 .. SegNum
  BY StoreAssumption, SegmentAssumption DEF Data
<1>4. TaskPart
  <2>1. ClientType
    <3>1. <<>> \in Seq(Tasks)
      OBVIOUS
    <3>2. \A c \in Clients : Span(request[c]) \subseteq Keys
      BY SpanNone
    <3> QED
      BY <1>3, <3>1, <3>2 DEF ClientType, ClientPc
  <2>2. ClientInv
    BY DEF ClientInv
  <2>3. QueueInv /\ UniqueInv /\ HandInv
    BY <1>2 DEF QueueInv, UniqueInv, HandInv
  <2> QED
    BY <2>1, <2>2, <2>3 DEF TaskPart
<1>5. \A s \in Segments : \A k, v : ~Has(segs[s], k, v)
  BY <1>2, InitSegment DEF Has
<1>6. DataPart
  <2>1. DataType
    BY <1>3 DEF DataType
  <2>2. HeldInv /\ MetaInv
    BY <1>2 DEF HeldInv, MetaInv
  <2>3. IndexedInv /\ DescribedInv
    BY <1>5 DEF IndexedInv, DescribedInv
  <2>4. CopyInv
    BY <1>2 DEF CopyInv, Holding
  <2>5. SsdInv
    BY DEF SsdInv, KeysOf
  <2> QED
    BY <2>1, <2>2, <2>3, <2>4, <2>5 DEF DataPart
<1> QED
  BY <1>1, <1>4, <1>6 DEF StoreInv

\* Every step keeps it.
LEMMA StoreNextInv ==
  ASSUME NoKey \notin Keys
  PROVE  StoreInv /\ [StoreNext]_storeVars => StoreInv'
<1> SUFFICES ASSUME StoreInv, [StoreNext]_storeVars PROVE StoreInv'
  OBVIOUS
<1>1. CASE StoreNext
  <2>1. [Next]_vars
    BY <1>1, StoreRefines DEF StoreInv
  <2>2. IndexInv'
    BY <2>1, IndexNext DEF StoreInv
  <2>3. TaskPart'
    BY <1>1, StoreTask DEF StoreInv, DataPart
  <2>4. DataPart'
    BY <1>1, StoreKeepsData
  <2> QED
    BY <2>2, <2>3, <2>4 DEF StoreInv
<1>2. CASE UNCHANGED storeVars
  <2>1. /\ UNCHANGED <<vars, dataVars, queue, buffer_task, clientVars, latest>>
        /\ UNCHANGED <<buffer, buffer_meta, ssd, migrate_buf, large>>
    BY <1>2 DEF storeVars, dataVars, clientVars
  <2>2. IndexInv'
    BY <2>1, IndexNext DEF StoreInv
  <2>3. TaskPart'
    <3>1. UNCHANGED <<wpc, task>>
      BY <2>1 DEF vars, workerVars
    <3> QED
      BY <2>1, <3>1, TaskFrame DEF StoreInv
  <2>4. DataPart'
    <3>1. ssd' \in [Keys -> Data] /\ latest' \in [Keys -> Data]
      BY <2>1 DEF StoreInv, DataPart, DataType
    <3> QED
      BY <2>1, <3>1, ClientData
  <2> QED
    BY <2>2, <2>3, <2>4 DEF StoreInv
<1> QED
  BY <1>1, <1>2

\* A block with no request in flight is not being written.
LEMMA QuietIsWritten ==
  ASSUME StoreInv, NEW s \in Segments, NEW k \in KeysOf(s), Quiet(k)
  PROVE  ~Writing(s, k)
<1> SUFFICES ASSUME Writing(s, k) PROVE FALSE
  OBVIOUS
<1>1. PICK b : b = buffer_task[s]
  OBVIOUS
<1>2. b \in Tasks /\ b.offset = k /\ Awaited(b)
  BY <1>1 DEF Writing, StoreInv, TaskPart, HandInv
<1>3. PICK r : r = request[b.client]
  OBVIOUS
<1>4. /\ b.client \in Clients /\ r \in Requests \union {NoRequest}
      /\ r.op = "write" /\ r.offset = k /\ r.len = 1
  BY <1>2, <1>3 DEF Awaited, Tasks, StoreInv, TaskPart, ClientType
<1>5. r \in Requests
  BY <1>4 DEF NoRequest
<1>6. k \in Span(r)
  BY <1>4, <1>5, SpanOne
<1> QED
  BY <1>3, <1>4, <1>6 DEF Quiet

\* The variables of the data path keep their types: tasks name blocks that
\* exist, the loop of mix_post_task_to_buffer posts no part beyond the write.
THEOREM StoreTypeCorrect ==
  ASSUME HeapFlags = ZeroHeap, NoKey \notin Keys
  PROVE  StoreSpec => []StoreTypeOK
<1>1. StoreInv => StoreTypeOK
  <2> SUFFICES ASSUME StoreInv PROVE StoreTypeOK
    OBVIOUS
  <2>1. TypeOK /\ DataType /\ ClientType
    BY DEF StoreInv, IndexInv, IInv, TaskPart, DataPart
  <2>2. \A s \in Segments : \A i \in DOMAIN queue[s] :
          queue[s][i].offset \in Keys /\ queue[s][i].data \in Data
    <3> SUFFICES ASSUME NEW s \in Segments, NEW i \in DOMAIN queue[s]
                 PROVE  queue[s][i].offset \in Keys /\ queue[s][i].data \in Data
      OBVIOUS
    <3>1. queue[s][i] \in Tasks
      BY <2>1, QueuedType
    <3> QED
      BY <3>1 DEF Tasks
  <2> QED
    BY <2>1, <2>2 DEF StoreTypeOK, DataType, ClientType, ClientPc
<1> QED
  BY <1>1, StoreInitInv, StoreNextInv, PTL DEF StoreSpec

\* A block the index names holds the last completed write of its block number,
\* in every segment: whatever migrations run, no allocation and no overwrite in
\* place hits a block in use.
THEOREM IndexedBlocksAreLatest ==
  ASSUME HeapFlags = ZeroHeap, NoKey \notin Keys
  PROVE  StoreSpec => []IndexedIsLatest
<1>1. StoreInv => IndexedIsLatest
  <2> SUFFICES ASSUME StoreInv, NEW s \in Segments, NEW k \in KeysOf(s) \ large, NEW v,
                      v = mix_buffer_block_test(segs[s], k), Quiet(k), v # None
               PROVE  buffer[s * PerBlock + v] = latest[k]
    BY DEF IndexedIsLatest
  <2>1. segs[s] \in Segment /\ k \in Keys
    BY DEF StoreInv, IndexInv, IInv, TypeOK, KeysOf
  <2>2. Has(segs[s], k, v)
    BY <2>1, TestFinds
  <2>3. v \in Blocks
    BY <2>1, <2>2, HasType
  <2>4. ~Writing(s, k)
    BY QuietIsWritten
  <2> QED
    BY <2>2, <2>3, <2>4 DEF StoreInv, DataPart, IndexedInv
<1> QED
  BY <1>1, StoreInitInv, StoreNextInv, PTL DEF StoreSpec

\* In the segments after the first an indexed block is described by its
\* persistent record: the missing base in migrate_from_buffer_to_ssd clears
\* records of the first segment only.
THEOREM IndexedBlocksAreDescribed ==
  ASSUME HeapFlags = ZeroHeap, NoKey \notin Keys
  PROVE  StoreSpec => []IndexedIsDescribed
<1>1. StoreInv => IndexedIsDescribed
  <2> SUFFICES ASSUME StoreInv, NEW s \in Segments \ {0}, NEW k \in KeysOf(s), NEW v,
                      v = mix_buffer_block_test(segs[s], k), Quiet(k), v # None
               PROVE  buffer_meta[s * PerBlock + v] = [status |-> 1, offset |-> k]
    BY DEF IndexedIsDescribed
  <2>1. segs[s] \in Segment /\ k \in Keys
    BY DEF StoreInv, IndexInv, IInv, TypeOK, KeysOf
  <2>2. Has(segs[s], k, v)
    BY <2>1, TestFinds
  <2>3. v \in Blocks
    BY <2>1, <2>2, HasType
  <2>4. ~Writing(s, k)
    BY QuietIsWritten
  <2> QED
    BY <2>2, <2>3, <2>4 DEF StoreInv, DataPart, DescribedInv
<1> QED
  BY <1>1, StoreInitInv, StoreNextInv, PTL DEF StoreSpec

\* A write to the first segment is never lost: for any numbers of segments,
\* blocks, threads and clients the store holds the last completed write of a
\* block no large write has covered, in the buffer, in the hand of a migration
\* thread or on the SSD.
THEOREM FirstSegmentSurvives ==
  ASSUME HeapFlags = ZeroHeap, NoKey \notin Keys
  PROVE  StoreSpec => []FirstSegmentKeepsWrites
<1>1. StoreInv => FirstSegmentKeepsWrites
  <2> SUFFICES ASSUME StoreInv, NEW k \in KeysOf(0) \ large, Quiet(k)
               PROVE  StoredAt(k) = latest[k]
    BY DEF FirstSegmentKeepsWrites
  <2>1. /\ 0 \in Segments /\ k % SegNum = 0 /\ k \in Keys
        /\ segs[0] \in Segment /\ GoodIndex(segs[0], 0)
    BY FirstSegment DEF StoreInv, IndexInv, IInv, TypeOK, GoodInv, KeysOf
  <2>2. PICK v, H : /\ v = mix_buffer_block_test(segs[0], k)
                    /\ H = {t \in Holding(0) : kv[t].key = k}
    OBVIOUS
  <2>3. CASE v # None
    <3>1. Has(segs[0], k, v)
      BY <2>1, <2>2, <2>3, TestFinds
    <3>2. v \in Blocks
      BY <2>1, <3>1, HasType
    <3>3. ~Writing(0, k)
      BY <2>1, QuietIsWritten
    <3>4. buffer[0 * PerBlock + v] = latest[k]
      BY <2>1, <3>1, <3>2, <3>3 DEF StoreInv, DataPart, IndexedInv
    <3>5. StoredAt(k) = buffer[0 * PerBlock + v]
      BY <2>1, <2>2, <2>3 DEF StoredAt
    <3> QED
      BY <3>4, <3>5
  <2>4. CASE v = None /\ H = {}
    <3>1. \A w : ~Has(segs[0], k, w)
      BY <2>1, <2>2, <2>4, TestMisses
    <3>2. ~Elsewhere(k)
      BY <2>2, <2>4, <3>1 DEF Elsewhere
    <3>3. StoredAt(k) = ssd[k]
      BY <2>1, <2>2, <2>4 DEF StoredAt
    <3> QED
      BY <3>2, <3>3 DEF StoreInv, DataPart, SsdInv
  <2>5. CASE v = None /\ H # {}
    <3>1. PICK t : t = CHOOSE u \in H : TRUE
      OBVIOUS
    <3>2. t \in H
      BY <2>5, <3>1
    <3>3. t \in Holding(0) /\ kv[t].key = k /\ t \in Threads
          /\ tpc[t] \in {"read", "store", "clear"}
      BY <2>2, <3>2 DEF Holding
    <3>4. kv[t].value \in Blocks
      BY <3>3, HeldEntry
    <3>5. 0 * PerBlock + kv[t].value = kv[t].value
      BY <3>4, FirstSegment
    <3>6. /\ tpc[t] = "read" => buffer[kv[t].value] = latest[k]
          /\ tpc[t] = "store" => migrate_buf[t] = latest[k]
          /\ tpc[t] = "clear" => ssd[k] = latest[k]
      BY <3>3 DEF StoreInv, DataPart, CopyInv
    <3>7. StoredAt(k) = CASE tpc[t] = "read" -> buffer[0 * PerBlock + kv[t].value]
                          [] tpc[t] = "store" -> migrate_buf[t]
                          [] OTHER -> ssd[k]
      BY <2>1, <2>2, <2>5, <3>1 DEF StoredAt
    <3> QED
      BY <3>3, <3>5, <3>6, <3>7
  <2> QED
    BY <2>3, <2>4, <2>5
<1> QED
  BY <1>1, StoreInitInv, StoreNextInv, PTL DEF StoreSpec

\* The data path implements the protocol of the index and its migration, so
\* what is proved of that protocol holds of the whole store: a worker that
\* dispatches a task redirects a block of its own segment.
THEOREM StoreImplementsMigration ==
  ASSUME HeapFlags = ZeroHeap, NoKey \notin Keys
  PROVE  StoreSpec => Spec
<1>1. StoreInit => Init
  BY DEF StoreInit
<1>2. StoreInv /\ [StoreNext]_storeVars => [Next]_vars
  <2>1. StoreInv /\ StoreNext => [Next]_vars
    BY StoreRefines DEF StoreInv
  <2>2. UNCHANGED storeVars => UNCHANGED vars
    BY DEF storeVars
  <2> QED
    BY <2>1, <2>2
<1> QED
  BY <1>1, <1>2, StoreInitInv, StoreNextInv, PTL DEF StoreSpec, Spec
=============================================================================
