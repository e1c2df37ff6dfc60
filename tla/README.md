# TLA+ models of the uhs block store

`uhs` is a user-space block store over two devices. Requests below a fixed
block number (file-system metadata) go to byte-addressable NVM. Requests above
it belong to the SSD, but writes of one block are first collected in a write
buffer that also lives in NVM: four segments of 512 blocks, each with an
in-memory index. When a segment is full its blocks are migrated to the SSD.

These modules model the running C store (`mixdk.c`, `scheduler.c`,
`nvm_worker.cpp`, `ssd_worker.c`, `mix_meta.c`, `mix_hash.c`, `mix_bitmap.c`,
`mix_queue.c`, `mix_bloom_filter.c`, the C part of `nvm.cpp`). `PROJECT.json`
maps every definition to its source lines and lists runs, mutants, hazards,
findings and theorems.

## 1. Inventory

| Component | State | Operations | Interaction |
|---|---|---|---|
| API, `mixdk.c` | `tasks[16]`, `inflight_buffer[16]` | `mixdk_write`, `mixdk_read`, `mix_segments_clear` | a client thread owns one slot, fills its task, calls the scheduler and spins on its inflight count |
| Scheduler, `scheduler.c` | none on the request path | `mix_post_task_to_io` | routes by `offset + len < threshold`, rebases the offset for the SSD |
| Task queues, `mix_queue.c` | ring, `in`, `out` | `mix_enqueue`, `mix_dequeue` | producers hold the queue's spinlock, the worker dequeues without it |
| NVM workers, `nvm_worker.cpp` | one thread per segment, two queues each | `nvm_worker`, `redirect_write`, `mix_migrate_segment` | sole writer of its segment's index, except during a migration |
| Buffer index, `mix_hash.c`, `mix_bitmap.c`, `mix_meta.c` | per segment: buckets, pool of list nodes, bitmap and cursor, `used_block_num` | lookup, allocate, put, pop, clear, delete | no lock of its own but a spinlock around the return of a node to the pool |
| Migration threads, `mix_meta.c` | eight threads, a flag each, a count per segment, the published segment number | `migrate` | spin on the flag, sweep a stripe of buckets, copy blocks, count themselves |
| Devices, `nvm.cpp`, `ssd.cpp` | buffer blocks, a persistent self-description each, SSD blocks | read, write, clear | plain copies |
| SSD path, `ssd_worker.c` | `segments[i].migration`, which has no writer | `mix_post_task_to_ssd` | the client's own thread waits while all those flags are up, then reads or writes the SSD |
| Start-up | `rebuild`, `rebuild_num`, a condition variable | `mix_rebuild`, `mix_buffer_rebuild` | clears the self-descriptions, wakes the workers; the workers exist before the memory is mapped |
| Bloom filter | counting bitmap | add, remove, test | initialised, every call is commented out |
| C++ rewrite (`io_*`, `nvm_buffer`) | - | - | unfinished, not linked with the above |

What is hard here:

- the index is shared by a worker and eight threads with no lock, and the only
  thing that separates them is a hand-made handshake of a mutex, a published
  number, eight flags and a counter;
- that handshake is reused by every migration of every segment, and a thread
  leaves it in two steps;
- the same block exists in the buffer, in a copy buffer and on the SSD, and three
  kinds of thread write it;
- producers, a lock-free consumer and wrapping counters in the queues;
- a slot whose inflight count is still referred to by queued parts of a large
  write when the client uses the slot again;
- eight threads that return nodes to one linked pool while each unhooks them
  from its own buckets;
- values with two meanings (`(uint32_t)-1` as a key and as "bucket empty", block
  numbers relative to a segment and absolute);
- a start-up in which threads run before what they need exists, and a wake-up
  sent without the sleepers' mutexes, and which is reported as successful when it
  failed.

What makes the components correct: the index is never touched by two threads at
once, never loses or duplicates an entry, a node or a block, and is empty when a
migrated segment is reused; a migration ends; a completed write stays findable and
is what a read returns; a request reaches the area its blocks belong to and a
client that waits is answered unless its own worker is stuck; a queue is a FIFO
that loses, tears and starves nothing; a store that says it is ready serves, from
an index that agrees with the records in NVM; a filter's counters count its
members.

## 2. Modules

| Module | Models |
|---|---|
| `MixSegment` | the value of one segment and the operations of `mix_hash.c`, `mix_bitmap.c` and `mix_meta.c` on it |
| `MixMigration` | workers (`redirect_write`, `mix_migrate_segment`) and migration threads (`migrate`) over those segments |
| `MixStore` | extends `MixMigration`: clients, buffer queues, the data in buffer, copy buffers and SSD, the self-descriptions |
| `MixRoute` | `mix_post_task_to_io`: from the client's slot through the routing to NVM area, buffer queues or SSD, and back through the inflight count |
| `HashIndex` | abstract specification of a segment's hash: lists that change in one step |
| `MixHash` | the hash as linked nodes, its pool with the spinlock, concurrent pops, `mix_clear_block` |
| `MixQueue` | the two ring queues of one worker, producers with their spinlocks, the worker's dequeue |
| `BoundedFifo` | abstract specification of a set of bounded FIFOs and one consumer |
| `MixStartup` | `mix_init_scheduler`, `mix_rebuild`, the workers up to their main loop, failed starts, `mix_segments_clear`, crash and restart |
| `MixBloom` | the counting bloom filter over counters packed two to a byte |
| `NatLemmas` | lemmas shared by the proofs: least elements, `%` and `/`, traces of loops |
| `MixSegmentProofs` | lemmas and theorems about the operations on one segment |
| `MixStoreProofs` | theorems: the migration protocol, the index through allocation and migration, the data path |
| `MixHashProofs` | theorems: the linked nodes, their pool and lock, their refinement of `HashIndex` |
| `MixQueueProofs` | theorems: the rings, their refinement of `BoundedFifo`, no lost post |
| `MixStartupProofs` | theorems: start-up, failed start, crash and restart |
| `MixBloomProofs` | theorems: the packed counters and the filter |
| `MixRouteProofs` | theorems: routing, service, the two areas, the parts of a large write |
| `MCMigration`, `MCStore`, `MCRoute`, `MCHash`, `MCQueue`, `MCStartup`, `MCBloom` | instances for TLC |

**MixSegment.** A segment is a record: `hash_nodes` (a list per bucket, head
first), `free_node_num`, `bitmap` (the set of set bits), `next_bit`,
`used_block_num`. The hash function (CRC-32 of the decimal digits, mixed) is the
constant `HashOf`: nothing may depend on which function it is. What looks odd in
the code is kept: `next_bit` moves by `/` after a search, and
`mix_write_redirect_blockmeta` marks the bit `(value - idx) / SEGMENT_NUM`, with
C's truncation, and returns without an entry when that bit was clear.

**MixMigration.** A step is one access to state another thread can see.
`redirect_write` up to its `mix_write_to_buffer` is one step, because it touches
only the worker's own index - which is sound as long as `MigrationExclusive`
holds, and that is checked and proved on the same model. `mix_migrate_segment`
is `MigrateLock`, `MigrationBegin`, one `RaiseFlag` per thread, `MigrationEnd`
(the return from the spin, the reset of the count, the clear of the bitmap and
the unlock). A migration thread takes `ThreadSee`, `ThreadLoad`, then per entry
`ThreadPop`, `ThreadRead`, `ThreadStore`, `ThreadClear`, per empty bucket
`ThreadSkip`, and leaves by `ThreadCount` and then `ThreadLower`. `migration[]`
and `*migrate_segment_idx` come out of `malloc` and nothing sets them:
`HeapFlags` is the set of contents considered, `ZeroHeap` a heap fresh from the
kernel. `migration[]` is declared with `SEGMENT_NUM` (4) entries
(`mix_meta.h:33`) and used with one per migration thread (8): the flags 4 to 7
are written and polled behind the array. On LP64 these bytes are the padding in
front of the pointers of `bloom_filter[]`, which nothing else uses, so every
thread has a flag of its own, as in the model; another field put there would be
overwritten. If the second `mix_get_next_free_block` returned -1 the code would use
it as a block number; the model stops there, and `DrainedBeforeReuse` says it
does not happen.

**MixStore.** Each step of `MixMigration` that moves data is conjoined with the
move. A datum is the number of the write that produced it. `latest` is a history
variable: the last completed write of each block. Clients keep their slot in
`tasks[]` for one request at a time, and requests in flight at the same time do
not overlap, so that "last completed" is defined. The queues are FIFOs here,
which `MixQueue` justifies. `stripe_size` and the number of queues are both 4 in
the code and both `SegNum` here. The part lists of a large write are posted one
by one and nobody waits for them. The wait at the head of
`mix_post_task_to_ssd` is in `MixRoute`. A request's length is 1, or `LargeLen`
for the starts in `LargeStarts`.

**MixRoute.** One client per slot; block `Threshold + k` is block `k` of the SSD.
The condition of the scheduler is `offset + len < threshold`, so the block just
below the threshold is in no NVM request, and a request that starts below the
threshold and ends at or above it - the one-block request at `Threshold - 1`
included, which lies wholly below - is not sent to the area of its first block
(`IsRouted`): it goes to the SSD area with `offset - threshold` wrapped to `2^64`
(`Word`), cut to `2^32` (`KeySpace`) where it becomes a key. The slot's
`inflight_buffer` is set at the start of a call, lowered by the worker that serves
the task and spun on by the client, except for reads and large writes of the SSD
area, which return with the count as it is. A worker drops the parts of a large
write (no case for `MIX_WRITE | MIX_CLEAR`), and may do so long after the slot has
been given to the next request. The buffer is reduced to what it holds for each
worker and key: eviction is `MixMigration`'s and `MixStore`'s subject. Of the
migration that a write of an unbuffered block may have to wait for, `Stall` keeps
what `migration_hang` shows, that it may never end: the worker leaves the task
half done and joins `stuck`, and neither of its queues is served again. `routed`
is a history variable: the last completed write of each block that was sent to the
block's own area. `migrating` is `segments[i].migration` as `malloc` left it. A
transfer from an offset outside the SSD reaches no block, as `pread` and `pwrite`
fail on it; the C functions `mix_ssd_read` and `mix_ssd_write` are not in the
repository.

**MixHash, HashIndex.** The other modules pop, put and look up in one step.
`MixHash` is the reason they may: buckets and pool are lists through the same
`next` field, a pop is `Take` (read the first entry, reset the node's fields),
`Lock`, `Link`, `Publish`, `Unlock` and `Unhook`, interleaved between threads, and
`ImplementsIndex` says that this implements `HashIndex`, with the pop happening at
`Take`. The worker takes nodes without the lock and only while no thread sweeps,
which `MigrationExclusive` provides. `Clear` is one round of the loop of
`mix_clear_block` with `mix_hash_delete` under it: the node of a bucket's first
entry is unlinked and not given back. (The worker has a case for `MIX_CLEAR`, but
no client can post a task with that bit alone, so the loss is latent.)

**MixQueue.** A `memcpy` into a slot takes two steps, with `Torn` in the slot
between them; a `memcpy` out takes two as well and yields `Torn` when the slot
changed in between. `in` and `out` are modulo `Wrap`. A freed slot is forgotten
by the model so that a read of a free slot shows. The counters are plain
`unsigned int`s that two threads access; the functions are called across
translation units and hold a compiler fence between data and counter, and the
target (x86, `pmem_memcpy`) keeps stores in order, so the model reads a counter
afresh at each call and orders data before counter.

**MixStartup.** It reuses the segments of `MixSegment`. `records` is what
survives a crash: for each block the `offset` of its self-description, or `None`
when `status` is 0. The initialising thread goes through the steps of
`mix_init_scheduler` and `mix_rebuild` one by one, the clear block by block.
`Fail` is an early return of an initialiser, with as many workers left behind as
were created; `mixdk_init` reports 0 all the same. (A `mix_metadata_init` that
fails is not noticed at all and ends in a fault of the process, and `mix_mmap`
exits by itself: both are crashes here.) `mix_segments_clear` is `mix_rebuild` on
a running store: the workers go on writing, and do not rebuild again.
A worker's `while(!rebuild) pthread_cond_wait(...)` is a test, the entry into the
wait and the wait, because `mix_rebuild` holds none of the workers' mutexes and
may set the flag and broadcast between the first two. (POSIX leaves waiting on
one condition variable with several mutexes undefined; the model gives it the
usual meaning.) Once the store is ready, `Write` leaves a block and its record
as `redirect_write` does.

**MixBloom.** `array` holds the bytes after the header. A key's checksum is
reduced to its two words `H1` and `H2`, arbitrary functions, and the index under
function `i` is computed from them as `hash_func` does, with the wrap of
`uint32_t`. `refused` is a history variable: the counters that once ignored an
increment because they were full. `mix_counting_bloom_filter_test` only reads and
is left out.

## 3. Runs

| Run | Bounds | Shows |
|---|---|---|
| `migration` | 2 segments of 2 blocks, 2 buckets, 2 threads, 6 block numbers, any number of writes | types, `MigrationExclusive`, `DrainedBeforeReuse`, `IndexConsistent`, `WriteIsIndexed`, `SearchTerminates`, `NoEntryDropped`, `SweepTerminates` |
| `migration_hang` | same | `MigrationEnds` is violated |
| `sentinel_key` | same, and block number 2^32-1 (`KeySpace - 1`) | `DrainedBeforeReuse` is violated |
| `store` | 2 segments of 1 block, 2 clients, 4 block numbers, at most 4 writes (`MaxWrites`), large writes of blocks 1-2, reads of block 1 (`ReadKeys`) | `FirstSegmentKeepsWrites`, `IndexedIsLatest`, `IndexedIsDescribed` |
| `lost_write` | same, no large writes | `NoWriteLost` is violated |
| `large_write` | same as `store` | `LargeWriteWins` is violated |
| `route` | 2 clients, 2 queues of 2 tasks, threshold 3, 3 SSD blocks, offsets modulo 16 and keys modulo 4, at most 3 writes (`MaxWrites`), one or all flags up | `CompletedIsServed`, `AreasKeepWrites`, `PartsPartition`, `PostedIsAnswered` |
| `hash` | a segment of 3 blocks, 3 buckets, 2 threads, 5 keys, any number of operations | `NodesAccounted`, `LenIsLength`, `AbortMeansLeak`, `ImplementsIndex` (refinement of `HashIndex`), `SweepEnds` |
| `queue` | 2 clients, 2 slots, counters modulo 4 | `NoTornTask`, `NoLostPost`, `ImplementsFifo` (refinement of `BoundedFifo`), `WaitingIsServed`, `HolderIsAdmitted` |
| `startup` | 2 segments of 2 blocks, 4 block numbers, at most 2 crashes (`MaxCrashes`) | `AccessIsMapped`, `ServedIsDescribed`, `ReadyMeansServing`, `FailedStartKeepsRecords`, `SleeperIsWoken` |
| `restart_index` | same, 1 crash | `RestartRebuilds` is violated |
| `bloom` | 6 block numbers, 3 functions of 3 counters, 3 values per counter | `CountersCountMembers` |

*Why the bounds are enough.* In `migration` two block numbers of a segment share
a bucket and one has its own, so collision lists of length 2, an empty bucket
and a bucket beyond a stripe all occur; three block numbers for two blocks force
migrations for ever, and two segments compete for the mutex and for the threads,
so that one migration can start while a thread of the previous one is still
leaving. `migration` has no bound on the number of steps. In `store` a segment
of one block migrates at every second new block; four writes suffice to fill two
segments, migrate one, reuse its block and overwrite. In `queue` three posts
wrap the ring and five wrap the counters; two clients with unwaited parts of
large writes fill a queue. `Wrap` must be a multiple of `Size` and larger, as
2^32 is of 4096. Reads change nothing in `store`, so reads of one block show the
paths. In `route` the requests lie below, just below, across and above the
threshold; a large write of three blocks leaves a remainder over two queues, two
clients with unwaited parts fill a queue, three writes suffice to reuse a slot
while its parts are queued and to write a block again through another path, and
the wrapped offset of a crossing request meets a key of its own; any small write
may be the one its worker is stuck with. In `hash` two
buckets can hold two entries, one thread sweeps two buckets and the other one, so
both are inside a pop at the same time, and entries are deleted at the head and
behind it. In `startup` the second crash can hit a start that already found records,
at any of its steps. In `bloom` four keys share a counter of at most two, so
counters fill, refuse, and are drained below their members, and nine counters
leave the last byte half used.

*Deadlock.* `queue` checks it. `MCMigration` does not, because the lost wake-up
that `migration_hang` exhibits is a state in which everybody waits; `MCStore`
does not because of that and because `MaxWrites` ends the run; `MCStartup` does
not because a worker that misses the broadcast leaves the start-up stuck;
`MCRoute` because clients wait for ever where all flags are up or their worker is
stuck; `MCHash` because
`abort` ends the process. `bloom` checks it.

*Symmetry.* Clients in `MCStore` are interchangeable and no property there is
temporal; segments and threads are numbers the code computes with and are not.

*Fairness.* Weak fairness of each worker and each thread, as the kernel runs every
thread of the process, and of a client inside a call; a client need not make a
call, a condition variable need not wake anyone spuriously, and nothing is assumed
about who gets a mutex or a spinlock, which pthreads do not promise either.
`SweepTerminates`, `WaitingIsServed` and `HolderIsAdmitted` hold under that, and
so do `SleeperIsWoken` and `SweepEnds`: a thread can be overtaken at the pool's
spinlock only as often as there are entries left. In `route` each queue is served
fairly, since a worker alternates between its two, which is what `WaitingIsServed`
shows, but only as long as the worker is not `stuck`: nothing says that a
`redirect_write` ends, and `migration_hang` shows that it may not. So
`PostedIsAnswered` promises an answer to a client that has posted its task unless
the worker of that task is stuck; it promises nothing to one that is still
posting, which a stuck worker's full queue may hold up or which may be overtaken
at the spinlock for ever. `WaitingIsServed` takes serving as one step, so it is
about the dequeue and not about how long a task takes. (`WaitingIsServed` is about
a client that has posted its task: one that still waits for the spinlock may
starve.)

Each property of a passing run has a mutant: an operator with a plausible bug,
defined next to the original, under which TLC finds that property violated.

## 4. What the violations mean

1. `migration_hang`: a migration thread counts itself before it lowers its flag.
   After the last count the worker is free; if the next migration raises the flag
   of a thread that is still between the two statements, that thread's store of
   `false` erases the wake-up. The count stays one short and the worker spins
   with `migrate_mutex` held. Safety survives (`MigrationExclusive`,
   `DrainedBeforeReuse`), progress does not.
2. `sentinel_key`: an entry whose key is `(uint32_t)-1` looks like an empty
   bucket. The scheduler produces that key for a one-block request that ends
   exactly at its threshold.
3. `lost_write`: `migrate` passes the segment-relative block number to
   `mix_buffer_read` and `mix_buffer_clear`, which take absolute ones. Only
   segment 0 migrates its own data. For the other segments the record of the
   block also stays valid, while segment 0 may lose one of its own; hence
   `IndexedIsDescribed` is stated for the segments after the first, and
   `FirstSegmentKeepsWrites` for the first.
4. `large_write`: the buffer is not cleared by large writes, against the feature
   list in `ReadMe.md`.
5. `restart_index`: after a restart the index is empty, because `mix_rebuild`
   clears the self-descriptions that `mix_buffer_rebuild` then reads. The property
   speaks of a `mixdk_init` that did not fail and has returned, so neither a failed
   start nor a missed broadcast (a worker between its test and its wait: then
   `mixdk_init` never returns) can be what violates it.

A sixth finding has no run of its own. `route` passes, and shows it by what
`AreasKeepWrites` says: a block holds the last completed write *that was sent to
its area*. `scheduler.c:37` compares `offset + len < threshold` where it should
compare `<=`, so no write of the block just below the threshold is sent to NVM.
Its client is told that the write succeeded, and the block keeps what it had;
`ReadMe.md:15` promises that a small NVM write really goes to NVM, and the table
at `ReadMe.md:211` puts metadata up to block 1928764, which is `threshold - 1`.
With `<=` in the code `IsNvmTask`, and with it `IsRouted`, would take that block
in, and `AreasKeepWrites` would say of it what it says of every other.

What the passing runs show that a reader of the code might not expect:

- a write that starts below the threshold and is not sent to NVM is lost, but it is
  also harmless: its wrapped offset reaches no block of either area
  (`AreasKeepWrites`). A one-block write of the block just below the threshold does
  occupy the buffer key of `sentinel_key`. `CompletedIsServed` exempts these
  requests, as they are answered without having been served;
- a worker that is lost in a migration holds up the clients of its own queues and
  nobody else's (`PostedIsAnswered`), until another worker needs the mutex it holds
  and is lost as well;
- a counter of the bloom filter that has refused an increment reaches zero while it
  still has members, and the filter then denies one of them, although the comment
  at `mix_bloom_filter.c:254` says that 0 means certainly absent. Nothing adds to
  the filters yet; `CountersCountMembers` says where the comment holds;
- one list node per block is enough as long as nobody deletes (`AbortMeansLeak`);
  after the deletion of a bucket's first entry the pool is short for good, the
  segment can no longer fill up, and the put that would have filled it aborts
  instead of migrating;
- with `migration[]` as a used heap may leave it, `DrainedBeforeReuse` fails: a
  thread sweeps at start-up, and its late count releases a worker whose segment is
  not drained. The runs take the heap of a fresh process, which is zero;
- reads of the SSD area do not look in the buffer (the post is commented out,
  although `ReadMe.md` lists it), so they return the SSD's copy however old.

## 5. Proofs

`MixSegmentProofs` proves, for every size and hash function: the cyclic search
of the bitmap returns a clear bit of the segment whenever there is one
(`FoundBitIsClear`), the recomputed bit of `mix_write_redirect_blockmeta` lies
between 0 and the block (`BlockmetaBitBound`), and each operation maps segments
to segments - for `next_bit`, on the `/` path too.

`MixStoreProofs` has three layers, one invariant inside the next. The first is
the migration protocol:

- `TypeCorrect`: `Spec => []TypeOK`, for any initial flags;
- `Exclusion`: `Spec => []MigrationExclusive`, if `HeapFlags = ZeroHeap`.

`MigrationExclusive` is not inductive: that a thread is sweeping says nothing
about why the worker cannot leave. The inductive invariant `IInv` adds

- `MutexInv`: the mutex is held exactly inside `mix_migrate_segment`, and between
  begin and end the published number is the holder's;
- `PendingInv`: a thread that is sweeping, or that polls with its flag up, was
  raised by the current holder and works on its segment;
- `CountInv`: the holder's count is at most the number of threads below
  `raise_idx` that are not pending.

When the worker leaves its spin the count is the number of threads, so by
`CountInv` and cardinality all threads are below `raise_idx` and none is pending
(`NobodyPendingAtEnd`); hence the unlock cannot leave a sweeping thread behind.
`CountInv` is an inequality because of the lost wake-up: a thread whose flag was
erased is not pending and has not counted.

The second layer is the index. It goes on from `IInv`, under two assumptions:
`HeapFlags = ZeroHeap`, and `NoKey \notin Keys` (no client writes block `2^32-1`;
run `sentinel_key` shows what happens otherwise). It proves `IndexIsConsistent`
(`IndexConsistent`), `MigrationDrains` (`DrainedBeforeReuse`), `WritesAreIndexed`
(`WriteIsIndexed`), `BitmapSearchEnds` (`SearchTerminates`) and, for any flags,
the action property `NothingIsDropped` (`NoEntryDropped`). `IndexInv` adds

- `GoodInv`: entries sit in the bucket of their hash, keys and blocks are
  distinct, blocks are marked, pool and entries add up;
- `PrefixInv`: outside a sweep the marked blocks are a prefix as long as
  `used_block_num`. Without it the bit `mix_write_redirect_blockmeta` tests, which
  is not the one allocated, could be clear, and the search could meet a full
  bitmap;
- `UsedInv`: `used_block_num` counts the entries and those in a thread's hand;
- `StripeInv`: behind a sweeping thread its stripe is empty;
- `CountedInv`: the count is at most the number of raised threads that are done
  and whose stripe is empty. When it reaches the number of threads every stripe,
  and so every bucket, is empty. It is an inequality for the same reason as
  `CountInv`.

The third layer is the data path, for any number of clients and writes and under
the same two assumptions: `StoreTypeCorrect` (`StoreTypeOK`),
`IndexedBlocksAreLatest` (`IndexedIsLatest`), `IndexedBlocksAreDescribed`
(`IndexedIsDescribed`) and `FirstSegmentSurvives` (`FirstSegmentKeepsWrites`).
`StoreImplementsMigration` (`StoreSpec => Spec`) says that every step of the store
is a step of the protocol or none, so the second layer's `IndexInv` is an invariant
of the store too. The properties only speak of blocks with no request in flight and
of what a lookup finds, which is not inductive; `StoreInv` adds

- `QueueInv`, `HandInv`, `UniqueInv`: a one-block write in a buffer queue or in a
  worker's hand is in the segment of its block number, its client waits for it, and
  it is the only one of that client. This is what makes a step of the store redirect
  only keys of its own segment, and what tells a block that is being written from
  one whose write is complete;
- `IndexedInv`, `DescribedInv`: an indexed block holds the last completed write
  (and, after the first segment, has its record) unless the worker has updated the
  index and not yet stored that block and its record (`Writing`). The two
  properties are these at blocks no request covers;
- `CopyInv`: while a thread carries a block of the first segment, the last write is
  in the buffer, then in the copy buffer, then on the SSD;
- `SsdInv`: a block number of the first segment that is neither indexed nor carried
  has its last write on the SSD.

`CopyInv` and `SsdInv` are stated for segment 0 because they fail elsewhere (run
`lost_write`). That a migration thread's clear of the wrong record (`DescribedInv`)
stays in the first segment is arithmetic: a relative block number is below
`PerBlock`.

`MixHashProofs` holds for any number of nodes, buckets and threads. The argument
is about who owns a node. `HashInv` says that there is a function from nodes to
owners - the pool, a bucket, the hand of a thread, or nobody once
`mix_hash_delete` has forgotten it - such that

- `LinkInv`: the pool and each bucket are lists through `next` without repetition
  that run through exactly the nodes they own. The list of a bucket starts behind
  the node a thread has taken and not unhooked yet (`BucketHead`);
- `HandInv`: a thread between its pop and its publication of the node owns that node
  alone, and the forgotten nodes are `leaked`;
- `CountInv`: `free_node_num`, `len` and `used_block_num` count owners, with the
  threads inside a pop on top;
- `EntryInv`: the nodes of a bucket hold entries of that bucket with different keys;

and `PhaseInv`, that threads run only during a migration, on stripes of buckets
that do not meet, and that the lock is held exactly from `Lock` to `Unlock`. The
steps move a node from one owner to the next; `ListPop`, `ListPush` and
`ListRemove` say what that does to a list. `WalkOfList` ties the lists to `Walk`,
the loop that the properties and `mix_hash_get` use. From it follow
`HashTypeCorrect`, `NodesAreAccounted`, `LenCountsNodes` and `AbortNeedsLeak`:
with nothing leaked, `used_block_num < PerBlock` leaves a node to the pool.
`HashImplementsIndex` shows that each step is a step of `HashIndex` or none: a pop
happens at `Take`, though its node is published and its bucket unhooked later, and
a node in a thread's hand counts as free. This justifies the one-step hash
operations of `MixSegment`, which `MixMigration` and `MixStore` are built on.

`MixQueueProofs` holds for any number of clients and slots and any counter range
that is a larger multiple of the ring. `IInv` says that a ring holds at most
`Size` tasks and whole ones between `out` and `in` (`RingInv`), that the copying
client holds the lock (`LockInv`) and copies into a free slot (`CopyInv`), and
that the worker's copy is what the slot still holds (`HandInv`). From it follow
`TypeCorrect`, `NothingTorn` and `RingsAreFifos`: the mapping of `ImplementsFifo`
takes initial states to initial states and every step to a step of `BoundedFifo`
or a stutter. `NoPostIsLost` needs `WaitInv` as well: a task in a queue or in the
worker's hand belongs to a client that waits for it, once; so a client has one
such task, and since clients are at most as many as slots a ring without parts
of large writes is never full.

`MixStartupProofs` rests on `Phases`, what is true at each point of `mixdk_init`
and `mix_segments_clear`, with the count of workers that serve (`CountInv`), the
records until there is a mapping (`KeepInv`), the progress of the clear loops
(`ClearInv`) and the prefix of used blocks (`PrefixInv`). It proves `TypeCorrect`,
`AccessAfterMap`, `ReadyIsServing`, `FailedStartIsHarmless` and
`IndexDescribesRecords` for any number of crashes. The loop of
`mix_buffer_rebuild` is a recursive function; what is needed of it is its value
on a segment without valid records, which is what `ClearInv` gives it.

`MixBloomProofs` proves `TypeCorrect` and `CountersAreExact` for any number of
functions and counters, any values of the two checksum words and any finite set of
keys. `Counted` says that a counter is at most the number of members that own it,
and equal to it unless it refused an increment; the inequality is what keeps a
decrement after a refused increment from going wrong. The work is in the loop over
the functions: that its rounds touch different counters, that a nibble update
leaves its neighbour alone, and that the recursive function of the loop exists
(`Iterates`).

`MixRouteProofs` proves `TypeCorrect`, `WaitMeansServed` (`CompletedIsServed`),
`AreasHoldWrites` (`AreasKeepWrites`, in its sense: the last completed write sent to
the block's area) and `PartsAreExact` (`PartsPartition`) for
any number of clients, queues and blocks. `RouteInv` adds

- `RequestInv`, `DisjointInv`, `InflightInv`: a slot's request fits the place its
  client is at, requests in flight do not overlap, and the inflight count is the
  length of the slot's own request until it is served;
- `NvmInv`, `BufferInv`: a task in an NVM queue, and one in a buffer queue that
  the worker has a case for, is the task its client waits for, and is the only
  one. That the parts of earlier large writes never lower the count of the slot's
  next request is this invariant;
- `HeldInv`: a block holds the last completed write that was sent to its area,
  unless a served write on it is about to be completed. `AreasKeepWrites` itself
  is silent on blocks under a request, where it has to be known when the request
  leaves without having written;
- `PartInv`: the parts posted so far have the offsets and lengths of the loop.
  That they partition the request then is arithmetic: block `m` of the request is
  block `m / QueueNum` of part `m % QueueNum`, and offsets less than `Word` apart
  differ modulo `Word`.

Assumptions on the constants, all evaluated by TLC in the runs:
`SegmentAssumption` (sizes are positive, the bitmap has whole bytes, block numbers
fit `KeySpace`, `HashOf` maps into the buckets), `ThreadAssumption`,
`SweeperAssumption` (at least one thread, values are blocks), `StoreAssumption`
(large writes have at least two blocks and lie among the block numbers),
`QueueAssumption`, `BloomAssumption`, and `RouteAssumption` (areas smaller than a
word, an SSD of fewer than `KeySpace` blocks, `KeySpace` divides `Word`, requests
of at least one block inside the store, at most as many clients as a queue has
slots).

Only model-checked: liveness (`SweepTerminates`, `WaitingIsServed`,
`HolderIsAdmitted`, `SleeperIsWoken`, `PostedIsAnswered`, `SweepEnds`), as the
prover has no rules for fairness and `ENABLED`. Every other property of a passing
run is a theorem. The theorems say nothing about the violated properties but that
they are confined: `FirstSegmentSurvives` and `IndexedBlocksAreDescribed` bound
what `lost_write` destroys, `NoKey \notin Keys` excludes `sentinel_key`, and the
blocks in `large` are those `large_write` is about.

## 6. Not modelled

- Logging, the benchmark drivers, file names and capacities of the devices.
- The C++ rewrite (`io_*`, `nvm_buffer`, `device.h`, the classes in `nvm.cpp`,
  `ssd.cpp` and `mix_hash.h`). It does not compile (`mix_hash.h` has a method
  named `delete`), `IoThread::loop` and `NVMBuffer::submitIo` have empty bodies,
  `IoChannel` takes requests out where it should put them in, and `IoRing` never
  sets the element size it copies with. There is no behaviour to be faithful to.
- Code that no call or task reaches: `mix_hash_has_key` (whose bucket is `hash_size`
  through a comma operator, one past the end), `mix_hash_free`, `redirect_read`,
  the lock-free queue variants.
- A crash inside a single write. Data and self-description are two stores, so one
  may be there without the other, but `mix_rebuild` clears every description
  before any worker reads one: no restarted process can tell.
- Requests the models exclude: length 0 (a small write of it would be buffered as
  one block after the call has returned), `MIX_CLEAR` in a client's flags (the
  task has no case and the client would wait for ever), block numbers from 2^31 on
  in large writes (`mix_post_task_to_buffer` computes in `int`, exact below that,
  where a wrapped offset becomes the negative `int` that widens to it again), SSDs
  of 2^32 blocks or more (keys are `uint32_t`), and requests in flight at the same
  time that overlap.
- Which worker a part of a large write goes to, `(offset / 4 + i) & 3`, is not the
  one that owns its blocks, `offset & 3`. `PostPart` models it, but as the parts
  are dropped nothing follows from it today.

## 7. What is left

1. When `migrate` adds the base of the segment to its block number, `CopyInv`,
   `SsdInv` and `FirstSegmentKeepsWrites` can be stated for every segment, and
   `DescribedInv` for the first.
2. When reads of the SSD area look in the buffer again, a property of what
   `mixdk_read` returns can replace the remark on stale reads in section 4.
3. `MixRoute` takes a migration that never ends as a choice (`Stall`); composing it
   with `MixStore` would tie `stuck` to the handshake that loses the wake-up.
