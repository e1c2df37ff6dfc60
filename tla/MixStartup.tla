---------------------------- MODULE MixStartup ----------------------------
(***************************************************************************)
(* Start-up and restart of the store: mix_init_scheduler (scheduler.c),    *)
(* mix_rebuild and the first lines of nvm_worker (nvm_worker.cpp), and     *)
(* mix_buffer_rebuild (mix_meta.c), which indexes a segment from the       *)
(* self-descriptions of its blocks; a start that fails half-way, and the   *)
(* call mix_segments_clear (mixdk.c), which runs mix_rebuild once more     *)
(* under the feet of the workers.                                          *)
(*                                                                         *)
(* The records in NVM survive a crash, everything else does not.  Between  *)
(* start-up and crash, clients write blocks to segments with room left; a  *)
(* full segment is the subject of MixMigration.                            *)
(***************************************************************************)
EXTENDS MixSegment, FiniteSets

CONSTANT MaxCrashes   \* bound on the crashes
ASSUME CrashAssumption == MaxCrashes \in Nat

VARIABLES
  records,      \* the key of each block with status 1, else None (persistent)
  ipc,          \* where the initialising thread is
  clear_idx,    \* the block the loops of mix_rebuild clear next
  mapped,       \* mix_mmap has set the addresses
  rebuild,
  rebuild_num,
  wpc,          \* where worker s is
  segs,         \* the index of each segment
  inited,       \* mixdk_init has returned 0
  failed,       \* although mix_init_scheduler returned -1
  wiped,        \* mix_segments_clear has been called (history)
  saved,        \* the valid blocks at the last crash (history)
  crashes

callVars == <<inited, failed, wiped>>
initVars == <<ipc, clear_idx, mapped, rebuild, callVars>>
startVars == <<records, initVars, rebuild_num, wpc, segs, saved, crashes>>

\* start: before mix_buffer_worker_init; workers: before mix_nvm_worker_init;
\* map: before mix_mmap; clear, raise, wake, wait: in mix_rebuild.
InitPc == {"start", "workers", "map", "clear", "raise", "wake", "wait", "ready"}

\* test: at "while(!rebuild)"; doze: about to enter pthread_cond_wait; sleep:
\* inside it; rebuild: in mix_buffer_rebuild; poll: in the main loop.
WorkerPc == {"none", "test", "doze", "sleep", "rebuild", "poll"}

TypeOK ==
  /\ records \in [Segments -> [Blocks -> Keys \union {None}]]
  /\ ipc \in InitPc
  /\ clear_idx \in 0 .. SegNum * PerBlock
  /\ mapped \in BOOLEAN
  /\ rebuild \in BOOLEAN
  /\ rebuild_num \in 0 .. SegNum
  /\ wpc \in [Segments -> WorkerPc]
  /\ segs \in [Segments -> Segment]
  /\ inited \in BOOLEAN /\ failed \in BOOLEAN /\ wiped \in BOOLEAN
  /\ saved \subseteq Segments \X Blocks
  /\ crashes \in 0 .. MaxCrashes

\* The blocks whose record says that they hold data.
Valid == {p \in Segments \X Blocks : records[p[1]][p[2]] # None}

\* The static variables of a process that has just been started.
FreshProcess ==
  /\ ipc' = "start"
  /\ clear_idx' = 0
  /\ mapped' = FALSE
  /\ rebuild' = FALSE
  /\ rebuild_num' = 0
  /\ wpc' = [s \in Segments |-> "none"]
  /\ segs' = [s \in Segments |-> mix_segment_init]
  /\ inited' = FALSE
  /\ failed' = FALSE
  /\ wiped' = FALSE

\* The first start, on a new pool file.
Init ==
  /\ records = [s \in Segments |-> [b \in Blocks |-> None]]
  /\ ipc = "start"
  /\ clear_idx = 0
  /\ mapped = FALSE
  /\ rebuild = FALSE
  /\ rebuild_num = 0
  /\ wpc = [s \in Segments |-> "none"]
  /\ segs = [s \in Segments |-> mix_segment_init]
  /\ inited = FALSE
  /\ failed = FALSE
  /\ wiped = FALSE
  /\ saved = {}
  /\ crashes = 0

---------------------------------------------------------------------------
(* mix_init_scheduler *)

\* mix_buffer_worker_init: the metadata, the mutexes and the buffer queues.
BufferWorkerInit ==
  /\ ipc = "start"
  /\ segs' = [s \in Segments |-> mix_segment_init]
  /\ ipc' = "workers"
  /\ UNCHANGED <<records, clear_idx, mapped, rebuild, rebuild_num, wpc, callVars,
                 saved, crashes>>

\* mix_nvm_worker_init: every worker is created, and runs when it likes.
NvmWorkerInit ==
  /\ ipc = "workers"
  /\ wpc' = [s \in Segments |-> "test"]
  /\ ipc' = "map"
  /\ UNCHANGED <<records, clear_idx, mapped, rebuild, rebuild_num, segs, callVars,
                 saved, crashes>>

\* Mutant: the workers may start as soon as the memory is there.
MapAndRaise ==
  /\ ipc = "map"
  /\ mapped' = TRUE
  /\ rebuild' = TRUE
  /\ ipc' = "clear"
  /\ UNCHANGED <<records, clear_idx, rebuild_num, wpc, segs, callVars, saved, crashes>>

Map ==
  /\ ipc = "map"
  /\ mapped' = TRUE
  /\ ipc' = "clear"
  /\ UNCHANGED <<records, clear_idx, rebuild, rebuild_num, wpc, segs, callVars,
                 saved, crashes>>

\* Mutant: a failure is noted and the start goes on.
FailAndGoOn(n) ==
  /\ ipc = "workers"
  /\ wpc' = [s \in Segments |-> IF s < n THEN "test" ELSE "none"]
  /\ failed' = TRUE
  /\ ipc' = "map"
  /\ UNCHANGED <<records, clear_idx, mapped, rebuild, rebuild_num, segs, inited,
                 wiped, saved, crashes>>

\* mix_nvm_worker_init fails after it has created n workers: the scheduler
\* returns -1 at once, which mixdk_init ignores.  The initialisers before it
\* fail with no worker created.
Fail(n) ==
  /\ ipc = "workers" \/ (ipc = "start" /\ n = 0)
  /\ wpc' = [s \in Segments |-> IF s < n THEN "test" ELSE "none"]
  /\ failed' = TRUE
  /\ inited' = TRUE
  /\ ipc' = "ready"
  /\ UNCHANGED <<records, clear_idx, mapped, rebuild, rebuild_num, segs, wiped,
                 saved, crashes>>

---------------------------------------------------------------------------
(* mix_rebuild *)

\* A client calls mix_segments_clear: mix_rebuild again, while others write.
\* (Without a mapping the call ends in a fault.)
mix_segments_clear ==
  /\ ipc = "ready"
  /\ mapped
  /\ wiped' = TRUE
  /\ clear_idx' = 0
  /\ ipc' = "clear"
  /\ UNCHANGED <<records, mapped, rebuild, rebuild_num, wpc, segs, inited, failed,
                 saved, crashes>>

\* Mutant: one block more than there is.
ClearOneMore ==
  /\ ipc = "clear"
  /\ records' = [records EXCEPT
       ![clear_idx \div PerBlock][clear_idx % PerBlock] = None]
  /\ clear_idx' = clear_idx + 1
  /\ ipc' = IF clear_idx = SegNum * PerBlock THEN "raise" ELSE ipc
  /\ UNCHANGED <<mapped, rebuild, rebuild_num, wpc, segs, callVars, saved, crashes>>

\* mix_segment_clear of one segment after the other: mix_buffer_clear of the
\* next block.
ClearBlock ==
  /\ ipc = "clear"
  /\ records' = [records EXCEPT
       ![clear_idx \div PerBlock][clear_idx % PerBlock] = None]
  /\ clear_idx' = clear_idx + 1
  /\ ipc' = IF clear_idx + 1 = SegNum * PerBlock THEN "raise" ELSE ipc
  /\ UNCHANGED <<mapped, rebuild, rebuild_num, wpc, segs, callVars, saved, crashes>>

Raise ==
  /\ ipc = "raise"
  /\ rebuild' = TRUE
  /\ ipc' = "wake"
  /\ UNCHANGED <<records, clear_idx, mapped, rebuild_num, wpc, segs, callVars,
                 saved, crashes>>

\* Mutant: pthread_cond_signal, which wakes one of the sleepers.
SignalOne ==
  /\ ipc = "wake"
  /\ IF \E s \in Segments : wpc[s] = "sleep"
     THEN \E s \in Segments : wpc[s] = "sleep" /\ wpc' = [wpc EXCEPT ![s] = "test"]
     ELSE UNCHANGED wpc
  /\ ipc' = "wait"
  /\ UNCHANGED <<records, clear_idx, mapped, rebuild, rebuild_num, segs,
                 callVars, saved, crashes>>

\* pthread_cond_broadcast, with none of the workers' mutexes held: it reaches
\* those that are inside pthread_cond_wait by now.
Broadcast ==
  /\ ipc = "wake"
  /\ wpc' = [s \in Segments |-> IF wpc[s] = "sleep" THEN "test" ELSE wpc[s]]
  /\ ipc' = "wait"
  /\ UNCHANGED <<records, clear_idx, mapped, rebuild, rebuild_num, segs,
                 callVars, saved, crashes>>

\* Mutant: one worker is not waited for.
AwaitAllButOne ==
  /\ ipc = "wait"
  /\ rebuild_num >= SegNum - 1
  /\ ipc' = "ready"
  /\ inited' = TRUE
  /\ UNCHANGED <<records, clear_idx, mapped, rebuild, rebuild_num, wpc, segs,
                 failed, wiped, saved, crashes>>

\* The spin on rebuild_num ends, and mixdk_init or mix_segments_clear returns.
AwaitWorkers ==
  /\ ipc = "wait"
  /\ rebuild_num >= SegNum
  /\ ipc' = "ready"
  /\ inited' = TRUE
  /\ UNCHANGED <<records, clear_idx, mapped, rebuild, rebuild_num, wpc, segs,
                 failed, wiped, saved, crashes>>

---------------------------------------------------------------------------
(* nvm_worker, up to its main loop *)

\* Mutant: no wait for rebuild.
TestNothing(s) ==
  /\ wpc[s] = "test"
  /\ wpc' = [wpc EXCEPT ![s] = "rebuild"]
  /\ UNCHANGED <<records, initVars, rebuild_num, segs, saved, crashes>>

\* The worker's own mutex does not keep mix_rebuild from what comes next.
WorkerTest(s) ==
  /\ wpc[s] = "test"
  /\ wpc' = [wpc EXCEPT ![s] = IF rebuild THEN "rebuild" ELSE "doze"]
  /\ UNCHANGED <<records, initVars, rebuild_num, segs, saved, crashes>>

WorkerSleep(s) ==
  /\ wpc[s] = "doze"
  /\ wpc' = [wpc EXCEPT ![s] = "sleep"]
  /\ UNCHANGED <<records, initVars, rebuild_num, segs, saved, crashes>>

\* pthread_cond_wait may return for no reason.
SpuriousWakeup(s) ==
  /\ wpc[s] = "sleep"
  /\ wpc' = [wpc EXCEPT ![s] = "test"]
  /\ UNCHANGED <<records, initVars, rebuild_num, segs, saved, crashes>>

\* The index mix_buffer_rebuild makes of the first n records of a segment.
Rebuilt(g, recs) ==
  LET upTo[n \in 0 .. PerBlock] ==
        IF n = 0 THEN g
        ELSE IF recs[n - 1] = None THEN upTo[n - 1]
        ELSE [mix_hash_put(upTo[n - 1], recs[n - 1], n - 1) EXCEPT
                !.bitmap = @ \union {n - 1}, !.used_block_num = @ + 1]
  IN upTo[PerBlock]

WorkerRebuild(s) ==
  /\ wpc[s] = "rebuild"
  /\ segs' = [segs EXCEPT ![s] = Rebuilt(@, records[s])]
  /\ rebuild_num' = rebuild_num + 1
  /\ wpc' = [wpc EXCEPT ![s] = "poll"]
  /\ UNCHANGED <<records, initVars, saved, crashes>>

---------------------------------------------------------------------------
\* A write of block number k by a client whose mixdk_init has returned: a block
\* of the buffer and its record, as redirect_write leaves them.
Write(s, k) ==
  LET g == segs[s]
      hit == mix_buffer_block_test(g, k)
      v == IF hit # None THEN hit ELSE FoundBit(g)
  IN /\ inited
     /\ wpc[s] = "poll"
     /\ hit # None \/ ~SegmentFull(g)
     /\ segs' = IF hit # None THEN segs
                ELSE [segs EXCEPT ![s] = mix_write_redirect_blockmeta(
                                           mix_bitmap_next_zero_bit(g), s, k, v)]
     /\ records' = [records EXCEPT ![s][v] = k]
     /\ UNCHANGED <<initVars, rebuild_num, wpc, saved, crashes>>

\* The process dies and is started again.
Crash ==
  /\ crashes < MaxCrashes
  /\ crashes' = crashes + 1
  /\ saved' = Valid
  /\ FreshProcess
  /\ UNCHANGED records

InitThread ==
  \/ BufferWorkerInit \/ NvmWorkerInit \/ Map
  \/ ClearBlock \/ Raise \/ Broadcast \/ AwaitWorkers

Worker(s) == WorkerTest(s) \/ WorkerSleep(s) \/ WorkerRebuild(s)

Next ==
  \/ InitThread
  \/ \E s \in Segments : Worker(s) \/ SpuriousWakeup(s)
  \/ \E s \in Segments : \E k \in KeysOf(s) : Write(s, k)
  \/ \E n \in Segments : Fail(n)
  \/ mix_segments_clear
  \/ Crash

Spec == Init /\ [][Next]_startVars

\* Threads run; nothing promises a spurious wake-up, a client, a failure or a
\* crash.
Fairness ==
  /\ WF_startVars(InitThread)
  /\ \A s \in Segments : WF_startVars(Worker(s))

FairSpec == Spec /\ Fairness

---------------------------------------------------------------------------
(* Properties *)

\* A worker reads and writes the buffer only after mix_mmap has set its
\* address, although it is created before; after a failed start, never.
AccessIsMapped ==
  \A s \in Segments : wpc[s] \in {"rebuild", "poll"} => mapped

\* A worker serves from an index that agrees with the records of its segment:
\* every valid record is indexed at its block, and no other block is in use,
\* unless mix_segments_clear has taken records away.  The clear of the records
\* must be over before the first rebuild reads them.
ServedIsDescribed ==
  \A s \in Segments : wpc[s] = "poll" =>
    LET valid == {b \in Blocks : records[s][b] # None}
    IN /\ \A b \in valid : mix_buffer_block_test(segs[s], records[s][b]) = b
       /\ valid \subseteq segs[s].bitmap
       /\ wiped \/ segs[s].bitmap = valid
       /\ segs[s].used_block_num = Cardinality(segs[s].bitmap)

\* When mixdk_init returns after a start that did not fail, every worker has
\* rebuilt its index and serves.
ReadyMeansServing ==
  inited /\ ~failed => \A s \in Segments : wpc[s] = "poll"

\* A start that fails half-way touches no record, for all the workers it has
\* left behind: what the last process had written is there for the next start.
FailedStartKeepsRecords == failed => Valid = saved

\* A worker that sleeps when mix_rebuild comes to its broadcast is woken and
\* serves, unless the process dies first.
SleeperIsWoken ==
  \A s \in Segments :
    (ipc = "wake" /\ wpc[s] = "sleep") ~> (wpc[s] = "poll" \/ ipc = "start")

\* When mixdk_init returns after a start that did not fail, and nobody has called
\* mix_segments_clear, every block that was valid when the last process died is
\* indexed again: "after a restart of the application the index is rebuilt".
RestartRebuilds ==
  inited /\ ~failed /\ ~wiped => \A p \in saved : p[2] \in segs[p[1]].bitmap
===========================================================================
