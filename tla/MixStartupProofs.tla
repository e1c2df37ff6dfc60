-------------------------- MODULE MixStartupProofs --------------------------
(***************************************************************************)
(* Proofs about start-up and restart, for any number of segments, blocks   *)
(* and crashes.  Phases says what is true at each point of mixdk_init and  *)
(* mix_segments_clear; the other parts of the inductive invariant rest on  *)
(* it: the count of workers that serve, the progress of the clear loops,   *)
(* and the index of a worker that serves.                                  *)
(***************************************************************************)
EXTENDS MixStartup, MixSegmentProofs, FiniteSetTheorems

---------------------------------------------------------------------------
(* The inductive invariant *)

\* The workers that have rebuilt and serve.
Serving == {s \in Segments : wpc[s] = "poll"}

Phases ==
  /\ ipc \in {"start", "workers", "map"} =>
       ~mapped /\ ~rebuild /\ ~inited /\ ~failed /\ clear_idx = 0
  /\ ipc \in {"clear", "raise", "wake", "wait"} => mapped /\ ~failed
  /\ ipc \in {"wake", "wait"} => rebuild
  /\ ipc \in {"clear", "raise"} /\ ~inited => ~rebuild
  /\ ipc \in {"clear", "raise", "wake", "wait"} /\ inited => wiped
  /\ ipc = "ready" => inited
  /\ failed => ipc = "ready" /\ ~mapped
  /\ inited /\ ~failed => rebuild
  /\ rebuild => mapped
  /\ wiped => inited
  /\ ~rebuild => \A s \in Segments : wpc[s] \notin {"rebuild", "poll"}

CountInv == rebuild_num = Cardinality(Serving)

\* The records stay as the last process left them until there is a mapping.
KeepInv == ~mapped => Valid = saved

\* The loops of mix_rebuild have cleared the blocks before clear_idx; before
\* mixdk_init returns nobody has written any, and the indexes are empty.
ClearInv ==
  /\ ipc = "clear" => clear_idx < SegNum * PerBlock
  /\ ~inited =>
       /\ segs = [s \in Segments |-> mix_segment_init]
       /\ ipc = "clear" =>
            \A s \in Segments : \A b \in Blocks :
              s * PerBlock + b < clear_idx => records[s][b] = None
       /\ ipc \in {"raise", "wake", "wait"} =>
            \A s \in Segments : \A b \in Blocks : records[s][b] = None

\* The blocks in use are a prefix of the segment.
PrefixInv == \A s \in Segments : Prefix(segs[s])

StartInv ==
  /\ TypeOK /\ Phases /\ CountInv /\ ReadyMeansServing /\ KeepInv /\ ClearInv
  /\ PrefixInv /\ ServedIsDescribed

---------------------------------------------------------------------------
(* Lemmas about the operators *)

\* mix_buffer_rebuild of a segment without a valid record leaves its index.
LEMMA RebuiltEmpty ==
  ASSUME NEW g, NEW recs, \A b \in Blocks : recs[b] = None
  PROVE  Rebuilt(g, recs) = g
<1> DEFINE Body(f, n) ==
             IF n = 0 THEN g
             ELSE IF recs[n - 1] = None THEN f[n - 1]
             ELSE [mix_hash_put(f[n - 1], recs[n - 1], n - 1) EXCEPT
                     !.bitmap = @ \union {n - 1}, !.used_block_num = @ + 1]
           Eq(f) == f = [n \in 0 .. PerBlock |-> Body(f, n)]
           u == CHOOSE f : Eq(f)
           w == [n \in 0 .. PerBlock |-> g]
<1>0. PerBlock \in Nat /\ \A n \in 1 .. PerBlock : recs[n - 1] = None
  BY SegmentAssumption DEF Blocks
<1>1. Rebuilt(g, recs) = u[PerBlock]
  BY Zenon DEF Rebuilt
<1>2. Eq(w)
  <2>1. \A n \in 0 .. PerBlock : Body(w, n) = g
    <3> SUFFICES ASSUME NEW n \in 0 .. PerBlock PROVE Body(w, n) = g
      OBVIOUS
    <3>1. CASE n = 0
      BY <3>1
    <3>2. CASE n # 0
      <4>1. n \in 1 .. PerBlock /\ n - 1 \in 0 .. PerBlock
        BY <1>0, <3>2
      <4>2. recs[n - 1] = None /\ w[n - 1] = g
        BY <1>0, <4>1
      <4> QED
        BY <3>2, <4>2
    <3> QED
      BY <3>1, <3>2
  <2> HIDE DEF Body
  <2> QED
    BY <2>1
<1>3. Eq(u)
  <2> HIDE DEF Eq
  <2> QED
    BY <1>2
<1>4. \A n \in 0 .. PerBlock : u[n] = IF n = 0 THEN g ELSE u[n - 1]
  <2> HIDE DEF u
  <2> SUFFICES ASSUME NEW n \in 0 .. PerBlock
               PROVE  u[n] = IF n = 0 THEN g ELSE u[n - 1]
    OBVIOUS
  <2>1. u[n] = Body(u, n)
    BY <1>3
  <2>2. CASE n = 0
    BY <2>1, <2>2
  <2>3. CASE n # 0
    <3>1. n \in 1 .. PerBlock
      BY <1>0, <2>3
    <3> QED
      BY <1>0, <2>1, <2>3, <3>1
  <2> QED
    BY <2>2, <2>3
<1> HIDE DEF u
<1> DEFINE T == {n \in 0 .. PerBlock : u[n] # g}
<1>5. T = {}
  <2> SUFFICES ASSUME T # {} PROVE FALSE
    OBVIOUS
  <2>1. T \in SUBSET Nat
    BY <1>0
  <2>2. PICK x \in T : \A y \in T : x <= y
    BY <2>1, LeastNat
  <2>3. x # 0 /\ x \in 0 .. PerBlock
    BY <1>4, <2>2
  <2>4. x - 1 \in 0 .. PerBlock /\ x - 1 \notin T
    BY <1>0, <2>2, <2>3
  <2> QED
    BY <1>4, <2>2, <2>3, <2>4
<1> QED
  BY <1>0, <1>1, <1>5

\* An empty index is a prefix of length zero.
LEMMA InitPrefix ==
  Prefix(mix_segment_init) /\ mix_segment_init.bitmap = {}
  BY SegmentAssumption DEF Prefix, mix_segment_init

\* A prefix is as long as its length.
LEMMA PrefixCount ==
  ASSUME NEW g, Prefix(g)
  PROVE  g.used_block_num = Cardinality(g.bitmap)
<1>1. g.used_block_num \in Nat /\ g.bitmap = 0 .. g.used_block_num - 1
  BY SegmentAssumption DEF Prefix
<1>2. PICK u \in Nat : u = g.used_block_num
  BY <1>1
<1>3. 0 \in Int /\ u - 1 \in Int
  OBVIOUS
<1>4. Cardinality(0 .. u - 1) = IF 0 > u - 1 THEN 0 ELSE u - 1 - 0 + 1
  BY <1>3, FS_Interval
<1>5. Cardinality(0 .. u - 1) = u
  BY <1>4
<1> QED
  BY <1>1, <1>2, <1>5

\* The segments that serve are at most SegNum, and SegNum only if all do.
LEMMA ServingBound ==
  /\ IsFiniteSet(Serving) /\ Cardinality(Serving) \in 0 .. SegNum
  /\ Cardinality(Serving) = SegNum => Serving = Segments
<1>1. IsFiniteSet(Segments) /\ Cardinality(Segments) = SegNum
  BY SegmentAssumption, FS_Interval DEF Segments
<1>2. Serving \in SUBSET Segments
  BY DEF Serving
<1> QED
  BY <1>1, <1>2, FS_Subset, FS_CardinalityType, SegmentAssumption

\* The block the clear loops are at.
LEMMA ClearedBlock ==
  ASSUME clear_idx \in Nat, clear_idx < SegNum * PerBlock
  PROVE  /\ clear_idx \div PerBlock \in Segments
         /\ clear_idx % PerBlock \in Blocks
         /\ \A s \in Segments : \A b \in Blocks :
              s * PerBlock + b = clear_idx =>
                s = clear_idx \div PerBlock /\ b = clear_idx % PerBlock
<1>1. PerBlock \in Nat \ {0} /\ SegNum \in Nat
  BY SegmentAssumption
<1>2. PICK a \in Nat : a = clear_idx
  OBVIOUS
<1>3. /\ a \div PerBlock \in 0 .. SegNum - 1
      /\ a % PerBlock \in 0 .. PerBlock - 1
      /\ \A s \in Nat : \A b \in 0 .. PerBlock - 1 :
           s * PerBlock + b = a => s = a \div PerBlock /\ b = a % PerBlock
  BY <1>1, <1>2, FlatSplit
<1>4. Segments \subseteq Nat
  BY DEF Segments
<1> QED
  BY <1>2, <1>3, <1>4, Zenon DEF Segments, Blocks

---------------------------------------------------------------------------
(* The start-up phases *)

LEMMA PhasesInit ==
  ASSUME Init
  PROVE  Phases
  BY DEF Init, Phases

LEMMA PhasesNext ==
  ASSUME TypeOK, Phases, CountInv, ReadyMeansServing, [Next]_startVars
  PROVE  Phases'
<1> USE DEF callVars, initVars
<1>1. CASE BufferWorkerInit
  BY <1>1 DEF BufferWorkerInit, Phases
<1>2. CASE NvmWorkerInit
  BY <1>2 DEF NvmWorkerInit, Phases
<1>3. CASE Map
  BY <1>3 DEF Map, Phases
<1>4. CASE ClearBlock
  BY <1>4 DEF ClearBlock, Phases
<1>5. CASE Raise
  BY <1>5 DEF Raise, Phases
<1>6. CASE Broadcast
  BY <1>6 DEF Broadcast, Phases
<1>7. CASE AwaitWorkers
  BY <1>7 DEF AwaitWorkers, Phases
<1>8. ASSUME NEW s \in Segments, WorkerTest(s) \/ WorkerSleep(s) \/ SpuriousWakeup(s)
      PROVE  Phases'
  BY <1>8 DEF WorkerTest, WorkerSleep, SpuriousWakeup, Phases, TypeOK
<1>9. ASSUME NEW s \in Segments, WorkerRebuild(s) PROVE Phases'
  BY <1>9 DEF WorkerRebuild, Phases, TypeOK
<1>10. ASSUME NEW s \in Segments, NEW k \in KeysOf(s), Write(s, k) PROVE Phases'
  BY <1>10 DEF Write, Phases
<1>11. ASSUME NEW n \in Segments, Fail(n) PROVE Phases'
  BY <1>11 DEF Fail, Phases
<1>12. CASE mix_segments_clear
  BY <1>12 DEF mix_segments_clear, Phases
<1>13. CASE Crash
  BY <1>13 DEF Crash, FreshProcess, Phases
<1>14. CASE UNCHANGED startVars
  BY <1>14 DEF startVars, Phases
<1> QED
  BY <1>1, <1>2, <1>3, <1>4, <1>5, <1>6, <1>7, <1>8, <1>9, <1>10, <1>11, <1>12, <1>13, <1>14
     DEF Next, InitThread, Worker

\* A worker rebuilds only during a start that nobody has written in yet.
LEMMA RebuildsEmpty ==
  ASSUME TypeOK, Phases, ReadyMeansServing, ClearInv, NEW s \in Segments,
         wpc[s] = "rebuild"
  PROVE  /\ ~inited /\ ~failed /\ mapped
         /\ segs[s] = mix_segment_init
         /\ \A b \in Blocks : records[s][b] = None
<1>1. rebuild /\ mapped /\ ~failed /\ ~inited
  BY DEF Phases, ReadyMeansServing
<1>2. ipc \in {"wake", "wait"}
  BY <1>1 DEF Phases, TypeOK, InitPc
<1> QED
  BY <1>1, <1>2 DEF ClearInv

\* And a client writes only when every worker serves.
LEMMA WritesServed ==
  ASSUME Phases, NEW s \in Segments, inited, wpc[s] = "poll"
  PROVE  mapped /\ ~failed
  BY DEF Phases

---------------------------------------------------------------------------
(* Counting the workers *)

\* rebuild_num counts the workers that serve, and the spin on it ends when all
\* of them do.
LEMMA CountNext ==
  ASSUME TypeOK, Phases, CountInv, ReadyMeansServing, [Next]_startVars
  PROVE  CountInv' /\ ReadyMeansServing'
<1> USE DEF callVars, initVars
<1>1. ASSUME Serving' = Serving, rebuild_num' = rebuild_num, inited' = inited, failed' = failed
      PROVE  CountInv' /\ ReadyMeansServing'
  BY <1>1 DEF CountInv, ReadyMeansServing, Serving
<1>2. ASSUME \A s \in Segments : wpc[s] # "poll" /\ wpc'[s] # "poll",
             rebuild_num' = rebuild_num, ~inited' \/ failed'
      PROVE  CountInv' /\ ReadyMeansServing'
  <2>1. Serving = {} /\ Serving' = {}
    BY <1>2 DEF Serving
  <2> QED
    BY <1>2, <2>1 DEF CountInv, ReadyMeansServing
<1>3. CASE BufferWorkerInit \/ Map \/ ClearBlock \/ Raise \/ mix_segments_clear
  BY <1>1, <1>3 DEF BufferWorkerInit, Map, ClearBlock, Raise, mix_segments_clear, Serving
<1>4. CASE NvmWorkerInit
  <2>1. \A s \in Segments : wpc[s] # "poll"
    BY <1>4 DEF NvmWorkerInit, Phases
  <2> QED
    BY <1>2, <1>4, <2>1 DEF NvmWorkerInit, Phases
<1>5. CASE Broadcast
  <2>1. Serving' = Serving
    BY <1>5 DEF Broadcast, Serving
  <2> QED
    BY <1>1, <1>5, <2>1 DEF Broadcast
<1>6. CASE AwaitWorkers
  <2>1. Serving' = Serving /\ rebuild_num' = rebuild_num /\ wpc' = wpc
    BY <1>6 DEF AwaitWorkers, Serving
  <2>2. Serving = Segments
    BY <1>6, ServingBound, SegmentAssumption DEF AwaitWorkers, CountInv
  <2> QED
    BY <2>1, <2>2 DEF CountInv, ReadyMeansServing, Serving
<1>7. ASSUME NEW s \in Segments, WorkerTest(s) \/ WorkerSleep(s) \/ SpuriousWakeup(s)
      PROVE  CountInv' /\ ReadyMeansServing'
  <2>1. Serving' = Serving
    BY <1>7 DEF WorkerTest, WorkerSleep, SpuriousWakeup, Serving, TypeOK
  <2> QED
    BY <1>1, <1>7, <2>1 DEF WorkerTest, WorkerSleep, SpuriousWakeup
<1>8. ASSUME NEW s \in Segments, WorkerRebuild(s)
      PROVE  CountInv' /\ ReadyMeansServing'
  <2>1. Serving' = Serving \union {s} /\ s \notin Serving
    BY <1>8 DEF WorkerRebuild, Serving, TypeOK
  <2>2. CountInv'
    BY <1>8, <2>1, ServingBound, FS_AddElement DEF CountInv, WorkerRebuild
  <2> QED
    BY <1>8, <2>2 DEF WorkerRebuild, ReadyMeansServing, TypeOK
<1>9. ASSUME NEW s \in Segments, NEW k \in KeysOf(s), Write(s, k)
      PROVE  CountInv' /\ ReadyMeansServing'
  BY <1>1, <1>9 DEF Write, Serving
<1>10. ASSUME NEW n \in Segments, Fail(n)
       PROVE  CountInv' /\ ReadyMeansServing'
  <2>1. \A s \in Segments : wpc[s] # "poll"
    BY <1>10 DEF Fail, Phases
  <2> QED
    BY <1>2, <1>10, <2>1 DEF Fail
<1>11. CASE Crash
  <2>1. Serving' = {} /\ rebuild_num' = 0 /\ ~inited'
    BY <1>11 DEF Crash, FreshProcess, Serving
  <2> QED
    BY <2>1, FS_EmptySet DEF CountInv, ReadyMeansServing
<1>12. CASE UNCHANGED startVars
  BY <1>1, <1>12 DEF startVars, Serving
<1> QED
  BY <1>3, <1>4, <1>5, <1>6, <1>7, <1>8, <1>9, <1>10, <1>11, <1>12
     DEF Next, InitThread, Worker

---------------------------------------------------------------------------
(* Types, the clear loops and the index *)

LEMMA KeysOfKeys ==
  ASSUME NEW s, NEW k \in KeysOf(s)
  PROVE  k \in Keys
  BY DEF KeysOf

\* A write of key k to block v leaves an index g that has it there, or makes
\* h of it.
Written(g, h, k, v) ==
  \/ h = g /\ mix_buffer_block_test(g, k) = v
  \/ /\ mix_buffer_block_test(g, k) = None
     /\ Prefix(h)
     /\ h.bitmap = g.bitmap \union {v}
     /\ Pushed(g, h, mix_hash_hash(k), [key |-> k, value |-> v])

\* What a write does to the index of its segment and to the records.
LEMMA WriteEffect ==
  ASSUME TypeOK, PrefixInv, NEW s \in Segments, NEW k \in KeysOf(s), Write(s, k)
  PROVE  \E v \in Blocks : \E h \in Segment :
           /\ records' = [records EXCEPT ![s][v] = k]
           /\ segs' = [segs EXCEPT ![s] = h]
           /\ Written(segs[s], h, k, v)
<1>0. k \in Keys
  BY KeysOfKeys
<1>1. PICK g \in Segment : g = segs[s]
  BY DEF TypeOK
<1>2. Prefix(g)
  BY <1>1 DEF PrefixInv
<1>3. CASE mix_buffer_block_test(g, k) # None
  <2>1. PICK v \in Blocks : v = mix_buffer_block_test(g, k)
    BY <1>0, <1>3, FoundIsMarked
  <2>2. records' = [records EXCEPT ![s][v] = k] /\ segs' = segs
    BY <1>1, <1>3, <2>1 DEF Write
  <2>3. segs' = [segs EXCEPT ![s] = g]
    BY <1>1, <2>2 DEF TypeOK
  <2>4. Written(g, g, k, v)
    BY <2>1 DEF Written
  <2> QED
    BY <1>1, <2>2, <2>3, <2>4
<1>4. CASE mix_buffer_block_test(g, k) = None
  <2>1. PICK h : h = mix_write_redirect_blockmeta(mix_bitmap_next_zero_bit(g), s, k, FoundBit(g))
    OBVIOUS
  <2>2. ~SegmentFull(g)
    BY <1>1, <1>4 DEF Write
  <2>3. /\ FoundBit(g) = g.used_block_num
        /\ FoundBit(g) \in Blocks
        /\ h \in Segment
        /\ Prefix(h)
        /\ h.used_block_num = g.used_block_num + 1
        /\ Pushed(g, h, mix_hash_hash(k), [key |-> k, value |-> FoundBit(g)])
    BY <1>0, <1>2, <2>1, <2>2, AllocateEffect
  <2>4. PICK v \in Blocks : v = FoundBit(g)
    BY <2>3
  <2>5. h.bitmap = g.bitmap \union {v}
    <3>1. v \in Nat /\ g.bitmap = 0 .. v - 1 /\ h.bitmap = 0 .. v
      BY <1>2, <2>3, <2>4, SegmentAssumption DEF Prefix, Blocks
    <3> QED
      BY <3>1
  <2>6. records' = [records EXCEPT ![s][v] = k] /\ segs' = [segs EXCEPT ![s] = h]
    BY <1>1, <1>4, <2>1, <2>4 DEF Write
  <2>7. Written(g, h, k, v)
    BY <1>4, <2>3, <2>4, <2>5 DEF Written
  <2> QED
    BY <1>1, <2>3, <2>6, <2>7
<1> QED
  BY <1>3, <1>4

LEMMA TypeNext ==
  ASSUME StartInv, [Next]_startVars
  PROVE  TypeOK'
<1> USE DEF StartInv, callVars, initVars, InitPc, WorkerPc
<1>1. CASE BufferWorkerInit
  BY <1>1, SegmentInitType DEF BufferWorkerInit, TypeOK
<1>2. CASE NvmWorkerInit
  BY <1>2 DEF NvmWorkerInit, TypeOK
<1>3. CASE Map
  BY <1>3 DEF Map, TypeOK
<1>4. CASE ClearBlock
  <2>1. clear_idx \in Nat /\ clear_idx < SegNum * PerBlock /\ SegNum * PerBlock \in Nat
    BY <1>4, SegmentAssumption DEF ClearBlock, ClearInv, TypeOK
  <2>2. clear_idx + 1 \in 0 .. SegNum * PerBlock
    BY <2>1
  <2>3. clear_idx \div PerBlock \in Segments /\ clear_idx % PerBlock \in Blocks
    BY <2>1, ClearedBlock
  <2>4. PICK c \in Segments, d \in Blocks : c = clear_idx \div PerBlock /\ d = clear_idx % PerBlock
    BY <2>3
  <2>5. records' = [records EXCEPT ![c][d] = None]
    BY <1>4, <2>4 DEF ClearBlock
  <2>6. records' \in [Segments -> [Blocks -> Keys \union {None}]]
    BY <2>5 DEF TypeOK
  <2>7. ipc' \in InitPc
    BY <1>4 DEF ClearBlock, TypeOK
  <2> QED
    BY <1>4, <2>2, <2>6, <2>7 DEF ClearBlock, TypeOK
<1>5. CASE Raise
  BY <1>5 DEF Raise, TypeOK
<1>6. CASE Broadcast
  BY <1>6 DEF Broadcast, TypeOK
<1>7. CASE AwaitWorkers
  BY <1>7 DEF AwaitWorkers, TypeOK
<1>8. ASSUME NEW s \in Segments, WorkerTest(s) \/ WorkerSleep(s) \/ SpuriousWakeup(s)
      PROVE  TypeOK'
  BY <1>8 DEF WorkerTest, WorkerSleep, SpuriousWakeup, TypeOK
<1>9. ASSUME NEW s \in Segments, WorkerRebuild(s) PROVE TypeOK'
  <2>1. Rebuilt(segs[s], records[s]) = segs[s]
    BY <1>9, RebuildsEmpty, RebuiltEmpty DEF WorkerRebuild
  <2>2. segs' \in [Segments -> Segment]
    BY <1>9, <2>1 DEF WorkerRebuild, TypeOK
  <2>3. rebuild_num' \in 0 .. SegNum
    <3>1. CountInv'
      BY CountNext
    <3>2. Cardinality(Serving') \in 0 .. SegNum
      <4>1. IsFiniteSet(Segments) /\ Cardinality(Segments) = SegNum
        BY SegmentAssumption, FS_Interval DEF Segments
      <4>2. Serving' \in SUBSET Segments
        BY DEF Serving
      <4> QED
        BY <4>1, <4>2, FS_Subset, FS_CardinalityType, SegmentAssumption
    <3> QED
      BY <3>1, <3>2 DEF CountInv
  <2> QED
    BY <1>9, <2>2, <2>3 DEF WorkerRebuild, TypeOK
<1>10. ASSUME NEW s \in Segments, NEW k \in KeysOf(s), Write(s, k) PROVE TypeOK'
  <2>1. k \in Keys
    BY KeysOfKeys
  <2>2. PICK v \in Blocks, h \in Segment :
          records' = [records EXCEPT ![s][v] = k] /\ segs' = [segs EXCEPT ![s] = h]
    BY <1>10, WriteEffect
  <2>3. records' \in [Segments -> [Blocks -> Keys \union {None}]]
    BY <2>1, <2>2 DEF TypeOK
  <2>4. segs' \in [Segments -> Segment]
    BY <2>2 DEF TypeOK
  <2> QED
    BY <1>10, <2>3, <2>4 DEF Write, TypeOK
<1>11. ASSUME NEW n \in Segments, Fail(n) PROVE TypeOK'
  BY <1>11 DEF Fail, TypeOK
<1>12. CASE mix_segments_clear
  BY <1>12, SegmentAssumption DEF mix_segments_clear, TypeOK
<1>13. CASE Crash
  <2>1. Valid \subseteq Segments \X Blocks
    BY DEF Valid
  <2>2. crashes + 1 \in 0 .. MaxCrashes
    BY <1>13, CrashAssumption DEF Crash, TypeOK
  <2>3. 0 \in 0 .. SegNum * PerBlock /\ 0 \in 0 .. SegNum
    BY SegmentAssumption
  <2>4. segs' \in [Segments -> Segment] /\ wpc' \in [Segments -> WorkerPc]
    BY <1>13, SegmentInitType DEF Crash, FreshProcess
  <2> QED
    BY <1>13, <2>1, <2>2, <2>3, <2>4 DEF Crash, FreshProcess, TypeOK
<1>14. CASE UNCHANGED startVars
  BY <1>14 DEF startVars, TypeOK
<1> QED
  BY <1>1, <1>2, <1>3, <1>4, <1>5, <1>6, <1>7, <1>8, <1>9, <1>10, <1>11, <1>12, <1>13, <1>14
     DEF Next, InitThread, Worker

\* Without a mapping nobody touches a record.
LEMMA KeepNext ==
  ASSUME StartInv, [Next]_startVars
  PROVE  KeepInv'
<1> USE DEF StartInv, callVars, initVars
<1>1. CASE UNCHANGED <<records, saved, mapped>>
  BY <1>1 DEF KeepInv, Valid
<1>2. CASE mapped'
  BY <1>2 DEF KeepInv
<1>3. CASE Map
  BY <1>2, <1>3 DEF Map
<1>4. CASE ClearBlock
  BY <1>2, <1>4 DEF ClearBlock, Phases
<1>5. ASSUME NEW s \in Segments, NEW k \in KeysOf(s), Write(s, k) PROVE KeepInv'
  <2>1. mapped
    BY <1>5, WritesServed DEF Write
  <2> QED
    BY <1>2, <1>5, <2>1 DEF Write
<1>6. CASE Crash
  <2>1. Valid' = Valid
    BY <1>6 DEF Crash, Valid
  <2> QED
    BY <1>6, <2>1 DEF Crash, KeepInv
<1> QED
  BY <1>1, <1>3, <1>4, <1>5, <1>6 DEF Next, InitThread, Worker, BufferWorkerInit, NvmWorkerInit,
     Raise, Broadcast, AwaitWorkers, WorkerTest, WorkerSleep, SpuriousWakeup, WorkerRebuild,
     Fail, mix_segments_clear, startVars

\* The clear loops reach every block before the first worker rebuilds.
LEMMA ClearNext ==
  ASSUME StartInv, [Next]_startVars
  PROVE  ClearInv'
<1> USE DEF StartInv, callVars, initVars
<1>0. SegNum * PerBlock \in Nat \ {0} /\ PerBlock \in Nat \ {0} /\ SegNum \in Nat \ {0}
  BY SegmentAssumption
<1>1. CASE BufferWorkerInit \/ NvmWorkerInit
  BY <1>1 DEF BufferWorkerInit, NvmWorkerInit, ClearInv
<1>2. CASE Map
  <2>1. clear_idx' = 0 /\ ipc' = "clear" /\ segs' = segs /\ inited' = inited
    BY <1>2 DEF Map, Phases
  <2>2. \A s \in Segments : \A b \in Blocks : ~ (s * PerBlock + b < 0)
    <3> SUFFICES ASSUME NEW s \in Segments, NEW b \in Blocks PROVE ~ (s * PerBlock + b < 0)
      OBVIOUS
    <3>1. s * PerBlock + b \in Nat
      BY <1>0, FlatBound DEF Segments, Blocks
    <3> QED
      BY <3>1
  <2> QED
    BY <1>0, <2>1, <2>2 DEF ClearInv
<1>3. CASE ClearBlock
  <2>1. clear_idx \in Nat /\ clear_idx < SegNum * PerBlock
    BY <1>3 DEF ClearBlock, ClearInv, TypeOK
  <2>2. PICK c \in Segments, d \in Blocks :
          /\ c = clear_idx \div PerBlock /\ d = clear_idx % PerBlock
          /\ \A s \in Segments : \A b \in Blocks :
               s * PerBlock + b = clear_idx => s = c /\ b = d
    BY <2>1, ClearedBlock
  <2>3. records' = [records EXCEPT ![c][d] = None] /\ clear_idx' = clear_idx + 1
    BY <1>3, <2>2 DEF ClearBlock
  <2>4. ASSUME ~inited, NEW s \in Segments, NEW b \in Blocks, s * PerBlock + b < clear_idx + 1
        PROVE  records'[s][b] = None
    <3>1. s * PerBlock + b \in Nat
      BY <1>0, FlatBound DEF Segments, Blocks
    <3>2. CASE s * PerBlock + b = clear_idx
      <4>1. s = c /\ b = d
        BY <2>2, <3>2
      <4> QED
        BY <2>3, <4>1 DEF TypeOK
    <3>3. CASE s * PerBlock + b < clear_idx
      <4>1. records[s][b] = None
        BY <1>3, <2>4, <3>3 DEF ClearInv, ClearBlock
      <4> QED
        BY <2>3, <4>1 DEF TypeOK
    <3> QED
      BY <2>1, <2>4, <3>1, <3>2, <3>3
  <2>5. ASSUME ~inited, clear_idx + 1 = SegNum * PerBlock, NEW s \in Segments, NEW b \in Blocks
        PROVE  records'[s][b] = None
    <3>1. s * PerBlock + b < SegNum * PerBlock
      BY <1>0, FlatBound DEF Segments, Blocks
    <3> QED
      BY <2>4, <2>5, <3>1
  <2>6. /\ ipc' \in {"clear", "raise"} /\ segs' = segs /\ inited' = inited
        /\ ipc' = "raise" => clear_idx + 1 = SegNum * PerBlock
        /\ ipc' = "clear" => clear_idx' < SegNum * PerBlock
    BY <1>0, <1>3, <2>1 DEF ClearBlock
  <2>7. ~inited => segs = [s \in Segments |-> mix_segment_init]
    BY DEF ClearInv
  <2> QED
    BY <2>3, <2>4, <2>5, <2>6, <2>7 DEF ClearInv
<1>4. CASE Raise \/ Broadcast
  BY <1>4 DEF Raise, Broadcast, ClearInv
<1>5. ASSUME inited', ipc' = "clear" => clear_idx' < SegNum * PerBlock
      PROVE  ClearInv'
  BY <1>5 DEF ClearInv
<1>6. CASE AwaitWorkers
  BY <1>5, <1>6 DEF AwaitWorkers
<1>7. CASE mix_segments_clear
  <2>1. inited' /\ clear_idx' < SegNum * PerBlock
    BY <1>0, <1>7 DEF mix_segments_clear, Phases
  <2> QED
    BY <1>5, <2>1
<1>8. ASSUME NEW n \in Segments, Fail(n) PROVE ClearInv'
  BY <1>5, <1>8 DEF Fail
<1>9. ASSUME NEW s \in Segments, NEW k \in KeysOf(s), Write(s, k) PROVE ClearInv'
  BY <1>5, <1>9 DEF Write, ClearInv
<1>10. ASSUME NEW s \in Segments, WorkerRebuild(s) PROVE ClearInv'
  <2>1. Rebuilt(segs[s], records[s]) = segs[s]
    BY <1>10, RebuildsEmpty, RebuiltEmpty DEF WorkerRebuild
  <2>2. segs' = segs
    BY <1>10, <2>1 DEF WorkerRebuild, TypeOK
  <2> QED
    BY <1>10, <2>2 DEF WorkerRebuild, ClearInv
<1>11. CASE Crash
  BY <1>11 DEF Crash, FreshProcess, ClearInv
<1>12. CASE UNCHANGED <<records, ipc, clear_idx, segs, inited>>
  BY <1>12 DEF ClearInv
<1> QED
  BY <1>1, <1>2, <1>3, <1>4, <1>6, <1>7, <1>8, <1>9, <1>10, <1>11, <1>12
     DEF Next, InitThread, Worker, WorkerTest, WorkerSleep, SpuriousWakeup, startVars

\* What ServedIsDescribed says of an index g and the records of its segment.
Described(g, recs, w) ==
  /\ \A b \in Blocks : recs[b] # None => mix_buffer_block_test(g, recs[b]) = b /\ b \in g.bitmap
  /\ w \/ \A b \in g.bitmap : recs[b] # None
  /\ g.used_block_num = Cardinality(g.bitmap)

LEMMA DescribedBy ==
  ASSUME ServedIsDescribed, NEW s \in Segments, wpc[s] = "poll"
  PROVE  Described(segs[s], records[s], wiped)
  BY DEF ServedIsDescribed, Described

\* A write that finds its key keeps a description.
LEMMA DescribedHit ==
  ASSUME NEW g \in Segment, NEW recs \in [Blocks -> Keys \union {None}], NEW w \in BOOLEAN,
         Described(g, recs, w), NEW k \in Keys, NEW v \in Blocks,
         mix_buffer_block_test(g, k) = v
  PROVE  Described(g, [recs EXCEPT ![v] = k], w)
<1>1. v # None /\ k # None /\ v \in g.bitmap
  BY FoundIsMarked, SegmentAssumption DEF Blocks, None
<1> QED
  BY <1>1 DEF Described

\* And so does one that allocates a block.
LEMMA DescribedPut ==
  ASSUME NEW g \in Segment, NEW h \in Segment, NEW recs \in [Blocks -> Keys \union {None}],
         NEW w \in BOOLEAN, Described(g, recs, w), NEW k \in Keys, NEW v \in Blocks,
         mix_buffer_block_test(g, k) = None, Prefix(h),
         h.bitmap = g.bitmap \union {v},
         Pushed(g, h, mix_hash_hash(k), [key |-> k, value |-> v])
  PROVE  Described(h, [recs EXCEPT ![v] = k], w)
<1> DEFINE r == [recs EXCEPT ![v] = k]
<1>1. k # None /\ \A b \in Blocks : b # None
  BY SegmentAssumption DEF Blocks, None
<1>2. ASSUME NEW b \in Blocks, r[b] # None
      PROVE  mix_buffer_block_test(h, r[b]) = b /\ b \in h.bitmap
  <2>1. CASE b = v
    <3>1. mix_buffer_block_test(h, k) = v
      BY FoundAfterPut
    <3> QED
      BY <2>1, <3>1
  <2>2. CASE b # v
    <3>1. PICK j \in Keys : j = recs[b] /\ r[b] = j
      BY <1>2, <2>2
    <3>2. mix_buffer_block_test(g, j) = b /\ b \in g.bitmap
      BY <1>1, <3>1, SegmentAssumption DEF Described, None
    <3>3. j # k /\ mix_buffer_block_test(g, j) # None
      BY <1>1, <3>2
    <3>4. mix_buffer_block_test(h, j) = mix_buffer_block_test(g, j)
      BY <3>3, OthersAfterPut
    <3> QED
      BY <3>1, <3>2, <3>4
  <2> QED
    BY <2>1, <2>2
<1>3. w \/ \A b \in h.bitmap : r[b] # None
  BY <1>1 DEF Described, Segment
<1>4. h.used_block_num = Cardinality(h.bitmap)
  BY PrefixCount
<1> QED
  BY <1>2, <1>3, <1>4 DEF Described

\* The index of a serving worker describes its records, step by step.
LEMMA IndexNext ==
  ASSUME StartInv, [Next]_startVars, TypeOK'
  PROVE  PrefixInv' /\ ServedIsDescribed'
<1> USE DEF StartInv, callVars, initVars
<1>0. /\ \A s \in Segments : segs'[s] \in Segment /\ segs'[s].bitmap \subseteq Blocks
      /\ \A s \in Segments : segs[s] \in Segment
                             /\ records[s] \in [Blocks -> Keys \union {None}]
  BY DEF TypeOK, Segment
<1>1. SUFFICES /\ PrefixInv'
               /\ \A s \in Segments : wpc'[s] = "poll" =>
                    Described(segs'[s], records'[s], wiped')
  BY <1>0 DEF ServedIsDescribed, Described
<1> DEFINE Goal == \A s \in Segments : wpc'[s] = "poll" =>
                     Described(segs'[s], records'[s], wiped')
<1>2. \A s \in Segments : wpc[s] = "poll" => Described(segs[s], records[s], wiped)
  BY DescribedBy
<1>3. ASSUME UNCHANGED <<records, segs>>, wiped' \in BOOLEAN, wiped => wiped',
             \A s \in Segments : wpc'[s] = "poll" => wpc[s] = "poll"
      PROVE  PrefixInv' /\ Goal
  BY <1>2, <1>3 DEF PrefixInv, Described
<1>4. ASSUME \A s \in Segments : wpc'[s] # "poll",
             segs' = [s \in Segments |-> mix_segment_init]
      PROVE  PrefixInv' /\ Goal
  BY <1>4, InitPrefix DEF PrefixInv
<1>5. CASE BufferWorkerInit
  BY <1>4, <1>5 DEF BufferWorkerInit, Phases
<1>6. CASE NvmWorkerInit
  BY <1>3, <1>6 DEF NvmWorkerInit, TypeOK
<1>7. CASE ClearBlock
  <2>1. clear_idx \in Nat /\ clear_idx < SegNum * PerBlock
    BY <1>7 DEF ClearBlock, ClearInv, TypeOK
  <2>2. PICK c \in Segments, d \in Blocks : c = clear_idx \div PerBlock /\ d = clear_idx % PerBlock
    BY <2>1, ClearedBlock
  <2>3. /\ records' = [records EXCEPT ![c][d] = None]
        /\ segs' = segs /\ wpc' = wpc /\ wiped' = wiped
    BY <1>7, <2>2 DEF ClearBlock
  <2>4. \A s \in Segments : wpc[s] = "poll" => wiped
    BY <1>7 DEF ClearBlock, Phases
  <2>5. \A s \in Segments : \A b \in Blocks :
          records'[s][b] # None => records'[s][b] = records[s][b]
    BY <2>3 DEF TypeOK
  <2>6. Goal
    BY <1>2, <2>3, <2>4, <2>5 DEF Described
  <2> QED
    BY <2>3, <2>6 DEF PrefixInv
<1>8. CASE Map \/ Raise \/ AwaitWorkers \/ mix_segments_clear
  BY <1>3, <1>8 DEF Map, Raise, AwaitWorkers, mix_segments_clear, TypeOK
<1>9. CASE Broadcast
  BY <1>3, <1>9 DEF Broadcast, TypeOK
<1>10. ASSUME NEW s \in Segments, WorkerTest(s) \/ WorkerSleep(s) \/ SpuriousWakeup(s)
       PROVE  PrefixInv' /\ Goal
  <2>1. \A r \in Segments : wpc'[r] = "poll" => wpc[r] = "poll"
    BY <1>10 DEF WorkerTest, WorkerSleep, SpuriousWakeup, TypeOK
  <2> QED
    BY <1>3, <1>10, <2>1 DEF WorkerTest, WorkerSleep, SpuriousWakeup, TypeOK
<1>11. ASSUME NEW s \in Segments, WorkerRebuild(s)
       PROVE  PrefixInv' /\ Goal
  <2>1. segs[s] = mix_segment_init /\ \A b \in Blocks : records[s][b] = None
    BY <1>11, RebuildsEmpty DEF WorkerRebuild
  <2>2. Rebuilt(segs[s], records[s]) = segs[s]
    BY <2>1, RebuiltEmpty
  <2>3. segs' = segs /\ records' = records /\ wiped' = wiped
    BY <1>11, <2>2 DEF WorkerRebuild, TypeOK
  <2>4. mix_segment_init.used_block_num = Cardinality(mix_segment_init.bitmap)
    BY InitPrefix, PrefixCount
  <2>5. Described(segs[s], records[s], wiped)
    BY <2>1, <2>4, InitPrefix DEF Described
  <2>6. \A r \in Segments : wpc'[r] = "poll" => r = s \/ wpc[r] = "poll"
    BY <1>11 DEF WorkerRebuild, TypeOK
  <2> QED
    BY <1>2, <2>3, <2>5, <2>6 DEF PrefixInv
<1>12. ASSUME NEW s \in Segments, NEW k \in KeysOf(s), Write(s, k)
       PROVE  PrefixInv' /\ Goal
  <2>1. k \in Keys
    BY KeysOfKeys
  <2>2. PICK v \in Blocks, h \in Segment :
          /\ records' = [records EXCEPT ![s][v] = k]
          /\ segs' = [segs EXCEPT ![s] = h]
          /\ Written(segs[s], h, k, v)
    BY <1>12, WriteEffect
  <2>3. wpc' = wpc /\ wiped' = wiped /\ wiped \in BOOLEAN /\ wpc[s] = "poll"
    BY <1>12 DEF Write, TypeOK
  <2>4. /\ segs'[s] = h /\ records'[s] = [records[s] EXCEPT ![v] = k]
        /\ \A r \in Segments : r # s => segs'[r] = segs[r] /\ records'[r] = records[r]
    BY <2>2 DEF TypeOK
  <2>5. Described(segs[s], records[s], wiped)
    BY <1>2, <2>3
  <2>6. Prefix(h) /\ Described(h, [records[s] EXCEPT ![v] = k], wiped)
    <3>1. PICK g \in Segment, recs \in [Blocks -> Keys \union {None}], w \in BOOLEAN :
            g = segs[s] /\ recs = records[s] /\ w = wiped
      BY <1>0, <2>3
    <3>2. CASE h = g /\ mix_buffer_block_test(g, k) = v
      <4>1. Described(g, [recs EXCEPT ![v] = k], w)
        BY <2>1, <2>5, <3>1, <3>2, DescribedHit
      <4> QED
        BY <3>1, <3>2, <4>1 DEF PrefixInv
    <3>3. CASE /\ mix_buffer_block_test(g, k) = None
               /\ Prefix(h)
               /\ h.bitmap = g.bitmap \union {v}
               /\ Pushed(g, h, mix_hash_hash(k), [key |-> k, value |-> v])
      <4>1. Described(h, [recs EXCEPT ![v] = k], w)
        BY <2>1, <2>5, <3>1, <3>3, DescribedPut
      <4> QED
        BY <3>1, <3>3, <4>1
    <3> QED
      BY <2>2, <3>1, <3>2, <3>3 DEF Written
  <2>7. PrefixInv'
    BY <2>4, <2>6 DEF PrefixInv
  <2>8. Goal
    BY <1>2, <2>3, <2>4, <2>6
  <2> QED
    BY <2>7, <2>8
<1>13. ASSUME NEW n \in Segments, Fail(n)
       PROVE  PrefixInv' /\ Goal
  BY <1>3, <1>13 DEF Fail, TypeOK
<1>14. CASE Crash
  BY <1>4, <1>14 DEF Crash, FreshProcess
<1>15. CASE UNCHANGED startVars
  BY <1>3, <1>15 DEF startVars, TypeOK
<1> QED
  BY <1>5, <1>6, <1>7, <1>8, <1>9, <1>10, <1>11, <1>12, <1>13, <1>14, <1>15
     DEF Next, InitThread, Worker

---------------------------------------------------------------------------
(* The theorems *)

LEMMA StartInit ==
  ASSUME Init
  PROVE  StartInv
<1>1. TypeOK
  <2>1. 0 \in 0 .. SegNum * PerBlock /\ 0 \in 0 .. SegNum /\ 0 \in 0 .. MaxCrashes
    BY SegmentAssumption, CrashAssumption
  <2>2. segs \in [Segments -> Segment]
    BY SegmentInitType DEF Init
  <2> QED
    BY <2>1, <2>2 DEF Init, TypeOK, InitPc, WorkerPc
<1>2. Phases
  BY PhasesInit
<1>3. CountInv /\ ReadyMeansServing
  <2>1. Serving = {}
    BY DEF Init, Serving
  <2> QED
    BY <2>1, FS_EmptySet DEF Init, CountInv, ReadyMeansServing
<1>4. KeepInv
  <2>1. Valid = {}
    BY DEF Init, Valid
  <2> QED
    BY <2>1 DEF Init, KeepInv
<1>5. ClearInv /\ ServedIsDescribed
  BY DEF Init, ClearInv, ServedIsDescribed
<1>6. PrefixInv
  BY InitPrefix DEF Init, PrefixInv
<1> QED
  BY <1>1, <1>2, <1>3, <1>4, <1>5, <1>6 DEF StartInv

LEMMA StartNext ==
  ASSUME StartInv, [Next]_startVars
  PROVE  StartInv'
<1>1. TypeOK'
  BY TypeNext
<1>2. Phases' /\ CountInv' /\ ReadyMeansServing'
  BY PhasesNext, CountNext DEF StartInv
<1>3. KeepInv' /\ ClearInv'
  BY KeepNext, ClearNext
<1>4. PrefixInv' /\ ServedIsDescribed'
  BY <1>1, IndexNext
<1> QED
  BY <1>1, <1>2, <1>3, <1>4 DEF StartInv

LEMMA AlwaysStartInv ==
  Spec => []StartInv
<1>1. Init => StartInv
  BY StartInit
<1>2. StartInv /\ [Next]_startVars => StartInv'
  BY StartNext
<1> QED
  BY <1>1, <1>2, PTL DEF Spec

\* The state of start-up keeps its types: rebuild_num never exceeds the number
\* of segments, the clear loops stay inside the records.
THEOREM TypeCorrect ==
  Spec => []TypeOK
<1>1. StartInv => TypeOK
  BY DEF StartInv
<1> QED
  BY <1>1, AlwaysStartInv, PTL

\* Workers, which are created before mix_mmap, touch the buffer only after it.
THEOREM AccessAfterMap ==
  Spec => []AccessIsMapped
<1>1. StartInv => AccessIsMapped
  BY DEF StartInv, Phases, AccessIsMapped
<1> QED
  BY <1>1, AlwaysStartInv, PTL

\* mixdk_init returns from a start that did not fail when every worker serves.
THEOREM ReadyIsServing ==
  Spec => []ReadyMeansServing
<1>1. StartInv => ReadyMeansServing
  BY DEF StartInv
<1> QED
  BY <1>1, AlwaysStartInv, PTL

\* A start that fails half-way leaves every record as the last process left it.
THEOREM FailedStartIsHarmless ==
  Spec => []FailedStartKeepsRecords
<1>1. StartInv => FailedStartKeepsRecords
  BY DEF StartInv, Phases, KeepInv, FailedStartKeepsRecords
<1> QED
  BY <1>1, AlwaysStartInv, PTL

\* A worker that serves has every valid record of its segment in its index, at
\* its block, and counts the blocks in use.
THEOREM IndexDescribesRecords ==
  Spec => []ServedIsDescribed
<1>1. StartInv => ServedIsDescribed
  BY DEF StartInv
<1> QED
  BY <1>1, AlwaysStartInv, PTL
===========================================================================
