---------------------------- MODULE MixSegment ----------------------------
(***************************************************************************)
(* One segment of the NVM write buffer: its hash index (mix_hash.c), its   *)
(* bitmap of free blocks (mix_bitmap.c) and the free_segment_t counters    *)
(* (mix_meta.c).  A segment is a value; every operation of the C code that *)
(* updates one is an operator that returns the updated segment.            *)
(***************************************************************************)
EXTENDS Integers, Sequences

CONSTANTS
  SegNum,       \* SEGMENT_NUM: segments, one nvm_worker thread each
  PerBlock,     \* per_block_num: buffer blocks of a segment
  BitsPerByte,  \* BITS_PER_BYTE
  HashSize,     \* hash_size: buckets of a segment's hash
  KeySpace,     \* 2^32 in the code: a key is a uint32_t block number
  Keys,         \* the block numbers the clients write
  HashOf        \* what mix_hash_hash returns for each key

\* mix_bitmap_init keeps PerBlock \div BitsPerByte bytes: 512 blocks, 8 bits.
ASSUME SegmentAssumption ==
  /\ SegNum \in Nat \ {0}
  /\ PerBlock \in Nat \ {0}
  /\ BitsPerByte \in Nat \ {0}
  /\ (PerBlock \div BitsPerByte) * BitsPerByte = PerBlock
  /\ HashSize \in Nat \ {0}
  /\ KeySpace \in Nat \ {0}
  /\ Keys \subseteq 0 .. KeySpace - 1
  /\ HashOf \in [Keys -> 0 .. HashSize - 1]

Segments == 0 .. SegNum - 1
Buckets == 0 .. HashSize - 1
Blocks == 0 .. PerBlock - 1

\* The int -1 that stands for "no block".
None == -1

\* (uint32_t)-1, which migrate() takes for "the bucket is empty".
NoKey == KeySpace - 1

\* Keys a client can post to worker s: mix_post_small_task_to_buffer masks
\* the block number with BUFFER_QUEUE_NUM - 1.
KeysOf(s) == {k \in Keys : k % SegNum = s}

Entry == [key : Keys, value : Blocks]

Segment == [hash_nodes : [Buckets -> Seq(Entry)],
            free_node_num : Int,
            bitmap : SUBSET Blocks,
            next_bit : Blocks,
            used_block_num : Int]

---------------------------------------------------------------------------
(* mix_hash.c *)

\* mix_hash_init and mix_bitmap_init as mix_metadata_init calls them: an empty
\* table with one list node per block in the pool, an all-zero bitmap.
mix_segment_init ==
  [hash_nodes |-> [b \in Buckets |-> <<>>],
   free_node_num |-> PerBlock,
   bitmap |-> {},
   next_bit |-> 0,
   used_block_num |-> 0]

\* The bucket of a key: CRC-32 of its decimal digits, mixed, modulo hash_size.
\* Nothing depends on which function it is.
mix_hash_hash(k) == HashOf[k]

\* The positions of a key in its bucket, and the entry mix_hash_get stops at.
Hits(g, k) ==
  LET list == g.hash_nodes[mix_hash_hash(k)]
  IN {i \in DOMAIN list : list[i].key = k}

mix_hash_get(g, k) ==
  IF Hits(g, k) = {}
  THEN None
  ELSE g.hash_nodes[mix_hash_hash(k)]
         [CHOOSE i \in Hits(g, k) : \A j \in Hits(g, k) : i <= j].value

\* A new node is taken from the pool and becomes the head of its bucket.
\* mix_hash_node_get aborts on an empty pool: free_node_num < 0 is that abort.
mix_hash_put(g, k, v) ==
  [g EXCEPT !.hash_nodes[mix_hash_hash(k)] = <<[key |-> k, value |-> v]>> \o @,
            !.free_node_num = @ - 1]

\* mix_hash_get_entry_by_idx on a bucket that is not empty: the head leaves
\* the bucket and its node goes back to the pool.
mix_hash_pop(g, b) ==
  [g EXCEPT !.hash_nodes[b] = Tail(@), !.free_node_num = @ + 1]

---------------------------------------------------------------------------
(* mix_bitmap.c *)

\* bitmap->bytes * BITS_PER_BYTE
BitNum == (PerBlock \div BitsPerByte) * BitsPerByte

\* The bit at next_bit when it is clear, else the first clear one after it,
\* cyclically.  The search loop ends only if some bit is clear.
FoundBit(g) ==
  IF g.next_bit \notin g.bitmap
  THEN g.next_bit
  ELSE (g.next_bit + CHOOSE d \in 1 .. BitNum - 1 :
          /\ (g.next_bit + d) % BitNum \notin g.bitmap
          /\ \A e \in 1 .. d - 1 : (g.next_bit + e) % BitNum \in g.bitmap)
       % BitNum

\* Mutant: next_bit runs past the last bit.
NextBitNoWrap(g) ==
  [g EXCEPT !.bitmap = @ \union {FoundBit(g)}, !.next_bit = FoundBit(g) + 1]

\* The bit is set; next_bit moves on by "%" after a direct hit, but by "/"
\* after a search.
mix_bitmap_next_zero_bit(g) ==
  [g EXCEPT !.bitmap = @ \union {FoundBit(g)},
            !.next_bit = IF g.next_bit \notin g.bitmap
                         THEN (FoundBit(g) + 1) % BitNum
                         ELSE (FoundBit(g) + 1) \div BitNum]

\* Mutant: only the cursor is reset.
CursorResetOnly(g) == [g EXCEPT !.next_bit = 0]

\* mix_bitmap_clear: memset of all bytes, next_bit = 0.
mix_bitmap_clear(g) == [g EXCEPT !.bitmap = {}, !.next_bit = 0]

---------------------------------------------------------------------------
(* mix_meta.c *)

\* mix_get_next_free_block returns -1 exactly here.
SegmentFull(g) == g.used_block_num = PerBlock

\* Whether the search for a clear bit comes to an end.
HasZeroBit(g) == \E b \in 0 .. BitNum - 1 : b \notin g.bitmap

\* C division, which truncates towards zero.
CDiv(a, b) == IF a >= 0 THEN a \div b ELSE -((-a) \div b)

\* Mutant: the early return is taken for a bit that was set.
EarlyReturnIfSet(g, s, k, v) ==
  LET bit == CDiv(v - s, SegNum)
      marked == [g EXCEPT !.bitmap = @ \union {bit}]
  IN IF bit \in g.bitmap
     THEN marked
     ELSE [mix_hash_put(marked, k, v) EXCEPT !.used_block_num = @ + 1]

\* mix_write_redirect_blockmeta marks bit (value - idx) / SEGMENT_NUM.  If that
\* bit was clear it returns at once, with neither an entry nor a count.
mix_write_redirect_blockmeta(g, s, k, v) ==
  LET bit == CDiv(v - s, SegNum)
      marked == [g EXCEPT !.bitmap = @ \union {bit}]
  IN IF bit \notin g.bitmap
     THEN marked
     ELSE [mix_hash_put(marked, k, v) EXCEPT !.used_block_num = @ + 1]

\* Mutant: the bit after the block's own is tested.
TestNextBit(g, k) ==
  LET v == mix_hash_get(g, k)
  IN IF v # None /\ v + 1 \in g.bitmap THEN v ELSE None

\* The index lookup of a write or a read: -1 also when the bit is clear.
mix_buffer_block_test(g, k) ==
  LET v == mix_hash_get(g, k)
  IN IF v # None /\ v % PerBlock \in g.bitmap THEN v ELSE None
===========================================================================
