------------------------- MODULE MixSegmentProofs -------------------------
(***************************************************************************)
(* What the operations on a segment return, for every number of segments,  *)
(* blocks and buckets and for every hash function.                         *)
(***************************************************************************)
EXTENDS MixSegment, NatLemmas, SequenceTheorems

\* The bitmap has one bit per block.
LEMMA BitNumIsPerBlock == BitNum = PerBlock
  BY SegmentAssumption DEF BitNum

\* The search of mix_bitmap_next_zero_bit: if the bitmap has a clear bit, the
\* bit it returns is a block of the segment and was clear, wherever next_bit
\* points.
LEMMA FoundBitIsClear ==
  ASSUME NEW g \in Segment, HasZeroBit(g)
  PROVE  FoundBit(g) \in Blocks /\ FoundBit(g) \notin g.bitmap
<1> DEFINE n == g.next_bit
           Clear(d) == (n + d) % PerBlock \notin g.bitmap
           D == {d \in 1 .. PerBlock - 1 : Clear(d)}
<1>1. n \in Blocks /\ PerBlock \in Nat \ {0}
  BY SegmentAssumption DEF Segment
<1>2. CASE n \notin g.bitmap
  BY <1>1, <1>2 DEF FoundBit
<1>3. CASE n \in g.bitmap
  <2>1. PICK b \in Blocks : b \notin g.bitmap
    BY BitNumIsPerBlock DEF HasZeroBit, Blocks
  <2>2. \E d \in 1 .. PerBlock - 1 : (n + d) % PerBlock = b
    <3>1. CASE b > n
      <4>1. b - n \in 1 .. PerBlock - 1 /\ (n + (b - n)) = b
        BY <1>1, <3>1 DEF Blocks
      <4>2. b % PerBlock = b
        BY <1>1, ModWrap DEF Blocks
      <4> QED
        BY <4>1, <4>2
    <3>2. CASE b < n
      <4> DEFINE d == b + PerBlock - n
      <4>1. d \in 1 .. PerBlock - 1 /\ n + d = b + PerBlock
        BY <1>1, <3>2 DEF Blocks
      <4>2. (b + PerBlock) % PerBlock = b
        BY <1>1, ModWrap DEF Blocks
      <4> QED
        BY <4>1, <4>2
    <3>3. b < n \/ b > n
      BY <1>1, <1>3, <2>1 DEF Blocks
    <3> QED
      BY <3>1, <3>2, <3>3
  <2>3. D # {} /\ D \in SUBSET Nat
    BY <1>1, <2>1, <2>2
  <2>4. PICK m \in D : \A y \in D : m <= y
    BY <2>3, LeastNat
  <2>5. \A e \in 1 .. m - 1 : (n + e) % PerBlock \in g.bitmap
    <3> SUFFICES ASSUME NEW e \in 1 .. m - 1, Clear(e) PROVE FALSE
      OBVIOUS
    <3>1. e \in D /\ e < m
      BY <1>1, <2>4
    <3> QED
      BY <2>4, <3>1
  <2> DEFINE Found(d) == /\ Clear(d)
                         /\ \A e \in 1 .. d - 1 : (n + e) % PerBlock \in g.bitmap
             c == CHOOSE d \in 1 .. PerBlock - 1 : Found(d)
  <2>6. c \in 1 .. PerBlock - 1 /\ Clear(c)
    <3>1. \E d \in 1 .. PerBlock - 1 : Found(d)
      BY <2>4, <2>5
    <3> HIDE DEF Found
    <3>2. c \in 1 .. PerBlock - 1 /\ Found(c)
      BY <3>1, Zenon
    <3> QED
      BY <3>2 DEF Found
  <2>7. FoundBit(g) = (n + c) % PerBlock
    BY <1>3, BitNumIsPerBlock, Zenon DEF FoundBit
  <2>8. (n + c) % PerBlock \in Blocks
    <3> HIDE DEF c
    <3>1. n + c \in Nat
      BY <1>1, <2>6 DEF Blocks
    <3> QED
      BY <1>1, <3>1 DEF Blocks
  <2> QED
    BY <2>6, <2>7, <2>8
<1> QED
  BY <1>2, <1>3

\* The bit mix_write_redirect_blockmeta recomputes is never above the block it
\* is given: with C's truncating division (value - idx) / SEGMENT_NUM lies
\* between 0 and value for every segment number.
LEMMA BlockmetaBitBound ==
  ASSUME NEW s \in Segments, NEW v \in Blocks
  PROVE  CDiv(v - s, SegNum) \in 0 .. v
<1>1. SegNum \in Nat \ {0} /\ s \in Nat /\ s < SegNum /\ v \in Nat
  BY SegmentAssumption DEF Segments, Blocks
<1>2. CASE v - s >= 0
  <2>1. v - s \in Nat /\ v - s <= v
    BY <1>1, <1>2
  <2>2. (v - s) \div SegNum \in 0 .. v - s
    BY <1>1, <2>1, DivBound
  <2> QED
    BY <1>1, <1>2, <2>1, <2>2 DEF CDiv
<1>3. CASE ~(v - s >= 0)
  <2>1. -(v - s) \in 0 .. SegNum /\ -(v - s) < SegNum
    BY <1>1, <1>3
  <2>2. (-(v - s)) \div SegNum = 0
    BY <1>1, <2>1, DivSmall
  <2> QED
    BY <1>1, <1>3, <2>2 DEF CDiv
<1> QED
  BY <1>2, <1>3

\* The whole of mix_bitmap_next_zero_bit keeps the segment a segment: next_bit
\* stays below the number of blocks on both of its paths, the "/" one too.
LEMMA NextZeroBitType ==
  ASSUME NEW g \in Segment, HasZeroBit(g)
  PROVE  mix_bitmap_next_zero_bit(g) \in Segment
<1>1. FoundBit(g) \in Blocks /\ FoundBit(g) \notin g.bitmap
  BY FoundBitIsClear
<1>2. PerBlock \in Nat \ {0} /\ g.next_bit \in Blocks
  BY SegmentAssumption DEF Segment
<1> DEFINE f == FoundBit(g)
<1>3. (f + 1) % BitNum \in Blocks
  BY <1>1, <1>2, BitNumIsPerBlock DEF Blocks
<1>4. g.next_bit \in g.bitmap => (f + 1) \div BitNum \in Blocks
  <2> SUFFICES ASSUME g.next_bit \in g.bitmap PROVE (f + 1) \div PerBlock \in Blocks
    BY BitNumIsPerBlock
  <2>1. f # g.next_bit
    BY <1>1
  <2>2. PerBlock > 1
    BY <1>1, <1>2, <2>1 DEF Blocks
  <2>3. f + 1 \in 0 .. PerBlock
    BY <1>1, <1>2 DEF Blocks
  <2>4. (f + 1) \div PerBlock \in {0, 1}
    BY <1>2, <2>3, DivSmall
  <2> QED
    BY <1>2, <2>2, <2>4 DEF Blocks
<1> QED
  BY <1>1, <1>3, <1>4 DEF mix_bitmap_next_zero_bit, Segment

\* mix_hash_put and mix_hash_get_entry_by_idx keep the buckets lists of entries.
LEMMA HashPutType ==
  ASSUME NEW g \in Segment, NEW k \in Keys, NEW v \in Blocks
  PROVE  mix_hash_put(g, k, v) \in Segment
<1> USE DEF mix_hash_hash
<1> DEFINE b == HashOf[k]
           e == [key |-> k, value |-> v]
<1>1. b \in Buckets /\ g.hash_nodes \in [Buckets -> Seq(Entry)]
  BY SegmentAssumption DEF Buckets, Segment
<1>2. e \in Entry
  BY DEF Entry
<1>3. <<e>> \o g.hash_nodes[b] \in Seq(Entry)
  BY <1>1, <1>2, ConcatProperties
<1> DEFINE h == [g.hash_nodes EXCEPT ![b] = <<e>> \o @]
<1>4. h \in [Buckets -> Seq(Entry)]
  BY <1>1, <1>3
<1>5. g.free_node_num - 1 \in Int
  BY DEF Segment
<1>6. mix_hash_put(g, k, v) =
        [g EXCEPT !.hash_nodes = h, !.free_node_num = g.free_node_num - 1]
  BY DEF mix_hash_put
<1> HIDE DEF h
<1> QED
  BY <1>4, <1>5, <1>6 DEF Segment

\* Popping the head of a bucket leaves a list of entries.
LEMMA HashPopType ==
  ASSUME NEW g \in Segment, NEW b \in Buckets, g.hash_nodes[b] # <<>>
  PROVE  /\ mix_hash_pop(g, b) \in Segment
         /\ Head(g.hash_nodes[b]) \in Entry
<1>1. g.hash_nodes \in [Buckets -> Seq(Entry)]
  BY DEF Segment
<1>2. /\ Tail(g.hash_nodes[b]) \in Seq(Entry)
      /\ Head(g.hash_nodes[b]) \in Entry
  BY <1>1, HeadTailProperties
<1> DEFINE h == [g.hash_nodes EXCEPT ![b] = Tail(@)]
<1>3. h \in [Buckets -> Seq(Entry)]
  BY <1>1, <1>2
<1>4. g.free_node_num + 1 \in Int
  BY DEF Segment
<1>5. mix_hash_pop(g, b) =
        [g EXCEPT !.hash_nodes = h, !.free_node_num = g.free_node_num + 1]
  BY DEF mix_hash_pop
<1> HIDE DEF h
<1> QED
  BY <1>2, <1>3, <1>4, <1>5 DEF Segment

\* mix_write_redirect_blockmeta on a block of the segment.
LEMMA BlockmetaType ==
  ASSUME NEW g \in Segment, NEW s \in Segments, NEW k \in Keys, NEW v \in Blocks
  PROVE  mix_write_redirect_blockmeta(g, s, k, v) \in Segment
<1> DEFINE bit == CDiv(v - s, SegNum)
           marked == [g EXCEPT !.bitmap = @ \union {bit}]
<1>1. bit \in Blocks
  BY BlockmetaBitBound, SegmentAssumption DEF Blocks
<1>2. marked \in Segment
  BY <1>1 DEF Segment
<1>3. mix_hash_put(marked, k, v) \in Segment
  BY <1>2, HashPutType
<1> DEFINE p == mix_hash_put(marked, k, v)
<1>4. [p EXCEPT !.used_block_num = @ + 1] \in Segment
  <2> HIDE DEF p
  <2>1. p \in Segment /\ p.hash_nodes \in [Buckets -> Seq(Entry)]
    BY <1>3 DEF p, Segment
  <2>2. p.used_block_num + 1 \in Int
    BY <2>1 DEF Segment
  <2> QED
    BY <2>1, <2>2 DEF Segment
<1> QED
  BY <1>2, <1>4 DEF mix_write_redirect_blockmeta

\* mix_buffer_block_test returns a block of the segment or -1.
LEMMA BlockTestType ==
  ASSUME NEW g \in Segment, NEW k \in Keys
  PROVE  mix_buffer_block_test(g, k) \in Blocks \union {None}
<1> USE DEF mix_hash_hash
<1> DEFINE L == g.hash_nodes[HashOf[k]]
           i == CHOOSE i \in Hits(g, k) : \A j \in Hits(g, k) : i <= j
<1>1. L \in Seq(Entry)
  BY SegmentAssumption DEF Buckets, Segment
<1>2. Hits(g, k) \in SUBSET Nat /\ Hits(g, k) \subseteq DOMAIN L
  BY <1>1 DEF Hits
<1>3. CASE Hits(g, k) = {}
  BY <1>3 DEF mix_buffer_block_test, mix_hash_get
<1>4. CASE Hits(g, k) # {}
  <2>1. \E x \in Hits(g, k) : \A j \in Hits(g, k) : x <= j
    BY <1>2, <1>4, LeastNat
  <2>2. i \in DOMAIN L
    BY <1>2, <2>1
  <2>3. L[i] \in Entry
    BY <1>1, <2>2, ElementOfSeq
  <2>4. mix_hash_get(g, k) = L[i].value
    BY <1>4, Zenon DEF mix_hash_get
  <2>5. mix_hash_get(g, k) \in Blocks
    BY <2>3, <2>4 DEF Entry
  <2> QED
    BY <2>5 DEF mix_buffer_block_test
<1> QED
  BY <1>3, <1>4

\* mix_metadata_init builds a segment.
LEMMA SegmentInitType == mix_segment_init \in Segment
<1>1. <<>> \in Seq(Entry)
  BY EmptySeq
<1> QED
  BY <1>1, SegmentAssumption DEF mix_segment_init, Segment, Blocks

\* mix_bitmap_clear keeps a segment a segment.
LEMMA BitmapClearType ==
  ASSUME NEW g \in Segment
  PROVE  mix_bitmap_clear(g) \in Segment
<1>1. 0 \in Blocks
  BY SegmentAssumption DEF Blocks
<1> QED
  BY <1>1 DEF mix_bitmap_clear, Segment

---------------------------------------------------------------------------
(* Allocation and lookup *)

\* Blocks are handed out in order: the blocks in use are the first ones and
\* next_bit is the one after them.
Prefix(g) ==
  /\ g.used_block_num \in 0 .. PerBlock
  /\ g.bitmap = 0 .. g.used_block_num - 1
  /\ g.next_bit = IF g.used_block_num = PerBlock THEN 0 ELSE g.used_block_num

\* Entry e was put at the head of bucket b; the other buckets are the same.
Pushed(g, h, b, e) ==
  /\ h.hash_nodes[b] = <<e>> \o g.hash_nodes[b]
  /\ \A c \in Buckets \ {b} : h.hash_nodes[c] = g.hash_nodes[c]


\* Allocation on a segment whose blocks in use are a prefix: the block handed
\* out is the next one, the bit mix_write_redirect_blockmeta recomputes with
\* the wrong stride is set already, so the entry is put in, and the blocks in
\* use are again a prefix.
LEMMA AllocateEffect ==
  ASSUME NEW g \in Segment, Prefix(g), ~SegmentFull(g), NEW s \in Segments,
         NEW k \in Keys, NEW h,
         h = mix_write_redirect_blockmeta(mix_bitmap_next_zero_bit(g), s, k,
                                          FoundBit(g))
  PROVE  /\ FoundBit(g) = g.used_block_num
         /\ FoundBit(g) \in Blocks /\ FoundBit(g) \notin g.bitmap
         /\ h \in Segment
         /\ Prefix(h)
         /\ h.used_block_num = g.used_block_num + 1
         /\ h.free_node_num = g.free_node_num - 1
         /\ g.bitmap \subseteq h.bitmap /\ FoundBit(g) \in h.bitmap
         /\ Pushed(g, h, mix_hash_hash(k), [key |-> k, value |-> FoundBit(g)])
<1> DEFINE u == g.used_block_num
           v == FoundBit(g)
           z == mix_bitmap_next_zero_bit(g)
           bit == CDiv(v - s, SegNum)
<1>1. PerBlock \in Nat \ {0} /\ u \in 0 .. PerBlock - 1
  BY SegmentAssumption DEF Prefix, SegmentFull
<1>2. g.bitmap = 0 .. u - 1 /\ g.next_bit = u /\ u \notin g.bitmap
  BY <1>1 DEF Prefix
<1>3. v = u /\ v \in Blocks
  BY <1>1, <1>2 DEF FoundBit, Blocks
<1>4. HasZeroBit(g)
  BY <1>1, <1>2, BitNumIsPerBlock DEF HasZeroBit
<1>5. z \in Segment /\ h \in Segment
  BY <1>3, <1>4, NextZeroBitType, BlockmetaType
<1>6. z = [g EXCEPT !.bitmap = g.bitmap \union {u}, !.next_bit = (u + 1) % PerBlock]
  BY <1>2, <1>3, BitNumIsPerBlock DEF mix_bitmap_next_zero_bit
<1>7. /\ z.bitmap = 0 .. u /\ z.next_bit = (u + 1) % PerBlock
      /\ z.used_block_num = u /\ z.free_node_num = g.free_node_num
      /\ z.hash_nodes = g.hash_nodes
  <2>1. (0 .. u - 1) \union {u} = 0 .. u
    BY <1>1
  <2> HIDE DEF z, v, u
  <2> QED
    BY <1>2, <1>6, <2>1 DEF Segment, u
<1>8. bit \in 0 .. v
  BY <1>3, BlockmetaBitBound
<1>9. bit \in z.bitmap /\ z.bitmap \union {bit} = z.bitmap
  BY <1>3, <1>7, <1>8
<1> DEFINE w == [z EXCEPT !.bitmap = @ \union {bit}]
<1>10. w = z
  <2> HIDE DEF z
  <2> QED
    BY <1>5, <1>9 DEF Segment
<1>11. h = [mix_hash_put(z, k, v) EXCEPT !.used_block_num = @ + 1]
  <2> HIDE DEF z, v
  <2>1. h = mix_write_redirect_blockmeta(z, s, k, v)
    BY DEF z, v
  <2> QED
    BY <1>9, <1>10, <2>1 DEF mix_write_redirect_blockmeta
<1> DEFINE b == mix_hash_hash(k)
           e == [key |-> k, value |-> v]
<1>12. b \in Buckets
  BY SegmentAssumption DEF Buckets, mix_hash_hash
<1>13. /\ h.bitmap = z.bitmap /\ h.next_bit = z.next_bit
       /\ h.used_block_num = z.used_block_num + 1
       /\ h.free_node_num = z.free_node_num - 1
       /\ h.hash_nodes = [z.hash_nodes EXCEPT ![b] = <<e>> \o @]
  <2> HIDE DEF z, v, b
  <2> QED
    BY <1>5, <1>11 DEF mix_hash_put, Segment, b
<1>14. Pushed(g, h, b, e)
  <2>1. g.hash_nodes \in [Buckets -> Seq(Entry)]
    BY DEF Segment
  <2> HIDE DEF z, v, b, e
  <2> QED
    BY <1>7, <1>12, <1>13, <2>1 DEF Pushed
<1>15. Prefix(h)
  <2>1. (u + 1) % PerBlock = IF u + 1 = PerBlock THEN 0 ELSE u + 1
    BY <1>1, ModWrap
  <2>2. h.used_block_num = u + 1 /\ h.bitmap = 0 .. u /\ h.next_bit = (u + 1) % PerBlock
    BY <1>7, <1>13
  <2> HIDE DEF u
  <2> QED
    BY <1>1, <2>1, <2>2 DEF Prefix
<1> QED
  BY <1>1, <1>2, <1>3, <1>5, <1>7, <1>13, <1>14, <1>15

\* After an entry was put in at the head, the lookup of its key finds it.
LEMMA FoundAfterPut ==
  ASSUME NEW g \in Segment, NEW h \in Segment, NEW k \in Keys, NEW v \in Blocks,
         Pushed(g, h, mix_hash_hash(k), [key |-> k, value |-> v]), v \in h.bitmap
  PROVE  mix_buffer_block_test(h, k) = v
<1> DEFINE b == mix_hash_hash(k)
           e == [key |-> k, value |-> v]
           L == h.hash_nodes[b]
           i == CHOOSE i \in Hits(h, k) : \A j \in Hits(h, k) : i <= j
<1>1. b \in Buckets /\ e \in Entry
  BY SegmentAssumption DEF Buckets, mix_hash_hash, Entry
<1>2. L = <<e>> \o g.hash_nodes[b] /\ g.hash_nodes[b] \in Seq(Entry)
  BY <1>1 DEF Pushed, Segment
<1>3. L \in Seq(Entry) /\ Len(L) \in Nat /\ DOMAIN L = 1 .. Len(L)
  BY <1>1, LenProperties DEF Segment
<1>4. 1 \in 1 .. Len(L) /\ L[1] = e
  <2> HIDE DEF L, e, b
  <2>1. <<e>> \in Seq(Entry) /\ Len(<<e>>) = 1 /\ <<e>>[1] = e
    BY <1>1
  <2> QED
    BY <1>2, <1>3, <2>1, ConcatProperties
<1>5. Hits(h, k) \subseteq 1 .. Len(L) /\ 1 \in Hits(h, k)
  BY <1>3, <1>4 DEF Hits
<1>6. i = 1
  <2>1. \A j \in Hits(h, k) : j \in Int /\ 1 <= j
    BY <1>3, <1>5
  <2>2. i \in Hits(h, k) /\ i <= 1
    BY <1>5, <2>1
  <2> HIDE DEF i
  <2> QED
    BY <2>1, <2>2
<1>7. mix_hash_get(h, k) = v
  BY <1>4, <1>5, <1>6 DEF mix_hash_get
<1>8. v % PerBlock = v /\ v # None
  BY ModWrap, SegmentAssumption DEF Blocks, None
<1> QED
  BY <1>7, <1>8 DEF mix_buffer_block_test

\* Nor does the entry hide the entries of other keys.
LEMMA OthersAfterPut ==
  ASSUME NEW g \in Segment, NEW h \in Segment, NEW k \in Keys, NEW v \in Blocks,
         Pushed(g, h, mix_hash_hash(k), [key |-> k, value |-> v]),
         g.bitmap \subseteq h.bitmap,
         NEW j \in Keys, j # k, mix_buffer_block_test(g, j) # None
  PROVE  mix_buffer_block_test(h, j) = mix_buffer_block_test(g, j)
<1> DEFINE b == mix_hash_hash(k)
           c == mix_hash_hash(j)
           e == [key |-> k, value |-> v]
           L == g.hash_nodes[c]
           M == h.hash_nodes[c]
           i == CHOOSE i \in Hits(g, j) : \A x \in Hits(g, j) : i <= x
           m == CHOOSE y \in Hits(h, j) : \A x \in Hits(h, j) : y <= x
<1>1. b \in Buckets /\ c \in Buckets /\ e \in Entry
  BY SegmentAssumption DEF Buckets, mix_hash_hash, Entry
<1>2. L \in Seq(Entry) /\ Len(L) \in Nat /\ DOMAIN L = 1 .. Len(L)
  BY <1>1, LenProperties DEF Segment
<1>3. M \in Seq(Entry) /\ Len(M) \in Nat /\ DOMAIN M = 1 .. Len(M)
  BY <1>1, LenProperties DEF Segment
<1>4. Hits(g, j) # {} /\ mix_hash_get(g, j) # None
  BY DEF mix_buffer_block_test, mix_hash_get
<1>5. Hits(g, j) = {x \in 1 .. Len(L) : L[x].key = j}
  BY <1>2 DEF Hits
<1>6. Hits(h, j) = {x \in 1 .. Len(M) : M[x].key = j}
  BY <1>3 DEF Hits
<1>7. mix_hash_get(h, j) = mix_hash_get(g, j)
  <2>1. CASE c # b
    <3>1. M = L
      BY <1>1, <2>1 DEF Pushed
    <3>2. Hits(h, j) = Hits(g, j)
      BY <1>5, <1>6, <3>1
    <3> QED
      BY <3>1, <3>2 DEF mix_hash_get
  <2>2. CASE c = b
    <3>1. M = <<e>> \o L
      BY <2>2 DEF Pushed
    <3>2. Len(M) = Len(L) + 1 /\ M[1] = e /\ \A x \in 1 .. Len(L) : M[x + 1] = L[x]
      <4>1. <<e>> \in Seq(Entry) /\ Len(<<e>>) = 1 /\ <<e>>[1] = e
        BY <1>1
      <4> HIDE DEF L, M, e
      <4> QED
        BY <1>2, <1>3, <3>1, <4>1, ConcatProperties
    <3>3. i \in Hits(g, j) /\ \A x \in Hits(g, j) : i <= x
      <4>1. Hits(g, j) \in SUBSET Nat
        BY <1>2, <1>5
      <4>2. \E y \in Hits(g, j) : \A x \in Hits(g, j) : y <= x
        BY <1>4, <4>1, LeastNat
      <4> QED
        BY <4>2
    <3> HIDE DEF i, L, M
    <3>4. i \in 1 .. Len(L) /\ i + 1 \in Hits(h, j) /\ M[i + 1] = L[i]
      BY <1>2, <1>5, <1>6, <3>2, <3>3
    <3>5. \A x \in Hits(h, j) : i + 1 <= x
      <4> SUFFICES ASSUME NEW x \in Hits(h, j) PROVE i + 1 <= x
        OBVIOUS
      <4>1. x \in 1 .. Len(L) + 1 /\ M[x].key = j
        BY <1>6, <3>2
      <4>2. x # 1
        BY <3>2, <4>1
      <4>3. x - 1 \in 1 .. Len(L) /\ x = (x - 1) + 1
        BY <1>2, <4>1, <4>2
      <4>4. x - 1 \in Hits(g, j)
        BY <1>5, <3>2, <4>1, <4>3
      <4>5. i <= x - 1
        BY <3>3, <4>4
      <4> QED
        BY <1>2, <3>4, <4>1, <4>5
    <3>6. m = i + 1
      <4>1. m \in Hits(h, j) /\ \A x \in Hits(h, j) : m <= x
        BY <3>4, <3>5
      <4>2. m \in Nat /\ i + 1 \in Nat
        BY <1>3, <1>6, <3>4, <4>1
      <4> HIDE DEF m
      <4>3. m <= i + 1 /\ i + 1 <= m
        BY <3>4, <3>5, <4>1
      <4> QED
        BY <4>2, <4>3
    <3>7. mix_hash_get(g, j) = L[i].value
      BY <1>4, Zenon DEF mix_hash_get, i, L
    <3>8. mix_hash_get(h, j) = M[m].value
      <4>1. Hits(h, j) # {}
        BY <3>4
      <4> QED
        BY <4>1, Zenon DEF mix_hash_get, M
    <3> HIDE DEF m
    <3> QED
      BY <3>4, <3>6, <3>7, <3>8
  <2> QED
    BY <2>1, <2>2
<1> QED
  BY <1>7 DEF mix_buffer_block_test

\* A block the lookup returns is marked as in use.
LEMMA FoundIsMarked ==
  ASSUME NEW g \in Segment, NEW k \in Keys, mix_buffer_block_test(g, k) # None
  PROVE  mix_buffer_block_test(g, k) \in Blocks /\ mix_buffer_block_test(g, k) \in g.bitmap
<1> DEFINE v == mix_buffer_block_test(g, k)
<1>1. v \in Blocks
  BY BlockTestType
<1>2. v % PerBlock \in g.bitmap
  BY DEF mix_buffer_block_test
<1>3. v % PerBlock = v
  BY <1>1, ModWrap, SegmentAssumption DEF Blocks
<1> QED
  BY <1>1, <1>2, <1>3
===========================================================================
