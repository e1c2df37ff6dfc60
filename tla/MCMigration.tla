---------------------------- MODULE MCMigration ----------------------------
(* Two segments of two blocks, two migration threads, buckets with collisions. *)
EXTENDS MixMigration

\* Keys 0, 2, 4 belong to segment 0 and 1, 3, 5 to segment 1.
MCKeys == 0 .. 5

\* The same, and the block number (uint32_t)-1, which belongs to segment 1: the
\* scheduler subtracts its threshold from a request that ends exactly at it.
MCKeysWithLast == MCKeys \union {KeySpace - 1}

\* Keys 0 and 4, and 1 and 5, share a bucket.
MCHashOf == [k \in Keys |-> (k \div 2) % HashSize]
===========================================================================
