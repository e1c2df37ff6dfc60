----------------------------- MODULE HashIndex -----------------------------
(***************************************************************************)
(* What the hash of a segment promises to its users: lists of entries per  *)
(* bucket that change in one step, as MixSegment has them and MixMigration *)
(* uses them.                                                              *)
(***************************************************************************)
EXTENDS MixSegment

CONSTANT Sweepers    \* the threads that pop entries

\* What a pop of an empty bucket returns.
NoEntry == [key |-> NoKey, value |-> None]

VARIABLES
  index,   \* hash_nodes and free_node_num
  popped   \* the entry each sweeper popped last, or NoEntry

Init ==
  /\ index = [hash_nodes |-> mix_segment_init.hash_nodes,
              free_node_num |-> mix_segment_init.free_node_num]
  /\ popped = [t \in Sweepers |-> NoEntry]

Put(k, v) ==
  /\ mix_hash_get(index, k) = None
  /\ index.free_node_num > 0
  /\ index' = mix_hash_put(index, k, v)
  /\ UNCHANGED popped

\* A list without its i-th entry.
Without(l, i) == [j \in 1 .. Len(l) - 1 |-> IF j < i THEN l[j] ELSE l[j + 1]]

\* An entry leaves its bucket.  The node of a bucket's first entry is not given
\* back by mix_hash_delete.
Delete(k) ==
  LET b == mix_hash_hash(k)
      list == index.hash_nodes[b]
  IN /\ mix_hash_get(index, k) # None
     /\ \E i \in Hits(index, k) : index' = [index EXCEPT
          !.hash_nodes[b] = Without(list, i),
          !.free_node_num = IF Head(list).key = k THEN @ ELSE @ + 1]
     /\ UNCHANGED popped

Pop(t, b) ==
  /\ index.hash_nodes[b] # <<>>
  /\ popped' = [popped EXCEPT ![t] = Head(index.hash_nodes[b])]
  /\ index' = mix_hash_pop(index, b)

PopEmpty(t, b) ==
  /\ index.hash_nodes[b] = <<>>
  /\ popped' = [popped EXCEPT ![t] = NoEntry]
  /\ UNCHANGED index

Next ==
  \/ \E k \in Keys : (\E v \in Blocks : Put(k, v)) \/ Delete(k)
  \/ \E t \in Sweepers : \E b \in Buckets : Pop(t, b) \/ PopEmpty(t, b)

Spec == Init /\ [][Next]_<<index, popped>>
===========================================================================
