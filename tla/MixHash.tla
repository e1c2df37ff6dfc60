------------------------------ MODULE MixHash ------------------------------
(***************************************************************************)
(* The hash of one segment at the level of its list nodes (mix_hash.c):    *)
(* buckets and the pool of free nodes are linked through the same next     *)
(* field, one spinlock guards the pool, and only when a node is freed.     *)
(*                                                                         *)
(* The worker of the segment uses the hash alone; while it waits for a     *)
(* migration the threads pop entries, each from buckets of its own, and    *)
(* share nothing but the pool (MigrationExclusive in MixMigration keeps    *)
(* the two phases apart).  A thread's step is one access to the pool.      *)
(***************************************************************************)
EXTENDS MixSegment, FiniteSets, Functions

CONSTANTS
  ThreadNum,  \* migrate_thread_num
  Values      \* the buffer blocks that are put: no operation looks at them

ASSUME SweeperAssumption == ThreadNum \in Nat \ {0} /\ Values \subseteq Blocks

Threads == 0 .. ThreadNum - 1
Nodes == 0 .. PerBlock - 1
Nil == None

\* What the fields of a free node are set to.
NoEntry == [key |-> NoKey, value |-> None]

VARIABLES
  list, len,       \* hash_nodes[b]: the first node of each bucket, its length
  next, entry,     \* the fields of each node; a key and a value
  free_head,       \* free_node_head->next
  free_node_num,
  free_node_lock,  \* the thread that holds it, or None
  used_block_num,
  wpc,             \* work, migrate, or abort
  tpc,             \* where thread t is
  migrate_idx,     \* the bucket it sweeps
  node, list_node, \* the node it pops, and what follows it in the bucket
  kv,              \* the entry it popped last
  leaked           \* nodes that mix_hash_delete forgot (history)

bucketVars == <<list, len>>
poolVars == <<next, entry, free_head, free_node_num>>
threadVars == <<tpc, migrate_idx, node, list_node, kv>>
vars == <<bucketVars, poolVars, free_node_lock, used_block_num, wpc, threadVars,
          leaked>>

TypeOK ==
  /\ list \in [Buckets -> Nodes \union {Nil}]
  /\ len \in [Buckets -> 0 .. PerBlock]
  /\ next \in [Nodes -> Nodes \union {Nil}]
  /\ entry \in [Nodes -> Entry \union {NoEntry}]
  /\ free_head \in Nodes \union {Nil}
  /\ free_node_num \in 0 .. PerBlock
  /\ free_node_lock \in Threads \union {None}
  /\ used_block_num \in 0 .. PerBlock
  /\ wpc \in {"work", "migrate", "abort"}
  /\ tpc \in [Threads -> {"idle", "sweep", "lock", "link", "publish", "unlock",
                          "unhook"}]
  /\ node \in [Threads -> Nodes \union {Nil}]
  /\ list_node \in [Threads -> Nodes \union {Nil}]
  /\ leaked \subseteq Nodes

\* Mutant: the list head, a node of its own, is counted too.
PoolWithHead == PerBlock + 1

\* mix_hash_init gives the pool one node per block.
PoolSize == PerBlock

\* mix_hash_init: the nodes are pushed one by one, the last one comes first.
Init ==
  /\ list = [b \in Buckets |-> Nil]
  /\ len = [b \in Buckets |-> 0]
  /\ next = [n \in Nodes |-> IF n = 0 THEN Nil ELSE n - 1]
  /\ entry = [n \in Nodes |-> NoEntry]
  /\ free_head = PerBlock - 1
  /\ free_node_num = PoolSize
  /\ free_node_lock = None
  /\ used_block_num = 0
  /\ wpc = "work"
  /\ tpc = [t \in Threads |-> "idle"]
  /\ migrate_idx = [t \in Threads |-> t]
  /\ node = [t \in Threads |-> Nil]
  /\ list_node = [t \in Threads |-> Nil]
  /\ kv = [t \in Threads |-> NoEntry]
  /\ leaked = {}

Follow(n) == IF n = Nil THEN Nil ELSE next[n]

\* The nodes from p on, in order; more than PerBlock of them mean a cycle.
Walk(p) ==
  LET at[i \in 0 .. PerBlock] == IF i = 0 THEN p ELSE Follow(at[i - 1])
      n == Cardinality({i \in 0 .. PerBlock : at[i] # Nil})
  IN [i \in 1 .. n |-> at[i - 1]]

\* The node of key k in its bucket, as the loops over a bucket find it.
NodeOf(k) ==
  LET hits == {n \in Range(Walk(list[mix_hash_hash(k)])) :
                 entry[n].key = k}
  IN IF hits = {} THEN Nil ELSE CHOOSE n \in hits : TRUE

---------------------------------------------------------------------------
(* The worker *)

\* redirect_write of a block that is not indexed, with a block free: the node
\* is taken without the lock.  An empty pool aborts the process.
Put(k, v) ==
  LET b == mix_hash_hash(k)
      n == free_head
  IN /\ wpc = "work"
     /\ NodeOf(k) = Nil
     /\ used_block_num < PerBlock
     /\ IF n = Nil
        THEN /\ wpc' = "abort"
             /\ UNCHANGED <<bucketVars, poolVars, used_block_num>>
        ELSE /\ free_head' = next[n]
             /\ free_node_num' = free_node_num - 1
             /\ entry' = [entry EXCEPT ![n] = [key |-> k, value |-> v]]
             /\ next' = [next EXCEPT ![n] = list[b]]
             /\ list' = [list EXCEPT ![b] = n]
             /\ len' = [len EXCEPT ![b] = @ + 1]
             /\ used_block_num' = used_block_num + 1
             /\ UNCHANGED wpc
     /\ UNCHANGED <<free_node_lock, threadVars, leaked>>

\* The node before n in bucket b.
Before(b, n) == CHOOSE p \in Range(Walk(list[b])) : next[p] = n

\* Mutant: a node is unlinked and never freed.
ClearForgets(k) ==
  LET b == mix_hash_hash(k)
      n == NodeOf(k)
  IN /\ wpc = "work"
     /\ n # Nil
     /\ IF n = list[b]
        THEN /\ list' = [list EXCEPT ![b] = next[n]]
             /\ leaked' = leaked \union {n}
             /\ UNCHANGED next
        ELSE /\ next' = [next EXCEPT ![Before(b, n)] = next[n]]
             /\ UNCHANGED <<list, leaked>>
     /\ len' = [len EXCEPT ![b] = @ - 1]
     /\ used_block_num' = used_block_num - 1
     /\ UNCHANGED <<entry, free_head, free_node_num, free_node_lock, wpc,
                    threadVars>>

\* mix_clear_block, which returns at a block that is not indexed, with
\* mix_hash_delete: the first node of a bucket is unlinked but not given back.
Clear(k) ==
  LET b == mix_hash_hash(k)
      n == NodeOf(k)
  IN /\ wpc = "work"
     /\ n # Nil
     /\ IF n = list[b]
        THEN /\ list' = [list EXCEPT ![b] = next[n]]
             /\ leaked' = leaked \union {n}
             /\ UNCHANGED poolVars
        ELSE /\ next' = [next EXCEPT ![Before(b, n)] = next[n], ![n] = free_head]
             /\ entry' = [entry EXCEPT ![n] = NoEntry]
             /\ free_head' = n
             /\ free_node_num' = free_node_num + 1
             /\ UNCHANGED <<list, leaked>>
     /\ len' = [len EXCEPT ![b] = @ - 1]
     /\ used_block_num' = used_block_num - 1
     /\ UNCHANGED <<free_node_lock, wpc, threadVars>>

\* mix_migrate_segment of a full segment sets the threads going ...
Migrate ==
  /\ wpc = "work"
  /\ used_block_num = PerBlock
  /\ wpc' = "migrate"
  /\ tpc' = [t \in Threads |-> "sweep"]
  /\ migrate_idx' = [t \in Threads |-> t]
  /\ UNCHANGED <<bucketVars, poolVars, free_node_lock, used_block_num, node,
                 list_node, kv, leaked>>

\* ... and returns when the last one is done.
Migrated ==
  /\ wpc = "migrate"
  /\ \A t \in Threads : tpc[t] = "idle"
  /\ wpc' = "work"
  /\ UNCHANGED <<bucketVars, poolVars, free_node_lock, used_block_num,
                 threadVars, leaked>>

---------------------------------------------------------------------------
(* Thread t in mix_hash_get_entry_by_idx and mix_hash_node_free *)

\* Mutant: the entry is read after its node's fields were reset.
TakeLate(t) ==
  LET b == migrate_idx[t]
  IN /\ tpc[t] = "sweep"
     /\ b < HashSize
     /\ len[b] > 0
     /\ node' = [node EXCEPT ![t] = list[b]]
     /\ list_node' = [list_node EXCEPT ![t] = next[list[b]]]
     /\ kv' = [kv EXCEPT ![t] = NoEntry]
     /\ entry' = [entry EXCEPT ![list[b]] = NoEntry]
     /\ tpc' = [tpc EXCEPT ![t] = "lock"]
     /\ UNCHANGED <<bucketVars, next, free_head, free_node_num, free_node_lock,
                    used_block_num, wpc, migrate_idx, leaked>>

\* The first entry of the bucket is read, then its node's fields are reset.
Take(t) ==
  LET b == migrate_idx[t]
  IN /\ tpc[t] = "sweep"
     /\ b < HashSize
     /\ len[b] > 0
     /\ node' = [node EXCEPT ![t] = list[b]]
     /\ list_node' = [list_node EXCEPT ![t] = next[list[b]]]
     /\ kv' = [kv EXCEPT ![t] = entry[list[b]]]
     /\ entry' = [entry EXCEPT ![list[b]] = NoEntry]
     /\ tpc' = [tpc EXCEPT ![t] = "lock"]
     /\ UNCHANGED <<bucketVars, next, free_head, free_node_num, free_node_lock,
                    used_block_num, wpc, migrate_idx, leaked>>

\* Mutant: no lock.
LockNothing(t) ==
  /\ tpc[t] = "lock"
  /\ tpc' = [tpc EXCEPT ![t] = "link"]
  /\ UNCHANGED <<bucketVars, poolVars, free_node_lock, used_block_num, wpc,
                 migrate_idx, node, list_node, kv, leaked>>

Lock(t) ==
  /\ tpc[t] = "lock"
  /\ free_node_lock = None
  /\ free_node_lock' = t
  /\ tpc' = [tpc EXCEPT ![t] = "link"]
  /\ UNCHANGED <<bucketVars, poolVars, used_block_num, wpc, migrate_idx, node,
                 list_node, kv, leaked>>

Link(t) ==
  /\ tpc[t] = "link"
  /\ next' = [next EXCEPT ![node[t]] = free_head]
  /\ tpc' = [tpc EXCEPT ![t] = "publish"]
  /\ UNCHANGED <<bucketVars, entry, free_head, free_node_num, free_node_lock,
                 used_block_num, wpc, migrate_idx, node, list_node, kv, leaked>>

Publish(t) ==
  /\ tpc[t] = "publish"
  /\ free_head' = node[t]
  /\ free_node_num' = free_node_num + 1
  /\ tpc' = [tpc EXCEPT ![t] = "unlock"]
  /\ UNCHANGED <<bucketVars, next, entry, free_node_lock, used_block_num, wpc,
                 migrate_idx, node, list_node, kv, leaked>>

\* Mutant: the lock is kept.
UnlockNothing(t) ==
  /\ tpc[t] = "unlock"
  /\ tpc' = [tpc EXCEPT ![t] = "unhook"]
  /\ UNCHANGED <<bucketVars, poolVars, free_node_lock, used_block_num, wpc,
                 migrate_idx, node, list_node, kv, leaked>>

Unlock(t) ==
  /\ tpc[t] = "unlock"
  /\ free_node_lock' = None
  /\ tpc' = [tpc EXCEPT ![t] = "unhook"]
  /\ UNCHANGED <<bucketVars, poolVars, used_block_num, wpc, migrate_idx, node,
                 list_node, kv, leaked>>

\* Mutant: the length of the bucket is not kept.
UnhookKeepsLen(t) ==
  /\ tpc[t] = "unhook"
  /\ list' = [list EXCEPT ![migrate_idx[t]] = list_node[t]]
  /\ used_block_num' = used_block_num - 1
  /\ node' = [node EXCEPT ![t] = Nil]
  /\ list_node' = [list_node EXCEPT ![t] = Nil]
  /\ tpc' = [tpc EXCEPT ![t] = "sweep"]
  /\ UNCHANGED <<len, poolVars, free_node_lock, wpc, migrate_idx, kv, leaked>>

\* The bucket goes on behind the node; migrate copies the block and counts it
\* off (see MixStore for the copy).
Unhook(t) ==
  /\ tpc[t] = "unhook"
  /\ list' = [list EXCEPT ![migrate_idx[t]] = list_node[t]]
  /\ len' = [len EXCEPT ![migrate_idx[t]] = @ - 1]
  /\ used_block_num' = used_block_num - 1
  /\ node' = [node EXCEPT ![t] = Nil]
  /\ list_node' = [list_node EXCEPT ![t] = Nil]
  /\ tpc' = [tpc EXCEPT ![t] = "sweep"]
  /\ UNCHANGED <<poolVars, free_node_lock, wpc, migrate_idx, kv, leaked>>

\* An empty bucket: on to the next one of this thread, or done.
Skip(t) ==
  LET b == migrate_idx[t]
  IN /\ tpc[t] = "sweep"
     /\ IF b < HashSize
        THEN /\ len[b] = 0
             /\ kv' = [kv EXCEPT ![t] = NoEntry]
             /\ migrate_idx' = [migrate_idx EXCEPT ![t] = b + ThreadNum]
             /\ UNCHANGED tpc
        ELSE /\ tpc' = [tpc EXCEPT ![t] = "idle"]
             /\ UNCHANGED <<migrate_idx, kv>>
     /\ UNCHANGED <<bucketVars, poolVars, free_node_lock, used_block_num, wpc,
                    node, list_node, leaked>>

---------------------------------------------------------------------------
ThreadStep(t) ==
  \/ Take(t) \/ Lock(t) \/ Link(t) \/ Publish(t) \/ Unlock(t) \/ Unhook(t)
  \/ Skip(t)

Next ==
  \/ \E k \in Keys : (\E v \in Values : Put(k, v)) \/ Clear(k)
  \/ Migrate \/ Migrated
  \/ \E t \in Threads : ThreadStep(t)

Spec == Init /\ [][Next]_vars

\* The kernel runs the threads; the spinlock goes to whoever gets it.
FairSpec == Spec /\ \A t \in Threads : WF_vars(ThreadStep(t))

---------------------------------------------------------------------------
(* Properties *)

\* The threads that work on a popped node, until it is back in the pool and
\* until the bucket is unhooked from it.
Freeing == {t \in Threads : tpc[t] \in {"lock", "link", "publish"}}
Popping == Freeing \union {t \in Threads : tpc[t] \in {"unlock", "unhook"}}

\* The first node of bucket b: behind the node a thread is about to unhook.
BucketHead(b) ==
  LET T == {t \in Popping : migrate_idx[t] = b}
  IN IF T = {} THEN list[b] ELSE list_node[CHOOSE t \in T : TRUE]

BucketNodes(b) == Walk(BucketHead(b))

Free == Walk(free_head)

\* The entries of bucket b.
BucketEntries(b) ==
  LET ns == BucketNodes(b) IN [i \in DOMAIN ns |-> entry[ns[i]]]

\* No node is lost or shared while threads free nodes concurrently: each is in
\* the pool, in one bucket or in one thread's hand, exactly once, or was the
\* first of its bucket when its entry was deleted.
NodesAccounted ==
  LET held == {node[t] : t \in Freeing}
  IN /\ free_node_num = Len(Free)
     /\ Cardinality(Nodes) = Len(Free) + Cardinality(Freeing) + Cardinality(leaked)
          + Cardinality(UNION {{<<b, i>> : i \in DOMAIN BucketNodes(b)} : b \in Buckets})
     /\ Nodes = Range(Free) \union held \union leaked
          \union UNION {Range(BucketNodes(b)) : b \in Buckets}

\* len, which alone tells mix_hash_get_entry_by_idx whether there is a node to
\* dereference, is the length of the list, and what the list holds are live
\* entries of that bucket.
LenIsLength ==
  \A b \in Buckets :
    /\ len[b] = Len(BucketNodes(b)) + Cardinality({t \in Popping : migrate_idx[t] = b})
    /\ \A e \in Range(BucketEntries(b)) : e # NoEntry /\ mix_hash_hash(e.key) = b

\* The pool runs dry, which aborts the process, only after mix_hash_delete has
\* lost a node: one list node per block is enough for everybody else.
AbortMeansLeak == wpc = "abort" => leaked # {}

\* The linked nodes implement lists that change in one step, which is how the
\* other modules use them.
Refined == INSTANCE HashIndex WITH
  Sweepers <- Threads,
  index <- [hash_nodes |-> [b \in Buckets |-> BucketEntries(b)],
            free_node_num |-> free_node_num + Cardinality(Freeing)],
  popped <- kv

ImplementsIndex == Refined!Spec

\* A thread that pops an entry gets through the lock, though nothing orders
\* those who wait for it, and finishes its sweep.
SweepEnds == \A t \in Threads : tpc[t] # "idle" ~> tpc[t] = "idle"
===========================================================================
