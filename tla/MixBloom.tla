------------------------------ MODULE MixBloom ------------------------------
(***************************************************************************)
(* The counting bloom filter of a segment: mix_bloom_filter.c over the     *)
(* counting bitmap of mix_bitmap.c, which packs two counters into a byte.  *)
(* mix_metadata_init makes one filter per segment.  Its callers are still  *)
(* commented out; they would add a block number when it enters the index   *)
(* and remove it when it leaves (mix_meta.c), and so do the actions here.  *)
(***************************************************************************)
EXTENDS Naturals, FiniteSets

CONSTANTS
  Keys,            \* block numbers
  NFuncs,          \* nfuncs
  CountsPerFunc,   \* counts_per_func
  Base,            \* values of a counter (16)
  Word,            \* values of a uint32_t (2^32)
  H1, H2           \* the two halves of a key's checksum that are used

ASSUME BloomAssumption ==
  /\ IsFiniteSet(Keys)
  /\ NFuncs \in Nat \ {0}
  /\ CountsPerFunc \in Nat \ {0}
  /\ Base \in Nat \ {0, 1}
  /\ Word \in Nat \ {0}
  /\ H1 \in [Keys -> 0 .. Word - 1]
  /\ H2 \in [Keys -> 0 .. Word - 1]

VARIABLES
  array,     \* bitmap->array after the header
  count,     \* header->count
  members,   \* the keys added and not removed (history)
  refused    \* the counters that have refused an increment (history)

bloomVars == <<array, count, members, refused>>

Counters == 0 .. NFuncs * CountsPerFunc - 1

\* Two counters to a byte, rounded up.
Bytes == 0 .. (NFuncs * CountsPerFunc + 1) \div 2 - 1

\* hash_func: the counter of a key under function i.
hash_func(k, i) ==
  i * CountsPerFunc + (((H1[k] + i * H2[k]) % Word) % CountsPerFunc)

CountersOf(k) == {hash_func(k, i) : i \in 0 .. NFuncs - 1}

\* The half of byte n that counter j has: the low one if j is odd.
Half(n, j) == IF j % 2 # 0 THEN n % Base ELSE n \div Base

One(j) == IF j % 2 # 0 THEN 1 ELSE Base

---------------------------------------------------------------------------
(* The counting bitmap *)

\* Mutant: no test for the largest value.
IncrementCarries(a, j) ==
  [a EXCEPT ![j \div 2] = (@ + One(j)) % (Base * Base)]

mix_counting_bitmap_increment(a, j) ==
  IF Half(a[j \div 2], j) = Base - 1 THEN a
  ELSE [a EXCEPT ![j \div 2] = @ + One(j)]

mix_counting_bitmap_decrement(a, j) ==
  IF Half(a[j \div 2], j) = 0 THEN a
  ELSE [a EXCEPT ![j \div 2] = @ - One(j)]

---------------------------------------------------------------------------
(* The filter *)

\* The loops of add and remove over the key's counters, function by function.
IncrementEach(a, k) ==
  LET upTo[n \in 0 .. NFuncs] ==
        IF n = 0 THEN a
        ELSE mix_counting_bitmap_increment(upTo[n - 1], hash_func(k, n - 1))
  IN upTo[NFuncs]

DecrementEach(a, k) ==
  LET upTo[n \in 0 .. NFuncs] ==
        IF n = 0 THEN a
        ELSE mix_counting_bitmap_decrement(upTo[n - 1], hash_func(k, n - 1))
  IN upTo[NFuncs]

TypeOK ==
  /\ array \in [Bytes -> 0 .. Base * Base - 1]
  /\ count \in 0 .. Cardinality(Keys)
  /\ members \subseteq Keys
  /\ refused \subseteq Counters

\* mix_counting_bloom_filter_init
Init ==
  /\ array = [b \in Bytes |-> 0]
  /\ count = 0
  /\ members = {}
  /\ refused = {}

\* mix_counting_bloom_filter_add, which ignores a refused increment.
Add(k) ==
  /\ k \notin members
  /\ array' = IncrementEach(array, k)
  /\ count' = count + 1
  /\ members' = members \union {k}
  /\ refused' = refused \union
                  {j \in CountersOf(k) : Half(array[j \div 2], j) = Base - 1}

\* Mutant: count is not lowered.
RemoveKeepsCount(k) ==
  /\ k \in members
  /\ array' = DecrementEach(array, k)
  /\ members' = members \ {k}
  /\ UNCHANGED <<count, refused>>

\* mix_counting_bloom_filter_remove
Remove(k) ==
  /\ k \in members
  /\ array' = DecrementEach(array, k)
  /\ count' = count - 1
  /\ members' = members \ {k}
  /\ UNCHANGED refused

Next == \E k \in Keys : Add(k) \/ Remove(k)

Spec == Init /\ [][Next]_bloomVars

---------------------------------------------------------------------------
(* Properties *)

\* A counter never counts more than the members that hash to it, and counts
\* them exactly unless it has once refused an increment: no carry or borrow
\* crosses from the other half of its byte, whatever that half has seen.  (A
\* counter that has refused one reaches zero while it still has members.  Then
\* mix_counting_bloom_filter_test denies a member, although its comment takes 0
\* for "certainly absent".)
CountersCountMembers ==
  \A j \in Counters :
    LET n == Half(array[j \div 2], j)
        m == Cardinality({k \in members : j \in CountersOf(k)})
    IN n <= m /\ (j \notin refused => n = m)
=============================================================================
