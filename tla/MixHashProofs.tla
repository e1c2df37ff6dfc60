--------------------------- MODULE MixHashProofs ---------------------------
(***************************************************************************)
(* Proofs about the linked nodes of a segment's hash.                      *)
(*                                                                         *)
(* The argument is about who owns a node: the pool, a bucket, the hand of  *)
(* a migration thread, or nobody once mix_hash_delete has forgotten it.    *)
(* The pool and every bucket are lists that run through exactly the nodes  *)
(* they own, and the counters count owners.                                *)
(***************************************************************************)
EXTENDS MixHash, MixSegmentProofs, FiniteSetTheorems

---------------------------------------------------------------------------
(* The inductive invariant *)

\* The owners of a node besides the buckets.
Pool == -1
Hand == -2
Lost == -3
Owners == Buckets \union {Pool, Hand, Lost}

\* The i-th node of a list, Nil behind its end.
At(s, i) == IF i <= Len(s) THEN s[i] ELSE Nil

\* From p the links nx lead through the nodes s, without repetition, to Nil,
\* and these are the nodes c owns.
IsList(nx, own, p, c, s) ==
  /\ s \in Seq(Nodes)
  /\ \A i, j \in 1 .. Len(s) : s[i] = s[j] => i = j
  /\ \A n \in Nodes : own[n] = c <=> \E i \in 1 .. Len(s) : s[i] = n
  /\ p = At(s, 1)
  /\ \A i \in 1 .. Len(s) : nx[s[i]] = At(s, i + 1)

Listed(nx, own, p, c) == \E s \in Seq(Nodes) : IsList(nx, own, p, c, s)

\* The number of nodes with an owner in S.
Owned(own, S) == Cardinality({n \in Nodes : own[n] \in S})

\* The threads that pop a node of bucket b: one at most.
PoppingAt(b) == {t \in Popping : migrate_idx[t] = b}

\* The threads run only during a migration, each on buckets of its own, and
\* the lock is held exactly from Lock to Unlock.
PhaseInv ==
  /\ wpc # "migrate" => \A t \in Threads : tpc[t] = "idle"
  /\ migrate_idx \in [Threads -> Nat]
  /\ \A t \in Threads : migrate_idx[t] % ThreadNum = t
  /\ \A t \in Popping : migrate_idx[t] \in Buckets
  /\ \A t \in Threads : tpc[t] \in {"link", "publish", "unlock"} <=> free_node_lock = t

\* Nodes are linked as they are owned.
LinkInv(own) ==
  /\ Listed(next, own, free_head, Pool)
  /\ \A b \in Buckets : Listed(next, own, BucketHead(b), b)
  /\ \A t \in Threads : tpc[t] = "publish" => next[node[t]] = free_head

\* The node in a thread's hand is the thread's alone.
HandInv(own) ==
  /\ \A t \in Freeing : node[t] \in Nodes /\ own[node[t]] = Hand
  /\ \A t, u \in Freeing : node[t] = node[u] => t = u
  /\ \A n \in Nodes : own[n] = Hand => \E t \in Freeing : node[t] = n
  /\ \A n \in Nodes : own[n] = Lost <=> n \in leaked

\* The counters count owners.
CountInv(own) ==
  /\ free_node_num = Owned(own, {Pool})
  /\ \A b \in Buckets : len[b] = Owned(own, {b}) + Cardinality(PoppingAt(b))
  /\ used_block_num = Owned(own, Buckets) + Cardinality(Popping)

\* The nodes of a bucket hold entries of that bucket, with different keys.
EntryInv(own) ==
  /\ \A n \in Nodes : own[n] \in Buckets =>
       entry[n] \in Entry /\ mix_hash_hash(entry[n].key) = own[n]
  /\ \A n, m \in Nodes : own[n] \in Buckets /\ own[m] = own[n] /\ n # m =>
       entry[n].key # entry[m].key

OwnInv(own) == LinkInv(own) /\ HandInv(own) /\ CountInv(own) /\ EntryInv(own)

HashInv ==
  /\ TypeOK /\ PhaseInv /\ AbortMeansLeak
  /\ \E own \in [Nodes -> Owners] : OwnInv(own)

---------------------------------------------------------------------------
(* Lists *)

\* Nil is not a node.
LEMMA NilIsNone == Nil \notin Nodes /\ PerBlock \in Nat \ {0}
  BY SegmentAssumption DEF Nil, None, Nodes

\* Node n goes to d.
Moved(own, own2, n, d) == own2 = [own EXCEPT ![n] = d]

\* The nodes of c keep their links, but for p.
KeepsLinks(nx, nx2, own, c, p) == \A n \in Nodes : own[n] = c /\ n # p => nx2[n] = nx[n]

\* The list s of c loses its head p to d.
Pops(nx, nx2, own, own2, p, c, d, s) ==
  /\ own \in [Nodes -> Owners] /\ p \in Nodes /\ s \in Seq(Nodes) /\ d # c
  /\ IsList(nx, own, p, c, s) /\ KeepsLinks(nx, nx2, own, c, p) /\ Moved(own, own2, p, d)

\* The first node of a list goes to another owner and its links with it.
LEMMA ListPop ==
  ASSUME NEW nx, NEW nx2, NEW own, NEW own2, NEW p, NEW c, NEW d, NEW s,
         Pops(nx, nx2, own, own2, p, c, d, s)
  PROVE  s # <<>> /\ p = s[1] /\ own[p] = c /\ IsList(nx2, own2, nx[p], c, Tail(s))
<1>0. /\ own \in [Nodes -> Owners] /\ p \in Nodes /\ s \in Seq(Nodes) /\ d # c
      /\ IsList(nx, own, p, c, s) /\ KeepsLinks(nx, nx2, own, c, p) /\ Moved(own, own2, p, d)
  BY DEF Pops
<1>1. Len(s) \in Nat /\ s # <<>> /\ Len(s) >= 1 /\ p = s[1]
  <2>1. Len(s) \in Nat /\ p = At(s, 1)
    BY <1>0 DEF IsList
  <2>2. 1 <= Len(s)
    BY <1>0, <2>1, NilIsNone DEF At
  <2> QED
    BY <1>0, <2>1, <2>2 DEF At
<1>2. PICK r : r = Tail(s)
  OBVIOUS
<1>3. /\ r \in Seq(Nodes) /\ Len(r) = Len(s) - 1
      /\ \A i \in 1 .. Len(r) : r[i] = s[i + 1] /\ i + 1 \in 1 .. Len(s)
  BY <1>0, <1>1, <1>2
<1>4. own[p] = c
  BY <1>0, <1>1 DEF IsList
<1>5. \A i, j \in 1 .. Len(r) : r[i] = r[j] => i = j
  BY <1>0, <1>1, <1>3 DEF IsList
<1>6. \A i \in 1 .. Len(r) : r[i] # p /\ r[i] \in Nodes /\ own[r[i]] = c
  BY <1>0, <1>1, <1>3 DEF IsList
<1>7. \A n \in Nodes : own2[n] = c <=> \E i \in 1 .. Len(r) : r[i] = n
  <2> SUFFICES ASSUME NEW n \in Nodes
               PROVE  own2[n] = c <=> \E i \in 1 .. Len(r) : r[i] = n
    OBVIOUS
  <2>1. CASE n = p
    BY <1>0, <2>1, <1>6 DEF Moved
  <2>2. CASE n # p
    <3>1. own2[n] = own[n]
      BY <1>0, <2>2 DEF Moved
    <3>2. ASSUME own[n] = c PROVE \E i \in 1 .. Len(r) : r[i] = n
      <4>1. PICK j \in 1 .. Len(s) : s[j] = n
        BY <1>0, <3>2 DEF IsList
      <4>2. j - 1 \in 1 .. Len(r) /\ j = (j - 1) + 1
        BY <1>0, <2>2, <4>1, <1>1, <1>3
      <4> QED
        BY <1>0, <4>1, <4>2, <1>3
    <3> QED
      BY <1>0, <3>1, <3>2, <1>6
  <2> QED
    BY <1>0, <2>1, <2>2
<1>8. nx[p] = At(r, 1)
  <2>1. nx[p] = At(s, 2)
    BY <1>0, <1>1 DEF IsList
  <2> QED
    BY <1>0, <2>1, <1>1, <1>3 DEF At
<1>9. \A i \in 1 .. Len(r) : nx2[r[i]] = At(r, i + 1)
  <2> SUFFICES ASSUME NEW i \in 1 .. Len(r) PROVE nx2[r[i]] = At(r, i + 1)
    OBVIOUS
  <2>1. nx2[r[i]] = nx[s[i + 1]] /\ i + 1 \in 1 .. Len(s)
    BY <1>0, <1>3, <1>6 DEF KeepsLinks
  <2>2. nx[s[i + 1]] = At(s, (i + 1) + 1)
    BY <1>0, <2>1 DEF IsList
  <2>3. At(s, (i + 1) + 1) = At(r, i + 1)
    BY <1>0, <1>1, <1>3 DEF At
  <2> QED
    BY <1>0, <2>1, <2>2, <2>3
<1> QED
  BY <1>0, <1>1, <1>2, <1>3, <1>4, <1>5, <1>7, <1>8, <1>9 DEF IsList

\* A list with a new head.
LEMMA ListPush ==
  ASSUME NEW nx, NEW own \in [Nodes -> Owners], NEW c, NEW p,
         NEW s \in Seq(Nodes), IsList(nx, own, p, c, s), NEW n \in Nodes, own[n] # c,
         NEW nx2, \A m \in Nodes : own[m] = c => nx2[m] = nx[m], nx2[n] = p,
         NEW own2, own2 = [own EXCEPT ![n] = c]
  PROVE  IsList(nx2, own2, n, c, <<n>> \o s)
<1>1. PICK r : r = <<n>> \o s
  OBVIOUS
<1>2. /\ r \in Seq(Nodes) /\ Len(s) \in Nat /\ Len(r) = Len(s) + 1 /\ r[1] = n
      /\ \A i \in 1 .. Len(s) : r[i + 1] = s[i]
  BY <1>1
<1>3. \A i \in 2 .. Len(r) : i - 1 \in 1 .. Len(s) /\ r[i] = s[i - 1]
  <2> SUFFICES ASSUME NEW i \in 2 .. Len(r) PROVE i - 1 \in 1 .. Len(s) /\ r[i] = s[i - 1]
    OBVIOUS
  <2>1. i - 1 \in 1 .. Len(s) /\ (i - 1) + 1 = i
    BY <1>2
  <2>2. r[(i - 1) + 1] = s[i - 1]
    BY <2>1, <1>2
  <2> QED
    BY <2>1, <2>2
<1>4. \A i \in 1 .. Len(s) : s[i] # n /\ s[i] \in Nodes /\ own[s[i]] = c
  BY DEF IsList
<1>5. \A i, j \in 1 .. Len(r) : r[i] = r[j] => i = j
  <2> SUFFICES ASSUME NEW i \in 1 .. Len(r), NEW j \in 1 .. Len(r), r[i] = r[j]
               PROVE  i = j
    OBVIOUS
  <2>1. CASE i = 1 /\ j = 1
    BY <2>1
  <2>2. CASE i = 1 /\ j # 1
    <3>1. j \in 2 .. Len(r)
      BY <2>2, <1>2
    <3> QED
      BY <2>2, <3>1, <1>2, <1>3, <1>4
  <2>3. CASE i # 1 /\ j = 1
    <3>1. i \in 2 .. Len(r)
      BY <2>3, <1>2
    <3> QED
      BY <2>3, <3>1, <1>2, <1>3, <1>4
  <2>4. CASE i # 1 /\ j # 1
    <3>1. i \in 2 .. Len(r) /\ j \in 2 .. Len(r)
      BY <2>4, <1>2
    <3>2. i - 1 \in 1 .. Len(s) /\ j - 1 \in 1 .. Len(s) /\ s[i - 1] = s[j - 1]
      BY <3>1, <1>3
    <3>3. i - 1 = j - 1
      BY <3>2 DEF IsList
    <3> QED
      BY <3>3
  <2> QED
    BY <2>1, <2>2, <2>3, <2>4
<1>6. \A m \in Nodes : own2[m] = c <=> \E i \in 1 .. Len(r) : r[i] = m
  <2> SUFFICES ASSUME NEW m \in Nodes
               PROVE  own2[m] = c <=> \E i \in 1 .. Len(r) : r[i] = m
    OBVIOUS
  <2>1. CASE m = n
    <3>1. 1 \in 1 .. Len(r)
      BY <1>2
    <3> QED
      BY <2>1, <3>1, <1>2
  <2>2. CASE m # n
    <3>1. own2[m] = own[m]
      BY <2>2
    <3>2. ASSUME own[m] = c PROVE \E i \in 1 .. Len(r) : r[i] = m
      <4>1. PICK j \in 1 .. Len(s) : s[j] = m
        BY <3>2 DEF IsList
      <4>2. j + 1 \in 1 .. Len(r) /\ r[j + 1] = m
        BY <4>1, <1>2
      <4> QED
        BY <4>2
    <3>3. ASSUME NEW i \in 1 .. Len(r), r[i] = m PROVE own[m] = c
      <4>1. i \in 2 .. Len(r)
        BY <2>2, <3>3, <1>2
      <4> QED
        BY <3>3, <4>1, <1>3, <1>4
    <3> QED
      BY <3>1, <3>2, <3>3
  <2> QED
    BY <2>1, <2>2
<1>7. n = At(r, 1)
  BY <1>2 DEF At
<1>8. \A i \in 1 .. Len(r) : nx2[r[i]] = At(r, i + 1)
  <2> SUFFICES ASSUME NEW i \in 1 .. Len(r) PROVE nx2[r[i]] = At(r, i + 1)
    OBVIOUS
  <2>1. CASE i = 1
    <3>1. nx2[r[1]] = At(s, 1)
      BY <1>2 DEF IsList
    <3>2. At(s, 1) = At(r, 2)
      <4>1. CASE 1 <= Len(s)
        <5>1. r[1 + 1] = s[1]
          BY <4>1, <1>2
        <5> QED
          BY <4>1, <5>1, <1>2 DEF At
      <4>2. CASE ~(1 <= Len(s))
        BY <4>2, <1>2 DEF At
      <4> QED
        BY <4>1, <4>2
    <3> QED
      BY <2>1, <3>1, <3>2
  <2>2. CASE i # 1
    <3>1. i \in 2 .. Len(r)
      BY <2>2, <1>2
    <3>2. PICK j \in 1 .. Len(s) : i = j + 1 /\ r[i] = s[j]
      <4>1. i - 1 \in 1 .. Len(s) /\ r[i] = s[i - 1] /\ i = (i - 1) + 1
        BY <3>1, <1>3
      <4> QED
        BY <4>1
    <3>3. nx2[r[i]] = nx[s[j]]
      BY <3>2, <1>4
    <3>4. nx[s[j]] = At(s, j + 1)
      BY DEF IsList
    <3>5. At(s, j + 1) = At(r, (j + 1) + 1)
      <4>1. CASE j + 1 <= Len(s)
        <5>1. j + 1 \in 1 .. Len(s)
          BY <4>1
        <5>2. r[(j + 1) + 1] = s[j + 1] /\ (j + 1) + 1 <= Len(r)
          BY <5>1, <1>2
        <5> QED
          BY <4>1, <5>2 DEF At
      <4>2. CASE ~(j + 1 <= Len(s))
        BY <4>2, <1>2 DEF At
      <4> QED
        BY <4>1, <4>2
    <3> QED
      BY <3>2, <3>3, <3>4, <3>5
  <2> QED
    BY <2>1, <2>2
<1> QED
  BY <1>1, <1>2, <1>5, <1>6, <1>7, <1>8 DEF IsList

\* A list whose nodes keep owner and link.
LEMMA ListSame ==
  ASSUME NEW nx, NEW own, NEW c, NEW p, NEW s, IsList(nx, own, p, c, s),
         NEW nx2, \A n \in Nodes : own[n] = c => nx2[n] = nx[n],
         NEW own2, \A n \in Nodes : own2[n] = c <=> own[n] = c
  PROVE  IsList(nx2, own2, p, c, s)
<1>1. \A i \in 1 .. Len(s) : s[i] \in Nodes /\ own[s[i]] = c
  BY DEF IsList
<1>2. \A i \in 1 .. Len(s) : nx2[s[i]] = At(s, i + 1)
  BY <1>1 DEF IsList
<1>3. \A n \in Nodes : own2[n] = c <=> \E i \in 1 .. Len(s) : s[i] = n
  BY DEF IsList
<1> QED
  BY <1>2, <1>3 DEF IsList

\* The nodes of c keep owner and link.
Kept(nx, nx2, own, own2, c) ==
  \A n \in Nodes : (own[n] = c => nx2[n] = nx[n]) /\ (own2[n] = c <=> own[n] = c)

\* A list whose nodes keep owner and links stays.
LEMMA ListKept ==
  ASSUME NEW nx, NEW nx2, NEW own, NEW own2, NEW c, NEW p, NEW s,
         IsList(nx, own, p, c, s), Kept(nx, nx2, own, own2, c)
  PROVE  IsList(nx2, own2, p, c, s)
  BY ListSame DEF Kept

\* A list without its i-th node.
Drop(s, i) == [j \in 1 .. Len(s) - 1 |-> IF j < i THEN s[j] ELSE s[j + 1]]

\* Without one of its elements a sequence is a shorter sequence.
LEMMA DropIsSeq ==
  ASSUME NEW S, NEW s \in Seq(S), NEW i \in 1 .. Len(s)
  PROVE  /\ Drop(s, i) \in Seq(S) /\ Len(Drop(s, i)) = Len(s) - 1
         /\ \A j \in 1 .. Len(s) - 1 : Drop(s, i)[j] = IF j < i THEN s[j] ELSE s[j + 1]
<1>1. Len(s) \in Nat /\ Len(s) - 1 \in Nat
  OBVIOUS
<1>2. \A j \in 1 .. Len(s) - 1 : (IF j < i THEN s[j] ELSE s[j + 1]) \in S
  BY <1>1
<1>3. Drop(s, i) \in [1 .. Len(s) - 1 -> S]
  BY <1>2 DEF Drop
<1> QED
  BY <1>1, <1>3 DEF Drop

\* The list s of c loses its i-th node, not the head, to d.
Removes(nx, nx2, own, own2, p, c, d, s, i) ==
  /\ own \in [Nodes -> Owners] /\ s \in Seq(Nodes) /\ i \in 2 .. Len(s) /\ d # c
  /\ IsList(nx, own, p, c, s) /\ nx2[s[i - 1]] = nx[s[i]]
  /\ \A m \in Nodes : own[m] = c /\ m # s[i] /\ m # s[i - 1] => nx2[m] = nx[m]
  /\ own2 = [own EXCEPT ![s[i]] = d]

\* A node behind the first is taken out by relinking the one before it, as
\* mix_hash_delete does.
LEMMA ListRemove ==
  ASSUME NEW nx, NEW nx2, NEW own, NEW own2, NEW p, NEW c, NEW d, NEW s, NEW i,
         Removes(nx, nx2, own, own2, p, c, d, s, i)
  PROVE  IsList(nx2, own2, p, c, Drop(s, i))
<1> SUFFICES ASSUME own \in [Nodes -> Owners], s \in Seq(Nodes), i \in 2 .. Len(s), d # c,
                    IsList(nx, own, p, c, s), nx2[s[i - 1]] = nx[s[i]],
                    \A m \in Nodes : own[m] = c /\ m # s[i] /\ m # s[i - 1] => nx2[m] = nx[m],
                    own2 = [own EXCEPT ![s[i]] = d]
             PROVE  IsList(nx2, own2, p, c, Drop(s, i))
  BY DEF Removes
<1>0. Len(s) \in Nat /\ i \in 1 .. Len(s) /\ i - 1 \in 1 .. Len(s)
  OBVIOUS
<1>1. PICK r : r = Drop(s, i)
  OBVIOUS
<1>2. /\ r \in Seq(Nodes) /\ Len(r) = Len(s) - 1
      /\ \A j \in 1 .. Len(r) : r[j] = IF j < i THEN s[j] ELSE s[j + 1]
  <2>1. /\ Drop(s, i) \in Seq(Nodes) /\ Len(Drop(s, i)) = Len(s) - 1
        /\ \A j \in 1 .. Len(s) - 1 : Drop(s, i)[j] = IF j < i THEN s[j] ELSE s[j + 1]
    BY <1>0, DropIsSeq
  <2> QED
    BY <1>1, <2>1
\* Where r's elements sit in s.
<1>3. \A j \in 1 .. Len(r) : \E h \in 1 .. Len(s) :
        h # i /\ r[j] = s[h] /\ h = IF j < i THEN j ELSE j + 1
  <2> SUFFICES ASSUME NEW j \in 1 .. Len(r)
               PROVE  \E h \in 1 .. Len(s) :
                        h # i /\ r[j] = s[h] /\ h = IF j < i THEN j ELSE j + 1
    OBVIOUS
  <2>1. CASE j < i
    <3>1. j \in 1 .. Len(s) /\ j # i /\ r[j] = s[j]
      BY <2>1, <1>0, <1>2
    <3> QED
      BY <2>1, <3>1
  <2>2. CASE ~(j < i)
    <3>1. j + 1 \in 1 .. Len(s) /\ j + 1 # i /\ r[j] = s[j + 1]
      BY <2>2, <1>0, <1>2
    <3> QED
      BY <2>2, <3>1
  <2> QED
    BY <2>1, <2>2
<1>4. \A h, j \in 1 .. Len(s) : s[h] = s[j] => h = j
  BY DEF IsList
<1>5. \A j \in 1 .. Len(s) : s[j] \in Nodes /\ own[s[j]] = c
  BY DEF IsList
<1>6. \A h, j \in 1 .. Len(r) : r[h] = r[j] => h = j
  <2> SUFFICES ASSUME NEW h \in 1 .. Len(r), NEW j \in 1 .. Len(r), r[h] = r[j]
               PROVE  h = j
    OBVIOUS
  <2>1. PICK x \in 1 .. Len(s) : r[h] = s[x] /\ x = IF h < i THEN h ELSE h + 1
    BY <1>3
  <2>2. PICK y \in 1 .. Len(s) : r[j] = s[y] /\ y = IF j < i THEN j ELSE j + 1
    BY <1>3
  <2>3. s[x] = s[y]
    BY <2>1, <2>2
  <2>4. x = y
    BY <2>3, <1>4
  <2> QED
    BY <2>1, <2>2, <2>4
<1>7. \A n \in Nodes : own2[n] = c <=> \E j \in 1 .. Len(r) : r[j] = n
  <2> SUFFICES ASSUME NEW n \in Nodes
               PROVE  own2[n] = c <=> \E j \in 1 .. Len(r) : r[j] = n
    OBVIOUS
  <2>1. CASE n = s[i]
    <3>1. own2[n] # c
      BY <2>1
    <3>2. ASSUME NEW j \in 1 .. Len(r), r[j] = n PROVE FALSE
      <4>1. PICK x \in 1 .. Len(s) : x # i /\ r[j] = s[x]
        BY <1>3
      <4> QED
        BY <2>1, <3>2, <4>1, <1>0, <1>4
    <3> QED
      BY <3>1, <3>2
  <2>2. CASE n # s[i]
    <3>1. own2[n] = own[n]
      BY <2>2
    <3>2. ASSUME own[n] = c PROVE \E j \in 1 .. Len(r) : r[j] = n
      <4>1. PICK h \in 1 .. Len(s) : s[h] = n
        BY <3>2 DEF IsList
      <4>2. h # i
        BY <2>2, <4>1
      <4>3. CASE h < i
        <5>1. h \in 1 .. Len(r) /\ r[h] = n
          BY <4>1, <4>3, <1>0, <1>2
        <5> QED
          BY <5>1
      <4>4. CASE ~(h < i)
        <5>1. h - 1 \in 1 .. Len(r) /\ ~(h - 1 < i) /\ (h - 1) + 1 = h
          BY <4>1, <4>2, <4>4, <1>0, <1>2
        <5>2. r[h - 1] = s[(h - 1) + 1]
          BY <5>1, <1>2
        <5> QED
          BY <4>1, <5>1, <5>2
      <4> QED
        BY <4>3, <4>4
    <3>3. ASSUME NEW j \in 1 .. Len(r), r[j] = n PROVE own[n] = c
      BY <3>3, <1>3, <1>5
    <3> QED
      BY <3>1, <3>2, <3>3
  <2> QED
    BY <2>1, <2>2
<1>8. p = At(r, 1)
  <2>1. r[1] = s[1] /\ 1 <= Len(r) /\ 1 <= Len(s)
    BY <1>0, <1>2
  <2>2. p = At(s, 1)
    BY DEF IsList
  <2> QED
    BY <2>1, <2>2 DEF At
<1>9. \A j \in 1 .. Len(r) : nx2[r[j]] = At(r, j + 1)
  <2> SUFFICES ASSUME NEW j \in 1 .. Len(r) PROVE nx2[r[j]] = At(r, j + 1)
    OBVIOUS
  <2>0. \A h \in 1 .. Len(s) : nx[s[h]] = At(s, h + 1)
    BY DEF IsList
  <2>1. CASE j + 1 < i
    <3>1. /\ j \in 1 .. Len(s) /\ r[j] = s[j] /\ j # i /\ j # i - 1
          /\ j + 1 \in 1 .. Len(r) /\ r[j + 1] = s[j + 1] /\ j + 1 <= Len(s)
      <4>1. /\ j \in 1 .. Len(s) /\ j < i /\ j # i /\ j # i - 1
            /\ j + 1 \in 1 .. Len(r) /\ j + 1 <= Len(s)
        BY <2>1, <1>0, <1>2
      <4> QED
        BY <4>1, <2>1, <1>2
    <3>2. s[j] # s[i] /\ s[j] # s[i - 1]
      BY <3>1, <1>0, <1>4
    <3>3. nx2[s[j]] = nx[s[j]]
      BY <3>1, <3>2, <1>5
    <3>4. nx[s[j]] = At(s, j + 1)
      BY <3>1, <2>0
    <3> QED
      BY <3>1, <3>3, <3>4 DEF At
  <2>2. CASE j + 1 = i
    <3>1. r[j] = s[i - 1] /\ i = j + 1
      BY <2>2, <1>0, <1>2
    <3>2. nx2[s[i - 1]] = At(s, i + 1)
      BY <2>0, <1>0
    <3>3. At(s, i + 1) = At(r, i)
      <4>1. CASE i <= Len(r)
        <5>1. r[i] = s[i + 1] /\ i + 1 <= Len(s)
          BY <4>1, <1>0, <1>2
        <5> QED
          BY <4>1, <5>1 DEF At
      <4>2. CASE ~(i <= Len(r))
        <5>1. ~(i + 1 <= Len(s))
          BY <4>2, <1>0, <1>2
        <5> QED
          BY <4>2, <5>1 DEF At
      <4> QED
        BY <4>1, <4>2
    <3> QED
      BY <3>1, <3>2, <3>3
  <2>3. CASE ~(j + 1 < i) /\ ~(j + 1 = i)
    <3>1. /\ j + 1 \in 1 .. Len(s) /\ r[j] = s[j + 1] /\ j + 1 # i /\ j + 1 # i - 1
          /\ ~(j < i)
      BY <2>3, <1>0, <1>2
    <3>2. s[j + 1] # s[i] /\ s[j + 1] # s[i - 1]
      BY <3>1, <1>0, <1>4
    <3>3. nx2[s[j + 1]] = nx[s[j + 1]]
      BY <3>1, <3>2, <1>5
    <3>4. nx[s[j + 1]] = At(s, (j + 1) + 1)
      BY <3>1, <2>0
    <3>5. At(s, (j + 1) + 1) = At(r, j + 1)
      <4>1. CASE j + 1 <= Len(r)
        <5>1. j + 1 \in 1 .. Len(r) /\ ~(j + 1 < i) /\ (j + 1) + 1 <= Len(s)
          BY <4>1, <3>1, <1>0, <1>2
        <5>2. r[j + 1] = s[(j + 1) + 1]
          BY <5>1, <1>2
        <5> QED
          BY <4>1, <5>1, <5>2 DEF At
      <4>2. CASE ~(j + 1 <= Len(r))
        <5>1. ~((j + 1) + 1 <= Len(s))
          BY <4>2, <1>0, <1>2
        <5> QED
          BY <4>2, <5>1 DEF At
      <4> QED
        BY <4>1, <4>2
    <3> QED
      BY <3>1, <3>3, <3>4, <3>5
  <2> QED
    BY <2>1, <2>2, <2>3
<1> QED
  BY <1>1, <1>2, <1>6, <1>7, <1>8, <1>9 DEF IsList

---------------------------------------------------------------------------
(* Counting owners *)

\* There are n numbers below n.
LEMMA Below ==
  ASSUME NEW n \in Nat
  PROVE  IsFiniteSet(0 .. n - 1) /\ Cardinality(0 .. n - 1) = n
<1>1. PICK m \in Int : m = n - 1
  OBVIOUS
<1>2. /\ IsFiniteSet(0 .. m)
      /\ Cardinality(0 .. m) = IF 0 > m THEN 0 ELSE m - 0 + 1
  BY <1>1, FS_Interval
<1>3. (IF 0 > m THEN 0 ELSE m - 0 + 1) = n
  BY <1>1
<1> QED
  BY <1>1, <1>2, <1>3

\* There are PerBlock nodes.
LEMMA NodesFinite == IsFiniteSet(Nodes) /\ Cardinality(Nodes) = PerBlock
  BY NilIsNone, Below DEF Nodes

\* What a count of owners can be.
LEMMA OwnedType ==
  ASSUME NEW own, NEW S
  PROVE  Owned(own, S) \in 0 .. PerBlock /\ IsFiniteSet({n \in Nodes : own[n] \in S})
<1> DEFINE T == {n \in Nodes : own[n] \in S}
<1>1. T \in SUBSET Nodes
  OBVIOUS
<1>2. IsFiniteSet(T) /\ Cardinality(T) <= Cardinality(Nodes)
  <2> HIDE DEF T
  <2> QED
    BY <1>1, NodesFinite, FS_Subset
<1>3. Cardinality(T) \in Nat
  <2> HIDE DEF T
  <2> QED
    BY <1>2, FS_CardinalityType
<1> QED
  BY <1>2, <1>3, NodesFinite, NilIsNone DEF Owned

\* Owned counts.
LEMMA OwnedNat ==
  ASSUME NEW own, NEW S
  PROVE  Owned(own, S) \in Nat
<1>1. Owned(own, S) \in 0 .. PerBlock
  BY OwnedType
<1> QED
  BY <1>1, NilIsNone

\* The count of S loses a node that leaves, gains one that comes, and keeps one
\* that stays inside or outside.
LEMMA OwnedLess ==
  ASSUME NEW own \in [Nodes -> Owners], NEW n \in Nodes, NEW d, NEW S,
         NEW own2, Moved(own, own2, n, d), own[n] \in S, d \notin S
  PROVE  Owned(own2, S) = Owned(own, S) - 1
<1>0. PICK A, B : A = {m \in Nodes : own[m] \in S} /\ B = {m \in Nodes : own2[m] \in S}
  OBVIOUS
<1>1. IsFiniteSet(A) /\ Owned(own, S) = Cardinality(A) /\ Owned(own2, S) = Cardinality(B)
  BY <1>0, OwnedType DEF Owned
<1>2. B = A \ {n} /\ n \in A
  BY <1>0 DEF Moved
<1> QED
  BY <1>1, <1>2, FS_RemoveElement

\* A node that comes to an owner in S adds one.
LEMMA OwnedMore ==
  ASSUME NEW own \in [Nodes -> Owners], NEW n \in Nodes, NEW d, NEW S,
         NEW own2, Moved(own, own2, n, d), own[n] \notin S, d \in S
  PROVE  Owned(own2, S) = Owned(own, S) + 1
<1>0. PICK A, B : A = {m \in Nodes : own[m] \in S} /\ B = {m \in Nodes : own2[m] \in S}
  OBVIOUS
<1>1. IsFiniteSet(A) /\ Owned(own, S) = Cardinality(A) /\ Owned(own2, S) = Cardinality(B)
  BY <1>0, OwnedType DEF Owned
<1>2. B = A \union {n} /\ n \notin A
  BY <1>0 DEF Moved
<1> QED
  BY <1>1, <1>2, FS_AddElement

\* A node that moves inside or outside of S changes nothing.
LEMMA OwnedSame ==
  ASSUME NEW own \in [Nodes -> Owners], NEW n \in Nodes, NEW d, NEW S,
         NEW own2, Moved(own, own2, n, d), own[n] \in S <=> d \in S
  PROVE  Owned(own2, S) = Owned(own, S)
<1>1. {m \in Nodes : own[m] \in S} = {m \in Nodes : own2[m] \in S}
  BY DEF Moved
<1> QED
  BY <1>1 DEF Owned

\* The same for a single owner.
OwnedBy(own, n, c) == own[n] = c

\* The same for one owner: the one that gives the node ...
LEMMA OneLess ==
  ASSUME NEW own \in [Nodes -> Owners], NEW n \in Nodes, NEW d, NEW c,
         NEW own2, Moved(own, own2, n, d), OwnedBy(own, n, c), d # c
  PROVE  Owned(own2, {c}) = Owned(own, {c}) - 1
<1>1. PICK S : S = {c}
  OBVIOUS
<1>2. own[n] \in S /\ d \notin S
  BY <1>1 DEF OwnedBy
<1>3. Owned(own2, S) = Owned(own, S) - 1
  BY <1>2, OwnedLess
<1> QED
  BY <1>1, <1>3

\* ... the one that gets it ...
LEMMA OneMore ==
  ASSUME NEW own \in [Nodes -> Owners], NEW n \in Nodes, NEW d,
         NEW own2, Moved(own, own2, n, d), own[n] # d
  PROVE  Owned(own2, {d}) = Owned(own, {d}) + 1
<1>1. PICK S : S = {d}
  OBVIOUS
<1>2. own[n] \notin S /\ d \in S
  BY <1>1
<1> QED
  BY <1>1, <1>2, OwnedMore

\* ... and all others.
LEMMA OneSame ==
  ASSUME NEW own \in [Nodes -> Owners], NEW n \in Nodes, NEW d, NEW c,
         NEW own2, Moved(own, own2, n, d), ~OwnedBy(own, n, c), d # c
  PROVE  Owned(own2, {c}) = Owned(own, {c})
<1>1. PICK S : S = {c}
  OBVIOUS
<1>2. own[n] \notin S /\ d \notin S
  BY <1>1 DEF OwnedBy
<1> QED
  BY <1>1, <1>2, OwnedSame

\* A list is as long as its owner has nodes.
LEMMA ListLength ==
  ASSUME NEW nx, NEW own, NEW p, NEW c, NEW s \in Seq(Nodes), IsList(nx, own, p, c, s)
  PROVE  Len(s) = Owned(own, {c}) /\ Len(s) \in 0 .. PerBlock
<1>1. PICK A, I : A = {n \in Nodes : own[n] \in {c}} /\ I = 1 .. Len(s)
  OBVIOUS
<1>2. s \in [I -> A]
  BY <1>1 DEF IsList
<1>3. s \in Bijection(I, A)
  <2>1. \A i, j \in I : s[i] = s[j] => i = j
    BY <1>1 DEF IsList
  <2>2. \A n \in A : \E i \in I : s[i] = n
    BY <1>1 DEF IsList
  <2> QED
    BY <1>2, <2>1, <2>2 DEF Bijection, Injection, Surjection, IsInjective
<1>4. Cardinality(A) = Len(s)
  <2>1. Len(s) \in Nat
    OBVIOUS
  <2>2. ExistsBijection(I, A)
    BY <1>3, Zenon DEF ExistsBijection
  <2> QED
    BY <1>1, <2>1, <2>2, FS_CountingElements
<1> QED
  BY <1>1, <1>4, OwnedType DEF Owned

---------------------------------------------------------------------------
(* Walking a list *)

\* Walk along the links nx.
WalkOf(nx, p) ==
  LET at[i \in 0 .. PerBlock] ==
        IF i = 0 THEN p ELSE IF at[i - 1] = Nil THEN Nil ELSE nx[at[i - 1]]
      n == Cardinality({i \in 0 .. PerBlock : at[i] # Nil})
  IN [i \in 1 .. n |-> at[i - 1]]

\* A walk visits the list.
LEMMA WalkOfList ==
  ASSUME NEW nx \in [Nodes -> Nodes \union {Nil}], NEW own, NEW c, NEW p,
         NEW s \in Seq(Nodes), IsList(nx, own, p, c, s)
  PROVE  WalkOf(nx, p) = s
<1> DEFINE S == Nodes \union {Nil}
           Body(f, i) == IF i = 0 THEN p
                         ELSE IF f[i - 1] = Nil THEN Nil ELSE nx[f[i - 1]]
           Eq(f) == f = [i \in 0 .. PerBlock |-> Body(f, i)]
           u == CHOOSE f : Eq(f)
           w == [i \in 0 .. PerBlock |-> At(s, i + 1)]
           N == {i \in 0 .. PerBlock : u[i] # Nil}
<1>0. PerBlock \in Nat /\ Len(s) \in Nat /\ Len(s) <= PerBlock
  <2>1. Len(s) = Owned(own, {c}) /\ Len(s) \in 0 .. PerBlock
    BY ListLength
  <2> QED
    BY <2>1, NilIsNone
<1>1. WalkOf(nx, p) = [i \in 1 .. Cardinality(N) |-> u[i - 1]]
  BY Zenon DEF WalkOf
<1>2. \A i \in 1 .. Len(s) : s[i] \in Nodes /\ s[i] # Nil /\ nx[s[i]] = At(s, i + 1)
  BY NilIsNone DEF IsList
<1>3. \A i \in 1 .. PerBlock :
        At(s, i + 1) = IF At(s, i) = Nil THEN Nil ELSE nx[At(s, i)]
  <2> SUFFICES ASSUME NEW i \in 1 .. PerBlock
               PROVE  At(s, i + 1) = IF At(s, i) = Nil THEN Nil ELSE nx[At(s, i)]
    OBVIOUS
  <2>1. CASE i <= Len(s)
    <3>1. i \in 1 .. Len(s) /\ At(s, i) = s[i]
      BY <2>1, <1>0 DEF At
    <3> QED
      BY <3>1, <1>2
  <2>2. CASE ~(i <= Len(s))
    <3>1. At(s, i) = Nil /\ At(s, i + 1) = Nil
      BY <2>2, <1>0 DEF At
    <3> QED
      BY <3>1
  <2> QED
    BY <2>1, <2>2
<1>4. Eq(w)
  <2>1. ASSUME NEW i \in 0 .. PerBlock PROVE w[i] = Body(w, i)
    <3>1. CASE i = 0
      <4>1. w[i] = At(s, 1)
        BY <3>1, <1>0
      <4> QED
        BY <3>1, <4>1 DEF IsList
    <3>2. CASE i # 0
      <4>1. i \in 1 .. PerBlock /\ i - 1 \in 0 .. PerBlock
        BY <3>2, <1>0
      <4>2. w[i] = At(s, i + 1) /\ w[i - 1] = At(s, i)
        BY <4>1, <1>0
      <4> QED
        BY <3>2, <4>1, <4>2, <1>3
    <3> QED
      BY <3>1, <3>2
  <2>2. DOMAIN w = 0 .. PerBlock /\ w = [i \in 0 .. PerBlock |-> w[i]]
    OBVIOUS
  <2> HIDE DEF Body, w
  <2> QED
    BY <2>1, <2>2
<1>5. Eq(u)
  <2> HIDE DEF Eq
  <2> QED
    BY <1>4
<1>6. u[0] = p /\ \A i \in 1 .. PerBlock :
        u[i] = IF u[i - 1] = Nil THEN Nil ELSE nx[u[i - 1]]
  <2> HIDE DEF u
  <2>1. \A i \in 0 .. PerBlock : u[i] = Body(u, i)
    <3> HIDE DEF Body
    <3> QED
      BY <1>5
  <2>2. u[0] = p
    BY <2>1, <1>0
  <2>3. ASSUME NEW i \in 1 .. PerBlock
        PROVE  u[i] = IF u[i - 1] = Nil THEN Nil ELSE nx[u[i - 1]]
    <3>1. i \in 0 .. PerBlock /\ i # 0
      BY <1>0
    <3> QED
      BY <2>1, <3>1
  <2> QED
    BY <2>2, <2>3
<1> HIDE DEF u
<1>7. \A i \in 0 .. PerBlock : u[i] = At(s, i + 1)
  <2> DEFINE T == {i \in 0 .. PerBlock : u[i] # At(s, i + 1)}
  <2> SUFFICES ASSUME T # {} PROVE FALSE
    OBVIOUS
  <2>1. T \in SUBSET Nat
    BY <1>0
  <2>2. PICK x \in T : \A y \in T : x <= y
    <3> HIDE DEF T
    <3> QED
      BY <2>1, LeastNat
  <2>3. x # 0
    BY <2>2, <1>6 DEF IsList
  <2>4. x \in 1 .. PerBlock /\ x - 1 \in 0 .. PerBlock /\ x - 1 \notin T
    BY <2>2, <2>3, <1>0
  <2>5. u[x - 1] = At(s, x)
    BY <2>4
  <2> QED
    BY <2>2, <2>4, <2>5, <1>3, <1>6
<1>8. Cardinality(N) = Len(s)
  <2>1. N = 0 .. Len(s) - 1
    <3>1. ASSUME NEW i \in 0 .. PerBlock PROVE u[i] # Nil <=> i \in 0 .. Len(s) - 1
      <4>1. CASE i + 1 <= Len(s)
        <5>1. i + 1 \in 1 .. Len(s)
          BY <4>1, <1>0
        <5> QED
          BY <4>1, <5>1, <1>0, <1>2, <1>7 DEF At
      <4>2. CASE ~(i + 1 <= Len(s))
        BY <4>2, <1>0, <1>7 DEF At
      <4> QED
        BY <4>1, <4>2
    <3> QED
      BY <3>1, <1>0
  <2>2. Cardinality(0 .. Len(s) - 1) = Len(s)
    BY <1>0, Below
  <2> QED
    BY <2>1, <2>2
<1>9. \A i \in 1 .. Len(s) : u[i - 1] = s[i]
  <2> SUFFICES ASSUME NEW i \in 1 .. Len(s) PROVE u[i - 1] = s[i]
    OBVIOUS
  <2>1. i - 1 \in 0 .. PerBlock /\ (i - 1) + 1 = i /\ i <= Len(s)
    BY <1>0
  <2> QED
    BY <2>1, <1>7 DEF At
<1>10. s = [i \in 1 .. Len(s) |-> s[i]]
  OBVIOUS
<1> QED
  BY <1>1, <1>8, <1>9, <1>10

\* Walk follows the current links.
LEMMA WalkIsWalkOf == \A p : Walk(p) = WalkOf(next, p)
  BY Zenon DEF Walk, WalkOf, Follow

---------------------------------------------------------------------------
(* The threads *)

\* One thread at most pops a node of a bucket, and the bucket goes on behind
\* that node.
HeadsOK ==
  /\ \A t, u \in Popping : migrate_idx[t] = migrate_idx[u] => t = u
  /\ \A t \in Popping : BucketHead(migrate_idx[t]) = list_node[t]
  /\ \A t \in Popping : PoppingAt(migrate_idx[t]) = {t}
  /\ \A b \in Buckets : PoppingAt(b) = {} => BucketHead(b) = list[b]
  /\ IsFiniteSet(Popping) /\ IsFiniteSet(Freeing)
  /\ \A b \in Buckets : IsFiniteSet(PoppingAt(b))

HeadOf(T, l, ln, b) == IF T = {} THEN l[b] ELSE ln[CHOOSE t \in T : TRUE]

\* BucketHead depends on the threads inside a pop of the bucket ...
LEMMA HeadIs == \A b : BucketHead(b) = HeadOf(PoppingAt(b), list, list_node, b)
  BY Zenon DEF BucketHead, PoppingAt, HeadOf

\* ... in the next state too.
LEMMA HeadIsNext ==
  \A b : BucketHead(b)' = HeadOf(PoppingAt(b)', list', list_node', b)
  BY Zenon DEF BucketHead, PoppingAt, HeadOf

\* There are finitely many threads and at least one.
LEMMA ThreadsFinite == IsFiniteSet(Threads) /\ ThreadNum \in Nat \ {0}
  BY SweeperAssumption, Below DEF Threads

\* At most one thread is inside a pop of a bucket, which decides its first node.
LEMMA Heads == PhaseInv => HeadsOK
<1> SUFFICES ASSUME PhaseInv PROVE HeadsOK
  OBVIOUS
<1>1. Popping \subseteq Threads /\ Freeing \subseteq Threads
  BY DEF Popping, Freeing
<1>2. \A t, u \in Popping : migrate_idx[t] = migrate_idx[u] => t = u
  <2>1. \A t \in Popping : migrate_idx[t] % ThreadNum = t
    BY <1>1 DEF PhaseInv
  <2> QED
    BY <2>1
<1>3. ASSUME NEW t \in Popping PROVE PoppingAt(migrate_idx[t]) = {t}
  BY <1>2 DEF PoppingAt
<1>4. ASSUME NEW t \in Popping PROVE BucketHead(migrate_idx[t]) = list_node[t]
  <2>1. {u \in Popping : migrate_idx[u] = migrate_idx[t]} = {t}
    BY <1>2
  <2>2. (CHOOSE u \in {t} : TRUE) = t
    OBVIOUS
  <2> QED
    BY <2>1, <2>2 DEF BucketHead
<1>5. ASSUME NEW b \in Buckets, PoppingAt(b) = {} PROVE BucketHead(b) = list[b]
  BY <1>5 DEF PoppingAt, BucketHead
<1>6. IsFiniteSet(Popping) /\ IsFiniteSet(Freeing)
  BY <1>1, ThreadsFinite, FS_Subset
<1>7. \A b \in Buckets : IsFiniteSet(PoppingAt(b))
  <2>1. \A b \in Buckets : PoppingAt(b) \subseteq Threads
    BY <1>1 DEF PoppingAt
  <2> QED
    BY <2>1, ThreadsFinite, FS_Subset
<1> QED
  BY <1>2, <1>3, <1>4, <1>5, <1>6, <1>7 DEF HeadsOK

\* The same in the next state.
LEMMA HeadsNext == PhaseInv' => HeadsOK'
  BY Heads, PTL

\* A step that moves threads but no node.
Quiet ==
  /\ UNCHANGED <<list, len, next, entry, free_head, free_node_num, used_block_num,
                 node, list_node, leaked>>
  /\ Popping' = Popping /\ Freeing' = Freeing
  /\ \A t \in Popping : migrate_idx'[t] = migrate_idx[t]
  /\ \A t \in Threads : tpc'[t] = "publish" => tpc[t] = "publish"

\* A quiet step keeps links, hands, counters and entries as they are owned ...
LEMMA QuietKeeps ==
  ASSUME NEW own, OwnInv(own), Quiet
  PROVE  OwnInv(own)'
<1>1. \A b \in Buckets : PoppingAt(b)' = PoppingAt(b) /\ BucketHead(b)' = BucketHead(b)
  <2> SUFFICES ASSUME NEW b \in Buckets
               PROVE  PoppingAt(b)' = PoppingAt(b) /\ BucketHead(b)' = BucketHead(b)
    OBVIOUS
  <2>1. {t \in Popping' : migrate_idx'[t] = b} = {t \in Popping : migrate_idx[t] = b}
    BY DEF Quiet
  <2>2. list' = list /\ list_node' = list_node
    BY DEF Quiet
  <2>3. PoppingAt(b)' = PoppingAt(b)
    BY <2>1 DEF PoppingAt
  <2>4. BucketHead(b)' = BucketHead(b)
    <3>1. BucketHead(b) = HeadOf(PoppingAt(b), list, list_node, b)
      BY HeadIs
    <3>2. BucketHead(b)' = HeadOf(PoppingAt(b)', list', list_node', b)
      BY HeadIsNext
    <3> QED
      BY <3>1, <3>2, <2>2, <2>3
  <2> QED
    BY <2>3, <2>4
<1>2. LinkInv(own)'
  BY <1>1 DEF OwnInv, LinkInv, Quiet
<1>3. HandInv(own)'
  BY DEF OwnInv, HandInv, Quiet
<1>4. CountInv(own)'
  BY <1>1 DEF OwnInv, CountInv, Quiet
<1>5. EntryInv(own)'
  BY DEF OwnInv, EntryInv, Quiet
<1> QED
  BY <1>2, <1>3, <1>4, <1>5 DEF OwnInv

\* ... and so the whole invariant, if it keeps the phases.
LEMMA QuietHash ==
  ASSUME HashInv, Quiet, TypeOK', PhaseInv', AbortMeansLeak'
  PROVE  HashInv'
<1>1. PICK own \in [Nodes -> Owners] : OwnInv(own)
  BY DEF HashInv
<1>2. OwnInv(own)'
  BY <1>1, QuietKeeps
<1> QED
  BY <1>2 DEF HashInv

\* Taking the lock moves no node.
LEMMA LockStep ==
  ASSUME HashInv, NEW t \in Threads, Lock(t)
  PROVE  HashInv' /\ Quiet
<1>1. TypeOK /\ PhaseInv /\ AbortMeansLeak
  BY DEF HashInv
<1>2. TypeOK'
  BY <1>1 DEF TypeOK, Lock, bucketVars, poolVars
<1>3. Popping' = Popping /\ Freeing' = Freeing
  BY <1>1 DEF Popping, Freeing, Lock, TypeOK
<1>4. Quiet
  BY <1>1, <1>3 DEF Quiet, Lock, TypeOK, bucketVars, poolVars
<1>5. PhaseInv'
  <2>1. t # None /\ \A u \in Threads : u # None
    BY SweeperAssumption DEF Threads, None
  <2>2. \A u \in Threads : tpc'[u] = IF u = t THEN "link" ELSE tpc[u]
    BY <1>1 DEF Lock, TypeOK
  <2>3. \A u \in Threads : tpc'[u] \in {"link", "publish", "unlock"} <=> free_node_lock' = u
    BY <1>1, <2>1, <2>2 DEF PhaseInv, Lock
  <2>4. wpc' # "migrate" => \A u \in Threads : tpc'[u] = "idle"
    BY <1>1 DEF PhaseInv, Lock
  <2> QED
    BY <1>1, <1>3, <2>3, <2>4 DEF PhaseInv, Lock
<1>6. AbortMeansLeak'
  BY <1>1 DEF AbortMeansLeak, Lock
<1> QED
  BY <1>2, <1>4, <1>5, <1>6, QuietHash

\* Nor does releasing it ...
LEMMA UnlockStep ==
  ASSUME HashInv, NEW t \in Threads, Unlock(t)
  PROVE  HashInv' /\ Quiet
<1>1. TypeOK /\ PhaseInv /\ AbortMeansLeak
  BY DEF HashInv
<1>2. TypeOK'
  BY <1>1 DEF TypeOK, Unlock, bucketVars, poolVars
<1>3. Popping' = Popping /\ Freeing' = Freeing
  BY <1>1 DEF Popping, Freeing, Unlock, TypeOK
<1>4. Quiet
  BY <1>1, <1>3 DEF Quiet, Unlock, TypeOK, bucketVars, poolVars
<1>5. PhaseInv'
  <2>1. t # None /\ \A u \in Threads : u # None
    BY SweeperAssumption DEF Threads, None
  <2>2. \A u \in Threads : tpc'[u] = IF u = t THEN "unhook" ELSE tpc[u]
    BY <1>1 DEF Unlock, TypeOK
  <2>3. \A u \in Threads : tpc'[u] \in {"link", "publish", "unlock"} <=> free_node_lock' = u
    BY <1>1, <2>1, <2>2 DEF PhaseInv, Unlock
  <2>4. wpc' # "migrate" => \A u \in Threads : tpc'[u] = "idle"
    BY <1>1 DEF PhaseInv, Unlock
  <2> QED
    BY <1>1, <1>3, <2>3, <2>4 DEF PhaseInv, Unlock
<1>6. AbortMeansLeak'
  BY <1>1 DEF AbortMeansLeak, Unlock
<1> QED
  BY <1>2, <1>4, <1>5, <1>6, QuietHash

\* ... or going on to the next bucket ...
LEMMA SkipStep ==
  ASSUME HashInv, NEW t \in Threads, Skip(t)
  PROVE  HashInv' /\ Quiet
<1>1. TypeOK /\ PhaseInv /\ AbortMeansLeak
  BY DEF HashInv
<1>0. /\ tpc[t] = "sweep" /\ wpc' = wpc /\ free_node_lock' = free_node_lock
      /\ leaked' = leaked
      /\ \/ tpc' = tpc /\ migrate_idx' = [migrate_idx EXCEPT ![t] = @ + ThreadNum]
         \/ tpc' = [tpc EXCEPT ![t] = "idle"] /\ migrate_idx' = migrate_idx
  BY DEF Skip
<1>2. TypeOK'
  BY <1>0, <1>1 DEF TypeOK, Skip, bucketVars, poolVars
<1>3. Popping' = Popping /\ Freeing' = Freeing /\ t \notin Popping
  BY <1>0, <1>1 DEF Popping, Freeing, TypeOK
<1>4. \A u \in Popping : migrate_idx'[u] = migrate_idx[u]
  BY <1>0, <1>1, <1>3 DEF PhaseInv, Popping, Freeing
<1>5. Quiet
  BY <1>0, <1>1, <1>3, <1>4 DEF Quiet, Skip, TypeOK, bucketVars, poolVars
<1>6. PhaseInv'
  <2>1. \A u \in Threads : tpc'[u] \in {"link", "publish", "unlock"} <=> free_node_lock' = u
    BY <1>0, <1>1 DEF PhaseInv, TypeOK
  <2>2. wpc' # "migrate" => \A u \in Threads : tpc'[u] = "idle"
    BY <1>0, <1>1 DEF PhaseInv, TypeOK
  <2>3. migrate_idx' \in [Threads -> Nat]
    BY <1>0, <1>1, ThreadsFinite DEF PhaseInv
  <2>4. \A u \in Threads : migrate_idx'[u] % ThreadNum = u
    <3>1. \A a \in Nat : (a + ThreadNum) % ThreadNum = a % ThreadNum
      BY ThreadsFinite, ResidueStep
    <3>2. ASSUME NEW u \in Threads
          PROVE  migrate_idx'[u] = migrate_idx[u] \/ migrate_idx'[u] = migrate_idx[u] + ThreadNum
      BY <1>0, <1>1 DEF PhaseInv
    <3>3. \A u \in Threads : migrate_idx[u] \in Nat /\ migrate_idx[u] % ThreadNum = u
      BY <1>1 DEF PhaseInv
    <3> QED
      BY <3>1, <3>2, <3>3
  <2>5. \A u \in Popping' : migrate_idx'[u] \in Buckets
    BY <1>1, <1>3, <1>4 DEF PhaseInv
  <2> QED
    BY <2>1, <2>2, <2>3, <2>4, <2>5 DEF PhaseInv
<1>7. AbortMeansLeak'
  BY <1>0, <1>1 DEF AbortMeansLeak
<1> QED
  BY <1>2, <1>5, <1>6, <1>7, QuietHash

\* ... or starting a migration ...
LEMMA MigrateStep ==
  ASSUME HashInv, Migrate
  PROVE  HashInv' /\ Quiet
<1>1. TypeOK /\ PhaseInv /\ AbortMeansLeak
  BY DEF HashInv
<1>2. TypeOK'
  BY <1>1 DEF TypeOK, Migrate, bucketVars, poolVars
<1>0. \A t \in Threads : tpc[t] = "idle" /\ tpc'[t] = "sweep"
  BY <1>1 DEF PhaseInv, Migrate
<1>3. Popping = {} /\ Freeing = {} /\ Popping' = {} /\ Freeing' = {}
  BY <1>0 DEF Popping, Freeing
<1>4. Quiet
  BY <1>0, <1>3 DEF Quiet, Migrate, bucketVars, poolVars
<1>5. PhaseInv'
  <2>1. \A t \in Threads : tpc'[t] \in {"link", "publish", "unlock"} <=> free_node_lock' = t
    BY <1>0, <1>1 DEF PhaseInv, Migrate
  <2>2. \A t \in Threads : migrate_idx'[t] \in Nat /\ migrate_idx'[t] % ThreadNum = t
    <3>1. \A t \in Threads : t \in Nat /\ t % ThreadNum = t
      BY ThreadsFinite, ModWrap DEF Threads
    <3> QED
      BY <3>1 DEF Migrate
  <2>3. migrate_idx' \in [Threads -> Nat]
    BY <2>2 DEF Migrate
  <2> QED
    BY <1>3, <2>1, <2>2, <2>3 DEF PhaseInv, Migrate
<1>6. AbortMeansLeak'
  BY DEF AbortMeansLeak, Migrate
<1> QED
  BY <1>2, <1>4, <1>5, <1>6, QuietHash

\* ... or ending one.
LEMMA MigratedStep ==
  ASSUME HashInv, Migrated
  PROVE  HashInv' /\ Quiet
<1>1. TypeOK /\ PhaseInv /\ AbortMeansLeak
  BY DEF HashInv
<1>2. TypeOK'
  BY <1>1 DEF TypeOK, Migrated, bucketVars, poolVars, threadVars
<1>3. Popping' = Popping /\ Freeing' = Freeing
  BY DEF Popping, Freeing, Migrated, threadVars
<1>4. Quiet
  BY <1>3 DEF Quiet, Migrated, bucketVars, poolVars, threadVars
<1>5. PhaseInv'
  BY <1>1, <1>3 DEF PhaseInv, Migrated, threadVars
<1>6. AbortMeansLeak'
  BY DEF AbortMeansLeak, Migrated
<1> QED
  BY <1>2, <1>4, <1>5, <1>6, QuietHash

\* The sequence s has the nodes of c, each once.
Enumerates(s, own, c) ==
  /\ s \in Seq(Nodes) /\ Len(s) = Owned(own, {c}) /\ DOMAIN s = 1 .. Len(s)
  /\ \A i \in DOMAIN s : s[i] \in Nodes /\ own[s[i]] = c
  /\ \A i, j \in DOMAIN s : s[i] = s[j] => i = j
  /\ \A n \in Nodes : own[n] = c => \E i \in DOMAIN s : s[i] = n
  /\ Range(s) = {n \in Nodes : own[n] = c}

\* A list enumerates the nodes of its owner.
LEMMA ListEnumerates ==
  ASSUME NEW nx, NEW own, NEW p, NEW c, NEW s, IsList(nx, own, p, c, s)
  PROVE  Enumerates(s, own, c)
<1>1. s \in Seq(Nodes)
  BY DEF IsList
<1>2. Len(s) = Owned(own, {c})
  BY <1>1, ListLength
<1>3. DOMAIN s = 1 .. Len(s)
  BY <1>1
<1>4. \A n \in Nodes : own[n] = c <=> \E i \in DOMAIN s : s[i] = n
  BY <1>3 DEF IsList
<1>5. \A i \in DOMAIN s : s[i] \in Nodes /\ own[s[i]] = c
  BY <1>1, <1>3, <1>4
<1>6. \A i, j \in DOMAIN s : s[i] = s[j] => i = j
  BY <1>3 DEF IsList
<1>7. Range(s) = {n \in Nodes : own[n] = c}
  BY <1>4, <1>5 DEF Range
<1> QED
  BY <1>1, <1>2, <1>3, <1>4, <1>5, <1>6, <1>7 DEF Enumerates

---------------------------------------------------------------------------
(* The entries of a bucket *)

EntriesOf(s, en) == [i \in DOMAIN s |-> en[s[i]]]

\* The entries of a bucket are those along its links ...
LEMMA EntriesAlong ==
  \A b : BucketEntries(b) = EntriesOf(WalkOf(next, BucketHead(b)), entry)
<1> SUFFICES ASSUME NEW b
             PROVE  BucketEntries(b) = EntriesOf(WalkOf(next, BucketHead(b)), entry)
  OBVIOUS
<1>1. BucketNodes(b) = WalkOf(next, BucketHead(b))
  BY WalkIsWalkOf, Zenon DEF BucketNodes
<1>2. BucketEntries(b) = EntriesOf(BucketNodes(b), entry)
  BY Zenon DEF BucketEntries, EntriesOf
<1> QED
  BY <1>1, <1>2

\* ... in the next state too.
LEMMA EntriesAlongNext ==
  \A b : BucketEntries(b)' = EntriesOf(WalkOf(next', BucketHead(b)'), entry')
<1>1. (\A b : BucketEntries(b) = EntriesOf(WalkOf(next, BucketHead(b)), entry))'
  BY EntriesAlong, PTL
<1> QED
  BY <1>1

\* A bucket's entries are those of the nodes on its list.
LEMMA EntriesAre ==
  ASSUME next \in [Nodes -> Nodes \union {Nil}], NEW own, NEW b, NEW s \in Seq(Nodes),
         IsList(next, own, BucketHead(b), b, s)
  PROVE  BucketEntries(b) = EntriesOf(s, entry)
<1>1. WalkOf(next, BucketHead(b)) = s
  BY WalkOfList
<1> QED
  BY <1>1, EntriesAlong

\* The same in the next state.
LEMMA EntriesAreNext ==
  ASSUME next' \in [Nodes -> Nodes \union {Nil}], NEW own, NEW b, NEW s \in Seq(Nodes),
         IsList(next', own, BucketHead(b)', b, s)
  PROVE  BucketEntries(b)' = EntriesOf(s, entry')
<1>1. WalkOf(next', BucketHead(b)') = s
  BY WalkOfList
<1> QED
  BY <1>1, EntriesAlongNext

\* The entries of a list that gains a head or loses a node.
AddsEntry(s, n, T, en, en2, e) ==
  /\ s \in Seq(Nodes) /\ n \in Nodes /\ e \in T /\ en2[n] = e
  /\ \A i \in DOMAIN s : en[s[i]] \in T /\ en2[s[i]] = en[s[i]]

\* A node pushed in front puts its entry in front.
LEMMA EntriesPush ==
  ASSUME NEW s, NEW n, NEW T, NEW en, NEW en2, NEW e, AddsEntry(s, n, T, en, en2, e)
  PROVE  EntriesOf(<<n>> \o s, en2) = <<e>> \o EntriesOf(s, en)
<1> SUFFICES ASSUME s \in Seq(Nodes), n \in Nodes, e \in T, en2[n] = e,
                    \A i \in DOMAIN s : en[s[i]] \in T /\ en2[s[i]] = en[s[i]]
             PROVE  EntriesOf(<<n>> \o s, en2) = <<e>> \o EntriesOf(s, en)
  BY DEF AddsEntry
<1>1. PICK r, E : r = <<n>> \o s /\ E = EntriesOf(s, en)
  OBVIOUS
<1>2. /\ Len(s) \in Nat /\ DOMAIN s = 1 .. Len(s) /\ DOMAIN r = 1 .. Len(s) + 1
      /\ r[1] = n /\ \A i \in 1 .. Len(s) : r[i + 1] = s[i]
  BY <1>1
<1>3. E = [i \in 1 .. Len(s) |-> en[s[i]]]
  BY <1>1, <1>2 DEF EntriesOf
<1>4. E \in [1 .. Len(s) -> T]
  BY <1>2, <1>3
<1>5. E \in Seq(T) /\ Len(E) = Len(s)
  BY <1>2, <1>3, <1>4
<1>6. PICK F : F = <<e>> \o E
  OBVIOUS
<1>7. /\ F \in Seq(T) /\ Len(F) = Len(s) + 1 /\ F[1] = e
      /\ \A i \in 1 .. Len(s) : F[i + 1] = E[i]
  BY <1>2, <1>5, <1>6
<1>8. ASSUME NEW i \in 1 .. Len(s) + 1 PROVE F[i] = en2[r[i]]
  <2>1. CASE i = 1
    BY <1>2, <1>7, <2>1
  <2>2. CASE i # 1
    <3>1. PICK j \in 1 .. Len(s) : i = j + 1
      <4>1. i - 1 \in 1 .. Len(s) /\ i = (i - 1) + 1
        BY <1>2, <2>2
      <4> QED
        BY <4>1
    <3>2. F[j + 1] = en[s[j]] /\ r[j + 1] = s[j]
      BY <1>2, <1>3, <1>7
    <3>3. en2[s[j]] = en[s[j]]
      BY <1>2
    <3> QED
      BY <3>1, <3>2, <3>3
  <2> QED
    BY <2>1, <2>2
<1>9. F = [i \in 1 .. Len(s) + 1 |-> F[i]]
  BY <1>2, <1>7
<1>10. EntriesOf(r, en2) = [i \in 1 .. Len(s) + 1 |-> en2[r[i]]]
  BY <1>2 DEF EntriesOf
<1> QED
  BY <1>1, <1>6, <1>8, <1>9, <1>10

\* A node taken out takes its entry out and no other.
LEMMA EntriesDrop ==
  ASSUME NEW s \in Seq(Nodes), NEW i \in 1 .. Len(s), NEW en, NEW en2,
         \A j \in 1 .. Len(s) : j # i => en2[s[j]] = en[s[j]]
  PROVE  EntriesOf(Drop(s, i), en2) = Drop(EntriesOf(s, en), i)
<1>1. PICK r, E, T : r = Drop(s, i) /\ E = EntriesOf(s, en) /\ T = {en[s[j]] : j \in 1 .. Len(s)}
  OBVIOUS
<1>2. /\ r \in Seq(Nodes) /\ Len(r) = Len(s) - 1
      /\ \A j \in 1 .. Len(s) - 1 : r[j] = IF j < i THEN s[j] ELSE s[j + 1]
  BY <1>1, DropIsSeq
<1>3. Len(s) \in Nat /\ DOMAIN s = 1 .. Len(s) /\ DOMAIN r = 1 .. Len(s) - 1
  BY <1>2
<1>4. E = [j \in 1 .. Len(s) |-> en[s[j]]]
  BY <1>1, <1>3 DEF EntriesOf
<1>5. E \in [1 .. Len(s) -> T]
  BY <1>1, <1>4
<1>6. E \in Seq(T) /\ Len(E) = Len(s)
  BY <1>3, <1>4, <1>5
<1>7. Drop(E, i) = [j \in 1 .. Len(s) - 1 |-> IF j < i THEN E[j] ELSE E[j + 1]]
  BY <1>6 DEF Drop
<1>8. EntriesOf(r, en2) = [j \in 1 .. Len(s) - 1 |-> en2[r[j]]]
  BY <1>3 DEF EntriesOf
<1>9. ASSUME NEW j \in 1 .. Len(s) - 1
      PROVE  en2[r[j]] = IF j < i THEN E[j] ELSE E[j + 1]
  <2>1. CASE j < i
    <3>1. j \in 1 .. Len(s) /\ j # i /\ r[j] = s[j]
      BY <1>2, <1>3, <2>1
    <3> QED
      BY <1>4, <2>1, <3>1
  <2>2. CASE ~(j < i)
    <3>1. j + 1 \in 1 .. Len(s) /\ j + 1 # i /\ r[j] = s[j + 1]
      BY <1>2, <1>3, <2>2
    <3> QED
      BY <1>4, <2>2, <3>1
  <2> QED
    BY <2>1, <2>2
<1> QED
  BY <1>1, <1>7, <1>8, <1>9

\* The tail is what is left without the first element.
LEMMA TailIsDrop ==
  ASSUME NEW S, NEW s \in Seq(S), s # <<>>
  PROVE  Tail(s) = Drop(s, 1) /\ 1 \in 1 .. Len(s)
<1>1. Len(s) \in Nat /\ 1 \in 1 .. Len(s)
  OBVIOUS
<1>0. PICK r : r = Tail(s)
  OBVIOUS
<1>2. /\ r \in Seq(S) /\ Len(r) = Len(s) - 1
      /\ \A j \in 1 .. Len(s) - 1 : r[j] = s[j + 1]
  BY <1>0
<1>5. r = [j \in 1 .. Len(s) - 1 |-> r[j]]
  BY <1>1, <1>2
<1>3. Tail(s) = [j \in 1 .. Len(s) - 1 |-> s[j + 1]]
  BY <1>0, <1>2, <1>5
<1>4. \A j \in 1 .. Len(s) - 1 : ~(j < 1)
  BY <1>1
<1> QED
  BY <1>1, <1>3, <1>4 DEF Drop

\* The buckets hold the same entries as before.
SameEntries == \A b \in Buckets : BucketEntries(b)' = BucketEntries(b)

\* Same links, same entries and same first nodes give the same lists of entries.
LEMMA SameWalk ==
  ASSUME next' = next, entry' = entry, \A b \in Buckets : BucketHead(b)' = BucketHead(b)
  PROVE  SameEntries
  BY EntriesAlong, EntriesAlongNext DEF SameEntries

\* A quiet step changes no list of entries and no count.
LEMMA QuietEntries ==
  ASSUME Quiet
  PROVE  SameEntries /\ Freeing' = Freeing /\ free_node_num' = free_node_num
<1>1. \A b \in Buckets : PoppingAt(b)' = PoppingAt(b)
  BY DEF Quiet, PoppingAt
<1>2. \A b \in Buckets : BucketHead(b)' = BucketHead(b)
  BY <1>1, HeadIs, HeadIsNext DEF Quiet
<1> QED
  BY <1>2, SameWalk DEF Quiet

---------------------------------------------------------------------------
(* Steps that move nodes *)

\* The owners are different.
LEMMA OwnersApart ==
  /\ \A b \in Buckets : b # Pool /\ b # Hand /\ b # Lost
  /\ Pool # Hand /\ Pool # Lost /\ Hand # Lost
  /\ Pool \notin Buckets /\ Hand \notin Buckets /\ Lost \notin Buckets
  /\ Pool \in Owners /\ Hand \in Owners /\ Lost \in Owners /\ Buckets \subseteq Owners
  BY SegmentAssumption DEF Buckets, Pool, Hand, Lost, Owners

\* A list of nobody's nodes.
LEMMA ListEmpty ==
  ASSUME NEW nx, NEW own, NEW c, \A n \in Nodes : own[n] # c
  PROVE  IsList(nx, own, Nil, c, <<>>)
  BY DEF IsList, At

\* At the start the pool owns every node.
LEMMA InitInv == Init => HashInv
<1> SUFFICES ASSUME Init PROVE HashInv
  OBVIOUS
<1>0. PerBlock \in Nat \ {0} /\ ThreadNum \in Nat \ {0}
  BY NilIsNone, ThreadsFinite
<1>1. TypeOK
  BY <1>0 DEF Init, TypeOK, Nodes, PoolSize
<1>2. Popping = {} /\ Freeing = {}
  BY DEF Popping, Freeing, Init
<1>3. PhaseInv
  <2>1. \A t \in Threads : t \in Nat /\ t % ThreadNum = t /\ t # None
    BY <1>0, ModWrap DEF Threads, None
  <2> QED
    BY <1>2, <2>1 DEF PhaseInv, Init
<1>4. AbortMeansLeak
  BY DEF AbortMeansLeak, Init
<1>5. PICK own \in [Nodes -> Owners] : \A n \in Nodes : own[n] = Pool
  <2>1. [n \in Nodes |-> Pool] \in [Nodes -> Owners]
    BY OwnersApart
  <2> QED
    BY <2>1
<1>6. \A b \in Buckets : PoppingAt(b) = {} /\ BucketHead(b) = Nil
  BY <1>2, <1>3, Heads DEF PoppingAt, HeadsOK, Init
<1>7. LinkInv(own)
  <2>1. PICK s : s = [i \in 1 .. PerBlock |-> PerBlock - i]
    OBVIOUS
  <2>2. s \in Seq(Nodes) /\ Len(s) = PerBlock /\ \A i \in 1 .. PerBlock : s[i] = PerBlock - i
    <3>1. \A i \in 1 .. PerBlock : PerBlock - i \in Nodes
      BY <1>0 DEF Nodes
    <3>2. s \in [1 .. PerBlock -> Nodes]
      BY <2>1, <3>1
    <3> QED
      BY <1>0, <2>1, <3>2
  <2>3. \A i, j \in 1 .. Len(s) : s[i] = s[j] => i = j
    BY <1>0, <2>2
  <2>4. \A n \in Nodes : \E i \in 1 .. Len(s) : s[i] = n
    <3> SUFFICES ASSUME NEW n \in Nodes PROVE \E i \in 1 .. Len(s) : s[i] = n
      OBVIOUS
    <3>1. PerBlock - n \in 1 .. PerBlock /\ PerBlock - (PerBlock - n) = n
      BY <1>0 DEF Nodes
    <3> QED
      BY <2>2, <3>1
  <2>5. free_head = At(s, 1)
    BY <1>0, <2>2 DEF At, Init
  <2>6. \A i \in 1 .. Len(s) : next[s[i]] = At(s, i + 1)
    <3> SUFFICES ASSUME NEW i \in 1 .. PerBlock PROVE next[PerBlock - i] = At(s, i + 1)
      BY <2>2
    <3>1. PerBlock - i \in Nodes
      BY <1>0 DEF Nodes
    <3>2. next[PerBlock - i] = IF PerBlock - i = 0 THEN Nil ELSE (PerBlock - i) - 1
      BY <3>1 DEF Init
    <3>3. CASE i = PerBlock
      BY <3>2, <3>3, <1>0, <2>2 DEF At
    <3>4. CASE i # PerBlock
      <4>1. i + 1 \in 1 .. PerBlock /\ PerBlock - i # 0
        BY <3>4, <1>0
      <4>2. At(s, i + 1) = PerBlock - (i + 1)
        BY <4>1, <2>2 DEF At
      <4> QED
        BY <3>2, <4>1, <4>2, <1>0
    <3> QED
      BY <3>3, <3>4
  <2>7. IsList(next, own, free_head, Pool, s)
    BY <1>5, <2>2, <2>3, <2>4, <2>5, <2>6 DEF IsList
  <2>8. \A b \in Buckets : IsList(next, own, BucketHead(b), b, <<>>)
    BY <1>5, <1>6, OwnersApart, ListEmpty
  <2>9. \A t \in Threads : tpc[t] # "publish"
    BY DEF Init
  <2>10. <<>> \in Seq(Nodes)
    BY EmptySeq
  <2> QED
    BY <2>2, <2>7, <2>8, <2>9, <2>10 DEF LinkInv, Listed
<1>8. HandInv(own)
  BY <1>2, <1>5, OwnersApart DEF HandInv, Init
<1>9. CountInv(own)
  <2>1. Owned(own, {Pool}) = PerBlock
    <3>1. {n \in Nodes : own[n] \in {Pool}} = Nodes
      BY <1>5
    <3> QED
      BY <3>1, NodesFinite DEF Owned
  <2>2. ASSUME NEW S, Pool \notin S PROVE Owned(own, S) = 0
    <3>1. {n \in Nodes : own[n] \in S} = {}
      BY <1>5, <2>2
    <3> QED
      BY <3>1, FS_EmptySet DEF Owned
  <2>3. Owned(own, Buckets) = 0 /\ \A b \in Buckets : Owned(own, {b}) = 0
    BY <2>2, OwnersApart
  <2>4. Cardinality({}) = 0
    BY FS_EmptySet
  <2>5. free_node_num = PerBlock /\ used_block_num = 0 /\ \A b \in Buckets : len[b] = 0
    BY DEF Init, PoolSize
  <2>6. /\ Cardinality(Popping) = 0
        /\ \A b \in Buckets : Cardinality(PoppingAt(b)) = 0
    BY <1>2, <1>6, <2>4
  <2>7. \A b \in Buckets : len[b] = Owned(own, {b}) + Cardinality(PoppingAt(b))
    BY <2>3, <2>5, <2>6
  <2>8. used_block_num = Owned(own, Buckets) + Cardinality(Popping)
    BY <2>3, <2>5, <2>6
  <2> QED
    BY <2>1, <2>5, <2>7, <2>8 DEF CountInv
<1>10. EntryInv(own)
  BY <1>5, OwnersApart DEF EntryInv
<1> QED
  BY <1>1, <1>3, <1>4, <1>5, <1>7, <1>8, <1>9, <1>10 DEF HashInv, OwnInv

\* A node in hand is linked to the pool: nobody else follows its link.
LEMMA LinkStep ==
  ASSUME HashInv, NEW t \in Threads, Link(t)
  PROVE  HashInv' /\ SameEntries /\ Freeing' = Freeing
<1>1. TypeOK /\ PhaseInv /\ AbortMeansLeak
  BY DEF HashInv
<1>2. PICK own \in [Nodes -> Owners] : OwnInv(own)
  BY DEF HashInv
<1>3. /\ tpc[t] = "link" /\ tpc' = [tpc EXCEPT ![t] = "publish"]
      /\ next' = [next EXCEPT ![node[t]] = free_head]
      /\ UNCHANGED <<list, len, entry, free_head, free_node_num, free_node_lock,
                     used_block_num, wpc, migrate_idx, node, list_node, leaked>>
  BY DEF Link, bucketVars
<1>4. \A u \in Threads : tpc'[u] = IF u = t THEN "publish" ELSE tpc[u]
  BY <1>1, <1>3 DEF TypeOK
<1>5. t \in Freeing /\ Popping' = Popping /\ Freeing' = Freeing
  BY <1>3, <1>4 DEF Popping, Freeing
<1>6. node[t] \in Nodes /\ own[node[t]] = Hand
  BY <1>2, <1>5 DEF OwnInv, HandInv
<1>7. TypeOK'
  BY <1>1, <1>3, <1>6 DEF TypeOK
<1>8. PhaseInv'
  <2>1. \A u \in Threads : tpc'[u] \in {"link", "publish", "unlock"} <=> free_node_lock' = u
    BY <1>1, <1>3, <1>4 DEF PhaseInv
  <2>2. wpc' # "migrate" => \A u \in Threads : tpc'[u] = "idle"
    BY <1>1, <1>3 DEF PhaseInv
  <2> QED
    BY <1>1, <1>3, <1>5, <2>1, <2>2 DEF PhaseInv
<1>9. AbortMeansLeak'
  BY <1>1, <1>3 DEF AbortMeansLeak
<1>10. \A b \in Buckets : PoppingAt(b)' = PoppingAt(b) /\ BucketHead(b)' = BucketHead(b)
  <2>1. \A b \in Buckets : PoppingAt(b)' = PoppingAt(b)
    BY <1>3, <1>5 DEF PoppingAt
  <2> QED
    BY <1>3, <2>1, HeadIs, HeadIsNext
<1>11. \A n \in Nodes : own[n] # Hand => next'[n] = next[n]
  BY <1>1, <1>3, <1>6 DEF TypeOK
<1>12. \A c, p : c # Hand /\ Listed(next, own, p, c) => Listed(next', own, p, c)
  <2> SUFFICES ASSUME NEW c, NEW p, c # Hand, Listed(next, own, p, c)
               PROVE  Listed(next', own, p, c)
    OBVIOUS
  <2>1. PICK s \in Seq(Nodes) : IsList(next, own, p, c, s)
    BY DEF Listed
  <2>2. IsList(next', own, p, c, s)
    BY <1>11, <2>1, ListSame
  <2> QED
    BY <2>2 DEF Listed
<1>13. LinkInv(own)'
  <2>1. Listed(next', own, free_head', Pool)
    BY <1>2, <1>3, <1>12, OwnersApart DEF OwnInv, LinkInv
  <2>2. \A b \in Buckets : Listed(next', own, BucketHead(b)', b)
    BY <1>2, <1>10, <1>12, OwnersApart DEF OwnInv, LinkInv
  <2>3. \A u \in Threads : tpc'[u] = "publish" => u = t
    BY <1>1, <1>3, <1>4 DEF PhaseInv
  <2>4. next'[node'[t]] = free_head'
    BY <1>1, <1>3, <1>6 DEF TypeOK
  <2> QED
    BY <2>1, <2>2, <2>3, <2>4 DEF LinkInv
<1>14. HandInv(own)'
  BY <1>2, <1>3, <1>5 DEF OwnInv, HandInv
<1>15. CountInv(own)'
  BY <1>2, <1>3, <1>5, <1>10 DEF OwnInv, CountInv
<1>16. EntryInv(own)'
  BY <1>2, <1>3 DEF OwnInv, EntryInv
<1>17. SameEntries
  <2> SUFFICES ASSUME NEW b \in Buckets PROVE BucketEntries(b)' = BucketEntries(b)
    BY DEF SameEntries
  <2>1. PICK p : p = BucketHead(b)
    OBVIOUS
  <2>2. PICK s \in Seq(Nodes) : IsList(next, own, p, b, s)
    BY <1>2, <2>1 DEF OwnInv, LinkInv, Listed
  <2>3. Kept(next, next', own, own, b)
    BY <1>11, OwnersApart DEF Kept
  <2>4. IsList(next', own, p, b, s)
    BY <2>2, <2>3, ListKept
  <2>5. BucketEntries(b) = EntriesOf(s, entry)
    BY <1>1, <2>1, <2>2, EntriesAre DEF TypeOK
  <2>6. BucketEntries(b)' = EntriesOf(s, entry')
    BY <1>7, <1>10, <2>1, <2>4, EntriesAreNext DEF TypeOK
  <2> QED
    BY <1>3, <2>5, <2>6
<1> QED
  BY <1>5, <1>17, <1>7, <1>8, <1>9, <1>13, <1>14, <1>15, <1>16 DEF HashInv, OwnInv

\* The node goes from the hand to the pool.
LEMMA PublishStep ==
  ASSUME HashInv, NEW t \in Threads, Publish(t)
  PROVE  /\ HashInv' /\ SameEntries
         /\ t \in Freeing /\ Freeing' = Freeing \ {t}
<1>1. TypeOK /\ PhaseInv /\ AbortMeansLeak
  BY DEF HashInv
<1>2. PICK own \in [Nodes -> Owners] : OwnInv(own)
  BY DEF HashInv
<1>3. /\ tpc[t] = "publish" /\ tpc' = [tpc EXCEPT ![t] = "unlock"]
      /\ free_head' = node[t] /\ free_node_num' = free_node_num + 1
      /\ UNCHANGED <<list, len, next, entry, free_node_lock, used_block_num, wpc,
                     migrate_idx, node, list_node, leaked>>
  BY DEF Publish, bucketVars
<1>4. \A u \in Threads : tpc'[u] = IF u = t THEN "unlock" ELSE tpc[u]
  BY <1>1, <1>3 DEF TypeOK
<1>5. t \in Freeing /\ Popping' = Popping /\ Freeing' = Freeing \ {t}
  BY <1>3, <1>4 DEF Popping, Freeing
<1>6. node[t] \in Nodes /\ own[node[t]] = Hand /\ next[node[t]] = free_head
  BY <1>2, <1>3, <1>5 DEF OwnInv, HandInv, LinkInv
<1>7. PICK o2 : o2 = [own EXCEPT ![node[t]] = Pool]
  OBVIOUS
<1>8. /\ o2 \in [Nodes -> Owners] /\ o2[node[t]] = Pool
      /\ \A n \in Nodes : n # node[t] => o2[n] = own[n]
  BY <1>6, <1>7, OwnersApart
<1>9. \A b \in Buckets : PoppingAt(b)' = PoppingAt(b) /\ BucketHead(b)' = BucketHead(b)
  <2>1. \A b \in Buckets : PoppingAt(b)' = PoppingAt(b)
    BY <1>3, <1>5 DEF PoppingAt
  <2> QED
    BY <1>3, <2>1, HeadIs, HeadIsNext
<1>10. LinkInv(o2)'
  <2>1. Listed(next', o2, free_head', Pool)
    <3>1. PICK s \in Seq(Nodes) : IsList(next, own, free_head, Pool, s)
      BY <1>2 DEF OwnInv, LinkInv, Listed
    <3>2. IsList(next, o2, node[t], Pool, <<node[t]>> \o s)
      BY <1>6, <1>7, <3>1, OwnersApart, ListPush
    <3>3. <<node[t]>> \o s \in Seq(Nodes)
      BY <1>6
    <3> QED
      BY <1>3, <3>2, <3>3 DEF Listed
  <2>2. ASSUME NEW b \in Buckets PROVE Listed(next', o2, BucketHead(b)', b)
    <3>1. PICK s \in Seq(Nodes) : IsList(next, own, BucketHead(b), b, s)
      BY <1>2 DEF OwnInv, LinkInv, Listed
    <3>2. \A n \in Nodes : o2[n] = b <=> own[n] = b
      BY <1>6, <1>8, OwnersApart
    <3>3. IsList(next, o2, BucketHead(b), b, s)
      BY <3>1, <3>2, ListSame
    <3> QED
      BY <1>3, <1>9, <3>3 DEF Listed
  <2>3. \A u \in Threads : tpc'[u] # "publish"
    BY <1>1, <1>3, <1>4 DEF PhaseInv
  <2> QED
    BY <2>1, <2>2, <2>3 DEF LinkInv
<1>11. HandInv(o2)'
  <2>1. \A u \in Freeing' : node[u] \in Nodes /\ own[node[u]] = Hand /\ node[u] # node[t]
    BY <1>2, <1>5 DEF OwnInv, HandInv
  <2>2. \A u \in Freeing' : node'[u] \in Nodes /\ o2[node'[u]] = Hand
    BY <1>3, <1>8, <2>1
  <2>3. \A u, v \in Freeing' : node'[u] = node'[v] => u = v
    BY <1>2, <1>3, <1>5 DEF OwnInv, HandInv
  <2>4. ASSUME NEW n \in Nodes, o2[n] = Hand PROVE \E u \in Freeing' : node'[u] = n
    <3>1. n # node[t] /\ own[n] = Hand
      BY <1>8, <2>4, OwnersApart
    <3>2. PICK u \in Freeing : node[u] = n
      BY <1>2, <3>1 DEF OwnInv, HandInv
    <3> QED
      BY <1>3, <1>5, <3>1, <3>2
  <2>5. \A n \in Nodes : o2[n] = Lost <=> n \in leaked'
    <3>1. \A n \in Nodes : o2[n] = Lost <=> own[n] = Lost
      BY <1>6, <1>8, OwnersApart
    <3> QED
      BY <1>2, <1>3, <3>1 DEF OwnInv, HandInv
  <2> QED
    BY <2>2, <2>3, <2>4, <2>5 DEF HandInv
<1>12. CountInv(o2)'
  <2>0. Moved(own, o2, node[t], Pool)
    BY <1>7 DEF Moved
  <2>1. Owned(o2, {Pool}) = Owned(own, {Pool}) + 1
    BY <1>6, <2>0, OwnersApart, OwnedMore
  <2>2. Owned(o2, Buckets) = Owned(own, Buckets)
    BY <1>6, <2>0, OwnersApart, OwnedSame
  <2>3. ASSUME NEW b \in Buckets PROVE Owned(o2, {b}) = Owned(own, {b})
    BY <1>6, <2>0, OwnersApart, OwnedSame
  <2> QED
    BY <1>2, <1>3, <1>5, <1>9, <2>1, <2>2, <2>3 DEF OwnInv, CountInv
<1>13. EntryInv(o2)'
  <2>1. \A n \in Nodes : o2[n] \in Buckets => o2[n] = own[n]
    BY <1>8, OwnersApart
  <2> QED
    BY <1>2, <1>3, <2>1 DEF OwnInv, EntryInv
<1>14. TypeOK'
  <2>1. free_node_num' \in 0 .. PerBlock
    BY <1>12, OwnedType DEF CountInv
  <2> QED
    BY <1>1, <1>3, <1>6, <2>1 DEF TypeOK
<1>15. PhaseInv'
  <2>1. \A u \in Threads : tpc'[u] \in {"link", "publish", "unlock"} <=> free_node_lock' = u
    BY <1>1, <1>3, <1>4 DEF PhaseInv
  <2>2. wpc' # "migrate" => \A u \in Threads : tpc'[u] = "idle"
    BY <1>1, <1>3 DEF PhaseInv
  <2> QED
    BY <1>1, <1>3, <1>5, <2>1, <2>2 DEF PhaseInv
<1>16. AbortMeansLeak'
  BY <1>1, <1>3 DEF AbortMeansLeak
<1>17. SameEntries
  BY <1>3, <1>9, SameWalk
<1> QED
  BY <1>5, <1>17, <1>8, <1>10, <1>11, <1>12, <1>13, <1>14, <1>15, <1>16 DEF HashInv, OwnInv

\* The bucket goes on behind the node; its list started there already.
LEMMA UnhookStep ==
  ASSUME HashInv, NEW t \in Threads, Unhook(t)
  PROVE  HashInv' /\ SameEntries /\ Freeing' = Freeing
<1>1. TypeOK /\ PhaseInv /\ AbortMeansLeak
  BY DEF HashInv
<1>2. PICK own \in [Nodes -> Owners] : OwnInv(own)
  BY DEF HashInv
<1>3. PICK c : c = migrate_idx[t]
  OBVIOUS
<1>4. /\ tpc[t] = "unhook" /\ tpc' = [tpc EXCEPT ![t] = "sweep"]
      /\ list' = [list EXCEPT ![c] = list_node[t]]
      /\ len' = [len EXCEPT ![c] = @ - 1]
      /\ used_block_num' = used_block_num - 1
      /\ node' = [node EXCEPT ![t] = Nil]
      /\ list_node' = [list_node EXCEPT ![t] = Nil]
      /\ UNCHANGED <<next, entry, free_head, free_node_num, free_node_lock, wpc,
                     migrate_idx, leaked>>
  BY <1>3 DEF Unhook, poolVars
<1>5. \A u \in Threads : tpc'[u] = IF u = t THEN "sweep" ELSE tpc[u]
  BY <1>1, <1>4 DEF TypeOK
<1>6. t \in Popping /\ t \notin Freeing /\ Popping' = Popping \ {t} /\ Freeing' = Freeing
  BY <1>4, <1>5 DEF Popping, Freeing
<1>7. PhaseInv'
  <2>1. \A u \in Threads : tpc'[u] \in {"link", "publish", "unlock"} <=> free_node_lock' = u
    BY <1>1, <1>4, <1>5 DEF PhaseInv
  <2>2. wpc' # "migrate" => \A u \in Threads : tpc'[u] = "idle"
    BY <1>1, <1>4 DEF PhaseInv
  <2> QED
    BY <1>1, <1>4, <1>6, <2>1, <2>2 DEF PhaseInv
<1>8. HeadsOK /\ HeadsOK'
  BY <1>1, <1>7, Heads, HeadsNext
<1>9. c \in Buckets /\ BucketHead(c) = list_node[t] /\ PoppingAt(c) = {t}
  BY <1>1, <1>3, <1>6, <1>8 DEF PhaseInv, HeadsOK
<1>10. /\ PoppingAt(c)' = {}
       /\ \A b \in Buckets : b # c => PoppingAt(b)' = PoppingAt(b) /\ t \notin PoppingAt(b)
  <2>1. \A b \in Buckets : PoppingAt(b)' = PoppingAt(b) \ {t}
    BY <1>4, <1>6 DEF PoppingAt
  <2>2. \A b \in Buckets : b # c => t \notin PoppingAt(b)
    BY <1>3 DEF PoppingAt
  <2> QED
    BY <1>9, <2>1, <2>2
<1>11. \A b \in Buckets : BucketHead(b)' = BucketHead(b)
  <2> SUFFICES ASSUME NEW b \in Buckets PROVE BucketHead(b)' = BucketHead(b)
    OBVIOUS
  <2>1. CASE b = c
    <3>1. BucketHead(c)' = list'[c]
      BY <1>8, <1>9, <1>10 DEF HeadsOK
    <3>2. list'[c] = list_node[t]
      BY <1>1, <1>4, <1>9 DEF TypeOK
    <3> QED
      BY <1>9, <2>1, <3>1, <3>2
  <2>2. CASE b # c /\ PoppingAt(b) = {}
    <3>1. BucketHead(b)' = list'[b] /\ BucketHead(b) = list[b]
      BY <1>8, <1>10, <2>2 DEF HeadsOK
    <3> QED
      BY <1>1, <1>4, <2>2, <3>1 DEF TypeOK
  <2>3. CASE b # c /\ PoppingAt(b) # {}
    <3>1. PICK u \in PoppingAt(b) : TRUE
      BY <2>3
    <3>2. u \in Popping /\ migrate_idx[u] = b /\ u # t /\ u \in Popping' /\ migrate_idx'[u] = b
      BY <1>3, <1>4, <1>6, <2>3, <3>1 DEF PoppingAt
    <3>3. BucketHead(b) = list_node[u] /\ BucketHead(b)' = list_node'[u]
      BY <1>8, <3>2 DEF HeadsOK
    <3>4. list_node'[u] = list_node[u]
      BY <1>1, <1>4, <3>2 DEF TypeOK, Popping, Freeing
    <3> QED
      BY <3>3, <3>4
  <2> QED
    BY <2>1, <2>2, <2>3
<1>12. LinkInv(own)'
  <2>1. \A u \in Threads : tpc'[u] = "publish" => tpc[u] = "publish" /\ node'[u] = node[u]
    BY <1>1, <1>4, <1>5 DEF TypeOK
  <2> QED
    BY <1>2, <1>4, <1>11, <2>1 DEF OwnInv, LinkInv
<1>13. HandInv(own)'
  <2>1. \A u \in Freeing : node'[u] = node[u]
    BY <1>1, <1>4, <1>6 DEF TypeOK, Freeing
  <2> QED
    BY <1>2, <1>4, <1>6, <2>1 DEF OwnInv, HandInv
<1>14. CountInv(own)'
  <2>1. Cardinality(Popping') = Cardinality(Popping) - 1
    BY <1>6, <1>8, FS_RemoveElement DEF HeadsOK
  <2>2. Cardinality(Popping) \in Nat
    BY <1>8, FS_CardinalityType DEF HeadsOK
  <2>3. used_block_num' = Owned(own, Buckets) + Cardinality(Popping')
    <3>1. used_block_num = Owned(own, Buckets) + Cardinality(Popping)
      BY <1>2 DEF OwnInv, CountInv
    <3>2. Owned(own, Buckets) \in Nat
      BY OwnedNat
    <3> QED
      BY <1>4, <2>1, <2>2, <3>1, <3>2
  <2>4. ASSUME NEW b \in Buckets
        PROVE  len'[b] = Owned(own, {b}) + Cardinality(PoppingAt(b)')
    <3>0. len[b] = Owned(own, {b}) + Cardinality(PoppingAt(b)) /\ Owned(own, {b}) \in Nat
      BY <1>2, OwnedNat DEF OwnInv, CountInv
    <3>1. CASE b = c
      <4>1. Cardinality(PoppingAt(b)) = 1 /\ Cardinality(PoppingAt(b)') = 0
        BY <1>9, <1>10, <3>1, FS_Singleton, FS_EmptySet
      <4>2. len'[b] = len[b] - 1
        BY <1>1, <1>4, <3>1 DEF TypeOK
      <4> QED
        BY <3>0, <4>1, <4>2
    <3>2. CASE b # c
      <4>1. PoppingAt(b)' = PoppingAt(b) /\ len'[b] = len[b]
        BY <1>1, <1>4, <1>10, <3>2 DEF TypeOK
      <4> QED
        BY <3>0, <4>1
    <3> QED
      BY <3>1, <3>2
  <2> QED
    BY <1>2, <1>4, <2>3, <2>4 DEF OwnInv, CountInv
<1>15. EntryInv(own)'
  BY <1>2, <1>4 DEF OwnInv, EntryInv
<1>16. TypeOK'
  <2>1. used_block_num' \in 0 .. PerBlock
    <3>1. Cardinality(Popping') \in Nat /\ Owned(own, Buckets) \in Nat
      BY <1>8, FS_CardinalityType, OwnedNat DEF HeadsOK
    <3>2. used_block_num' = Owned(own, Buckets) + Cardinality(Popping')
      BY <1>14 DEF CountInv
    <3> QED
      BY <1>1, <1>4, <3>1, <3>2, NilIsNone DEF TypeOK
  <2>2. len' \in [Buckets -> 0 .. PerBlock]
    <3>1. len'[c] = Owned(own, {c})
      <4>1. Cardinality(PoppingAt(c)') = 0 /\ Owned(own, {c}) \in Nat
        BY <1>10, FS_EmptySet, OwnedNat
      <4>2. len'[c] = Owned(own, {c}) + Cardinality(PoppingAt(c)')
        BY <1>9, <1>14 DEF CountInv
      <4> QED
        BY <4>1, <4>2
    <3>2. Owned(own, {c}) \in 0 .. PerBlock
      BY OwnedType
    <3> QED
      BY <1>1, <1>4, <1>9, <3>1, <3>2 DEF TypeOK
  <2>3. list' \in [Buckets -> Nodes \union {Nil}]
    BY <1>1, <1>4, <1>9 DEF TypeOK
  <2> QED
    BY <1>1, <1>4, <2>1, <2>2, <2>3 DEF TypeOK
<1>17. AbortMeansLeak'
  BY <1>1, <1>4 DEF AbortMeansLeak
<1>18. SameEntries
  BY <1>4, <1>11, SameWalk
<1> QED
  BY <1>6, <1>18, <1>7, <1>12, <1>13, <1>14, <1>15, <1>16, <1>17 DEF HashInv, OwnInv

\* A thread that sweeps bucket c with nodes in it: nobody pops there, and the
\* bucket's list starts with a node.
LEMMA SweptBucket ==
  ASSUME TypeOK, PhaseInv, NEW own \in [Nodes -> Owners], OwnInv(own),
         NEW t \in Threads, tpc[t] = "sweep", NEW c \in Buckets, c = migrate_idx[t],
         len[c] > 0
  PROVE  /\ PoppingAt(c) = {} /\ t \notin Popping /\ list[c] \in Nodes /\ own[list[c]] = c
         /\ \E s \in Seq(Nodes) : IsList(next, own, list[c], c, s)
<1>1. t \notin Popping
  BY DEF Popping, Freeing
<1>2. PoppingAt(c) = {}
  <2>1. ASSUME NEW u \in PoppingAt(c) PROVE FALSE
    <3>1. u \in Popping /\ migrate_idx[u] = migrate_idx[t] /\ u \in Threads
      BY <2>1 DEF PoppingAt, Popping, Freeing
    <3>2. migrate_idx[u] % ThreadNum = u /\ migrate_idx[t] % ThreadNum = t
      BY <3>1 DEF PhaseInv
    <3> QED
      BY <1>1, <3>1, <3>2
  <2> QED
    BY <2>1
<1>3. BucketHead(c) = list[c]
  BY <1>2, Heads DEF HeadsOK
<1>4. PICK s \in Seq(Nodes) : IsList(next, own, list[c], c, s)
  BY <1>3 DEF OwnInv, LinkInv, Listed
<1>5. Len(s) > 0
  <2>1. Len(s) = Owned(own, {c}) /\ Len(s) \in 0 .. PerBlock
    BY <1>4, ListLength
  <2>2. Cardinality(PoppingAt(c)) = 0
    BY <1>2, FS_EmptySet
  <2>3. len[c] = Owned(own, {c}) + Cardinality(PoppingAt(c))
    BY DEF OwnInv, CountInv
  <2>4. Owned(own, {c}) \in Nat
    BY OwnedNat
  <2> QED
    BY <2>1, <2>2, <2>3, <2>4
<1>6. list[c] = s[1] /\ s[1] \in Nodes /\ own[s[1]] = c
  <2>1. 1 \in 1 .. Len(s)
    BY <1>5
  <2>2. list[c] = At(s, 1)
    BY <1>4 DEF IsList
  <2>3. s[1] \in Nodes
    BY <2>1
  <2>4. own[s[1]] = c
    BY <1>4, <2>1, <2>3 DEF IsList
  <2> QED
    BY <1>5, <2>2, <2>3, <2>4 DEF At
<1> QED
  BY <1>1, <1>2, <1>4, <1>6

\* A pop takes the first entry of the bucket.
TakeEffect(t) ==
  LET b == migrate_idx[t]
  IN /\ b \in Buckets /\ BucketEntries(b) # <<>>
     /\ kv' = [kv EXCEPT ![t] = Head(BucketEntries(b))]
     /\ \A d \in Buckets :
          BucketEntries(d)' = IF d = b THEN Tail(BucketEntries(d)) ELSE BucketEntries(d)
     /\ t \notin Freeing /\ Freeing' = Freeing \union {t}

\* The first node of a bucket goes to the hand of the thread.
LEMMA TakeStep ==
  ASSUME HashInv, NEW t \in Threads, Take(t)
  PROVE  HashInv' /\ TakeEffect(t)
<1>1. TypeOK /\ PhaseInv /\ AbortMeansLeak
  BY DEF HashInv
<1>2. PICK own \in [Nodes -> Owners] : OwnInv(own)
  BY DEF HashInv
<1>3. PICK c, n : c = migrate_idx[t] /\ n = list[c]
  OBVIOUS
<1>4. /\ tpc[t] = "sweep" /\ tpc' = [tpc EXCEPT ![t] = "lock"]
      /\ c < HashSize /\ len[c] > 0
      /\ node' = [node EXCEPT ![t] = n]
      /\ list_node' = [list_node EXCEPT ![t] = next[n]]
      /\ entry' = [entry EXCEPT ![n] = NoEntry]
      /\ UNCHANGED <<list, len, next, free_head, free_node_num, free_node_lock,
                     used_block_num, wpc, migrate_idx, leaked>>
  BY <1>3 DEF Take, bucketVars
<1>5. c \in Buckets
  <2>1. c \in Nat
    BY <1>1, <1>3 DEF PhaseInv
  <2> QED
    BY <1>4, <2>1, SegmentAssumption DEF Buckets
<1>6. PoppingAt(c) = {} /\ t \notin Popping /\ n \in Nodes /\ own[n] = c
  BY <1>1, <1>2, <1>3, <1>4, <1>5, SweptBucket
<1>7. PICK s \in Seq(Nodes) : IsList(next, own, n, c, s)
  BY <1>1, <1>2, <1>3, <1>4, <1>5, SweptBucket
<1>8. \A u \in Threads : tpc'[u] = IF u = t THEN "lock" ELSE tpc[u]
  BY <1>1, <1>4 DEF TypeOK
<1>9. Popping' = Popping \union {t} /\ Freeing' = Freeing \union {t} /\ t \notin Freeing
  BY <1>4, <1>6, <1>8 DEF Popping, Freeing
<1>10. PhaseInv'
  <2>1. \A u \in Threads : tpc'[u] \in {"link", "publish", "unlock"} <=> free_node_lock' = u
    BY <1>1, <1>4, <1>8 DEF PhaseInv
  <2>2. wpc' # "migrate" => \A u \in Threads : tpc'[u] = "idle"
    BY <1>1, <1>4 DEF PhaseInv
  <2>3. \A u \in Popping' : migrate_idx'[u] \in Buckets
    BY <1>1, <1>3, <1>4, <1>5, <1>9 DEF PhaseInv
  <2> QED
    BY <1>1, <1>4, <2>1, <2>2, <2>3 DEF PhaseInv
<1>11. HeadsOK /\ HeadsOK'
  BY <1>1, <1>10, Heads, HeadsNext
<1>12. PICK o2 : o2 = [own EXCEPT ![n] = Hand]
  OBVIOUS
<1>13. /\ o2 \in [Nodes -> Owners] /\ o2[n] = Hand
       /\ \A m \in Nodes : m # n => o2[m] = own[m]
  BY <1>6, <1>12, OwnersApart
<1>14. /\ PoppingAt(c)' = {t}
       /\ \A b \in Buckets : b # c => PoppingAt(b)' = PoppingAt(b)
  <2>1. \A b \in Buckets : PoppingAt(b)' = {u \in Popping \union {t} : migrate_idx[u] = b}
    BY <1>4, <1>9 DEF PoppingAt
  <2>2. PoppingAt(c)' = {t}
    BY <1>3, <1>5, <1>6, <2>1 DEF PoppingAt
  <2>3. \A b \in Buckets : b # c => PoppingAt(b)' = PoppingAt(b)
    BY <1>3, <2>1 DEF PoppingAt
  <2> QED
    BY <2>2, <2>3
<1>15. /\ BucketHead(c)' = next[n]
       /\ \A b \in Buckets : b # c => BucketHead(b)' = BucketHead(b)
  <2>1. BucketHead(c)' = next[n]
    <3>1. t \in Popping' /\ migrate_idx'[t] = c
      BY <1>3, <1>4, <1>9
    <3>2. BucketHead(c)' = list_node'[t]
      BY <1>11, <3>1 DEF HeadsOK
    <3> QED
      BY <1>1, <1>4, <3>2 DEF TypeOK
  <2>2. ASSUME NEW b \in Buckets, b # c PROVE BucketHead(b)' = BucketHead(b)
    <3>1. CASE PoppingAt(b) = {}
      <4>1. BucketHead(b)' = list'[b] /\ BucketHead(b) = list[b]
        BY <1>11, <1>14, <2>2, <3>1 DEF HeadsOK
      <4> QED
        BY <1>4, <4>1
    <3>2. CASE PoppingAt(b) # {}
      <4>1. PICK u \in PoppingAt(b) : TRUE
        BY <3>2
      <4>2. u \in Popping /\ migrate_idx[u] = b /\ u # t /\ u \in Popping' /\ migrate_idx'[u] = b
        BY <1>3, <1>4, <1>9, <2>2, <4>1 DEF PoppingAt
      <4>3. BucketHead(b) = list_node[u] /\ BucketHead(b)' = list_node'[u]
        BY <1>11, <4>2 DEF HeadsOK
      <4>4. list_node'[u] = list_node[u]
        BY <1>1, <1>4, <4>2 DEF TypeOK, Popping, Freeing
      <4> QED
        BY <4>3, <4>4
    <3> QED
      BY <3>1, <3>2
  <2> QED
    BY <2>1, <2>2
<1>16. LinkInv(o2)'
  <2>1. \A a, p : a # c /\ a # Hand /\ Listed(next, own, p, a) => Listed(next', o2, p, a)
    <3> SUFFICES ASSUME NEW a, NEW p, a # c, a # Hand, Listed(next, own, p, a)
                 PROVE  Listed(next', o2, p, a)
      OBVIOUS
    <3>1. PICK r \in Seq(Nodes) : IsList(next, own, p, a, r)
      BY DEF Listed
    <3>2. \A m \in Nodes : o2[m] = a <=> own[m] = a
      BY <1>6, <1>13
    <3>3. IsList(next, o2, p, a, r)
      BY <3>1, <3>2, ListSame
    <3> QED
      BY <1>4, <3>3 DEF Listed
  <2>2. Listed(next', o2, free_head', Pool)
    BY <1>2, <1>4, <1>5, <2>1, OwnersApart DEF OwnInv, LinkInv
  <2>3. Listed(next', o2, BucketHead(c)', c)
    <3>1. Hand # c
      BY <1>5, OwnersApart
    <3>4. Pops(next, next, own, o2, n, c, Hand, s)
      BY <1>6, <1>7, <1>12, <3>1 DEF Pops, Moved, KeepsLinks
    <3>2. s # <<>> /\ n = s[1] /\ own[n] = c /\ IsList(next, o2, next[n], c, Tail(s))
      BY <3>4, ListPop
    <3>3. Tail(s) \in Seq(Nodes)
      BY <3>2
    <3> QED
      BY <1>4, <1>15, <3>2, <3>3 DEF Listed
  <2>4. ASSUME NEW b \in Buckets PROVE Listed(next', o2, BucketHead(b)', b)
    <3>1. CASE b = c
      BY <2>3, <3>1
    <3>2. CASE b # c
      BY <1>2, <1>15, <2>1, <3>2, OwnersApart DEF OwnInv, LinkInv
    <3> QED
      BY <3>1, <3>2
  <2>5. \A u \in Threads : tpc'[u] = "publish" => tpc[u] = "publish" /\ node'[u] = node[u]
    BY <1>1, <1>4, <1>8 DEF TypeOK
  <2> QED
    BY <1>2, <1>4, <2>2, <2>4, <2>5 DEF OwnInv, LinkInv
<1>17. HandInv(o2)'
  <2>1. node'[t] = n /\ \A u \in Freeing : node'[u] = node[u] /\ node[u] # n /\ node[u] \in Nodes
                                           /\ own[node[u]] = Hand
    <3>1. node'[t] = n /\ \A u \in Freeing : node'[u] = node[u]
      BY <1>1, <1>4, <1>9 DEF TypeOK, Freeing
    <3>2. \A u \in Freeing : node[u] \in Nodes /\ own[node[u]] = Hand
      BY <1>2 DEF OwnInv, HandInv
    <3>3. own[n] # Hand
      BY <1>5, <1>6, OwnersApart
    <3> QED
      BY <3>1, <3>2, <3>3
  <2>2. \A u \in Freeing' : node'[u] \in Nodes /\ o2[node'[u]] = Hand
    BY <1>6, <1>9, <1>13, <2>1
  <2>3. \A u, v \in Freeing' : node'[u] = node'[v] => u = v
    <3>1. \A u, v \in Freeing : node[u] = node[v] => u = v
      BY <1>2 DEF OwnInv, HandInv
    <3> QED
      BY <1>9, <2>1, <3>1
  <2>4. ASSUME NEW m \in Nodes, o2[m] = Hand PROVE \E u \in Freeing' : node'[u] = m
    <3>1. CASE m = n
      BY <1>9, <2>1, <3>1
    <3>2. CASE m # n
      <4>1. own[m] = Hand
        BY <1>13, <2>4, <3>2
      <4>2. PICK u \in Freeing : node[u] = m
        BY <1>2, <4>1 DEF OwnInv, HandInv
      <4> QED
        BY <1>9, <2>1, <4>2
    <3> QED
      BY <3>1, <3>2
  <2>5. \A m \in Nodes : o2[m] = Lost <=> m \in leaked'
    <3>1. \A m \in Nodes : o2[m] = Lost <=> own[m] = Lost
      BY <1>5, <1>6, <1>13, OwnersApart
    <3> QED
      BY <1>2, <1>4, <3>1 DEF OwnInv, HandInv
  <2> QED
    BY <2>2, <2>3, <2>4, <2>5 DEF HandInv
<1>18. CountInv(o2)'
  <2>0. Moved(own, o2, n, Hand)
    BY <1>12 DEF Moved
  <2>9. OwnedBy(own, n, c) /\ ~OwnedBy(own, n, Pool)
    BY <1>5, <1>6, OwnersApart DEF OwnedBy
  <2>10. n \in Nodes /\ c # Hand /\ c # Pool /\ Hand # Pool /\ \A b \in Buckets : b # Hand
    BY <1>5, <1>6, OwnersApart
  <2>1. Owned(o2, {Pool}) = Owned(own, {Pool})
    BY <2>0, <2>9, <2>10, OneSame
  <2>2. Owned(o2, Buckets) = Owned(own, Buckets) - 1
    BY <1>5, <1>6, <2>0, OwnersApart, OwnedLess
  <2>3. Owned(o2, {c}) = Owned(own, {c}) - 1
    BY <2>0, <2>9, <2>10, OneLess
  <2>4. ASSUME NEW b \in Buckets, b # c PROVE Owned(o2, {b}) = Owned(own, {b})
    <3>1. ~OwnedBy(own, n, b)
      BY <1>6, <2>4 DEF OwnedBy
    <3> QED
      BY <2>0, <2>10, <3>1, OneSame
  <2>5. Cardinality(Popping') = Cardinality(Popping) + 1 /\ Cardinality(Popping) \in Nat
    BY <1>6, <1>9, <1>11, FS_AddElement, FS_CardinalityType DEF HeadsOK
  <2>6. Owned(own, Buckets) \in Nat /\ Owned(own, {c}) \in Nat
    BY OwnedNat
  <2>7. used_block_num' = Owned(o2, Buckets) + Cardinality(Popping')
    <3>1. used_block_num = Owned(own, Buckets) + Cardinality(Popping)
      BY <1>2 DEF OwnInv, CountInv
    <3> QED
      BY <1>4, <2>2, <2>5, <2>6, <3>1
  <2>8. ASSUME NEW b \in Buckets
        PROVE  len'[b] = Owned(o2, {b}) + Cardinality(PoppingAt(b)')
    <3>0. len'[b] = Owned(own, {b}) + Cardinality(PoppingAt(b))
      BY <1>2, <1>4 DEF OwnInv, CountInv
    <3>1. CASE b = c
      <4>1. Cardinality(PoppingAt(b)) = 0 /\ Cardinality(PoppingAt(b)') = 1
        BY <1>6, <1>14, <3>1, FS_Singleton, FS_EmptySet
      <4> QED
        BY <2>3, <2>6, <3>0, <3>1, <4>1
    <3>2. CASE b # c
      BY <1>14, <2>4, <3>0, <3>2
    <3> QED
      BY <3>1, <3>2
  <2> QED
    BY <1>2, <1>4, <2>1, <2>7, <2>8 DEF OwnInv, CountInv
<1>19. EntryInv(o2)'
  <2>1. \A m \in Nodes : o2[m] \in Buckets => m # n /\ o2[m] = own[m] /\ entry'[m] = entry[m]
    BY <1>1, <1>4, <1>13, OwnersApart DEF TypeOK
  <2> QED
    BY <1>2, <2>1 DEF OwnInv, EntryInv
<1>20. TypeOK'
  BY <1>1, <1>4, <1>6 DEF TypeOK
<1>21. AbortMeansLeak'
  BY <1>1, <1>4 DEF AbortMeansLeak
<1>22. TakeEffect(t)
  <2>1. PICK E : E = BucketEntries(c)
    OBVIOUS
  <2>2. BucketHead(c) = n
    BY <1>3, <1>5, <1>6, <1>11 DEF HeadsOK
  <2>3. E = EntriesOf(s, entry)
    BY <1>1, <1>7, <2>1, <2>2, EntriesAre DEF TypeOK
  <2>4. s # <<>> /\ n = s[1] /\ IsList(next, o2, next[n], c, Tail(s))
    <3>1. Pops(next, next, own, o2, n, c, Hand, s)
      BY <1>5, <1>6, <1>7, <1>12, OwnersApart DEF Pops, Moved, KeepsLinks
    <3> QED
      BY <3>1, ListPop
  <2>5. Tail(s) \in Seq(Nodes)
    BY <2>4
  <2>6. BucketEntries(c)' = EntriesOf(Tail(s), entry')
    <3>1. IsList(next', o2, BucketHead(c)', c, Tail(s))
      BY <1>4, <1>15, <2>4
    <3> QED
      BY <1>20, <2>5, <3>1, EntriesAreNext DEF TypeOK
  <2>7. \A i \in 1 .. Len(s) - 1 : Tail(s)[i] = s[i + 1] /\ Tail(s)[i] # n /\ Tail(s)[i] \in Nodes
    BY <1>7, <2>4 DEF IsList
  <2>8. /\ E # <<>> /\ Head(E) = entry[n]
        /\ BucketEntries(c)' = Tail(E)
    <3>1. Len(s) \in Nat \ {0} /\ DOMAIN s = 1 .. Len(s) /\ DOMAIN Tail(s) = 1 .. Len(s) - 1
      BY <2>4
    <3>2. /\ E = [i \in 1 .. Len(s) |-> entry[s[i]]]
          /\ BucketEntries(c)' = [i \in 1 .. Len(s) - 1 |-> entry'[Tail(s)[i]]]
      BY <2>3, <2>6, <3>1 DEF EntriesOf
    <3>3. \A i \in 1 .. Len(s) - 1 : entry'[Tail(s)[i]] = entry[s[i + 1]]
      BY <1>1, <1>4, <2>7 DEF TypeOK
    <3>4. \A i \in 1 .. Len(s) : entry[s[i]] \in Entry \union {NoEntry}
      BY <1>1, <3>1 DEF TypeOK
    <3>5. E \in Seq(Entry \union {NoEntry}) /\ Len(E) = Len(s)
      BY <3>1, <3>2, <3>4
    <3>6. E # <<>> /\ Head(E) = entry[n]
      BY <2>4, <3>1, <3>2, <3>5
    <3>7. Tail(E) = [i \in 1 .. Len(s) - 1 |-> entry[s[i + 1]]]
      BY <3>1, <3>2, <3>5, <3>6
    <3> QED
      BY <3>2, <3>3, <3>6, <3>7
  <2>9. ASSUME NEW b \in Buckets, b # c PROVE BucketEntries(b)' = BucketEntries(b)
    <3>1. PICK p : p = BucketHead(b)
      OBVIOUS
    <3>2. PICK r \in Seq(Nodes) : IsList(next, own, p, b, r)
      BY <1>2, <3>1 DEF OwnInv, LinkInv, Listed
    <3>3. Kept(next, next', own, o2, b)
      BY <1>4, <1>6, <1>13, <2>9, OwnersApart DEF Kept
    <3>4. IsList(next', o2, p, b, r)
      BY <3>2, <3>3, ListKept
    <3>5. BucketEntries(b) = EntriesOf(r, entry)
      BY <1>1, <3>1, <3>2, EntriesAre DEF TypeOK
    <3>6. BucketEntries(b)' = EntriesOf(r, entry')
      BY <1>15, <1>20, <2>9, <3>1, <3>4, EntriesAreNext DEF TypeOK
    <3>7. Enumerates(r, own, b)
      BY <3>2, ListEnumerates
    <3>8. \A i \in DOMAIN r : entry'[r[i]] = entry[r[i]]
      BY <1>1, <1>4, <1>6, <2>9, <3>7 DEF TypeOK, Enumerates
    <3> QED
      BY <3>5, <3>6, <3>8 DEF EntriesOf
  <2>10. kv' = [kv EXCEPT ![t] = entry[n]]
    BY <1>3 DEF Take
  <2>11. /\ c \in Buckets /\ BucketEntries(c) # <<>>
         /\ kv' = [kv EXCEPT ![t] = Head(BucketEntries(c))]
    BY <1>5, <2>1, <2>8, <2>10
  <2>12. \A d \in Buckets :
           BucketEntries(d)' = IF d = c THEN Tail(BucketEntries(d)) ELSE BucketEntries(d)
    BY <2>1, <2>8, <2>9
  <2> QED
    BY <1>3, <1>9, <2>11, <2>12 DEF TakeEffect
<1> QED
  BY <1>22, <1>10, <1>13, <1>16, <1>17, <1>18, <1>19, <1>20, <1>21 DEF HashInv, OwnInv

---------------------------------------------------------------------------
(* The worker *)

\* No thread is in the hash.
RestOK ==
  /\ Popping = {} /\ Freeing = {}
  /\ \A b \in Buckets : PoppingAt(b) = {} /\ BucketHead(b) = list[b]

\* Outside a migration no pop is in progress ...
LEMMA Rest == PhaseInv /\ wpc # "migrate" => RestOK
<1> SUFFICES ASSUME PhaseInv, wpc # "migrate" PROVE RestOK
  OBVIOUS
<1>1. Popping = {} /\ Freeing = {}
  BY DEF PhaseInv, Popping, Freeing
<1>2. \A b \in Buckets : PoppingAt(b) = {}
  BY <1>1 DEF PoppingAt
<1>3. \A b \in Buckets : BucketHead(b) = list[b]
  BY <1>2, Heads DEF HeadsOK
<1> QED
  BY <1>1, <1>2, <1>3 DEF RestOK

\* ... in the next state too.
LEMMA RestNext == (PhaseInv /\ wpc # "migrate")' => RestOK'
  BY Rest, PTL

\* What a walk along a list meets.
LEMMA WalkRange ==
  ASSUME TypeOK, NEW own, NEW c, NEW p, NEW s \in Seq(Nodes), IsList(next, own, p, c, s)
  PROVE  Walk(p) = s /\ Range(Walk(p)) = {n \in Nodes : own[n] = c}
<1>1. Walk(p) = s
  BY WalkIsWalkOf, WalkOfList DEF TypeOK
<1>2. Range(s) = {n \in Nodes : own[n] = c}
  <2>1. DOMAIN s = 1 .. Len(s)
    OBVIOUS
  <2>2. Range(s) = {s[i] : i \in 1 .. Len(s)}
    BY <2>1 DEF Range
  <2>3. \A n \in Nodes : own[n] = c <=> \E i \in 1 .. Len(s) : s[i] = n
    BY DEF IsList
  <2> QED
    BY <2>2, <2>3
<1> QED
  BY <1>1, <1>2

\* mix_hash_get finds the node of a key in the bucket of the key, if any has it.
LEMMA NodeOfIs ==
  ASSUME TypeOK, NEW own, OwnInv(own), RestOK, NEW k \in Keys,
         NEW b, b = mix_hash_hash(k)
  PROVE  /\ b \in Buckets
         /\ NodeOf(k) = Nil => \A n \in Nodes : own[n] = b => entry[n].key # k
         /\ NodeOf(k) # Nil => NodeOf(k) \in Nodes /\ own[NodeOf(k)] = b /\ entry[NodeOf(k)].key = k
<1>1. b \in Buckets
  BY SegmentAssumption DEF mix_hash_hash, Buckets
<1>2. PICK s \in Seq(Nodes) : IsList(next, own, list[b], b, s)
  BY <1>1 DEF OwnInv, LinkInv, RestOK, Listed
<1>3. Range(Walk(list[b])) = {n \in Nodes : own[n] = b}
  BY <1>2, WalkRange
<1>4. PICK H : H = {n \in Range(Walk(list[b])) : entry[n].key = k}
  OBVIOUS
<1>5. H = {n \in Nodes : own[n] = b /\ entry[n].key = k}
  BY <1>3, <1>4
<1>6. NodeOf(k) = IF H = {} THEN Nil ELSE CHOOSE n \in H : TRUE
  BY <1>4 DEF NodeOf
<1>7. H # {} => NodeOf(k) \in H
  BY <1>6
<1>8. H = {} => NodeOf(k) = Nil
  BY <1>6
<1> QED
  BY <1>1, <1>5, <1>7, <1>8, NilIsNone

\* With the pool empty and a block unused, a node was lost.
LEMMA EmptyPool ==
  ASSUME TypeOK, NEW own \in [Nodes -> Owners], OwnInv(own), RestOK,
         free_head = Nil, used_block_num < PerBlock
  PROVE  leaked # {}
<1>1. Owned(own, Buckets) < PerBlock
  <2>1. Cardinality(Popping) = 0
    BY FS_EmptySet DEF RestOK
  <2>2. used_block_num = Owned(own, Buckets) + Cardinality(Popping)
    BY DEF OwnInv, CountInv
  <2>3. Owned(own, Buckets) \in Nat
    BY OwnedNat
  <2> QED
    BY <2>1, <2>2, <2>3
<1>2. PICK n \in Nodes : own[n] \notin Buckets
  <2>1. ASSUME \A n \in Nodes : own[n] \in Buckets PROVE FALSE
    <3>1. {n \in Nodes : own[n] \in Buckets} = Nodes
      BY <2>1
    <3>2. Owned(own, Buckets) = PerBlock
      BY <3>1, NodesFinite DEF Owned
    <3> QED
      BY <1>1, <3>2, NilIsNone
  <2> QED
    BY <2>1
<1>3. own[n] # Pool
  <2>1. PICK s \in Seq(Nodes) : IsList(next, own, Nil, Pool, s)
    BY DEF OwnInv, LinkInv, Listed
  <2>2. Len(s) \in Nat /\ ~(1 <= Len(s))
    <3>1. Len(s) \in Nat /\ Nil = At(s, 1)
      BY <2>1 DEF IsList
    <3>2. ASSUME 1 <= Len(s) PROVE FALSE
      <4>1. s[1] = Nil /\ 1 \in 1 .. Len(s)
        BY <3>1, <3>2 DEF At
      <4>2. s[1] \in Nodes
        BY <4>1
      <4> QED
        BY <4>1, <4>2, NilIsNone
    <3> QED
      BY <3>1, <3>2
  <2>3. 1 .. Len(s) = {}
    BY <2>2
  <2> QED
    BY <2>1, <2>3 DEF IsList
<1>4. own[n] # Hand
  BY DEF OwnInv, HandInv, RestOK
<1>5. own[n] = Lost
  BY <1>2, <1>3, <1>4 DEF Owners
<1> QED
  BY <1>5 DEF OwnInv, HandInv

\* A put adds an entry in front of its bucket, which had none of the key.
PutEffect(k, v) ==
  LET c == mix_hash_hash(k)
      e == [key |-> k, value |-> v]
  IN /\ \A b \in Buckets :
          BucketEntries(b)' = IF b = c THEN <<e>> \o BucketEntries(b) ELSE BucketEntries(b)
     /\ \A i \in DOMAIN BucketEntries(c) : BucketEntries(c)[i].key # k
     /\ free_node_num \in Nat \ {0} /\ free_node_num' = free_node_num - 1
     /\ Freeing = {} /\ Freeing' = {}

\* The first node of the pool goes to the bucket; an empty pool, with a block
\* left to use, means that a node was forgotten.
LEMMA PutStep ==
  ASSUME HashInv, NEW k \in Keys, NEW v \in Values, Put(k, v)
  PROVE  HashInv' /\ (free_head = Nil => Quiet) /\ (free_head # Nil => PutEffect(k, v))
<1>1. TypeOK /\ PhaseInv /\ AbortMeansLeak
  BY DEF HashInv
<1>2. PICK own \in [Nodes -> Owners] : OwnInv(own)
  BY DEF HashInv
<1>3. wpc = "work" /\ RestOK
  BY <1>1, Rest DEF Put
<1>4. PICK c, n : c = mix_hash_hash(k) /\ n = free_head
  OBVIOUS
<1>5. CASE n = Nil
  <2>1. /\ wpc' = "abort" /\ used_block_num < PerBlock
        /\ UNCHANGED <<list, len, next, entry, free_head, free_node_num, used_block_num,
                       free_node_lock, tpc, migrate_idx, node, list_node, kv, leaked>>
    BY <1>4, <1>5 DEF Put, bucketVars, poolVars, threadVars
  <2>2. TypeOK'
    BY <1>1, <2>1 DEF TypeOK
  <2>3. Popping' = Popping /\ Freeing' = Freeing
    BY <2>1 DEF Popping, Freeing
  <2>4. Quiet
    BY <2>1, <2>3 DEF Quiet
  <2>5. PhaseInv'
    BY <1>1, <1>3, <2>1, <2>3 DEF PhaseInv
  <2>6. AbortMeansLeak'
    BY <1>1, <1>2, <1>3, <1>4, <1>5, <2>1, EmptyPool DEF AbortMeansLeak
  <2> QED
    BY <1>4, <1>5, <2>2, <2>4, <2>5, <2>6, QuietHash
<1>6. CASE n # Nil
  <2>1. /\ wpc' = wpc /\ used_block_num < PerBlock /\ NodeOf(k) = Nil
        /\ free_head' = next[n]
        /\ free_node_num' = free_node_num - 1
        /\ entry' = [entry EXCEPT ![n] = [key |-> k, value |-> v]]
        /\ next' = [next EXCEPT ![n] = list[c]]
        /\ list' = [list EXCEPT ![c] = n]
        /\ len' = [len EXCEPT ![c] = @ + 1]
        /\ used_block_num' = used_block_num + 1
        /\ UNCHANGED <<free_node_lock, tpc, migrate_idx, node, list_node, kv, leaked>>
    BY <1>4, <1>6 DEF Put, threadVars
  <2>2. n \in Nodes
    BY <1>1, <1>4, <1>6 DEF TypeOK
  <2>3. c \in Buckets /\ \A m \in Nodes : own[m] = c => entry[m].key # k
    BY <1>1, <1>2, <1>3, <1>4, <2>1, NodeOfIs
  <2>4. PICK s \in Seq(Nodes) : IsList(next, own, n, Pool, s)
    BY <1>2, <1>4 DEF OwnInv, LinkInv, Listed
  <2>5. PICK r \in Seq(Nodes) : IsList(next, own, list[c], c, r)
    BY <1>2, <1>3, <2>3 DEF OwnInv, LinkInv, RestOK, Listed
  <2>6. PICK o2 : o2 = [own EXCEPT ![n] = c]
    OBVIOUS
  <2>7. /\ o2 \in [Nodes -> Owners] /\ o2[n] = c /\ Moved(own, o2, n, c)
        /\ \A m \in Nodes : m # n => o2[m] = own[m]
    BY <2>2, <2>3, <2>6, OwnersApart DEF Moved
  <2>8. next'[n] = list[c] /\ \A m \in Nodes : m # n => next'[m] = next[m]
    BY <1>1, <2>1, <2>2 DEF TypeOK
  <2>9. s # <<>> /\ n = s[1] /\ own[n] = Pool /\ IsList(next', o2, next[n], Pool, Tail(s))
    <3>1. KeepsLinks(next, next', own, Pool, n)
      BY <2>8 DEF KeepsLinks
    <3>2. c # Pool
      BY <2>3, OwnersApart
    <3>3. Moved(own, o2, n, c)
      BY <2>7
    <3>4. Pops(next, next', own, o2, n, Pool, c, s)
      BY <2>2, <2>4, <3>1, <3>2, <3>3 DEF Pops
    <3> QED
      BY <3>4, ListPop
  <2>10. IsList(next', o2, n, c, <<n>> \o r)
    <3>1. own[n] # c /\ \A m \in Nodes : own[m] = c => next'[m] = next[m]
      BY <2>3, <2>8, <2>9, OwnersApart
    <3> QED
      BY <2>2, <2>5, <2>6, <2>8, <3>1, ListPush
  <2>11. PhaseInv' /\ RestOK'
    <3>1. Popping' = Popping
      BY <2>1 DEF Popping, Freeing
    <3>2. PhaseInv'
      BY <1>1, <2>1, <3>1 DEF PhaseInv
    <3>3. (wpc # "migrate")'
      BY <1>3, <2>1
    <3> QED
      BY <3>2, <3>3, RestNext
  <2>12. LinkInv(o2)'
    <3>1. Listed(next', o2, free_head', Pool)
      <4>1. Tail(s) \in Seq(Nodes)
        BY <2>9
      <4> QED
        BY <2>1, <2>9, <4>1 DEF Listed
    <3>2. ASSUME NEW b \in Buckets PROVE Listed(next', o2, BucketHead(b)', b)
      <4>1. BucketHead(b)' = list'[b]
        BY <2>11 DEF RestOK
      <4>2. CASE b = c
        <5>1. list'[c] = n /\ <<n>> \o r \in Seq(Nodes)
          BY <1>1, <2>1, <2>2, <2>3 DEF TypeOK
        <5> QED
          BY <2>10, <4>1, <4>2, <5>1 DEF Listed
      <4>3. CASE b # c
        <5>1. list'[b] = list[b]
          BY <1>1, <2>1, <4>3 DEF TypeOK
        <5>2. PICK q \in Seq(Nodes) : IsList(next, own, list[b], b, q)
          BY <1>2, <1>3 DEF OwnInv, LinkInv, RestOK, Listed
        <5>3. \A m \in Nodes : o2[m] = b <=> own[m] = b
          BY <2>7, <2>9, <4>3, OwnersApart
        <5>4. \A m \in Nodes : own[m] = b => next'[m] = next[m]
          BY <2>8, <2>9, OwnersApart
        <5>5. IsList(next', o2, list[b], b, q)
          BY <5>2, <5>3, <5>4, ListSame
        <5> QED
          BY <4>1, <5>1, <5>5 DEF Listed
      <4> QED
        BY <4>2, <4>3
    <3>3. \A t \in Threads : tpc'[t] # "publish"
      BY <1>1, <1>3, <2>1 DEF PhaseInv
    <3> QED
      BY <3>1, <3>2, <3>3 DEF LinkInv
  <2>13. HandInv(o2)'
    <3>1. \A m \in Nodes : (o2[m] = Hand <=> own[m] = Hand) /\ (o2[m] = Lost <=> own[m] = Lost)
      BY <2>3, <2>7, <2>9, OwnersApart
    <3>2. \A m \in Nodes : own[m] # Hand
      BY <1>2, <1>3 DEF OwnInv, HandInv, RestOK
    <3>3. Freeing' = {}
      BY <2>11 DEF RestOK
    <3>4. \A m \in Nodes : own[m] = Lost <=> m \in leaked'
      BY <1>2, <2>1 DEF OwnInv, HandInv
    <3> QED
      BY <3>1, <3>2, <3>3, <3>4 DEF HandInv
  <2>14. CountInv(o2)'
    <3>0. n \in Nodes /\ Moved(own, o2, n, c) /\ OwnedBy(own, n, Pool) /\ c # Pool
      BY <2>2, <2>3, <2>7, <2>9, OwnersApart DEF OwnedBy
    <3>1. Owned(o2, {Pool}) = Owned(own, {Pool}) - 1
      BY <3>0, OneLess
    <3>2. Owned(o2, {c}) = Owned(own, {c}) + 1
      <4>1. own[n] # c
        BY <2>3, <2>9, OwnersApart
      <4> QED
        BY <3>0, <4>1, OneMore
    <3>3. ASSUME NEW b \in Buckets, b # c PROVE Owned(o2, {b}) = Owned(own, {b})
      <4>1. ~OwnedBy(own, n, b)
        BY <2>9, OwnersApart DEF OwnedBy
      <4> QED
        BY <3>0, <3>3, <4>1, OneSame
    <3>4. Owned(o2, Buckets) = Owned(own, Buckets) + 1
      <4>1. own[n] \notin Buckets /\ c \in Buckets
        BY <2>3, <2>9, OwnersApart
      <4> QED
        BY <3>0, <4>1, OwnedMore
    <3>5. /\ Cardinality(Popping) = 0 /\ Cardinality(Popping') = 0
          /\ \A b \in Buckets : Cardinality(PoppingAt(b)) = 0 /\ Cardinality(PoppingAt(b)') = 0
      BY <1>3, <2>11, FS_EmptySet DEF RestOK
    <3>6. /\ free_node_num = Owned(own, {Pool})
          /\ used_block_num = Owned(own, Buckets) + 0
          /\ \A b \in Buckets : len[b] = Owned(own, {b}) + 0
      BY <1>2, <3>5 DEF OwnInv, CountInv
    <3>7. Owned(own, Buckets) \in Nat /\ \A b \in Buckets : Owned(own, {b}) \in Nat
      BY OwnedNat
    <3>8. used_block_num' = Owned(o2, Buckets) + Cardinality(Popping')
      BY <2>1, <3>4, <3>5, <3>6, <3>7
    <3>9. ASSUME NEW b \in Buckets
          PROVE  len'[b] = Owned(o2, {b}) + Cardinality(PoppingAt(b)')
      <4>1. len'[b] = IF b = c THEN len[b] + 1 ELSE len[b]
        BY <1>1, <2>1 DEF TypeOK
      <4>0. len[b] = Owned(own, {b}) + 0 /\ Owned(own, {b}) \in Nat
        BY <3>6, <3>7
      <4>2. len[b] = Owned(own, {b}) /\ Owned(own, {b}) \in Nat
        BY <4>0
      <4>3. Cardinality(PoppingAt(b)') = 0
        BY <3>5
      <4>4. CASE b = c
        BY <3>2, <4>1, <4>2, <4>3, <4>4
      <4>5. CASE b # c
        BY <3>3, <4>1, <4>2, <4>3, <4>5
      <4> QED
        BY <4>4, <4>5
    <3> QED
      BY <2>1, <3>1, <3>6, <3>8, <3>9 DEF CountInv
  <2>15. EntryInv(o2)'
    <3>1. entry'[n] = [key |-> k, value |-> v] /\ \A m \in Nodes : m # n => entry'[m] = entry[m]
      BY <1>1, <2>1, <2>2 DEF TypeOK
    <3>2. entry'[n] \in Entry /\ entry'[n].key = k
      BY <3>1, SweeperAssumption DEF Entry
    <3>3. \A m \in Nodes : o2[m] \in Buckets =>
            entry'[m] \in Entry /\ mix_hash_hash(entry'[m].key) = o2[m]
      BY <1>2, <1>4, <2>7, <3>1, <3>2 DEF OwnInv, EntryInv
    <3>4. \A m \in Nodes : m # n /\ o2[m] = c => entry'[m].key # k
      BY <2>3, <2>7, <3>1
    <3>5. ASSUME NEW m \in Nodes, NEW j \in Nodes, o2[m] \in Buckets, o2[j] = o2[m], m # j
          PROVE  entry'[m].key # entry'[j].key
      <4>1. CASE m = n
        BY <2>7, <3>2, <3>4, <3>5, <4>1
      <4>2. CASE j = n
        BY <2>7, <3>2, <3>4, <3>5, <4>2
      <4>3. CASE m # n /\ j # n
        BY <1>2, <2>7, <3>1, <3>5, <4>3 DEF OwnInv, EntryInv
      <4> QED
        BY <4>1, <4>2, <4>3
    <3> QED
      BY <3>3, <3>5 DEF EntryInv
  <2>16. TypeOK'
    <3>1. list' \in [Buckets -> Nodes \union {Nil}] /\ next' \in [Nodes -> Nodes \union {Nil}]
      BY <1>1, <2>1, <2>2, <2>3 DEF TypeOK
    <3>2. [key |-> k, value |-> v] \in Entry
      BY SweeperAssumption DEF Entry
    <3>3. entry' \in [Nodes -> Entry \union {NoEntry}]
      BY <1>1, <2>1, <2>2, <3>2 DEF TypeOK
    <3>4. free_node_num' \in 0 .. PerBlock
      BY <2>14, OwnedType DEF CountInv
    <3>5. used_block_num' \in 0 .. PerBlock
      BY <1>1, <2>1, NilIsNone DEF TypeOK
    <3>6. len' \in [Buckets -> 0 .. PerBlock]
      <4>1. len'[c] = Owned(o2, {c})
        <5>1. Cardinality(PoppingAt(c)') = 0 /\ Owned(o2, {c}) \in Nat
          BY <2>3, <2>11, FS_EmptySet, OwnedNat DEF RestOK
        <5>2. len'[c] = Owned(o2, {c}) + Cardinality(PoppingAt(c)')
          BY <2>3, <2>14 DEF CountInv
        <5> QED
          BY <5>1, <5>2
      <4>2. Owned(o2, {c}) \in 0 .. PerBlock
        BY OwnedType
      <4> QED
        BY <1>1, <2>1, <2>3, <4>1, <4>2 DEF TypeOK
    <3>7. free_head' \in Nodes \union {Nil}
      BY <1>1, <2>1, <2>2 DEF TypeOK
    <3> QED
      BY <1>1, <2>1, <3>1, <3>3, <3>4, <3>5, <3>6, <3>7 DEF TypeOK
  <2>17. AbortMeansLeak'
    BY <1>3, <2>1 DEF AbortMeansLeak
  <2>18. PutEffect(k, v)
    <3>1. PICK E, e, T : /\ E = BucketEntries(c) /\ e = [key |-> k, value |-> v]
                         /\ T = Entry \union {NoEntry}
      OBVIOUS
    <3>2. E = EntriesOf(r, entry)
      <4>1. BucketHead(c) = list[c]
        BY <1>3, <2>3 DEF RestOK
      <4> QED
        BY <1>1, <2>5, <3>1, <4>1, EntriesAre DEF TypeOK
    <3>3. Enumerates(r, own, c)
      BY <2>5, ListEnumerates
    <3>4. \A i \in DOMAIN r : r[i] \in Nodes /\ r[i] # n /\ own[r[i]] = c
      BY <2>3, <2>9, <3>3, OwnersApart DEF Enumerates
    <3>5. \A i \in DOMAIN r : entry[r[i]] \in T /\ entry'[r[i]] = entry[r[i]]
      BY <1>1, <2>1, <3>1, <3>4 DEF TypeOK
    <3>6. entry'[n] = e /\ e \in T
      BY <1>1, <2>1, <2>2, <3>1, SweeperAssumption DEF TypeOK, Entry
    <3>7. EntriesOf(<<n>> \o r, entry') = <<e>> \o E
      <4>1. AddsEntry(r, n, T, entry, entry', e)
        BY <2>2, <3>5, <3>6 DEF AddsEntry
      <4>2. EntriesOf(<<n>> \o r, entry') = <<e>> \o EntriesOf(r, entry)
        BY <4>1, EntriesPush
      <4> QED
        BY <3>2, <4>2
    <3>8. BucketEntries(c)' = <<e>> \o E
      <4>1. BucketHead(c)' = n
        BY <1>1, <2>1, <2>3, <2>11 DEF RestOK, TypeOK
      <4>2. <<n>> \o r \in Seq(Nodes)
        BY <2>2
      <4>3. BucketEntries(c)' = EntriesOf(<<n>> \o r, entry')
        BY <2>10, <2>16, <4>1, <4>2, EntriesAreNext DEF TypeOK
      <4> QED
        BY <3>7, <4>3
    <3>9. ASSUME NEW b \in Buckets, b # c PROVE BucketEntries(b)' = BucketEntries(b)
      <4>1. PICK p : p = list[b]
        OBVIOUS
      <4>2. BucketHead(b) = p /\ BucketHead(b)' = p
        BY <1>1, <1>3, <2>1, <2>11, <3>9, <4>1 DEF RestOK, TypeOK
      <4>3. PICK q \in Seq(Nodes) : IsList(next, own, p, b, q)
        BY <1>2, <4>2 DEF OwnInv, LinkInv, Listed
      <4>4. Kept(next, next', own, o2, b)
        BY <2>7, <2>8, <2>9, <3>9, OwnersApart DEF Kept
      <4>5. IsList(next', o2, p, b, q)
        BY <4>3, <4>4, ListKept
      <4>6. BucketEntries(b) = EntriesOf(q, entry)
        BY <1>1, <4>2, <4>3, EntriesAre DEF TypeOK
      <4>7. BucketEntries(b)' = EntriesOf(q, entry')
        BY <2>16, <4>2, <4>5, EntriesAreNext DEF TypeOK
      <4>8. Enumerates(q, own, b)
        BY <4>3, ListEnumerates
      <4>9. \A i \in DOMAIN q : q[i] \in Nodes /\ q[i] # n
        BY <2>9, <4>8, OwnersApart DEF Enumerates
      <4>10. \A i \in DOMAIN q : entry'[q[i]] = entry[q[i]]
        BY <1>1, <2>1, <4>9 DEF TypeOK
      <4> QED
        BY <4>6, <4>7, <4>10 DEF EntriesOf
    <3>10. \A i \in DOMAIN E : E[i].key # k
      BY <2>3, <3>2, <3>4 DEF EntriesOf
    <3>11. free_node_num \in Nat \ {0}
      <4>1. free_node_num' \in Nat /\ free_node_num \in Nat /\ free_node_num' = free_node_num - 1
        BY <1>1, <2>1, <2>16, NilIsNone DEF TypeOK
      <4> QED
        BY <4>1
    <3>12. Freeing = {} /\ Freeing' = {}
      BY <1>3, <2>11 DEF RestOK
    <3>13. \A b \in Buckets :
             BucketEntries(b)' = IF b = c THEN <<e>> \o BucketEntries(b) ELSE BucketEntries(b)
      BY <3>1, <3>8, <3>9
    <3> QED
      BY <1>4, <2>1, <3>1, <3>10, <3>11, <3>12, <3>13 DEF PutEffect
  <2> QED
    BY <1>4, <1>6, <2>18, <2>7, <2>11, <2>12, <2>13, <2>14, <2>15, <2>16, <2>17 DEF HashInv, OwnInv
<1> QED
  BY <1>5, <1>6

\* The counters after a node of bucket c was cleared.
LEMMA ClearCounts ==
  ASSUME TypeOK, NEW own \in [Nodes -> Owners], OwnInv(own), RestOK, RestOK',
         NEW c \in Buckets, NEW n \in Nodes, own[n] = c, NEW d, d \in {Pool, Lost},
         NEW o2, Moved(own, o2, n, d),
         len' = [len EXCEPT ![c] = @ - 1], used_block_num' = used_block_num - 1,
         free_node_num' = IF d = Pool THEN free_node_num + 1 ELSE free_node_num
  PROVE  /\ CountInv(o2)'
         /\ len' \in [Buckets -> 0 .. PerBlock]
         /\ used_block_num' \in 0 .. PerBlock
         /\ free_node_num' \in 0 .. PerBlock
<1>0. OwnedBy(own, n, c) /\ ~OwnedBy(own, n, Pool) /\ d # c /\ d \notin Buckets
  BY OwnersApart DEF OwnedBy
<1>1. Owned(o2, {c}) = Owned(own, {c}) - 1
  BY <1>0, OneLess
<1>2. ASSUME NEW b \in Buckets, b # c PROVE Owned(o2, {b}) = Owned(own, {b})
  <2>1. ~OwnedBy(own, n, b) /\ d # b
    BY <1>0, <1>2 DEF OwnedBy
  <2> QED
    BY <2>1, OneSame
<1>3. Owned(o2, Buckets) = Owned(own, Buckets) - 1
  BY <1>0, OwnedLess
<1>4. free_node_num' = Owned(o2, {Pool})
  <2>0. free_node_num = Owned(own, {Pool})
    BY DEF OwnInv, CountInv
  <2>1. CASE d = Pool
    <3>1. Moved(own, o2, n, Pool) /\ own[n] # Pool
      BY <2>1, OwnersApart
    <3>2. Owned(o2, {Pool}) = Owned(own, {Pool}) + 1
      BY <3>1, OneMore
    <3> QED
      BY <2>0, <2>1, <3>2
  <2>2. CASE d # Pool
    <3>1. Owned(o2, {Pool}) = Owned(own, {Pool})
      BY <1>0, <2>2, OneSame
    <3> QED
      BY <2>0, <2>2, <3>1
  <2> QED
    BY <2>1, <2>2
<1>5. /\ Cardinality(Popping) = 0 /\ Cardinality(Popping') = 0
      /\ \A b \in Buckets : Cardinality(PoppingAt(b)) = 0 /\ Cardinality(PoppingAt(b)') = 0
  BY FS_EmptySet DEF RestOK
<1>6. Owned(own, Buckets) \in Nat /\ \A b \in Buckets : Owned(own, {b}) \in Nat
  BY OwnedNat
<1>7. used_block_num' = Owned(o2, Buckets) + Cardinality(Popping')
  <2>1. used_block_num = Owned(own, Buckets) + Cardinality(Popping)
    BY DEF OwnInv, CountInv
  <2> QED
    BY <1>3, <1>5, <1>6, <2>1
<1>8. ASSUME NEW b \in Buckets
      PROVE  len'[b] = Owned(o2, {b}) + Cardinality(PoppingAt(b)') /\ len'[b] = Owned(o2, {b})
  <2>1. len'[b] = IF b = c THEN len[b] - 1 ELSE len[b]
    BY DEF TypeOK
  <2>2. len[b] = Owned(own, {b}) + Cardinality(PoppingAt(b))
    BY DEF OwnInv, CountInv
  <2>3. Cardinality(PoppingAt(b)') = 0 /\ Cardinality(PoppingAt(b)) = 0 /\ Owned(own, {b}) \in Nat
    BY <1>5, <1>6
  <2>4. CASE b = c
    BY <1>1, <2>1, <2>2, <2>3, <2>4
  <2>5. CASE b # c
    BY <1>2, <2>1, <2>2, <2>3, <2>5
  <2> QED
    BY <2>4, <2>5
<1>9. CountInv(o2)'
  BY <1>4, <1>7, <1>8 DEF CountInv
<1>10. len' \in [Buckets -> 0 .. PerBlock]
  <2>1. ASSUME NEW b \in Buckets PROVE len'[b] \in 0 .. PerBlock
    <3>1. Owned(o2, {b}) \in 0 .. PerBlock
      BY OwnedType
    <3> QED
      BY <1>8, <3>1
  <2> QED
    BY <2>1 DEF TypeOK
<1>11. used_block_num' \in 0 .. PerBlock
  <2>1. Owned(o2, Buckets) \in 0 .. PerBlock
    BY OwnedType
  <2> QED
    BY <1>5, <1>7, <2>1, NilIsNone
<1>12. free_node_num' \in 0 .. PerBlock
  BY <1>4, OwnedType
<1> QED
  BY <1>9, <1>10, <1>11, <1>12

\* The node in front of the i-th node of a bucket.
LEMMA BeforeIs ==
  ASSUME TypeOK, NEW own, NEW c, NEW s \in Seq(Nodes), IsList(next, own, list[c], c, s),
         NEW i \in 2 .. Len(s)
  PROVE  Before(c, s[i]) = s[i - 1]
<1>1. Len(s) \in Nat /\ i \in 1 .. Len(s) /\ i - 1 \in 1 .. Len(s) /\ (i - 1) + 1 = i
  OBVIOUS
<1>2. PICK R : R = Range(Walk(list[c]))
  OBVIOUS
<1>3. R = {n \in Nodes : own[n] = c}
  BY <1>2, WalkRange
<1>4. s[i - 1] \in R /\ next[s[i - 1]] = s[i]
  <2>1. next[s[i - 1]] = At(s, (i - 1) + 1)
    BY <1>1 DEF IsList
  <2>2. At(s, (i - 1) + 1) = s[i]
    BY <1>1 DEF At
  <2>3. s[i - 1] \in Nodes /\ own[s[i - 1]] = c
    BY <1>1 DEF IsList
  <2> QED
    BY <1>3, <2>1, <2>2, <2>3
<1>5. ASSUME NEW p \in R, next[p] = s[i] PROVE p = s[i - 1]
  <2>1. PICK j \in 1 .. Len(s) : s[j] = p
    BY <1>3, <1>5 DEF IsList
  <2>2. s[i] = At(s, j + 1) /\ s[i] \in Nodes
    BY <1>1, <1>5, <2>1 DEF IsList
  <2>3. j + 1 <= Len(s) /\ s[i] = s[j + 1]
    BY <1>1, <2>2, NilIsNone DEF At
  <2>4. j + 1 \in 1 .. Len(s)
    BY <1>1, <2>3
  <2>5. j + 1 = i
    BY <1>1, <2>3, <2>4 DEF IsList
  <2>6. j = i - 1
    BY <2>5
  <2> QED
    BY <2>1, <2>6
<1>6. Before(c, s[i]) = CHOOSE p \in R : next[p] = s[i]
  BY <1>2, Zenon DEF Before
<1>7. PICK q : q = CHOOSE p \in R : next[p] = s[i]
  OBVIOUS
<1>8. q \in R /\ next[q] = s[i]
  BY <1>4, <1>7
<1> QED
  BY <1>5, <1>6, <1>7, <1>8

\* A clear removes the entry of the key.
ClearEffect(k) ==
  LET c == mix_hash_hash(k)
      E == BucketEntries(c)
  IN /\ \E i \in DOMAIN E : E[i].key = k /\ BucketEntries(c)' = Drop(E, i)
     /\ \A b \in Buckets : b # c => BucketEntries(b)' = BucketEntries(b)
     /\ \A i \in DOMAIN E : E[i] \in Entry
     /\ E \in Seq(Entry)
     /\ free_node_num' = IF Head(E).key = k THEN free_node_num ELSE free_node_num + 1
     /\ Freeing' = Freeing

\* The entries of a bucket at rest, and those of the buckets a clear leaves alone.
LEMMA RestEntries ==
  ASSUME TypeOK, RestOK, NEW own \in [Nodes -> Owners], OwnInv(own), NEW c \in Buckets,
         NEW s \in Seq(Nodes), IsList(next, own, list[c], c, s)
  PROVE  /\ BucketEntries(c) = EntriesOf(s, entry)
         /\ EntriesOf(s, entry) \in Seq(Entry) /\ DOMAIN EntriesOf(s, entry) = 1 .. Len(s)
         /\ \A i \in 1 .. Len(s) : EntriesOf(s, entry)[i] = entry[s[i]]
<1>1. BucketHead(c) = list[c]
  BY DEF RestOK
<1>2. BucketEntries(c) = EntriesOf(s, entry)
  BY <1>1, EntriesAre DEF TypeOK
<1>3. Enumerates(s, own, c)
  BY ListEnumerates
<1>4. \A i \in 1 .. Len(s) : entry[s[i]] \in Entry
  BY <1>3 DEF Enumerates, OwnInv, EntryInv
<1>5. EntriesOf(s, entry) = [i \in 1 .. Len(s) |-> entry[s[i]]]
  BY <1>3 DEF EntriesOf, Enumerates
<1>6. EntriesOf(s, entry) \in [1 .. Len(s) -> Entry]
  BY <1>4, <1>5
<1>7. Len(s) \in Nat
  OBVIOUS
<1>8. EntriesOf(s, entry) \in Seq(Entry)
  BY <1>6, <1>7
<1> QED
  BY <1>2, <1>5, <1>8

\* A clear leaves the entries of other buckets alone.
LEMMA OtherBuckets ==
  ASSUME TypeOK, TypeOK', RestOK, RestOK', NEW own, OwnInv(own), NEW o2, NEW c,
         NEW b \in Buckets, b # c, list'[b] = list[b], Kept(next, next', own, o2, b),
         \A n \in Nodes : own[n] = b => entry'[n] = entry[n]
  PROVE  BucketEntries(b)' = BucketEntries(b)
<1>1. PICK p : p = list[b]
  OBVIOUS
<1>2. BucketHead(b) = p /\ BucketHead(b)' = p
  BY <1>1 DEF RestOK
<1>3. PICK q \in Seq(Nodes) : IsList(next, own, p, b, q)
  BY <1>2 DEF OwnInv, LinkInv, Listed
<1>4. IsList(next', o2, p, b, q)
  BY <1>3, ListKept
<1>5. BucketEntries(b) = EntriesOf(q, entry)
  BY <1>2, <1>3, EntriesAre DEF TypeOK
<1>6. BucketEntries(b)' = EntriesOf(q, entry')
  BY <1>2, <1>4, EntriesAreNext DEF TypeOK
<1>7. Enumerates(q, own, b)
  BY <1>3, ListEnumerates
<1>8. \A i \in DOMAIN q : entry'[q[i]] = entry[q[i]]
  BY <1>7 DEF Enumerates
<1> QED
  BY <1>5, <1>6, <1>8 DEF EntriesOf

\* The node of the key goes from its bucket to the pool, or is forgotten.
LEMMA ClearStep ==
  ASSUME HashInv, NEW k \in Keys, Clear(k)
  PROVE  HashInv' /\ ClearEffect(k)
<1>1. TypeOK /\ PhaseInv /\ AbortMeansLeak
  BY DEF HashInv
<1>2. PICK own \in [Nodes -> Owners] : OwnInv(own)
  BY DEF HashInv
<1>3. wpc = "work" /\ RestOK
  BY <1>1, Rest DEF Clear
<1>4. PICK c, n : c = mix_hash_hash(k) /\ n = NodeOf(k)
  OBVIOUS
<1>5. /\ n # Nil /\ wpc' = wpc
      /\ len' = [len EXCEPT ![c] = @ - 1] /\ used_block_num' = used_block_num - 1
      /\ UNCHANGED <<free_node_lock, tpc, migrate_idx, node, list_node, kv>>
  BY <1>4 DEF Clear, threadVars
<1>6. c \in Buckets /\ n \in Nodes /\ own[n] = c
  BY <1>1, <1>2, <1>3, <1>4, <1>5, NodeOfIs
<1>0. entry[n].key = k
  BY <1>1, <1>2, <1>3, <1>4, <1>5, NodeOfIs
<1>7. PICK s \in Seq(Nodes) : IsList(next, own, list[c], c, s)
  BY <1>2, <1>3, <1>6 DEF OwnInv, LinkInv, RestOK, Listed
<1>8. PhaseInv' /\ RestOK'
  <2>1. Popping' = Popping
    BY <1>5 DEF Popping, Freeing
  <2>2. PhaseInv'
    BY <1>1, <1>5, <2>1 DEF PhaseInv
  <2>3. (wpc # "migrate")'
    BY <1>3, <1>5
  <2> QED
    BY <2>2, <2>3, RestNext
<1>9. AbortMeansLeak'
  BY <1>3, <1>5 DEF AbortMeansLeak
<1>10. /\ \A t \in Threads : tpc'[t] # "publish"
       /\ \A m \in Nodes : own[m] # Hand
       /\ Freeing' = {}
  BY <1>1, <1>2, <1>3, <1>5, <1>8 DEF PhaseInv, OwnInv, HandInv, RestOK
<1>13. PICK E : E = EntriesOf(s, entry)
  OBVIOUS
<1>14. /\ BucketEntries(c) = E /\ E \in Seq(Entry) /\ DOMAIN E = 1 .. Len(s)
       /\ \A j \in 1 .. Len(s) : E[j] = entry[s[j]]
  BY <1>1, <1>2, <1>3, <1>6, <1>7, <1>13, RestEntries
<1>15. \A j \in DOMAIN E : E[j] \in Entry
  BY <1>14
<1>16. Freeing' = Freeing
  BY <1>3, <1>8 DEF RestOK
<1>17. \A h, j \in 1 .. Len(s) : s[h] = s[j] => h = j
  BY <1>7 DEF IsList
\* The first node of its bucket is forgotten.
<1>11. CASE n = list[c]
  <2>1. /\ list' = [list EXCEPT ![c] = next[n]] /\ leaked' = leaked \union {n}
        /\ UNCHANGED <<next, entry, free_head, free_node_num>>
    BY <1>4, <1>11 DEF Clear, poolVars
  <2>2. PICK o2 : o2 = [own EXCEPT ![n] = Lost]
    OBVIOUS
  <2>3. /\ o2 \in [Nodes -> Owners] /\ o2[n] = Lost /\ Moved(own, o2, n, Lost)
        /\ \A m \in Nodes : m # n => o2[m] = own[m]
    BY <1>6, <2>2, OwnersApart DEF Moved
  <2>4. s # <<>> /\ IsList(next, o2, next[n], c, Tail(s))
    <3>1. Lost # c /\ IsList(next, own, n, c, s)
      BY <1>6, <1>7, <1>11, OwnersApart
    <3>2. Pops(next, next, own, o2, n, c, Lost, s)
      BY <1>6, <2>3, <3>1 DEF Pops, KeepsLinks
    <3> QED
      BY <3>2, ListPop
  <2>5. \A a, p : a # c /\ a # Lost /\ Listed(next, own, p, a) => Listed(next', o2, p, a)
    <3> SUFFICES ASSUME NEW a, NEW p, a # c, a # Lost, Listed(next, own, p, a)
                 PROVE  Listed(next', o2, p, a)
      OBVIOUS
    <3>1. PICK r \in Seq(Nodes) : IsList(next, own, p, a, r)
      BY DEF Listed
    <3>2. \A m \in Nodes : o2[m] = a <=> own[m] = a
      BY <1>6, <2>3
    <3>3. IsList(next, o2, p, a, r)
      BY <3>1, <3>2, ListSame
    <3> QED
      BY <2>1, <3>3 DEF Listed
  <2>6. LinkInv(o2)'
    <3>1. Listed(next', o2, free_head', Pool)
      BY <1>2, <1>6, <2>1, <2>5, OwnersApart DEF OwnInv, LinkInv
    <3>2. ASSUME NEW b \in Buckets PROVE Listed(next', o2, BucketHead(b)', b)
      <4>1. BucketHead(b)' = list'[b]
        BY <1>8 DEF RestOK
      <4>2. CASE b = c
        <5>1. list'[c] = next[n] /\ Tail(s) \in Seq(Nodes)
          BY <1>1, <1>6, <2>1, <2>4 DEF TypeOK
        <5> QED
          BY <2>1, <2>4, <4>1, <4>2, <5>1 DEF Listed
      <4>3. CASE b # c
        <5>1. list'[b] = list[b] /\ Listed(next, own, list[b], b) /\ b # Lost
          BY <1>1, <1>2, <1>3, <2>1, <4>3, OwnersApart DEF TypeOK, OwnInv, LinkInv, RestOK
        <5> QED
          BY <2>5, <4>1, <4>3, <5>1
      <4> QED
        BY <4>2, <4>3
    <3> QED
      BY <1>10, <3>1, <3>2 DEF LinkInv
  <2>7. HandInv(o2)'
    <3>1. \A m \in Nodes : o2[m] = Lost <=> own[m] = Lost \/ m = n
      BY <2>3
    <3>2. \A m \in Nodes : o2[m] # Hand
      BY <1>10, <2>3, OwnersApart
    <3>3. \A m \in Nodes : own[m] = Lost <=> m \in leaked
      BY <1>2 DEF OwnInv, HandInv
    <3>4. \A m \in Nodes : o2[m] = Lost <=> m \in leaked'
      BY <2>1, <3>1, <3>3
    <3> QED
      BY <1>10, <3>2, <3>4 DEF HandInv
  <2>8. /\ CountInv(o2)'
        /\ len' \in [Buckets -> 0 .. PerBlock]
        /\ used_block_num' \in 0 .. PerBlock
        /\ free_node_num' \in 0 .. PerBlock
    <3>1. Lost \in {Pool, Lost} /\ free_node_num' = IF Lost = Pool THEN free_node_num + 1
                                                    ELSE free_node_num
      BY <2>1, OwnersApart
    <3> QED
      BY <1>1, <1>2, <1>3, <1>5, <1>6, <1>8, <2>3, <3>1, ClearCounts
  <2>9. EntryInv(o2)'
    <3>1. \A m \in Nodes : o2[m] \in Buckets => o2[m] = own[m] /\ entry'[m] = entry[m]
      BY <2>1, <2>3, OwnersApart
    <3> QED
      BY <1>2, <3>1 DEF OwnInv, EntryInv
  <2>10. TypeOK'
    <3>1. list' \in [Buckets -> Nodes \union {Nil}] /\ leaked' \subseteq Nodes
      BY <1>1, <1>6, <2>1 DEF TypeOK
    <3> QED
      BY <1>1, <1>5, <2>1, <2>8, <3>1 DEF TypeOK
  <2>11. ClearEffect(k)
    <3>1. s[1] = n /\ 1 \in 1 .. Len(s) /\ Tail(s) = Drop(s, 1) /\ Tail(s) \in Seq(Nodes)
      <4>1. 1 \in 1 .. Len(s) /\ Tail(s) = Drop(s, 1)
        BY <2>4, TailIsDrop
      <4>2. list[c] = At(s, 1)
        BY <1>7 DEF IsList
      <4> QED
        BY <1>11, <2>4, <4>1, <4>2 DEF At
    <3>2. EntriesOf(Drop(s, 1), entry') = Drop(E, 1)
      BY <1>13, <2>1, <3>1, EntriesDrop
    <3>3. BucketEntries(c)' = EntriesOf(Drop(s, 1), entry')
      <4>1. BucketHead(c)' = next[n]
        BY <1>1, <1>6, <1>8, <2>1 DEF RestOK, TypeOK
      <4>2. IsList(next', o2, BucketHead(c)', c, Drop(s, 1))
        BY <2>1, <2>4, <3>1, <4>1
      <4> QED
        BY <2>10, <3>1, <4>2, EntriesAreNext DEF TypeOK
    <3>4. E[1].key = k /\ Head(E) = E[1]
      BY <1>0, <1>14, <3>1
    <3>5. ASSUME NEW b \in Buckets, b # c PROVE BucketEntries(b)' = BucketEntries(b)
      <4>1. list'[b] = list[b]
        BY <1>1, <2>1, <3>5 DEF TypeOK
      <4>2. Kept(next, next', own, o2, b)
        BY <1>6, <2>1, <2>3, <3>5, OwnersApart DEF Kept
      <4>3. \A m \in Nodes : own[m] = b => entry'[m] = entry[m]
        BY <2>1
      <4> QED
        BY <1>1, <1>2, <1>3, <1>8, <2>10, <3>5, <4>1, <4>2, <4>3, OtherBuckets
    <3>6. \E i \in DOMAIN E : E[i].key = k /\ BucketEntries(c)' = Drop(E, i)
      BY <1>14, <3>1, <3>2, <3>3, <3>4
    <3>7. free_node_num' = IF Head(E).key = k THEN free_node_num ELSE free_node_num + 1
      BY <2>1, <3>4
    <3> QED
      BY <1>4, <1>14, <1>15, <1>16, <3>5, <3>6, <3>7 DEF ClearEffect
  <2> QED
    BY <2>11, <1>8, <1>9, <2>3, <2>6, <2>7, <2>8, <2>9, <2>10 DEF HashInv, OwnInv
\* Any other one goes back to the pool.
<1>12. CASE n # list[c]
  <2>0. PICK i \in 2 .. Len(s) : s[i] = n
    <3>1. PICK i \in 1 .. Len(s) : s[i] = n
      BY <1>6, <1>7 DEF IsList
    <3>2. list[c] = At(s, 1) /\ 1 <= Len(s)
      BY <1>7, <3>1 DEF IsList
    <3>3. i # 1
      BY <1>12, <3>1, <3>2 DEF At
    <3> QED
      BY <3>1, <3>3
  <2>1. PICK q : q = s[i - 1]
    OBVIOUS
  <2>2. q \in Nodes /\ own[q] = c /\ q # n /\ Before(c, n) = q
    <3>1. i - 1 \in 1 .. Len(s) /\ i \in 1 .. Len(s) /\ i - 1 # i
      BY <2>0
    <3>2. q \in Nodes /\ own[q] = c
      BY <1>7, <2>1, <3>1 DEF IsList
    <3>3. q # n
      BY <1>7, <2>0, <2>1, <3>1 DEF IsList
    <3>4. Before(c, n) = q
      BY <1>1, <1>7, <2>0, <2>1, BeforeIs
    <3> QED
      BY <3>2, <3>3, <3>4
  <2>3. /\ next' = [next EXCEPT ![q] = next[n], ![n] = free_head]
        /\ entry' = [entry EXCEPT ![n] = NoEntry]
        /\ free_head' = n /\ free_node_num' = free_node_num + 1
        /\ UNCHANGED <<list, leaked>>
    BY <1>4, <1>12, <2>2 DEF Clear
  <2>4. /\ next'[q] = next[n] /\ next'[n] = free_head
        /\ \A m \in Nodes : m # q /\ m # n => next'[m] = next[m]
    BY <1>1, <1>6, <2>2, <2>3 DEF TypeOK
  <2>5. PICK o2 : o2 = [own EXCEPT ![n] = Pool]
    OBVIOUS
  <2>6. /\ o2 \in [Nodes -> Owners] /\ o2[n] = Pool /\ Moved(own, o2, n, Pool)
        /\ \A m \in Nodes : m # n => o2[m] = own[m]
    BY <1>6, <2>5, OwnersApart DEF Moved
  <2>7. IsList(next', o2, list[c], c, Drop(s, i))
    <3>1. Pool # c /\ next'[s[i - 1]] = next[s[i]] /\ o2 = [own EXCEPT ![s[i]] = Pool]
      BY <1>6, <2>0, <2>1, <2>4, <2>5, OwnersApart
    <3>2. \A m \in Nodes : own[m] = c /\ m # s[i] /\ m # s[i - 1] => next'[m] = next[m]
      BY <2>0, <2>1, <2>4
    <3>3. Removes(next, next', own, o2, list[c], c, Pool, s, i)
      BY <1>7, <3>1, <3>2 DEF Removes
    <3> QED
      BY <3>3, ListRemove
  <2>8. PICK r \in Seq(Nodes) : IsList(next, own, free_head, Pool, r)
    BY <1>2 DEF OwnInv, LinkInv, Listed
  <2>9. IsList(next', o2, n, Pool, <<n>> \o r)
    <3>1. own[n] # Pool /\ \A m \in Nodes : own[m] = Pool => next'[m] = next[m]
      BY <1>6, <2>2, <2>4, OwnersApart
    <3> QED
      BY <1>6, <2>4, <2>5, <2>8, <3>1, ListPush
  <2>10. LinkInv(o2)'
    <3>1. Listed(next', o2, free_head', Pool)
      <4>1. <<n>> \o r \in Seq(Nodes)
        BY <1>6
      <4> QED
        BY <2>3, <2>9, <4>1 DEF Listed
    <3>2. ASSUME NEW b \in Buckets PROVE Listed(next', o2, BucketHead(b)', b)
      <4>1. BucketHead(b)' = list[b]
        BY <1>8, <2>3 DEF RestOK
      <4>2. CASE b = c
        <5>1. i \in 1 .. Len(s)
          BY <2>0
        <5>2. Drop(s, i) \in Seq(Nodes) /\ Len(Drop(s, i)) = Len(s) - 1
          BY <5>1, DropIsSeq
        <5> QED
          BY <2>7, <4>1, <4>2, <5>2 DEF Listed
      <4>3. CASE b # c
        <5>1. PICK z \in Seq(Nodes) : IsList(next, own, list[b], b, z)
          BY <1>2, <1>3 DEF OwnInv, LinkInv, RestOK, Listed
        <5>2. \A m \in Nodes : o2[m] = b <=> own[m] = b
          BY <1>6, <2>6, <4>3, OwnersApart
        <5>3. \A m \in Nodes : own[m] = b => next'[m] = next[m]
          BY <1>6, <2>2, <2>4, <4>3
        <5>4. IsList(next', o2, list[b], b, z)
          <6>1. Kept(next, next', own, o2, b)
            BY <5>2, <5>3 DEF Kept
          <6> QED
            BY <5>1, <6>1, ListKept
        <5> QED
          BY <4>1, <5>4 DEF Listed
      <4> QED
        BY <4>2, <4>3
    <3> QED
      BY <1>10, <3>1, <3>2 DEF LinkInv
  <2>11. HandInv(o2)'
    <3>1. \A m \in Nodes : o2[m] = Lost <=> own[m] = Lost
      BY <1>6, <2>6, OwnersApart
    <3>2. \A m \in Nodes : o2[m] # Hand
      BY <1>10, <2>6, OwnersApart
    <3>3. \A m \in Nodes : own[m] = Lost <=> m \in leaked'
      BY <1>2, <2>3 DEF OwnInv, HandInv
    <3> QED
      BY <1>10, <3>1, <3>2, <3>3 DEF HandInv
  <2>12. /\ CountInv(o2)'
         /\ len' \in [Buckets -> 0 .. PerBlock]
         /\ used_block_num' \in 0 .. PerBlock
         /\ free_node_num' \in 0 .. PerBlock
    <3>1. Pool \in {Pool, Lost} /\ free_node_num' = IF Pool = Pool THEN free_node_num + 1
                                                    ELSE free_node_num
      BY <2>3
    <3> QED
      BY <1>1, <1>2, <1>3, <1>5, <1>6, <1>8, <2>6, <3>1, ClearCounts
  <2>13. EntryInv(o2)'
    <3>1. \A m \in Nodes : o2[m] \in Buckets => o2[m] = own[m] /\ entry'[m] = entry[m]
      BY <1>1, <2>3, <2>6, OwnersApart DEF TypeOK
    <3> QED
      BY <1>2, <3>1 DEF OwnInv, EntryInv
  <2>14. TypeOK'
    <3>1. next' \in [Nodes -> Nodes \union {Nil}]
      BY <1>1, <1>6, <2>2, <2>3 DEF TypeOK
    <3>2. entry' \in [Nodes -> Entry \union {NoEntry}]
      BY <1>1, <2>3 DEF TypeOK
    <3> QED
      BY <1>1, <1>5, <1>6, <2>3, <2>12, <3>1, <3>2 DEF TypeOK
  <2>15. ClearEffect(k)
    <3>1. i \in 1 .. Len(s) /\ 1 \in 1 .. Len(s) /\ i # 1
      BY <2>0
    <3>2. EntriesOf(Drop(s, i), entry') = Drop(E, i)
      <4>1. ASSUME NEW j \in 1 .. Len(s), j # i PROVE entry'[s[j]] = entry[s[j]]
        <5>1. s[j] # n /\ s[j] \in Nodes
          BY <1>17, <2>0, <3>1, <4>1
        <5> QED
          BY <1>1, <2>3, <5>1 DEF TypeOK
      <4> QED
        BY <1>13, <3>1, <4>1, EntriesDrop
    <3>3. BucketEntries(c)' = EntriesOf(Drop(s, i), entry')
      <4>1. BucketHead(c)' = list[c]
        BY <1>6, <1>8, <2>3 DEF RestOK
      <4>2. IsList(next', o2, BucketHead(c)', c, Drop(s, i))
        BY <2>7, <4>1
      <4>3. Drop(s, i) \in Seq(Nodes) /\ Len(Drop(s, i)) = Len(s) - 1
        BY <3>1, DropIsSeq
      <4> QED
        BY <2>14, <4>2, <4>3, EntriesAreNext DEF TypeOK
    <3>4. E[i].key = k /\ Head(E) = E[1] /\ E[1].key # k
      <4>1. E[i] = entry[n] /\ E[1] = entry[s[1]] /\ Head(E) = E[1]
        BY <1>14, <2>0, <3>1
      <4>2. s[1] \in Nodes /\ own[s[1]] = c /\ s[1] # n
        BY <1>7, <1>17, <2>0, <3>1 DEF IsList
      <4>3. entry[s[1]].key # entry[n].key
        BY <1>2, <1>6, <4>2 DEF OwnInv, EntryInv
      <4> QED
        BY <1>0, <4>1, <4>3
    <3>5. ASSUME NEW b \in Buckets, b # c PROVE BucketEntries(b)' = BucketEntries(b)
      <4>1. list'[b] = list[b]
        BY <2>3
      <4>2. Kept(next, next', own, o2, b)
        BY <1>6, <2>2, <2>4, <2>6, <3>5, OwnersApart DEF Kept
      <4>3. \A m \in Nodes : own[m] = b => entry'[m] = entry[m]
        BY <1>1, <1>6, <2>3, <3>5 DEF TypeOK
      <4> QED
        BY <1>1, <1>2, <1>3, <1>8, <2>14, <3>5, <4>1, <4>2, <4>3, OtherBuckets
    <3>6. \E j \in DOMAIN E : E[j].key = k /\ BucketEntries(c)' = Drop(E, j)
      BY <1>14, <3>1, <3>2, <3>3, <3>4
    <3>7. free_node_num' = IF Head(E).key = k THEN free_node_num ELSE free_node_num + 1
      BY <2>3, <3>4
    <3> QED
      BY <1>4, <1>14, <1>15, <1>16, <3>5, <3>6, <3>7 DEF ClearEffect
  <2> QED
    BY <2>15, <1>8, <1>9, <2>6, <2>10, <2>11, <2>12, <2>13, <2>14 DEF HashInv, OwnInv
<1> QED
  BY <1>11, <1>12

---------------------------------------------------------------------------
(* The theorems *)

\* Every step keeps the invariant.
LEMMA HashInvNext == HashInv /\ [Next]_vars => HashInv'
<1> SUFFICES ASSUME HashInv, [Next]_vars PROVE HashInv'
  OBVIOUS
<1>1. ASSUME NEW k \in Keys, NEW v \in Values, Put(k, v) PROVE HashInv'
  BY <1>1, PutStep
<1>2. ASSUME NEW k \in Keys, Clear(k) PROVE HashInv'
  BY <1>2, ClearStep
<1>3. CASE Migrate
  BY <1>3, MigrateStep
<1>4. CASE Migrated
  BY <1>4, MigratedStep
<1>5. ASSUME NEW t \in Threads, ThreadStep(t) PROVE HashInv'
  BY <1>5, TakeStep, LockStep, LinkStep, PublishStep, UnlockStep, UnhookStep, SkipStep
     DEF ThreadStep
<1>6. CASE UNCHANGED vars
  <2>1. UNCHANGED <<list, len, next, entry, free_head, free_node_num, free_node_lock,
                    used_block_num, wpc, tpc, migrate_idx, node, list_node, leaked>>
    BY <1>6 DEF vars, bucketVars, poolVars, threadVars
  <2>2. TypeOK /\ PhaseInv /\ AbortMeansLeak
    BY DEF HashInv
  <2>3. Popping' = Popping /\ Freeing' = Freeing
    BY <2>1 DEF Popping, Freeing
  <2>4. Quiet
    BY <2>1, <2>3 DEF Quiet
  <2>5. TypeOK'
    BY <2>1, <2>2 DEF TypeOK
  <2>6. PhaseInv'
    BY <2>1, <2>2, <2>3 DEF PhaseInv
  <2>7. AbortMeansLeak'
    BY <2>1, <2>2 DEF AbortMeansLeak
  <2> QED
    BY <2>4, <2>5, <2>6, <2>7, QuietHash
<1> QED
  BY <1>1, <1>2, <1>3, <1>4, <1>5, <1>6 DEF Next

\* So it always holds.
LEMMA HashInvHolds == Spec => []HashInv
  BY InitInv, HashInvNext, PTL DEF Spec

\* The links, counters and positions of the threads stay in their ranges: no
\* counter of mix_hash.c runs below zero or past the number of blocks, however
\* the threads that free nodes interleave.
THEOREM HashTypeCorrect == Spec => []TypeOK
<1>1. HashInv => TypeOK
  BY DEF HashInv
<1> QED
  BY <1>1, HashInvHolds, PTL

\* The pool has a node for every block that mix_hash_put may be asked to index,
\* as long as mix_hash_delete has not forgotten one.
THEOREM AbortNeedsLeak == Spec => []AbortMeansLeak
<1>1. HashInv => AbortMeansLeak
  BY DEF HashInv
<1> QED
  BY <1>1, HashInvHolds, PTL

\* The nodes of the pool and of the buckets.
LEMMA Walks ==
  ASSUME TypeOK, NEW own, OwnInv(own)
  PROVE  /\ IsList(next, own, free_head, Pool, Free)
         /\ \A b \in Buckets : IsList(next, own, BucketHead(b), b, BucketNodes(b))
<1>1. IsList(next, own, free_head, Pool, Free)
  <2>1. PICK s \in Seq(Nodes) : IsList(next, own, free_head, Pool, s)
    BY DEF OwnInv, LinkInv, Listed
  <2>2. Walk(free_head) = s
    BY <2>1, WalkRange
  <2> QED
    BY <2>1, <2>2 DEF Free
<1>2. ASSUME NEW b \in Buckets PROVE IsList(next, own, BucketHead(b), b, BucketNodes(b))
  <2>1. PICK p : p = BucketHead(b)
    OBVIOUS
  <2>2. PICK s \in Seq(Nodes) : IsList(next, own, p, b, s)
    BY <2>1 DEF OwnInv, LinkInv, Listed
  <2>3. Walk(p) = s
    BY <2>2, WalkRange
  <2> QED
    BY <2>1, <2>2, <2>3 DEF BucketNodes
<1> QED
  BY <1>1, <1>2

\* The counters of the invariant are the lengths of the walks.
LEMMA LenFollows == HashInv => LenIsLength
<1> SUFFICES ASSUME HashInv, NEW b \in Buckets
             PROVE  /\ len[b] = Len(BucketNodes(b)) + Cardinality({t \in Popping : migrate_idx[t] = b})
                    /\ \A e \in Range(BucketEntries(b)) : e # NoEntry /\ mix_hash_hash(e.key) = b
  BY DEF LenIsLength
<1>1. TypeOK
  BY DEF HashInv
<1>2. PICK own \in [Nodes -> Owners] : OwnInv(own)
  BY DEF HashInv
<1>3. PICK s : s = BucketNodes(b)
  OBVIOUS
<1>4. IsList(next, own, BucketHead(b), b, s)
  BY <1>1, <1>2, <1>3, Walks
<1>5. Len(s) = Owned(own, {b}) /\ \A i \in DOMAIN s : s[i] \in Nodes /\ own[s[i]] = b
  <2>1. Enumerates(s, own, b)
    BY <1>4, ListEnumerates
  <2> QED
    BY <2>1 DEF Enumerates
<1>6. len[b] = Owned(own, {b}) + Cardinality({t \in Popping : migrate_idx[t] = b})
  BY <1>2 DEF OwnInv, CountInv, PoppingAt
<1>7. ASSUME NEW e \in Range(BucketEntries(b)) PROVE e # NoEntry /\ mix_hash_hash(e.key) = b
  <2>1. BucketEntries(b) = [i \in DOMAIN s |-> entry[s[i]]]
    BY <1>3 DEF BucketEntries
  <2>2. PICK i \in DOMAIN s : e = entry[s[i]]
    BY <1>7, <2>1 DEF Range
  <2>3. e \in Entry /\ mix_hash_hash(e.key) = b
    BY <1>2, <1>5, <2>2 DEF OwnInv, EntryInv
  <2>4. e.value # None
    BY <2>3, SegmentAssumption DEF Entry, Blocks, None
  <2>5. NoEntry.value = None
    BY DEF NoEntry
  <2> QED
    BY <2>3, <2>4, <2>5
<1> QED
  BY <1>3, <1>5, <1>6, <1>7

\* len, by which mix_hash_get_entry_by_idx decides whether there is a node to
\* dereference, is the length of the bucket's list, whichever threads are in
\* the middle of a pop, and the list holds live entries of that bucket.
THEOREM LenCountsNodes == Spec => []LenIsLength
  BY LenFollows, HashInvHolds, PTL

\* The threads that free a node hold as many nodes.
LEMMA FreeingCount ==
  ASSUME TypeOK, NEW own, HandInv(own)
  PROVE  Cardinality(Freeing) = Owned(own, {Hand})
<1>1. PICK A : A = {n \in Nodes : own[n] \in {Hand}}
  OBVIOUS
<1>2. PICK f : f = [t \in Freeing |-> node[t]]
  OBVIOUS
<1>3. IsFiniteSet(Freeing)
  <2>1. Freeing \subseteq Threads
    BY DEF Freeing
  <2> QED
    BY <2>1, ThreadsFinite, FS_Subset
<1>4. f \in [Freeing -> A]
  BY <1>1, <1>2 DEF HandInv
<1>5. \A t, u \in Freeing : f[t] = f[u] => t = u
  BY <1>2 DEF HandInv
<1>6. \A n \in A : \E t \in Freeing : f[t] = n
  BY <1>1, <1>2 DEF HandInv
<1>7. f \in Bijection(Freeing, A)
  BY <1>4, <1>5, <1>6 DEF Bijection, Injection, Surjection, IsInjective
<1>8. ExistsBijection(Freeing, A)
  BY <1>7, Zenon DEF ExistsBijection
<1>9. Cardinality(A) = Cardinality(Freeing)
  BY <1>3, <1>8, FS_Bijection
<1> QED
  BY <1>1, <1>9 DEF Owned

\* The places in the buckets' lists.
Places == UNION {{<<b, i>> : i \in DOMAIN BucketNodes(b)} : b \in Buckets}

\* There are as many as nodes in buckets.
LEMMA PlacesCount ==
  ASSUME TypeOK, NEW own \in [Nodes -> Owners], OwnInv(own)
  PROVE  Cardinality(Places) = Owned(own, Buckets)
<1>1. PICK A, P : A = {n \in Nodes : own[n] \in Buckets} /\ P = Places
  OBVIOUS
<1>2. PICK N : N = [b \in Buckets |-> BucketNodes(b)]
  OBVIOUS
<1>3. \A x : x \in P <=> \E b \in Buckets : \E i \in DOMAIN N[b] : x = <<b, i>>
  BY <1>1, <1>2 DEF Places
<1>4. ASSUME NEW b \in Buckets
      PROVE  /\ \A i \in DOMAIN N[b] : N[b][i] \in Nodes /\ own[N[b][i]] = b
             /\ \A i, j \in DOMAIN N[b] : N[b][i] = N[b][j] => i = j
             /\ \A n \in Nodes : own[n] = b => \E i \in DOMAIN N[b] : N[b][i] = n
  <2>1. PICK s, p : s = BucketNodes(b) /\ p = BucketHead(b)
    OBVIOUS
  <2>2. IsList(next, own, p, b, s) /\ N[b] = s
    BY <1>2, <2>1, Walks
  <2>3. Enumerates(s, own, b)
    BY <2>2, ListEnumerates
  <2> QED
    BY <2>2, <2>3 DEF Enumerates
<1>5. PICK f : f = [x \in P |-> N[x[1]][x[2]]]
  OBVIOUS
<1>6. \A b \in Buckets : \A i \in DOMAIN N[b] : <<b, i>> \in P /\ f[<<b, i>>] = N[b][i]
  BY <1>3, <1>5
<1>7. f \in [P -> A]
  <2>1. ASSUME NEW x \in P PROVE f[x] \in A
    <3>1. PICK b \in Buckets : \E i \in DOMAIN N[b] : x = <<b, i>>
      BY <1>3
    <3>2. PICK i \in DOMAIN N[b] : x = <<b, i>>
      BY <3>1
    <3>3. f[x] = N[b][i]
      BY <1>6, <3>2
    <3> QED
      BY <1>1, <1>4, <3>3
  <2> QED
    BY <1>5, <2>1
<1>8. \A x, y \in P : f[x] = f[y] => x = y
  <2> SUFFICES ASSUME NEW x \in P, NEW y \in P, f[x] = f[y] PROVE x = y
    OBVIOUS
  <2>6. PICK b \in Buckets : \E i \in DOMAIN N[b] : x = <<b, i>>
    BY <1>3
  <2>1. PICK i \in DOMAIN N[b] : x = <<b, i>>
    BY <2>6
  <2>7. PICK c \in Buckets : \E j \in DOMAIN N[c] : y = <<c, j>>
    BY <1>3
  <2>2. PICK j \in DOMAIN N[c] : y = <<c, j>>
    BY <2>7
  <2>3. N[b][i] = N[c][j]
    BY <1>6, <2>1, <2>2
  <2>4. b = c
    BY <1>4, <2>3
  <2>5. i = j
    BY <1>4, <2>3, <2>4
  <2> QED
    BY <2>1, <2>2, <2>4, <2>5
<1>9. \A n \in A : \E x \in P : f[x] = n
  <2> SUFFICES ASSUME NEW n \in A PROVE \E x \in P : f[x] = n
    OBVIOUS
  <2>1. PICK b \in Buckets : own[n] = b /\ n \in Nodes
    BY <1>1
  <2>2. PICK i \in DOMAIN N[b] : N[b][i] = n
    BY <1>4, <2>1
  <2> QED
    BY <1>6, <2>2
<1>10. f \in Bijection(P, A)
  BY <1>7, <1>8, <1>9 DEF Bijection, Injection, Surjection, IsInjective
<1>11. IsFiniteSet(A) /\ Cardinality(A) = Owned(own, Buckets)
  BY <1>1, OwnedType DEF Owned
<1>12. f \in Injection(P, A) /\ f \in Surjection(P, A)
  BY <1>10, Zenon DEF Bijection
<1>13. Cardinality(P) = Cardinality(A)
  BY <1>11, <1>12, FS_Injection
<1> QED
  BY <1>1, <1>11, <1>13

\* Every node has one owner.
LEMMA OwnersCount ==
  ASSUME NEW own \in [Nodes -> Owners]
  PROVE  PerBlock = Owned(own, {Pool}) + Owned(own, {Hand}) + Owned(own, {Lost})
                    + Owned(own, Buckets)
<1>1. PICK A, B, C, D : /\ A = {n \in Nodes : own[n] \in {Pool}}
                        /\ B = {n \in Nodes : own[n] \in {Hand}}
                        /\ C = {n \in Nodes : own[n] \in {Lost}}
                        /\ D = {n \in Nodes : own[n] \in Buckets}
  OBVIOUS
<1>2. /\ IsFiniteSet(A) /\ Cardinality(A) = Owned(own, {Pool})
      /\ IsFiniteSet(B) /\ Cardinality(B) = Owned(own, {Hand})
      /\ IsFiniteSet(C) /\ Cardinality(C) = Owned(own, {Lost})
      /\ IsFiniteSet(D) /\ Cardinality(D) = Owned(own, Buckets)
  BY <1>1, OwnedType DEF Owned
<1>3. /\ A \cap B = {} /\ (A \union B) \cap C = {} /\ (A \union B \union C) \cap D = {}
      /\ A \union B \union C \union D = Nodes
  <2>1. \A n \in Nodes : own[n] \in Buckets \/ own[n] = Pool \/ own[n] = Hand \/ own[n] = Lost
    BY DEF Owners
  <2> QED
    BY <1>1, <2>1, OwnersApart
<1>4. Cardinality({}) = 0
  BY FS_EmptySet
<1>5. PICK E : E = A \union B
  OBVIOUS
<1>6. IsFiniteSet(E) /\ Cardinality(E) = Cardinality(A) + Cardinality(B) - Cardinality(A \cap B)
  BY <1>2, <1>5, FS_Union
<1>7. PICK F : F = E \union C
  OBVIOUS
<1>8. IsFiniteSet(F) /\ Cardinality(F) = Cardinality(E) + Cardinality(C) - Cardinality(E \cap C)
  BY <1>2, <1>6, <1>7, FS_Union
<1>9. Cardinality(F \union D) = Cardinality(F) + Cardinality(D) - Cardinality(F \cap D)
  BY <1>2, <1>8, FS_Union
<1>10. /\ Cardinality(A \cap B) = 0 /\ Cardinality(E \cap C) = 0 /\ Cardinality(F \cap D) = 0
       /\ Cardinality(F \union D) = PerBlock
  BY <1>3, <1>4, <1>5, <1>7, NodesFinite
<1>11. /\ Cardinality(A) \in Nat /\ Cardinality(B) \in Nat /\ Cardinality(C) \in Nat
       /\ Cardinality(D) \in Nat /\ Cardinality(E) \in Nat /\ Cardinality(F) \in Nat
  BY <1>2, <1>6, <1>8, FS_CardinalityType
<1>12. PerBlock = Cardinality(A) + Cardinality(B) + Cardinality(C) + Cardinality(D)
  BY <1>6, <1>8, <1>9, <1>10, <1>11
<1> QED
  BY <1>2, <1>12

\* The owners of the invariant account for every node.
LEMMA AccountFollows == HashInv => NodesAccounted
<1> SUFFICES ASSUME HashInv PROVE NodesAccounted
  OBVIOUS
<1>1. TypeOK
  BY DEF HashInv
<1>2. PICK own \in [Nodes -> Owners] : OwnInv(own)
  BY DEF HashInv
<1>3. HandInv(own)
  BY <1>2 DEF OwnInv
<1>4. IsList(next, own, free_head, Pool, Free)
  BY <1>1, <1>2, Walks
<1>0. Enumerates(Free, own, Pool)
  BY <1>4, ListEnumerates
<1>5. Len(Free) = Owned(own, {Pool})
  BY <1>0 DEF Enumerates
<1>6. Range(Free) = {n \in Nodes : own[n] = Pool}
  BY <1>0 DEF Enumerates
<1>7. free_node_num = Len(Free)
  BY <1>2, <1>5 DEF OwnInv, CountInv
<1>8. leaked = {n \in Nodes : own[n] \in {Lost}}
  BY <1>1, <1>3 DEF HandInv, TypeOK
<1>9. Cardinality(leaked) = Owned(own, {Lost})
  BY <1>8 DEF Owned
<1>10. Cardinality(Freeing) = Owned(own, {Hand})
  BY <1>1, <1>3, FreeingCount
<1>11. Cardinality(Places) = Owned(own, Buckets)
  BY <1>1, <1>2, PlacesCount
<1>12. /\ Owned(own, {Pool}) \in Nat /\ Owned(own, {Hand}) \in Nat
       /\ Owned(own, {Lost}) \in Nat /\ Owned(own, Buckets) \in Nat
  BY OwnedNat
<1>13. Cardinality(Nodes) = Len(Free) + Cardinality(Freeing) + Cardinality(leaked)
                            + Cardinality(Places)
  <2>1. Cardinality(Nodes) = Owned(own, {Pool}) + Owned(own, {Hand}) + Owned(own, {Lost})
                             + Owned(own, Buckets)
    BY OwnersCount, NodesFinite
  <2> QED
    BY <1>5, <1>9, <1>10, <1>11, <2>1
<1>14. PICK H : H = {node[t] : t \in Freeing}
  OBVIOUS
<1>15. H = {n \in Nodes : own[n] = Hand}
  BY <1>3, <1>14 DEF HandInv
<1>16. PICK U : U = UNION {Range(BucketNodes(b)) : b \in Buckets}
  OBVIOUS
<1>17. U = {n \in Nodes : own[n] \in Buckets}
  <2>1. ASSUME NEW b \in Buckets PROVE Range(BucketNodes(b)) = {n \in Nodes : own[n] = b}
    <3>1. PICK s, p : s = BucketNodes(b) /\ p = BucketHead(b)
      OBVIOUS
    <3>2. IsList(next, own, p, b, s)
      BY <1>1, <1>2, <3>1, Walks
    <3>3. Enumerates(s, own, b)
      BY <3>2, ListEnumerates
    <3> QED
      BY <3>1, <3>3 DEF Enumerates
  <2> QED
    BY <1>16, <2>1
<1>18. Nodes = Range(Free) \union H \union leaked \union U
  <2>1. \A n \in Nodes : own[n] \in Buckets \/ own[n] = Pool \/ own[n] = Hand \/ own[n] = Lost
    BY DEF Owners
  <2> QED
    BY <1>6, <1>8, <1>15, <1>17, <2>1
<1> QED
  BY <1>7, <1>13, <1>14, <1>16, <1>18 DEF NodesAccounted, Places

\* Threads that free nodes concurrently lose none and share none: every node of
\* the hash is in the pool, in one bucket, in one thread's hand, or was
\* forgotten by mix_hash_delete, and free_node_num is the length of the pool.
THEOREM NodesAreAccounted == Spec => []NodesAccounted
  BY AccountFollows, HashInvHolds, PTL

---------------------------------------------------------------------------
(* The linked nodes implement lists that change in one step *)

\* What the linked nodes stand for.
Lists == [b \in Buckets |-> BucketEntries(b)]
FreeNodes == free_node_num + Cardinality(Freeing)
Index(h, f) == [hash_nodes |-> h, free_node_num |-> f]
Update(g, c, x, y) == [g EXCEPT !.hash_nodes[c] = x, !.free_node_num = y]
Changed(h, c, x) == [h EXCEPT ![c] = x]

\* Finitely many threads free nodes.
LEMMA FreeingFinite == IsFiniteSet(Freeing) /\ Cardinality(Freeing) \in Nat
<1>1. Freeing \subseteq Threads
  BY DEF Freeing
<1> QED
  BY <1>1, ThreadsFinite, FS_Subset, FS_CardinalityType

\* A key has a bucket.
LEMMA KeyBucket == \A k \in Keys : mix_hash_hash(k) \in Buckets
  BY SegmentAssumption DEF mix_hash_hash, Buckets

\* The pool of the lists counts the nodes the threads are giving back.
LEMMA PublishPool ==
  ASSUME free_node_num \in Nat, free_node_num' = free_node_num + 1,
         NEW t \in Freeing, Freeing' = Freeing \ {t}
  PROVE  FreeNodes' = FreeNodes
<1>1. Cardinality(Freeing \ {t}) = Cardinality(Freeing) - 1
  BY FreeingFinite, FS_RemoveElement
<1>2. Cardinality(Freeing)' = Cardinality(Freeing) - 1
  BY <1>1
<1> QED
  BY <1>2, FreeingFinite DEF FreeNodes

\* A pop adds one node to it, though the node is still in the thread's hand.
LEMMA TakePool ==
  ASSUME free_node_num \in Nat, free_node_num' = free_node_num,
         NEW t, t \notin Freeing, Freeing' = Freeing \union {t}
  PROVE  FreeNodes' = FreeNodes + 1
<1>1. Cardinality(Freeing \union {t}) = Cardinality(Freeing) + 1
  BY FreeingFinite, FS_AddElement
<1>2. Cardinality(Freeing)' = Cardinality(Freeing) + 1
  BY <1>1
<1> QED
  BY <1>2, FreeingFinite DEF FreeNodes

\* The lists change only with the entries.
LEMMA SameLists == SameEntries => Lists' = Lists
  BY DEF SameEntries, Lists

\* A record of the two fields is given by them.
LEMMA IndexFields ==
  ASSUME NEW S, NEW T, NEW g \in [hash_nodes : S, free_node_num : T]
  PROVE g = Index(g.hash_nodes, g.free_node_num)
  BY DEF Index
\* An update of both fields at once.
LEMMA IndexExcept ==
  ASSUME NEW h, NEW f, NEW c, NEW x, NEW y
  PROVE  Update(Index(h, f), c, x, y) = Index(Changed(h, c, x), y)
<1>1. PICK r : r = Update(Index(h, f), c, x, y)
  OBVIOUS
<1>2. PICK z : z = Changed(h, c, x)
  OBVIOUS
<1>3. r = [Index(h, f) EXCEPT !.hash_nodes = z, !.free_node_num = y]
  BY <1>1, <1>2 DEF Index, Update, Changed
<1>4. r \in [hash_nodes : {h, z}, free_node_num : {f, y}] /\ r.hash_nodes = z /\ r.free_node_num = y
  BY <1>3 DEF Index
<1>5. r = Index(r.hash_nodes, r.free_node_num)
  BY <1>4, IndexFields
<1> QED
  BY <1>1, <1>2, <1>4, <1>5

\* A put to the lists, in the words of HashIndex.
LEMMA IndexPut ==
  ASSUME NEW h, NEW f, NEW k, NEW v, NEW c, c = mix_hash_hash(k)
  PROVE  Refined!mix_hash_put(Index(h, f), k, v)
           = Index(Changed(h, c, <<[key |-> k, value |-> v]>> \o h[c]), f - 1)
<1>1. PICK g : g = Index(h, f)
  OBVIOUS
<1>2. g.hash_nodes = h /\ g.free_node_num = f
  BY <1>1 DEF Index
<1>3. PICK x : x = <<[key |-> k, value |-> v]>> \o h[c]
  OBVIOUS
<1>4. Refined!mix_hash_put(g, k, v) = Update(g, c, x, f - 1)
  BY <1>2, <1>3 DEF Update, Refined!mix_hash_put, Refined!mix_hash_hash, mix_hash_hash
<1> QED
  BY <1>1, <1>3, <1>4, IndexExcept

\* A pop of the lists.
LEMMA IndexPop ==
  ASSUME NEW h, NEW f, NEW c
  PROVE  Refined!mix_hash_pop(Index(h, f), c) = Index(Changed(h, c, Tail(h[c])), f + 1)
<1>1. PICK g : g = Index(h, f)
  OBVIOUS
<1>2. g.hash_nodes = h /\ g.free_node_num = f
  BY <1>1 DEF Index
<1>3. PICK x : x = Tail(h[c])
  OBVIOUS
<1>4. Refined!mix_hash_pop(g, c) = Update(g, c, x, f + 1)
  BY <1>2, <1>3 DEF Update, Refined!mix_hash_pop
<1> QED
  BY <1>1, <1>3, <1>4, IndexExcept

\* A bucket of length zero has no entries.
LEMMA EmptyBucket ==
  ASSUME HashInv, NEW c \in Buckets, len[c] = 0
  PROVE  BucketEntries(c) = <<>>
<1>1. PICK s : s = BucketNodes(c)
  OBVIOUS
<1>2. s \in Seq(Nodes)
  <2>1. PICK own \in [Nodes -> Owners] : OwnInv(own)
    BY DEF HashInv
  <2> QED
    BY <1>1, <2>1, Walks DEF HashInv, IsList
<1>3. PICK m : m = Cardinality({u \in Popping : migrate_idx[u] = c})
  OBVIOUS
<1>4. m \in Nat
  <2>1. {u \in Popping : migrate_idx[u] = c} \subseteq Threads
    BY DEF Popping, Freeing
  <2> QED
    BY <1>3, <2>1, ThreadsFinite, FS_Subset, FS_CardinalityType
<1>5. len[c] = Len(s) + m
  BY <1>1, <1>3, LenFollows DEF LenIsLength
<1>6. Len(s) = 0 /\ s = <<>>
  BY <1>2, <1>4, <1>5
<1>7. BucketEntries(c) = [i \in DOMAIN s |-> entry[s[i]]]
  BY <1>1 DEF BucketEntries
<1> QED
  BY <1>6, <1>7

\* Each effect is the action of HashIndex of that name.
LEMMA PutImplements ==
  ASSUME NEW k \in Keys, NEW v \in Values, PutEffect(k, v), kv' = kv
  PROVE  Refined!Next
<1>1. PICK c \in Buckets : c = mix_hash_hash(k)
  BY KeyBucket
<1>2. /\ \A i \in DOMAIN Lists[c] : Lists[c][i].key # k
      /\ Lists' = Changed(Lists, c, <<[key |-> k, value |-> v]>> \o Lists[c])
  BY <1>1 DEF Changed, PutEffect, Lists
<1>3. FreeNodes \in Nat \ {0} /\ FreeNodes' = FreeNodes - 1
  <2>1. Cardinality({}) = 0
    BY FS_EmptySet
  <2> QED
    BY <2>1 DEF PutEffect, FreeNodes
<1>4. PICK I : I = Index(Lists, FreeNodes)
  OBVIOUS
<1>5. Refined!mix_hash_get(I, k) = None
  BY <1>1, <1>2, <1>4 DEF Refined!mix_hash_get, Refined!Hits, Refined!mix_hash_hash, mix_hash_hash,
     Index, Refined!None, None
<1>6. Index(Lists', FreeNodes') = Refined!mix_hash_put(I, k, v)
  BY <1>1, <1>2, <1>3, <1>4, IndexPut
<1>7. I.free_node_num > 0
  BY <1>3, <1>4 DEF Index
<1>8. Refined!Put(k, v)
  BY <1>4, <1>5, <1>6, <1>7 DEF Refined!Put, Index, Lists, FreeNodes, Refined!None, None
<1>9. v \in Refined!Blocks
  BY SweeperAssumption DEF Refined!Blocks, Blocks
<1> QED
  BY <1>8, <1>9 DEF Refined!Next

\* A clear deletes the key.
LEMMA ClearImplements ==
  ASSUME TypeOK, NEW k \in Keys, ClearEffect(k), kv' = kv
  PROVE  Refined!Next
<1>1. PICK c \in Buckets : c = mix_hash_hash(k)
  BY KeyBucket
<1>2. PICK E : E = BucketEntries(c)
  OBVIOUS
<1>3. E = Lists[c] /\ E \in Seq(Entry)
  BY <1>1, <1>2 DEF ClearEffect, Lists
<1>4. PICK i \in DOMAIN E : E[i].key = k /\ BucketEntries(c)' = Drop(E, i)
  BY <1>1, <1>2 DEF ClearEffect
<1>5. Lists' = Changed(Lists, c, Refined!Without(E, i))
  BY <1>1, <1>4 DEF Changed, ClearEffect, Lists, Drop, Refined!Without
<1>6. FreeNodes' = IF Head(E).key = k THEN FreeNodes ELSE FreeNodes + 1
  <2>1. free_node_num \in Nat
    BY DEF TypeOK
  <2> QED
    BY <1>1, <1>2, <2>1, FreeingFinite DEF ClearEffect, FreeNodes
<1>7. PICK I : I = Index(Lists, FreeNodes)
  OBVIOUS
<1>8. I.hash_nodes = Lists /\ I.free_node_num = FreeNodes /\ I.hash_nodes[c] = E
  BY <1>3, <1>7 DEF Index
<1>9. Refined!Hits(I, k) = {j \in DOMAIN E : E[j].key = k} /\ i \in Refined!Hits(I, k)
  BY <1>1, <1>4, <1>8 DEF Refined!Hits, Refined!mix_hash_hash, mix_hash_hash
<1>10. Refined!mix_hash_get(I, k) # Refined!None
  <2>1. PICK H : H = Refined!Hits(I, k)
    OBVIOUS
  <2>2. H \subseteq Nat /\ H # {} /\ H \subseteq DOMAIN E
    BY <1>3, <1>9, <2>1
  <2>3. PICK j \in H : j = CHOOSE x \in H : \A y \in H : x <= y
    BY <2>2, LeastNat
  <2>4. Refined!mix_hash_get(I, k) = E[j].value
    BY <1>1, <1>8, <2>1, <2>2, <2>3 DEF Refined!mix_hash_get, Refined!mix_hash_hash, mix_hash_hash
  <2>5. j \in DOMAIN E
    BY <2>2
  <2>6. E[j] \in Entry
    BY <1>3, <2>5
  <2> QED
    BY <2>4, <2>6, SegmentAssumption DEF Entry, Blocks, Refined!None
<1>11. PICK y : y = IF Head(E).key = k THEN FreeNodes ELSE FreeNodes + 1
  OBVIOUS
<1>12. Index(Lists', FreeNodes') = Update(I, c, Refined!Without(E, i), y)
  BY <1>5, <1>6, <1>7, <1>11, IndexExcept
<1>13. Refined!Delete(k)
  BY <1>1, <1>7, <1>8, <1>9, <1>10, <1>11, <1>12 DEF Update, Refined!Delete, Refined!mix_hash_hash, mix_hash_hash,
     Index, Lists, FreeNodes
<1> QED
  BY <1>13 DEF Refined!Next

\* A take pops the bucket of the thread.
LEMMA TakeImplements ==
  ASSUME TypeOK, NEW t \in Threads, TakeEffect(t), free_node_num' = free_node_num
  PROVE  Refined!Next
<1>1. PICK c \in Buckets : c = migrate_idx[t]
  BY DEF TakeEffect
<1>2. /\ Lists[c] # <<>>
      /\ kv' = [kv EXCEPT ![t] = Head(Lists[c])]
      /\ Lists' = Changed(Lists, c, Tail(Lists[c]))
  BY <1>1 DEF Changed, TakeEffect, Lists
<1>3. FreeNodes' = FreeNodes + 1
  BY TakePool DEF TakeEffect, TypeOK
<1>4. PICK I : I = Index(Lists, FreeNodes)
  OBVIOUS
<1>5. I.hash_nodes = Lists
  BY <1>4 DEF Index
<1>6. Index(Lists', FreeNodes') = Refined!mix_hash_pop(I, c)
  BY <1>2, <1>3, <1>4, IndexPop
<1>7. Refined!Pop(t, c)
  BY <1>2, <1>4, <1>5, <1>6 DEF Refined!Pop, Index, Lists, FreeNodes
<1>8. c \in Refined!Buckets
  BY DEF Refined!Buckets, Buckets
<1> QED
  BY <1>7, <1>8 DEF Refined!Next

\* A skip finds the bucket empty, or ends the sweep.
LEMMA SkipImplements ==
  ASSUME HashInv, NEW t \in Threads, Skip(t), Quiet
  PROVE  Refined!Next \/ (kv' = kv)
<1>1. CASE migrate_idx[t] < HashSize
  <2>1. PICK c \in Buckets : c = migrate_idx[t]
    BY <1>1, SegmentAssumption DEF HashInv, PhaseInv, Buckets
  <2>2. len[c] = 0 /\ kv' = [kv EXCEPT ![t] = NoEntry]
    BY <1>1, <2>1 DEF Skip
  <2>3. Lists[c] = <<>>
    BY <2>2, EmptyBucket DEF Lists
  <2>4. UNCHANGED <<Lists, FreeNodes>>
    BY QuietEntries, SameLists DEF FreeNodes
  <2>5. Refined!PopEmpty(t, c)
    BY <2>2, <2>3, <2>4 DEF Refined!PopEmpty, Lists, FreeNodes, Refined!NoEntry, NoEntry, Refined!NoKey,
       NoKey, Refined!None, None
  <2>6. c \in Refined!Buckets
    BY DEF Refined!Buckets, Buckets
  <2> QED
    BY <2>5, <2>6 DEF Refined!Next
<1>2. CASE ~(migrate_idx[t] < HashSize)
  BY <1>2 DEF Skip
<1> QED
  BY <1>1, <1>2

\* A step of the lists, or none.
ListStep == [Refined!Next]_<<[hash_nodes |-> [b \in Buckets |-> BucketEntries(b)],
            free_node_num |-> free_node_num + Cardinality(Freeing)], kv>>
\* A step that changes no entry and no count is none.
LEMMA Stutters ==
  ASSUME SameEntries, FreeNodes' = FreeNodes, kv' = kv
  PROVE  ListStep
<1>1. Lists' = Lists
  BY SameLists
<1>2. UNCHANGED <<[hash_nodes |-> [b \in Buckets |-> BucketEntries(b)],
            free_node_num |-> free_node_num + Cardinality(Freeing)], kv>>
  BY <1>1 DEF Lists, FreeNodes
<1> QED
  BY <1>2 DEF ListStep

\* Every step of the linked nodes is a step of the lists or none: Take pops the
\* entry, though its bucket is unhooked later, and its node counts as free then.
LEMMA StepRefines ==
  ASSUME HashInv, [Next]_vars
  PROVE  ListStep
<1> USE DEF threadVars
<1>0. TypeOK
  BY DEF HashInv
<1>1. ASSUME NEW k \in Keys, NEW v \in Values, Put(k, v) PROVE ListStep
  <2>1. kv' = kv
    BY <1>1 DEF Put
  <2>2. CASE free_head = Nil
    <3>1. Quiet
      BY <1>1, <2>2, PutStep
    <3> QED
      BY <2>1, <3>1, QuietEntries, Stutters DEF FreeNodes
  <2>3. CASE free_head # Nil
    BY <1>1, <2>1, <2>3, PutStep, PutImplements DEF ListStep
  <2> QED
    BY <2>2, <2>3
<1>2. ASSUME NEW k \in Keys, Clear(k) PROVE ListStep
  <2>1. kv' = kv
    BY <1>2 DEF Clear
  <2> QED
    BY <1>0, <1>2, <2>1, ClearStep, ClearImplements DEF ListStep
<1>3. ASSUME Quiet, kv' = kv PROVE ListStep
  BY <1>3, QuietEntries, Stutters DEF FreeNodes
<1>4. CASE Migrate \/ Migrated
  BY <1>3, <1>4, MigrateStep, MigratedStep DEF Migrate, Migrated
<1>5. ASSUME NEW t \in Threads, ThreadStep(t) PROVE ListStep
  <2>1. CASE Take(t)
    BY <1>0, <2>1, TakeStep, TakeImplements DEF Take, ListStep
  <2>2. CASE Lock(t) \/ Unlock(t)
    BY <1>3, <2>2, LockStep, UnlockStep DEF Lock, Unlock
  <2>3. CASE Link(t) \/ Unhook(t)
    <3>1. SameEntries /\ Freeing' = Freeing
      BY <2>3, LinkStep, UnhookStep
    <3>2. kv' = kv /\ free_node_num' = free_node_num
      BY <2>3 DEF Link, Unhook, poolVars
    <3> QED
      BY <3>1, <3>2, Stutters DEF FreeNodes
  <2>4. CASE Publish(t)
    <3>1. SameEntries /\ t \in Freeing /\ Freeing' = Freeing \ {t}
      BY <2>4, PublishStep
    <3>2. kv' = kv /\ free_node_num' = free_node_num + 1 /\ free_node_num \in Nat
      BY <1>0, <2>4 DEF Publish, TypeOK
    <3> QED
      BY <3>1, <3>2, PublishPool, Stutters
  <2>5. CASE Skip(t)
    <3>1. Quiet
      BY <2>5, SkipStep
    <3> QED
      BY <1>3, <2>5, <3>1, SkipImplements DEF ListStep
  <2> QED
    BY <1>5, <2>1, <2>2, <2>3, <2>4, <2>5 DEF ThreadStep
<1>6. CASE UNCHANGED vars
  <2>1. UNCHANGED <<list, len, next, entry, free_head, free_node_num, used_block_num, tpc,
                    migrate_idx, node, list_node, leaked, kv>>
    BY <1>6 DEF vars, bucketVars, poolVars
  <2>2. Popping' = Popping /\ Freeing' = Freeing
    BY <2>1 DEF Popping, Freeing
  <2>3. Quiet
    BY <2>1, <2>2 DEF Quiet
  <2> QED
    BY <1>3, <2>1, <2>3
<1> QED
  BY <1>1, <1>2, <1>4, <1>5, <1>6 DEF Next

\* At the start all lists are empty and all nodes free.
LEMMA InitRefines == Init => Refined!Init
<1> SUFFICES ASSUME Init PROVE Refined!Init
  OBVIOUS
<1>1. HashInv
  BY InitInv
<1>2. Freeing = {}
  BY DEF Freeing, Init
<1>3. ASSUME NEW b \in Buckets PROVE BucketEntries(b) = <<>>
  <2>1. len[b] = 0
    BY DEF Init
  <2> QED
    BY <1>1, <2>1, EmptyBucket
<1>4. free_node_num + Cardinality(Freeing) = PerBlock
  BY <1>2, FS_EmptySet, SegmentAssumption DEF Init, PoolSize
<1>5. /\ Refined!mix_segment_init.hash_nodes = [b \in Buckets |-> <<>>]
      /\ Refined!mix_segment_init.free_node_num = PerBlock
  BY DEF Refined!mix_segment_init, Refined!Buckets, Buckets
<1>6. [b \in Buckets |-> BucketEntries(b)] = [b \in Buckets |-> <<>>]
  BY <1>3
<1>7. kv = [t \in Threads |-> Refined!NoEntry]
  BY DEF Init, Refined!NoEntry, NoEntry, Refined!NoKey, NoKey, Refined!None, None
<1> QED
  BY <1>4, <1>5, <1>6, <1>7 DEF Refined!Init

\* The linked nodes of mix_hash.c, whose buckets are popped in six accesses by
\* threads that share the pool, implement lists that change in one step, which is
\* how the other modules use them.
THEOREM HashImplementsIndex == Spec => ImplementsIndex
<1>1. HashInv /\ [Next]_vars => ListStep
  BY StepRefines
<1> QED
  BY <1>1, InitRefines, HashInvHolds, PTL DEF Spec, ImplementsIndex, Refined!Spec, ListStep

=============================================================================
