--------------------------- MODULE MixBloomProofs ---------------------------
(***************************************************************************)
(* Proofs about the counting bloom filter, for any number of functions,    *)
(* any number and width of counters and any checksum.                      *)
(***************************************************************************)
EXTENDS MixBloom, NatLemmas, FiniteSetTheorems

Arrays == [Bytes -> 0 .. Base * Base - 1]

Values == 0 .. Base - 1

\* The value of counter j.
Value(a, j) == Half(a[j \div 2], j)

---------------------------------------------------------------------------
(* Two counters in a byte *)

\* A byte is a high and a low half.
LEMMA Halves ==
  ASSUME NEW n \in 0 .. Base * Base - 1
  PROVE  /\ n \div Base \in Values /\ n % Base \in Values
         /\ n = (n \div Base) * Base + (n % Base)
<1>1. Base \in Nat \ {0} /\ n \in Nat /\ Base * Base \in Nat
  BY BloomAssumption
<1>2. n < Base * Base
  BY <1>1
<1>3. PICK q \in Nat, r \in 0 .. Base - 1 : n = q * Base + r /\ n % Base = r
  BY <1>1, Quotient
<1>4. n \div Base \in 0 .. Base - 1 /\ n % Base \in 0 .. Base - 1 /\ q = n \div Base
  BY <1>1, <1>2, <1>3, FlatSplit
<1> QED
  BY <1>3, <1>4 DEF Values

\* And a pair of halves is a byte.
LEMMA Joined ==
  ASSUME NEW h \in Values, NEW l \in Values
  PROVE  /\ h * Base + l \in 0 .. Base * Base - 1
         /\ (h * Base + l) \div Base = h
         /\ (h * Base + l) % Base = l
<1>1. Base \in Nat \ {0} /\ h \in 0 .. Base - 1 /\ l \in 0 .. Base - 1 /\ h \in Nat
  BY BloomAssumption DEF Values
<1>2. h * Base + l \in Nat /\ h * Base + l < Base * Base
  BY <1>1, FlatBound
<1>3. Base * Base \in Nat
  BY <1>1
<1>4. PICK a \in Nat : a = h * Base + l
  BY <1>2
<1>5. h = a \div Base /\ l = a % Base
  BY <1>1, <1>2, <1>4, FlatSplit
<1> QED
  BY <1>2, <1>3, <1>4, <1>5

\* The byte of a counter, and whom the counter shares it with.
LEMMA ByteOf ==
  ASSUME NEW j \in Counters
  PROVE  /\ j \in Nat /\ j \div 2 \in Bytes
         /\ \A i \in Counters : i \div 2 = j \div 2 /\ i # j => (i % 2 = 0 <=> j % 2 # 0)
<1>1. PICK n \in Nat : n = NFuncs * CountsPerFunc
  BY BloomAssumption
<1>2. j \in 0 .. n - 1
  BY <1>1 DEF Counters
<1>3. j \div 2 \in 0 .. (n + 1) \div 2 - 1
  BY <1>1, <1>2
<1>4. \A i \in 0 .. n - 1 : i \div 2 = j \div 2 /\ i # j => (i % 2 = 0 <=> j % 2 # 0)
  BY <1>1, <1>2
<1> QED
  BY <1>1, <1>2, <1>3, <1>4 DEF Bytes, Counters

LEMMA ValueType ==
  ASSUME NEW a \in Arrays, NEW j \in Counters
  PROVE  Value(a, j) \in Values
<1>1. PICK n \in 0 .. Base * Base - 1 : n = a[j \div 2]
  BY ByteOf DEF Arrays
<1> QED
  BY <1>1, Halves DEF Value, Half

\* b is a with counter j, and nothing else, turned from v into U[v].
Moved(U, a, j, b) ==
  /\ b \in Arrays
  /\ \A i \in Counters : Value(b, i) = IF i = j THEN U[Value(a, i)] ELSE Value(a, i)

\* Storing one half of a byte moves one counter.
LEMMA StoreHalf ==
  ASSUME NEW a \in Arrays, NEW j \in Counters, NEW U \in [Values -> Values],
         NEW m \in 0 .. Base * Base - 1,
         Half(m, j) = U[Value(a, j)],
         Half(m, j + 1) = Half(a[j \div 2], j + 1)
  PROVE  Moved(U, a, j, [a EXCEPT ![j \div 2] = m])
<1> DEFINE b == [a EXCEPT ![j \div 2] = m]
<1>1. b \in Arrays /\ b[j \div 2] = m
  BY ByteOf DEF Arrays
<1>2. ASSUME NEW i \in Counters
      PROVE  Value(b, i) = IF i = j THEN U[Value(a, i)] ELSE Value(a, i)
  <2>1. CASE i = j
    BY <2>1, <1>1 DEF Value
  <2>2. CASE i # j /\ i \div 2 # j \div 2
    <3>1. b[i \div 2] = a[i \div 2]
      BY <2>2, ByteOf DEF Arrays
    <3> QED
      BY <2>2, <3>1 DEF Value
  <2>3. CASE i # j /\ i \div 2 = j \div 2
    <3>1. i % 2 = 0 <=> j % 2 # 0
      BY <2>3, ByteOf
    <3>2. i % 2 # 0 <=> (j + 1) % 2 # 0
      BY <3>1, ByteOf
    <3>3. Half(m, i) = Half(m, j + 1) /\ Half(a[j \div 2], i) = Half(a[j \div 2], j + 1)
      BY <3>2 DEF Half
    <3>4. Value(b, i) = Half(m, i) /\ Value(a, i) = Half(a[j \div 2], i)
      BY <2>3, <1>1 DEF Value
    <3> QED
      BY <2>3, <3>3, <3>4
  <2> QED
    BY <2>1, <2>2, <2>3
<1> QED
  BY <1>1, <1>2 DEF Moved

\* What an increment and a decrement make of a counter.
Up == [v \in Values |-> IF v = Base - 1 THEN v ELSE v + 1]
Down == [v \in Values |-> IF v = 0 THEN v ELSE v - 1]

LEMMA UpDownType == Up \in [Values -> Values] /\ Down \in [Values -> Values]
  BY BloomAssumption DEF Up, Down, Values

\* A store that changes nothing moves the counter, too, if U keeps its value.
LEMMA NoStore ==
  ASSUME NEW a \in Arrays, NEW j \in Counters, NEW U, U[Value(a, j)] = Value(a, j)
  PROVE  Moved(U, a, j, a)
  BY DEF Moved

LEMMA IncrementMoves ==
  ASSUME NEW a \in Arrays, NEW j \in Counters
  PROVE  Moved(Up, a, j, mix_counting_bitmap_increment(a, j))
<1>0. Value(a, j) \in Values
  BY ValueType
<1>1. CASE Value(a, j) = Base - 1
  <2>1. mix_counting_bitmap_increment(a, j) = a
    BY <1>1 DEF mix_counting_bitmap_increment, Value
  <2>2. Up[Value(a, j)] = Value(a, j)
    BY <1>0, <1>1 DEF Up
  <2> QED
    BY <2>1, <2>2, NoStore
<1>2. CASE Value(a, j) # Base - 1
  <2>1. PICK n \in 0 .. Base * Base - 1 : n = a[j \div 2]
    BY ByteOf DEF Arrays
  <2>2. PICK h \in Values, l \in Values :
          n = h * Base + l /\ n \div Base = h /\ n % Base = l
    BY Halves
  <2>3. Value(a, j) = IF j % 2 # 0 THEN l ELSE h
    BY <2>1, <2>2 DEF Value, Half
  <2>4. PICK m \in 0 .. Base * Base - 1 :
          m = n + One(j) /\ Half(m, j) = Value(a, j) + 1 /\ Half(m, j + 1) = Half(n, j + 1)
    <3>0. Base \in Nat \ {0} /\ h \in Nat /\ l \in Nat /\ j \in Nat
      BY BloomAssumption, ByteOf DEF Values
    <3>1. CASE j % 2 # 0
      <4>1. l + 1 \in Values
        BY <3>0, <3>1, <2>3, <1>2 DEF Values
      <4>2. n + One(j) = h * Base + (l + 1)
        BY <3>0, <3>1, <2>2 DEF One
      <4>3. (j + 1) % 2 = 0
        BY <3>0, <3>1
      <4>4. PICK l1 \in Values : l1 = l + 1
        BY <4>1
      <4>5. /\ n + One(j) \in 0 .. Base * Base - 1
            /\ (n + One(j)) \div Base = h /\ (n + One(j)) % Base = l + 1
        BY <4>2, <4>4, Joined
      <4> QED
        BY <3>1, <4>3, <4>5, <2>2, <2>3 DEF Half
    <3>2. CASE j % 2 = 0
      <4>1. h + 1 \in Values
        BY <3>0, <3>2, <2>3, <1>2 DEF Values
      <4>2. n + One(j) = (h + 1) * Base + l
        BY <3>0, <3>2, <2>2 DEF One
      <4>3. (j + 1) % 2 # 0
        BY <3>0, <3>2
      <4>4. PICK h1 \in Values : h1 = h + 1
        BY <4>1
      <4>5. /\ n + One(j) \in 0 .. Base * Base - 1
            /\ (n + One(j)) \div Base = h + 1 /\ (n + One(j)) % Base = l
        BY <4>2, <4>4, Joined
      <4> QED
        BY <3>2, <4>3, <4>5, <2>2, <2>3 DEF Half
    <3> QED
      BY <3>1, <3>2
  <2>5. Up[Value(a, j)] = Value(a, j) + 1
    BY <1>0, <1>2 DEF Up
  <2>6. Moved(Up, a, j, [a EXCEPT ![j \div 2] = m])
    BY <2>1, <2>4, <2>5, UpDownType, StoreHalf
  <2>7. mix_counting_bitmap_increment(a, j) = [a EXCEPT ![j \div 2] = m]
    BY <1>2, <2>1, <2>4 DEF mix_counting_bitmap_increment, Value
  <2> QED
    BY <2>6, <2>7
<1> QED
  BY <1>1, <1>2

LEMMA DecrementMoves ==
  ASSUME NEW a \in Arrays, NEW j \in Counters
  PROVE  Moved(Down, a, j, mix_counting_bitmap_decrement(a, j))
<1>0. Value(a, j) \in Values
  BY ValueType
<1>1. CASE Value(a, j) = 0
  <2>1. mix_counting_bitmap_decrement(a, j) = a
    BY <1>1 DEF mix_counting_bitmap_decrement, Value
  <2>2. Down[Value(a, j)] = Value(a, j)
    BY <1>0, <1>1 DEF Down
  <2> QED
    BY <2>1, <2>2, NoStore
<1>2. CASE Value(a, j) # 0
  <2>1. PICK n \in 0 .. Base * Base - 1 : n = a[j \div 2]
    BY ByteOf DEF Arrays
  <2>2. PICK h \in Values, l \in Values :
          n = h * Base + l /\ n \div Base = h /\ n % Base = l
    BY Halves
  <2>3. Value(a, j) = IF j % 2 # 0 THEN l ELSE h
    BY <2>1, <2>2 DEF Value, Half
  <2>4. PICK m \in 0 .. Base * Base - 1 :
          m = n - One(j) /\ Half(m, j) = Value(a, j) - 1 /\ Half(m, j + 1) = Half(n, j + 1)
    <3>0. Base \in Nat \ {0} /\ h \in Nat /\ l \in Nat /\ j \in Nat
      BY BloomAssumption, ByteOf DEF Values
    <3>1. CASE j % 2 # 0
      <4>1. l - 1 \in Values
        BY <3>0, <3>1, <2>3, <1>2 DEF Values
      <4>2. n - One(j) = h * Base + (l - 1)
        BY <3>0, <3>1, <2>2 DEF One
      <4>3. (j + 1) % 2 = 0
        BY <3>0, <3>1
      <4>4. PICK l1 \in Values : l1 = l - 1
        BY <4>1
      <4>5. /\ n - One(j) \in 0 .. Base * Base - 1
            /\ (n - One(j)) \div Base = h /\ (n - One(j)) % Base = l - 1
        BY <4>2, <4>4, Joined
      <4> QED
        BY <3>1, <4>3, <4>5, <2>2, <2>3 DEF Half
    <3>2. CASE j % 2 = 0
      <4>1. h - 1 \in Values
        BY <3>0, <3>2, <2>3, <1>2 DEF Values
      <4>2. n - One(j) = (h - 1) * Base + l
        BY <3>0, <3>2, <2>2 DEF One
      <4>3. (j + 1) % 2 # 0
        BY <3>0, <3>2
      <4>4. PICK h1 \in Values : h1 = h - 1
        BY <4>1
      <4>5. /\ n - One(j) \in 0 .. Base * Base - 1
            /\ (n - One(j)) \div Base = h - 1 /\ (n - One(j)) % Base = l
        BY <4>2, <4>4, Joined
      <4> QED
        BY <3>2, <4>3, <4>5, <2>2, <2>3 DEF Half
    <3> QED
      BY <3>1, <3>2
  <2>5. Down[Value(a, j)] = Value(a, j) - 1
    BY <1>0, <1>2 DEF Down
  <2>6. Moved(Down, a, j, [a EXCEPT ![j \div 2] = m])
    BY <2>1, <2>4, <2>5, UpDownType, StoreHalf
  <2>7. mix_counting_bitmap_decrement(a, j) = [a EXCEPT ![j \div 2] = m]
    BY <1>2, <2>1, <2>4 DEF mix_counting_bitmap_decrement, Value
  <2> QED
    BY <2>6, <2>7
<1> QED
  BY <1>1, <1>2

---------------------------------------------------------------------------
(* The loop over a key's counters *)

\* Each function has counters of its own.
LEMMA HashRow ==
  ASSUME NEW k \in Keys, NEW i \in 0 .. NFuncs - 1
  PROVE  /\ hash_func(k, i) \in Counters
         /\ i = hash_func(k, i) \div CountsPerFunc
<1>1. i \in Nat /\ H1[k] \in Nat /\ H2[k] \in Nat /\ Word \in Nat \ {0}
  BY BloomAssumption
<1>2. CountsPerFunc \in Nat \ {0} /\ NFuncs \in Nat
  BY BloomAssumption
<1>3. PICK x \in Nat : x = H1[k] + i * H2[k]
  BY <1>1
<1>4. PICK y \in Nat : y = x % Word
  BY <1>1
<1>5. PICK c \in 0 .. CountsPerFunc - 1 : c = y % CountsPerFunc
  BY <1>2
<1>6. hash_func(k, i) = i * CountsPerFunc + c
  BY <1>3, <1>4, <1>5 DEF hash_func
<1>7. i * CountsPerFunc + c \in Nat /\ i * CountsPerFunc + c < NFuncs * CountsPerFunc
  BY <1>2, FlatBound
<1>8. NFuncs * CountsPerFunc \in Nat
  BY <1>2
<1>9. PICK a \in Nat : a = i * CountsPerFunc + c
  BY <1>7
<1>10. i = a \div CountsPerFunc
  BY <1>1, <1>2, <1>7, <1>9, FlatSplit
<1> QED
  BY <1>6, <1>7, <1>8, <1>9, <1>10 DEF Counters

\* Moving a key's counters one after the other moves each of them once.
LEMMA LoopMoves ==
  ASSUME NEW k \in Keys, NEW U \in [Values -> Values], NEW f,
         f[0] \in Arrays,
         \A n \in 1 .. NFuncs :
           f[n - 1] \in Arrays => Moved(U, f[n - 1], hash_func(k, n - 1), f[n])
  PROVE  /\ f[NFuncs] \in Arrays
         /\ \A j \in Counters :
              Value(f[NFuncs], j) = IF j \in CountersOf(k) THEN U[Value(f[0], j)]
                                    ELSE Value(f[0], j)
<1> DEFINE Done(n) == {hash_func(k, i) : i \in 0 .. n - 1}
           P(n) == /\ f[n] \in Arrays
                   /\ \A j \in Counters :
                        Value(f[n], j) = IF j \in Done(n) THEN U[Value(f[0], j)]
                                         ELSE Value(f[0], j)
           T == {n \in 0 .. NFuncs : ~P(n)}
<1>0. NFuncs \in Nat
  BY BloomAssumption
<1>1. ASSUME T # {} PROVE FALSE
  <2>1. T \in SUBSET Nat
    OBVIOUS
  <2> HIDE DEF T
  <2>2. PICK n \in T : \A y \in T : n <= y
    BY <1>1, <2>1, LeastNat
  <2>3. n \in 0 .. NFuncs /\ ~P(n)
    BY <2>2 DEF T
  <2>4. n # 0
    <3>1. Done(0) = {}
      OBVIOUS
    <3>2. P(0)
      BY <3>1
    <3> QED
      BY <2>3, <3>2
  <2>5. n - 1 \in 0 .. NFuncs - 1 /\ n \in 1 .. NFuncs /\ n - 1 \notin T
    BY <1>0, <2>2, <2>3, <2>4
  <2>6. P(n - 1)
    BY <1>0, <2>5 DEF T
  <2>7. Moved(U, f[n - 1], hash_func(k, n - 1), f[n])
    BY <2>5, <2>6
  <2>8. Done(n) = Done(n - 1) \union {hash_func(k, n - 1)}
    <3>1. 0 .. n - 1 = (0 .. n - 1 - 1) \union {n - 1}
      BY <2>5
    <3> QED
      BY <3>1
  <2>9. hash_func(k, n - 1) \notin Done(n - 1)
    <3> SUFFICES ASSUME NEW i \in 0 .. n - 1 - 1, hash_func(k, n - 1) = hash_func(k, i)
                 PROVE  FALSE
      OBVIOUS
    <3>1. i \in 0 .. NFuncs - 1 /\ i # n - 1
      BY <1>0, <2>5
    <3>2. i = hash_func(k, i) \div CountsPerFunc
      BY <3>1, HashRow
    <3>3. n - 1 = hash_func(k, n - 1) \div CountsPerFunc
      BY <2>5, HashRow
    <3> QED
      BY <3>1, <3>2, <3>3
  <2> HIDE DEF Done
  <2>10. f[n] \in Arrays
    BY <2>7 DEF Moved
  <2>11. ASSUME NEW j \in Counters
         PROVE  Value(f[n], j) = IF j \in Done(n) THEN U[Value(f[0], j)] ELSE Value(f[0], j)
    <3>1. Value(f[n], j) = IF j = hash_func(k, n - 1) THEN U[Value(f[n - 1], j)]
                           ELSE Value(f[n - 1], j)
      BY <2>7 DEF Moved
    <3>2. Value(f[n - 1], j) = IF j \in Done(n - 1) THEN U[Value(f[0], j)]
                               ELSE Value(f[0], j)
      BY <2>6
    <3> QED
      BY <3>1, <3>2, <2>8, <2>9
  <2> QED
    BY <2>3, <2>10, <2>11
<1>2. P(NFuncs)
  BY <1>0, <1>1
<1>3. Done(NFuncs) = CountersOf(k)
  BY DEF CountersOf
<1> QED
  BY <1>2, <1>3

\* The result b of moving all counters of key k.
AllMoved(U, a, k, b) ==
  /\ b \in Arrays
  /\ \A j \in Counters :
       Value(b, j) = IF j \in CountersOf(k) THEN U[Value(a, j)] ELSE Value(a, j)

LEMMA IncrementEachMoves ==
  ASSUME NEW a \in Arrays, NEW k \in Keys
  PROVE  AllMoved(Up, a, k, IncrementEach(a, k))
<1> DEFINE Body(f, n) ==
             IF n = 0 THEN a
             ELSE mix_counting_bitmap_increment(f[n - 1], hash_func(k, n - 1))
           Eq(f) == f = [n \in 0 .. NFuncs |-> Body(f, n)]
           u == CHOOSE f : Eq(f)
           G == [i \in 0 .. NFuncs - 1 |->
                  [x \in Arrays |-> mix_counting_bitmap_increment(x, hash_func(k, i))]]
<1>0. NFuncs \in Nat
  BY BloomAssumption
<1>1. IncrementEach(a, k) = u[NFuncs]
  BY Zenon DEF IncrementEach
<1>2. ASSUME NEW x \in Arrays, NEW i \in 0 .. NFuncs - 1
      PROVE  Moved(Up, x, hash_func(k, i), mix_counting_bitmap_increment(x, hash_func(k, i)))
  BY HashRow, IncrementMoves
<1>3. G \in [0 .. NFuncs - 1 -> [Arrays -> Arrays]]
  <2>1. \A x \in Arrays : \A i \in 0 .. NFuncs - 1 :
          mix_counting_bitmap_increment(x, hash_func(k, i)) \in Arrays
    BY <1>2 DEF Moved
  <2> QED
    BY <2>1
<1>4. PICK w \in [0 .. NFuncs -> Arrays] :
        w[0] = a /\ \A n \in 1 .. NFuncs : w[n] = G[n - 1][w[n - 1]]
  <2> HIDE DEF G
  <2>1. \E w \in [0 .. NFuncs -> Arrays] : IsTrace(w, NFuncs, a, G)
    BY <1>0, <1>3, Iterates
  <2> QED
    BY <2>1 DEF IsTrace
<1>5. Eq(w)
  <2>1. ASSUME NEW n \in 0 .. NFuncs PROVE w[n] = Body(w, n)
    <3>1. CASE n = 0
      BY <3>1, <1>4
    <3>2. CASE n # 0
      <4>1. n \in 1 .. NFuncs /\ n - 1 \in 0 .. NFuncs - 1 /\ w[n - 1] \in Arrays
        BY <3>2, <1>0, <1>4
      <4> QED
        BY <4>1, <3>2, <1>4
    <3> QED
      BY <3>1, <3>2
  <2> HIDE DEF Body
  <2> QED
    BY <2>1
<1>6. Eq(u)
  <2> HIDE DEF Eq
  <2> QED
    BY <1>5
<1>7. u[0] = a /\ \A n \in 1 .. NFuncs :
        u[n] = mix_counting_bitmap_increment(u[n - 1], hash_func(k, n - 1))
  <2> HIDE DEF u
  <2>1. \A n \in 0 .. NFuncs : u[n] = Body(u, n)
    <3> HIDE DEF Body
    <3> QED
      BY <1>6
  <2> QED
    BY <2>1, <1>0
<1> HIDE DEF u
<1>8. \A n \in 1 .. NFuncs :
        u[n - 1] \in Arrays => Moved(Up, u[n - 1], hash_func(k, n - 1), u[n])
  <2> SUFFICES ASSUME NEW n \in 1 .. NFuncs, u[n - 1] \in Arrays
               PROVE  Moved(Up, u[n - 1], hash_func(k, n - 1), u[n])
    OBVIOUS
  <2>1. n - 1 \in 0 .. NFuncs - 1
    BY <1>0
  <2> QED
    BY <2>1, <1>2, <1>7
<1>9. u[0] \in Arrays
  BY <1>7
<1> QED
  BY <1>1, <1>7, <1>8, <1>9, LoopMoves, UpDownType DEF AllMoved

LEMMA DecrementEachMoves ==
  ASSUME NEW a \in Arrays, NEW k \in Keys
  PROVE  AllMoved(Down, a, k, DecrementEach(a, k))
<1> DEFINE Body(f, n) ==
             IF n = 0 THEN a
             ELSE mix_counting_bitmap_decrement(f[n - 1], hash_func(k, n - 1))
           Eq(f) == f = [n \in 0 .. NFuncs |-> Body(f, n)]
           u == CHOOSE f : Eq(f)
           G == [i \in 0 .. NFuncs - 1 |->
                  [x \in Arrays |-> mix_counting_bitmap_decrement(x, hash_func(k, i))]]
<1>0. NFuncs \in Nat
  BY BloomAssumption
<1>1. DecrementEach(a, k) = u[NFuncs]
  BY Zenon DEF DecrementEach
<1>2. ASSUME NEW x \in Arrays, NEW i \in 0 .. NFuncs - 1
      PROVE  Moved(Down, x, hash_func(k, i), mix_counting_bitmap_decrement(x, hash_func(k, i)))
  BY HashRow, DecrementMoves
<1>3. G \in [0 .. NFuncs - 1 -> [Arrays -> Arrays]]
  <2>1. \A x \in Arrays : \A i \in 0 .. NFuncs - 1 :
          mix_counting_bitmap_decrement(x, hash_func(k, i)) \in Arrays
    BY <1>2 DEF Moved
  <2> QED
    BY <2>1
<1>4. PICK w \in [0 .. NFuncs -> Arrays] :
        w[0] = a /\ \A n \in 1 .. NFuncs : w[n] = G[n - 1][w[n - 1]]
  <2> HIDE DEF G
  <2>1. \E w \in [0 .. NFuncs -> Arrays] : IsTrace(w, NFuncs, a, G)
    BY <1>0, <1>3, Iterates
  <2> QED
    BY <2>1 DEF IsTrace
<1>5. Eq(w)
  <2>1. ASSUME NEW n \in 0 .. NFuncs PROVE w[n] = Body(w, n)
    <3>1. CASE n = 0
      BY <3>1, <1>4
    <3>2. CASE n # 0
      <4>1. n \in 1 .. NFuncs /\ n - 1 \in 0 .. NFuncs - 1 /\ w[n - 1] \in Arrays
        BY <3>2, <1>0, <1>4
      <4> QED
        BY <4>1, <3>2, <1>4
    <3> QED
      BY <3>1, <3>2
  <2> HIDE DEF Body
  <2> QED
    BY <2>1
<1>6. Eq(u)
  <2> HIDE DEF Eq
  <2> QED
    BY <1>5
<1>7. u[0] = a /\ \A n \in 1 .. NFuncs :
        u[n] = mix_counting_bitmap_decrement(u[n - 1], hash_func(k, n - 1))
  <2> HIDE DEF u
  <2>1. \A n \in 0 .. NFuncs : u[n] = Body(u, n)
    <3> HIDE DEF Body
    <3> QED
      BY <1>6
  <2> QED
    BY <2>1, <1>0
<1> HIDE DEF u
<1>8. \A n \in 1 .. NFuncs :
        u[n - 1] \in Arrays => Moved(Down, u[n - 1], hash_func(k, n - 1), u[n])
  <2> SUFFICES ASSUME NEW n \in 1 .. NFuncs, u[n - 1] \in Arrays
               PROVE  Moved(Down, u[n - 1], hash_func(k, n - 1), u[n])
    OBVIOUS
  <2>1. n - 1 \in 0 .. NFuncs - 1
    BY <1>0
  <2> QED
    BY <2>1, <1>2, <1>7
<1>9. u[0] \in Arrays
  BY <1>7
<1> QED
  BY <1>1, <1>7, <1>8, <1>9, LoopMoves, UpDownType DEF AllMoved

---------------------------------------------------------------------------
(* The invariant *)

\* The members that have counter j.
Owners(j) == {k \in members : j \in CountersOf(k)}

\* What CountersCountMembers says of a counter.
Counted(j) ==
  /\ Value(array, j) <= Cardinality(Owners(j))
  /\ j \notin refused => Value(array, j) = Cardinality(Owners(j))

BloomInv ==
  /\ TypeOK
  /\ count = Cardinality(members)
  /\ \A j \in Counters : Counted(j)

LEMMA FiniteOwners ==
  ASSUME TypeOK
  PROVE  /\ IsFiniteSet(members) /\ Cardinality(members) \in 0 .. Cardinality(Keys)
         /\ \A j : IsFiniteSet(Owners(j)) /\ Cardinality(Owners(j)) \in Nat
<1>1. IsFiniteSet(Keys) /\ Cardinality(Keys) \in Nat
  BY BloomAssumption, FS_CardinalityType
<1>2. members \in SUBSET Keys
  BY DEF TypeOK
<1>3. IsFiniteSet(members) /\ Cardinality(members) <= Cardinality(Keys)
  BY <1>1, <1>2, FS_Subset
<1>4. Cardinality(members) \in Nat
  BY <1>3, FS_CardinalityType
<1>5. ASSUME NEW j PROVE IsFiniteSet(Owners(j)) /\ Cardinality(Owners(j)) \in Nat
  <2>1. Owners(j) \in SUBSET members
    BY DEF Owners
  <2>2. IsFiniteSet(Owners(j))
    BY <1>3, <2>1, FS_Subset
  <2> QED
    BY <2>2, FS_CardinalityType
<1> QED
  BY <1>1, <1>3, <1>4, <1>5

LEMMA CountersOfType ==
  ASSUME NEW k \in Keys
  PROVE  CountersOf(k) \subseteq Counters
  BY HashRow DEF CountersOf

LEMMA BloomInit == Init => BloomInv
<1> SUFFICES ASSUME Init PROVE BloomInv
  OBVIOUS
<1>0. Base * Base - 1 \in Nat /\ Base \in Nat \ {0, 1}
  BY BloomAssumption
<1>1. TypeOK
  <2>1. Cardinality(Keys) \in Nat
    BY BloomAssumption, FS_CardinalityType
  <2>2. array \in [Bytes -> 0 .. Base * Base - 1]
    BY <1>0 DEF Init
  <2> QED
    BY <2>1, <2>2 DEF Init, TypeOK
<1>2. Cardinality({}) = 0
  BY FS_EmptySet
<1>3. ASSUME NEW j \in Counters PROVE Counted(j)
  <2>1. Owners(j) = {}
    BY DEF Init, Owners
  <2>2. array[j \div 2] = 0
    BY ByteOf DEF Init
  <2>3. 0 % Base = 0 /\ 0 \div Base = 0
    BY <1>0
  <2>4. Value(array, j) = 0
    BY <2>2, <2>3 DEF Value, Half
  <2> QED
    BY <1>2, <2>1, <2>4 DEF Counted
<1> QED
  BY <1>1, <1>2, <1>3 DEF BloomInv, Init

LEMMA AddKeeps ==
  ASSUME BloomInv, NEW k \in Keys, Add(k)
  PROVE  BloomInv'
<1>0. TypeOK /\ array \in Arrays
  BY DEF BloomInv, TypeOK, Arrays
<1>1. AllMoved(Up, array, k, array')
  BY <1>0, IncrementEachMoves DEF Add
<1>2. IsFiniteSet(members) /\ k \notin members /\ members' = members \union {k}
  BY <1>0, FiniteOwners DEF Add
<1>3. Cardinality(members') = Cardinality(members) + 1 /\ IsFiniteSet(members')
  BY <1>2, FS_AddElement
<1>4. TypeOK'
  <2>1. members' \in SUBSET Keys
    BY <1>0, <1>2 DEF TypeOK
  <2>2. Cardinality(members') <= Cardinality(Keys)
    BY <2>1, BloomAssumption, FS_Subset
  <2>3. Cardinality(members') \in Nat /\ Cardinality(Keys) \in Nat
    BY <1>3, BloomAssumption, FS_CardinalityType
  <2>4. count' = Cardinality(members')
    BY <1>3 DEF Add, BloomInv
  <2>5. refused' \subseteq Counters
    BY <1>0, CountersOfType DEF Add, TypeOK
  <2>6. array' \in [Bytes -> 0 .. Base * Base - 1]
    BY <1>1 DEF AllMoved, Arrays
  <2> QED
    BY <2>1, <2>2, <2>3, <2>4, <2>5, <2>6 DEF TypeOK
<1>5. ASSUME NEW j \in Counters PROVE Counted(j)'
  <2>1. PICK v \in Values : v = Value(array, j)
    BY <1>0, ValueType
  <2>2. PICK m \in Nat : m = Cardinality(Owners(j))
    BY <1>0, FiniteOwners
  <2>3. v <= m /\ (j \notin refused => v = m)
    BY <2>1, <2>2 DEF BloomInv, Counted
  <2>4. Value(array', j) = IF j \in CountersOf(k) THEN Up[v] ELSE v
    BY <1>1, <2>1 DEF AllMoved
  <2>5. Counted(j)' <=> /\ Value(array', j) <= Cardinality(Owners(j)')
                        /\ j \notin refused' => Value(array', j) = Cardinality(Owners(j)')
    BY DEF Counted
  <2>6. Base \in Nat /\ v \in Nat
    BY BloomAssumption DEF Values
  <2>7. CASE j \in CountersOf(k)
    <3>1. Owners(j)' = Owners(j) \union {k} /\ k \notin Owners(j)
      BY <1>2, <2>7 DEF Owners
    <3>2. Cardinality(Owners(j)') = m + 1
      BY <1>0, <2>2, <3>1, FiniteOwners, FS_AddElement
    <3>3. j \in refused' <=> j \in refused \/ v = Base - 1
      BY <2>1, <2>7 DEF Add, Value
    <3>4. Up[v] = IF v = Base - 1 THEN v ELSE v + 1
      BY DEF Up
    <3> QED
      BY <2>3, <2>4, <2>5, <2>6, <2>7, <3>2, <3>3, <3>4
  <2>8. CASE j \notin CountersOf(k)
    <3>1. Owners(j)' = Owners(j)
      BY <1>2, <2>8 DEF Owners
    <3>2. j \in refused' <=> j \in refused
      BY <2>8 DEF Add
    <3> QED
      BY <2>2, <2>3, <2>4, <2>5, <2>8, <3>1, <3>2
  <2> QED
    BY <2>7, <2>8
<1> QED
  BY <1>3, <1>4, <1>5 DEF BloomInv, Add

LEMMA RemoveKeeps ==
  ASSUME BloomInv, NEW k \in Keys, Remove(k)
  PROVE  BloomInv'
<1>0. TypeOK /\ array \in Arrays
  BY DEF BloomInv, TypeOK, Arrays
<1>1. AllMoved(Down, array, k, array')
  BY <1>0, DecrementEachMoves DEF Remove
<1>2. IsFiniteSet(members) /\ k \in members /\ members' = members \ {k}
  BY <1>0, FiniteOwners DEF Remove
<1>3. Cardinality(members') = Cardinality(members) - 1 /\ IsFiniteSet(members')
  BY <1>2, FS_RemoveElement
<1>4. TypeOK'
  <2>1. members' \in SUBSET Keys
    BY <1>0, <1>2 DEF TypeOK
  <2>2. Cardinality(members') <= Cardinality(Keys)
    BY <2>1, BloomAssumption, FS_Subset
  <2>3. Cardinality(members') \in Nat /\ Cardinality(Keys) \in Nat
    BY <1>3, BloomAssumption, FS_CardinalityType
  <2>4. count' = Cardinality(members')
    BY <1>3 DEF Remove, BloomInv
  <2>5. refused' \subseteq Counters
    BY <1>0 DEF Remove, TypeOK
  <2>6. array' \in [Bytes -> 0 .. Base * Base - 1]
    BY <1>1 DEF AllMoved, Arrays
  <2> QED
    BY <2>1, <2>2, <2>3, <2>4, <2>5, <2>6 DEF TypeOK
<1>5. ASSUME NEW j \in Counters PROVE Counted(j)'
  <2>1. PICK v \in Values : v = Value(array, j)
    BY <1>0, ValueType
  <2>2. PICK m \in Nat : m = Cardinality(Owners(j))
    BY <1>0, FiniteOwners
  <2>3. v <= m /\ (j \notin refused => v = m)
    BY <2>1, <2>2 DEF BloomInv, Counted
  <2>4. Value(array', j) = IF j \in CountersOf(k) THEN Down[v] ELSE v
    BY <1>1, <2>1 DEF AllMoved
  <2>5. Counted(j)' <=> /\ Value(array', j) <= Cardinality(Owners(j)')
                        /\ j \notin refused => Value(array', j) = Cardinality(Owners(j)')
    BY DEF Counted, Remove
  <2>6. v \in Nat
    BY BloomAssumption DEF Values
  <2>7. CASE j \in CountersOf(k)
    <3>1. Owners(j)' = Owners(j) \ {k} /\ k \in Owners(j)
      BY <1>2, <2>7 DEF Owners
    <3>2. Cardinality(Owners(j)') = m - 1
      BY <1>0, <2>2, <3>1, FiniteOwners, FS_RemoveElement
    <3>3. m # 0
      BY <1>0, <2>2, <3>1, FiniteOwners, FS_EmptySet
    <3>4. Down[v] = IF v = 0 THEN v ELSE v - 1
      BY DEF Down
    <3> QED
      BY <2>3, <2>4, <2>5, <2>6, <2>7, <3>2, <3>3, <3>4
  <2>8. CASE j \notin CountersOf(k)
    <3>1. Owners(j)' = Owners(j)
      BY <1>2, <2>8 DEF Owners
    <3> QED
      BY <2>2, <2>3, <2>4, <2>5, <2>8, <3>1
  <2> QED
    BY <2>7, <2>8
<1> QED
  BY <1>3, <1>4, <1>5 DEF BloomInv, Remove

\* Every run of the filter keeps the invariant.
THEOREM FilterInvariant == Spec => []BloomInv
<1>1. ASSUME BloomInv, [Next]_bloomVars PROVE BloomInv'
  <2>1. CASE UNCHANGED bloomVars
    BY <1>1, <2>1 DEF bloomVars, BloomInv, TypeOK, Counted, Owners
  <2>2. CASE Next
    BY <1>1, <2>2, AddKeeps, RemoveKeeps DEF Next
  <2> QED
    BY <1>1, <2>1, <2>2
<1> QED
  BY <1>1, BloomInit, PTL DEF Spec

\* mix_counting_bloom_filter_add and _remove stay inside the bitmap and its
\* bytes inside their width.
THEOREM TypeCorrect == Spec => []TypeOK
<1>1. BloomInv => TypeOK
  BY DEF BloomInv
<1> QED
  BY <1>1, FilterInvariant, PTL

\* The counters count the members, short only where an increment was refused.
THEOREM CountersAreExact == Spec => []CountersCountMembers
<1>1. BloomInv => CountersCountMembers
  BY DEF BloomInv, Counted, Owners, Value, CountersCountMembers
<1> QED
  BY <1>1, FilterInvariant, PTL
===========================================================================
