---------------------------- MODULE NatLemmas ----------------------------
(***************************************************************************)
(* Facts about naturals that the proofs about the C code's ring indices,   *)
(* bitmaps and stripes share: least elements, "%" and "/".                 *)
(***************************************************************************)
EXTENDS Integers, TLAPS, WellFoundedInduction

\* A non-empty set of naturals has a least element.
LEMMA LeastNat ==
  ASSUME NEW T \in SUBSET Nat, T # {}
  PROVE  \E x \in T : \A y \in T : x <= y
<1>1. \E x \in T : \A y \in T : ~ (<<y, x>> \in OpToRel(<, Nat))
  BY NatLessThanWellFounded, WFMin, Zenon
<1>2. PICK x \in T : \A y \in T : ~ (<<y, x>> \in OpToRel(<, Nat))
  BY <1>1
<1>3. \A y \in T : ~ (y < x)
  BY <1>2 DEF OpToRel
<1>4. \A y \in T : x \in Int /\ y \in Int
  OBVIOUS
<1>5. \A y \in T : x <= y
  BY <1>3, <1>4
<1> QED
  BY <1>5

\* The arithmetic of ring indices and bitmaps: what "% n" does below 2n, and "/ n".
LEMMA ModWrap ==
  ASSUME NEW n \in Nat \ {0}, NEW x \in 0 .. n - 1
  PROVE  x % n = x /\ (x + n) % n = x
  OBVIOUS

\* At most n divided by n is 0 or 1: the bitmap's next_bit after a search.
LEMMA DivSmall ==
  ASSUME NEW n \in Nat \ {0}, NEW x \in 0 .. n
  PROVE  x \div n = IF x < n THEN 0 ELSE 1
  OBVIOUS

\* A quotient is no larger than the dividend.
LEMMA DivBound ==
  ASSUME NEW n \in Nat \ {0}, NEW x \in Nat
  PROVE  x \div n \in 0 .. x
  OBVIOUS

\* The remainder of a number given by quotient and remainder.
LEMMA QuotientMod ==
  ASSUME NEW n \in Nat \ {0}, NEW r \in 0 .. n - 1, NEW q \in Nat
  PROVE  (q * n + r) % n = r
  OBVIOUS

\* Division with remainder.
LEMMA Quotient ==
  ASSUME NEW n \in Nat \ {0}, NEW a \in Nat
  PROVE  \E q \in Nat : \E r \in 0 .. n - 1 : a = q * n + r /\ a % n = r
<1> DEFINE q == a \div n
           r == a - n * q
<1>1. q \in Nat
  OBVIOUS
<1>2. n * q <= a
  OBVIOUS
<1>3. a < n * q + n
  OBVIOUS
<1> HIDE DEF q
<1>4. n * q \in Nat /\ n * q = q * n
  BY <1>1
<1>5. r \in 0 .. n - 1 /\ a = q * n + r
  BY <1>1, <1>2, <1>3, <1>4
<1> HIDE DEF r
<1> QED
  BY <1>1, <1>5, QuotientMod

\* A step of n keeps the residue: the next bucket of a stripe.
LEMMA ResidueStep ==
  ASSUME NEW n \in Nat \ {0}, NEW a \in Nat
  PROVE  (a + n) % n = a % n
<1>1. PICK q \in Nat, r \in 0 .. n - 1 : a = q * n + r /\ a % n = r
  BY Quotient
<1>2. q + 1 \in Nat /\ a + n = (q + 1) * n + r
  BY <1>1
<1> QED
  BY <1>1, <1>2, QuotientMod

\* Any number of laps of n keeps the residue: a counter that wraps.
LEMMA ModMultiple ==
  ASSUME NEW n \in Nat \ {0}, NEW a \in Nat, NEW m \in Nat
  PROVE  (a + m * n) % n = a % n
<1>1. PICK q \in Nat, r \in 0 .. n - 1 : a = q * n + r /\ a % n = r
  BY Quotient
<1>2. q + m \in Nat /\ a + m * n = (q + m) * n + r
  BY <1>1
<1> QED
  BY <1>1, <1>2, QuotientMod

\* The distance of two unsigned counters.
LEMMA SubMod ==
  ASSUME NEW w \in Nat \ {0}, NEW i \in 0 .. w - 1, NEW o \in 0 .. w - 1
  PROVE  (i - o) % w = IF i >= o THEN i - o ELSE i - o + w
  OBVIOUS

\* Two numbers of one residue less than n apart are equal.
LEMMA ResidueGap ==
  ASSUME NEW n \in Nat \ {0}, NEW a \in Nat, NEW b \in Nat,
         a % n = b % n, a <= b, b < a + n
  PROVE  a = b
<1>1. PICK q \in Nat, r \in 0 .. n - 1 : a = q * n + r /\ a % n = r
  BY Quotient
<1>2. PICK p \in Nat, c \in 0 .. n - 1 : b = p * n + c /\ b % n = c
  BY Quotient
<1>0. c = r
  BY <1>1, <1>2
<1>3. b - a = (p - q) * n
  BY <1>0, <1>1, <1>2
<1>4. p - q < 1
  <2> SUFFICES ASSUME p - q >= 1 PROVE FALSE
    OBVIOUS
  <2>1. (p - q) * n >= n
    OBVIOUS
  <2> QED
    BY <1>3, <2>1
<1>5. p - q > -1
  <2> SUFFICES ASSUME p - q <= -1 PROVE FALSE
    OBVIOUS
  <2>1. (p - q) * n <= -n
    OBVIOUS
  <2> QED
    BY <1>3, <2>1
<1>6. p = q
  BY <1>4, <1>5
<1> QED
  BY <1>0, <1>1, <1>2, <1>6

\* A pair (s, b) with b below n, numbered row by row: the loops of mix_rebuild.
LEMMA FlatBound ==
  ASSUME NEW n \in Nat \ {0}, NEW m \in Nat, NEW s \in 0 .. m - 1, NEW b \in 0 .. n - 1
  PROVE  s * n + b \in Nat /\ s * n + b < m * n
<1>1. (m - 1 - s) * n >= 0
  OBVIOUS
<1>2. m * n = s * n + (m - 1 - s) * n + n /\ s * n \in Nat
  OBVIOUS
<1>3. (m - 1 - s) * n \in Int /\ m * n \in Int
  OBVIOUS
<1> QED
  BY <1>1, <1>2, <1>3

\* And back: row a / n, column a % n.
LEMMA FlatSplit ==
  ASSUME NEW n \in Nat \ {0}, NEW m \in Nat, NEW a \in Nat, a < m * n
  PROVE  /\ a \div n \in 0 .. m - 1
         /\ a % n \in 0 .. n - 1
         /\ \A s \in Nat : \A b \in 0 .. n - 1 :
              s * n + b = a => s = a \div n /\ b = a % n
<1> DEFINE q == a \div n
<1>1. q \in Nat /\ n * q <= a /\ a < n * q + n
  OBVIOUS
<1>2. a % n \in 0 .. n - 1
  OBVIOUS
<1> HIDE DEF q
<1>3. q < m
  <2> SUFFICES ASSUME q >= m PROVE FALSE
    BY <1>1
  <2>1. (q - m) * n >= 0
    BY <1>1
  <2>2. n * q = m * n + (q - m) * n /\ m * n \in Int /\ (q - m) * n \in Int
    BY <1>1
  <2> QED
    BY <1>1, <2>1, <2>2
<1>4. ASSUME NEW s \in Nat, NEW b \in 0 .. n - 1, s * n + b = a
      PROVE  s = q /\ b = a % n
  <2>1. b = a % n
    BY <1>4, QuotientMod
  <2>2. s * n \in Nat /\ n * q \in Nat
    BY <1>1
  <2>3. s < q + 1
    <3> SUFFICES ASSUME s >= q + 1 PROVE FALSE
      BY <1>1
    <3>1. (s - q - 1) * n >= 0
      BY <1>1
    <3>2. s * n = n * q + n + (s - q - 1) * n /\ (s - q - 1) * n \in Int
      BY <1>1
    <3> QED
      BY <1>1, <1>4, <2>2, <3>1, <3>2
  <2>4. q < s + 1
    <3> SUFFICES ASSUME q >= s + 1 PROVE FALSE
      BY <1>1
    <3>1. (q - s - 1) * n >= 0
      BY <1>1
    <3>2. n * q = s * n + n + (q - s - 1) * n /\ (q - s - 1) * n \in Int
      BY <1>1
    <3> QED
      BY <1>1, <1>4, <2>2, <3>1, <3>2
  <2> QED
    BY <1>1, <2>1, <2>3, <2>4
<1> QED
  BY <1>1, <1>2, <1>3, <1>4 DEF q

\* f holds the values of a loop of n rounds that starts with a.
IsTrace(f, n, a, G) ==
  f[0] = a /\ \A m \in 1 .. n : f[m] = G[m - 1][f[m - 1]]

\* A loop whose rounds turn values of S into values of S has a trace: the
\* recursive functions of the models exist.
LEMMA Iterates ==
  ASSUME NEW S, NEW n \in Nat, NEW a \in S, NEW G \in [0 .. n - 1 -> [S -> S]]
  PROVE  \E f \in [0 .. n -> S] : IsTrace(f, n, a, G)
<1> DEFINE Trace(m, f) ==
             /\ f \in [0 .. m -> S]
             /\ f[0] = a
             /\ \A i \in 1 .. m : f[i] = G[i - 1][f[i - 1]]
           T == {m \in 0 .. n : ~ \E f : Trace(m, f)}
<1>1. ASSUME T # {} PROVE FALSE
  <2>1. T \in SUBSET Nat
    OBVIOUS
  <2> HIDE DEF T
  <2>2. PICK m \in T : \A y \in T : m <= y
    BY <1>1, <2>1, LeastNat
  <2>3. m \in 0 .. n /\ ~ \E f : Trace(m, f)
    BY <2>2 DEF T
  <2>4. m # 0
    <3> SUFFICES ASSUME m = 0 PROVE \E f : Trace(0, f)
      BY <2>3
    <3> DEFINE z == [x \in 0 .. 0 |-> a]
    <3>1. Trace(0, z)
      OBVIOUS
    <3> QED
      BY <3>1
  <2>5. m - 1 \in 0 .. n - 1 /\ m - 1 \notin T
    BY <2>2, <2>3, <2>4
  <2>6. PICK f : Trace(m - 1, f)
    BY <2>5 DEF T
  <2> DEFINE g == [i \in 0 .. m |-> IF i = m THEN G[m - 1][f[m - 1]] ELSE f[i]]
  <2>7. f[m - 1] \in S /\ G[m - 1][f[m - 1]] \in S
    BY <2>5, <2>6
  <2>8. g \in [0 .. m -> S]
    BY <2>3, <2>6, <2>7
  <2>9. g[0] = a
    BY <2>3, <2>4, <2>6
  <2>10. ASSUME NEW i \in 1 .. m PROVE g[i] = G[i - 1][g[i - 1]]
    <3>1. CASE i = m
      BY <3>1, <2>3, <2>4
    <3>2. CASE i # m
      <4>1. i \in 1 .. m - 1 /\ i - 1 \in 0 .. m /\ i - 1 # m /\ i \in 0 .. m
        BY <3>2, <2>3
      <4>2. g[i] = f[i] /\ g[i - 1] = f[i - 1]
        BY <4>1, <3>2
      <4> QED
        BY <4>1, <4>2, <2>6
    <3> QED
      BY <3>1, <3>2
  <2>11. Trace(m, g)
    <3> HIDE DEF g
    <3> QED
      BY <2>8, <2>9, <2>10
  <2> QED
    BY <2>3, <2>11
<1>2. n \notin T
  BY <1>1
<1>3. PICK f : Trace(n, f)
  BY <1>2
<1> QED
  BY <1>3 DEF IsTrace
==========================================================================
