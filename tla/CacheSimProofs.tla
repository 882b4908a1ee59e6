--------------------------- MODULE CacheSimProofs ---------------------------
(***************************************************************************)
(* Two results about the cache simulator, for any number of ways.  The LRU *)
(* matrix stays a strict total order, its zero-byte search, borrows        *)
(* between the bytes included, finds the least recently used way, and it   *)
(* implements the list (LruSet, one set).  And for every geometry and      *)
(* every trace the sets of CacheSim stay well formed, no set holds a block *)
(* twice, the counters balance, no written data is dropped uncounted, and  *)
(* the simulator implements the reference hierarchy.  The lemmas about the *)
(* matrix are about any matrix, so that the proofs about the cache use     *)
(* them for each of its sets.                                              *)
(***************************************************************************)
EXTENDS CacheSim, LruSet, DataLemmas, SequenceTheorems

-----------------------------------------------------------------------------
(* The order.                                                              *)

\* lru_touch moves one way above all the others and leaves the order of the others
\* alone: a strict total order stays one.
LEMMA TouchKeepsOrder ==
  ASSUME NEW m, TotalOrder(m), NEW w \in Ways
  PROVE  TotalOrder(lru_touch(m, w))
<1> DEFINE n == lru_touch(m, w)
<1>1. n \in [Ways -> SUBSET Ways] /\ \A i \in Ways : n[i] = (IF i = w THEN Ways ELSE m[i]) \ {w}
  BY DEF lru_touch, TotalOrder
<1> HIDE DEF n
<1>2. ASSUME NEW i \in Ways, NEW j \in Ways
      PROVE  j \in n[i] <=> i # j /\ i \notin n[j]
  BY <1>1 DEF TotalOrder
<1>3. ASSUME NEW i \in Ways, NEW j \in Ways, j \in n[i]
      PROVE  n[j] \subseteq n[i]
  <2>1. j # w
    BY <1>1, <1>3
  <2>2. CASE i = w
    BY <1>1, <2>1, <2>2 DEF TotalOrder
  <2>3. CASE i # w
    BY <1>1, <1>3, <2>1, <2>3 DEF TotalOrder
  <2> QED BY <2>2, <2>3
<1>4. TotalOrder(n)
  BY <1>1, <1>2, <1>3 DEF TotalOrder
<1> QED BY <1>4 DEF n

\* INIT_MAT: way i is more recent than the ways below it.
LEMMA InitialOrder == TotalOrder(INIT_MAT)
<1>1. \A i \in Ways : i \in Int
  BY DEF Ways
<1>2. INIT_MAT \in [Ways -> SUBSET Ways] /\ \A i, j \in Ways : j \in INIT_MAT[i] <=> j < i
  BY DEF INIT_MAT
<1>3. ASSUME NEW i \in Ways, NEW j \in Ways, j \in INIT_MAT[i]
      PROVE  INIT_MAT[j] \subseteq INIT_MAT[i]
  <2>1. \A k \in INIT_MAT[j] : k \in Ways /\ k < j /\ k < i
    BY <1>1, <1>2, <1>3
  <2> QED BY <1>2, <2>1
<1> QED BY <1>1, <1>2, <1>3 DEF TotalOrder

\* One row of a total order is empty, and only one.
LEMMA OneOldest ==
  ASSUME NEW m, TotalOrder(m)
  PROVE  \E z \in Ways : m[z] = {} /\ \A i \in Ways : i # z => m[i] # {}
<1> DEFINE rows == {m[i] : i \in Ways}
<1>1. IsFiniteSet(Ways) /\ 0 \in Ways
  BY FS_Interval, WaysAssumption DEF Ways
<1>2. rows \in SUBSET (SUBSET Ways) /\ rows # {}
  BY <1>1 DEF TotalOrder
<1>3. PICK X \in rows : \A Y \in rows : Y \subseteq X => Y = X
  <2> HIDE DEF rows
  <2> QED BY <1>1, <1>2, MinimalSet
<1>4. PICK z \in Ways : m[z] = X
  OBVIOUS
<1>5. m[z] = {}
  <2> SUFFICES ASSUME NEW j \in m[z] PROVE FALSE
    OBVIOUS
  <2>1. j \in Ways /\ m[j] \subseteq m[z] /\ m[j] \in rows
    BY DEF TotalOrder
  <2>2. m[j] = m[z]
    BY <1>3, <1>4, <2>1
  <2> QED BY <2>1, <2>2 DEF TotalOrder
<1>6. \A i \in Ways : i # z => m[i] # {}
  BY <1>5 DEF TotalOrder
<1> QED BY <1>5, <1>6

-----------------------------------------------------------------------------
(* The zero-byte search.                                                   *)

\* The value of a row of n bits: 0 if it is empty, at most 2^n - 1.
LEMMA RowRange ==
  ASSUME NEW n \in Nat, NEW row \in SUBSET (0 .. n - 1)
  PROVE  /\ RowValue(row) \in Nat /\ RowValue(row) <= 2 ^ n - 1
         /\ row = {} => RowValue(row) = 0
         /\ row # {} => RowValue(row) >= 1
<1> DEFINE bits == 0 .. n - 1
           f == [k \in bits |-> 2 ^ k]
           own == [k \in row |-> 2 ^ k]
<1>1. IsFiniteSet(bits)
  BY FS_Interval
<1>2. IsFiniteSet(row) /\ row \subseteq bits
  BY <1>1, FS_Subset
<1>3. RowValue(row) = SumOver(own, row)
  BY DEF RowValue, SumOver, MapThenSumSet, MapThenFoldSet
<1>4. \A k \in row : own[k] = f[k]
  OBVIOUS
<1>5. \A k \in bits : f[k] \in Nat /\ f[k] >= 1 /\ f[k] = 2 ^ k
  <2> SUFFICES ASSUME NEW k \in bits PROVE 2 ^ k \in Nat /\ 2 ^ k >= 1
    OBVIOUS
  <2>1. k \in Nat /\ IsFiniteSet(1 .. k)
    BY FS_Interval
  <2>2. 2 ^ k \in Nat /\ 2 ^ k = Cardinality(SUBSET (1 .. k))
    BY <2>1, PowType
  <2>3. IsFiniteSet(SUBSET (1 .. k)) /\ SUBSET (1 .. k) # {}
    BY <2>1, FS_SUBSET
  <2>4. Cardinality(SUBSET (1 .. k)) # 0
    BY <2>3, FS_EmptySet
  <2> QED BY <2>2, <2>4
<1> HIDE DEF f, own
<1>6. RowValue(row) = SumOver(f, row)
  BY <1>2, <1>3, <1>4, SumSame
<1>7. SumOver(f, bits) = 2 ^ n - 1
  BY <1>5, PowSum
<1> HIDE DEF bits
<1>8. /\ SumOver(f, row) \in Nat /\ SumOver(f, row) <= SumOver(f, bits)
      /\ \A k \in row : f[k] <= SumOver(f, row)
  BY <1>1, <1>2, <1>5, SumMonotone
<1>9. row = {} => SumOver(f, row) = 0
  BY SumEmpty
<1>10. row # {} => SumOver(f, row) >= 1
  <2> SUFFICES ASSUME NEW k \in row PROVE SumOver(f, row) >= 1
    OBVIOUS
  <2>1. f[k] \in Nat /\ f[k] >= 1 /\ f[k] <= SumOver(f, row)
    BY <1>2, <1>5, <1>8
  <2> QED BY <1>8, <2>1
<1> QED BY <1>6, <1>7, <1>8, <1>9, <1>10

\* What the recursion of Borrow asks of a function.
Borrows(into, m) ==
  into = [i \in Ways |-> IF i = 0 THEN 0
                         ELSE IF RowValue(m[i - 1]) < 1 + into[i - 1] THEN 1 ELSE 0]

\* Borrow is such a function: the borrow starts above the empty row and goes on as long as
\* the rows are worth 1.
LEMMA BorrowIs ==
  ASSUME NEW m, TotalOrder(m)
  PROVE  Borrows(Borrow(m), m)
<1>1. PICK z \in Ways : m[z] = {} /\ \A i \in Ways : i # z => m[i] # {}
  BY OneOldest
<1> DEFINE value == [i \in Ways |-> RowValue(m[i])]
           Goes(i) == z < i /\ \A k \in z + 1 .. i - 1 : value[k] < 2
           e == [i \in Ways |-> IF Goes(i) THEN 1 ELSE 0]
<1>2. Ways \in SUBSET Nat /\ W \in Nat /\ \A i \in Ways : i # 0 => i - 1 \in Ways
  BY WaysAssumption DEF Ways
<1>3. \A i \in Ways : value[i] \in Nat /\ value[i] = RowValue(m[i])
                      /\ (i = z => value[i] = 0) /\ (i # z => value[i] >= 1)
  <2> SUFFICES ASSUME NEW i \in Ways
               PROVE  value[i] \in Nat /\ (i = z => value[i] = 0) /\ (i # z => value[i] >= 1)
    OBVIOUS
  <2>1. m[i] \in SUBSET (0 .. W - 1)
    BY DEF TotalOrder, Ways
  <2> QED BY <1>1, <1>2, <2>1, RowRange
<1> HIDE DEF value
<1>4. ASSUME NEW i \in Ways
      PROVE  e[i] = IF i = 0 THEN 0 ELSE IF value[i - 1] < 1 + e[i - 1] THEN 1 ELSE 0
  <2>1. CASE i = 0
    BY <1>1, <1>2, <2>1
  <2>2. CASE i # 0
    <3>1. i - 1 \in Ways /\ i \in Nat /\ z \in Nat
      BY <1>2, <2>2
    <3>2. value[i - 1] \in Nat /\ (i - 1 = z => value[i - 1] = 0) /\ (i - 1 # z => value[i - 1] >= 1)
      BY <1>3, <3>1
    <3>3. CASE i <= z
      <4>1. ~ Goes(i) /\ ~ Goes(i - 1)
        BY <3>1, <3>3
      <4>2. e[i] = 0 /\ e[i - 1] = 0
        BY <3>1, <4>1
      <4>3. ~ (value[i - 1] < 1 + 0)
        BY <3>1, <3>2, <3>3
      <4> QED BY <2>2, <4>2, <4>3
    <3>4. CASE i = z + 1
      <4>1. Goes(i) /\ ~ Goes(i - 1)
        BY <3>1, <3>4
      <4>2. e[i] = 1 /\ e[i - 1] = 0
        BY <3>1, <4>1
      <4>3. value[i - 1] < 1 + 0
        BY <3>1, <3>2, <3>4
      <4> QED BY <2>2, <4>2, <4>3
    <3>5. CASE i > z + 1
      <4>1. z + 1 .. i - 1 = (z + 1 .. (i - 1) - 1) \cup {i - 1}
        BY <3>1, <3>5
      <4>2. Goes(i) <=> Goes(i - 1) /\ value[i - 1] < 2
        BY <3>1, <3>5, <4>1
      <4>3. e[i] = IF Goes(i) THEN 1 ELSE 0
        OBVIOUS
      <4>4. e[i - 1] = IF Goes(i - 1) THEN 1 ELSE 0
        BY <3>1
      <4> HIDE DEF Goes, e
      <4>5. ~ (value[i - 1] < 1 + 0)
        BY <3>1, <3>2, <3>5
      <4>6. CASE Goes(i - 1)
        <5>1. e[i - 1] = 1 /\ 1 + 1 = 2
          BY <4>4, <4>6
        <5> QED BY <2>2, <4>2, <4>3, <4>6, <5>1
      <4>7. CASE ~ Goes(i - 1)
        BY <2>2, <4>2, <4>3, <4>4, <4>5, <4>7
      <4> QED BY <4>6, <4>7
    <3> QED BY <3>1, <3>3, <3>4, <3>5
  <2> QED BY <2>1, <2>2
<1>5. Borrows(e, m)
  <2>1. e = [i \in Ways |-> e[i]]
    OBVIOUS
  <2> HIDE DEF e
  <2>2. \A i \in Ways : e[i] = IF i = 0 THEN 0
                               ELSE IF RowValue(m[i - 1]) < 1 + e[i - 1] THEN 1 ELSE 0
    BY <1>2, <1>3, <1>4
  <2> QED BY <2>1, <2>2 DEF Borrows
<1>6. Borrow(m) = CHOOSE into : Borrows(into, m)
  BY DEF Borrow, Borrows
<1> HIDE DEF e
<1> QED BY <1>5, <1>6

\* No borrow reaches the rows up to the empty one: the rows below it are worth at least 1.
LEMMA NoBorrowBelow ==
  ASSUME NEW m, TotalOrder(m), NEW z \in Ways, m[z] = {}, NEW i \in Ways, i <= z
  PROVE  Borrow(m)[i] = 0
<1> DEFINE into == Borrow(m)
           T == {k \in Ways : k <= z /\ into[k] # 0}
<1>1. Ways \in SUBSET Nat /\ W \in Nat /\ \A k \in Ways : k # 0 => k - 1 \in Ways
  BY WaysAssumption DEF Ways
<1>2. \A k \in Ways : into[k] = IF k = 0 THEN 0
                                ELSE IF RowValue(m[k - 1]) < 1 + into[k - 1] THEN 1 ELSE 0
  <2>1. Borrows(into, m)
    BY BorrowIs
  <2> HIDE DEF into
  <2> QED BY <2>1 DEF Borrows
<1> HIDE DEF into
<1>3. SUFFICES ASSUME T # {} PROVE FALSE
  BY DEF into
<1>4. T \in SUBSET Nat
  BY <1>1
<1>5. PICK n \in T : \A k \in T : n <= k
  <2> HIDE DEF T
  <2> QED BY <1>3, <1>4, LeastMember
<1>6. n \in Ways /\ n \in Nat /\ z \in Nat /\ n <= z /\ into[n] # 0 /\ n # 0
  BY <1>1, <1>2
<1>7. n - 1 \in Ways /\ n - 1 # z /\ n - 1 \notin T
  BY <1>1, <1>5, <1>6
<1>8. into[n - 1] = 0
  BY <1>6, <1>7
<1>9. RowValue(m[n - 1]) \in Nat /\ RowValue(m[n - 1]) >= 1
  <2>1. m[n - 1] \in SUBSET (0 .. W - 1) /\ m[n - 1] # {}
    BY <1>7 DEF TotalOrder, Ways
  <2> QED BY <1>1, <2>1, RowRange
<1>10. ~ (RowValue(m[n - 1]) < 1 + 0)
  BY <1>9
<1> QED BY <1>2, <1>6, <1>8, <1>10

\* The empty row is flagged and none below it is, so the search answers with it.
LEMMA FlaggedFrom ==
  ASSUME NEW m, TotalOrder(m), NEW z \in Ways, m[z] = {}
  PROVE  z \in Flagged(m) /\ \A i \in Flagged(m) : z <= i
<1> DEFINE into == Borrow(m)
           p == 2 ^ (W - 1)
           q == 2 ^ W
<1>1. Ways \in SUBSET Nat /\ W \in Nat /\ W - 1 \in Nat /\ (W - 1) + 1 = W
  BY WaysAssumption DEF Ways
<1>2. \A i \in Ways : i <= z => into[i] = 0
  BY NoBorrowBelow
<1> DEFINE rest(i) == (RowValue(m[i]) - 1 - into[i]) % q
<1>3. /\ \A i \in Flagged(m) : i \in Ways /\ W - 1 \notin m[i] /\ rest(i) >= p
      /\ \A i \in Ways : W - 1 \notin m[i] /\ rest(i) >= p => i \in Flagged(m)
  BY DEF Flagged
<1>4. RowValue(m[z]) = 0
  <2>1. m[z] \in SUBSET (0 .. W - 1)
    OBVIOUS
  <2> QED BY <1>1, <2>1, RowRange
<1>5. ASSUME NEW i \in Ways, i < z, W - 1 \notin m[i]
      PROVE  RowValue(m[i]) \in Nat /\ RowValue(m[i]) >= 1 /\ RowValue(m[i]) <= p - 1
  <2>1. m[i] \in SUBSET (0 .. (W - 1) - 1)
    BY <1>1, <1>5 DEF TotalOrder, Ways
  <2>2. m[i] # {}
    BY <1>1, <1>5 DEF TotalOrder
  <2> QED BY <1>1, <2>1, <2>2, RowRange
<1>6. q = 2 * p
  BY <1>1, PowNext
<1>7. p \in Nat /\ p >= 1
  <2>1. 2 ^ (W - 1) \in Nat /\ RowValue({}) <= 2 ^ (W - 1) - 1 /\ RowValue({}) = 0
    BY <1>1, PowType, RowRange
  <2> QED BY <2>1
<1> HIDE DEF into, p, q
<1>8. (0 - 1 - 0) % q = q - 1
  <2>1. q \in Nat \ {0} /\ q - 1 \in 0 .. (q - 1) /\ 0 - 1 - 0 = q * (-1) + (q - 1)
    BY <1>6, <1>7
  <2> QED BY <2>1, ModUnique
<1>9. z \in Flagged(m)
  <2>1. q - 1 >= p /\ into[z] = 0 /\ W - 1 \notin m[z]
    BY <1>1, <1>2, <1>6, <1>7
  <2>2. rest(z) = q - 1
    BY <1>4, <1>8, <2>1
  <2> HIDE DEF rest
  <2> QED BY <1>3, <2>1, <2>2
<1>10. ASSUME NEW i \in Flagged(m), ~ (z <= i) PROVE FALSE
  <2>1. i \in Ways /\ i \in Nat /\ z \in Nat /\ i < z /\ W - 1 \notin m[i]
    <3>1. i \in Ways /\ W - 1 \notin m[i]
      BY <1>3, <1>10
    <3>2. i \in Nat /\ z \in Nat
      BY <1>1, <3>1
    <3> QED BY <1>10, <3>1, <3>2
  <2>2. into[i] = 0
    BY <1>2, <2>1
  <2> DEFINE v == RowValue(m[i])
  <2>3. v \in Nat /\ v >= 1 /\ v <= p - 1
    BY <1>5, <2>1
  <2>4. (v - 1 - into[i]) % q >= p
    BY <1>3
  <2> HIDE DEF v
  <2>5. q \in Nat \ {0} /\ v - 1 \in 0 .. (q - 1) /\ v - 1 - 0 = v - 1
    BY <1>6, <1>7, <2>3
  <2>6. (v - 1) % q = v - 1
    BY <2>5, ModSmall
  <2>7. v - 1 >= p
    BY <2>2, <2>4, <2>5, <2>6
  <2> QED BY <1>7, <2>3, <2>7
<1> QED BY <1>9, <1>10

-----------------------------------------------------------------------------
(* The victim.                                                             *)

\* In a full set lru_victim takes the way whose row is empty.
LEMMA VictimOfFullSet ==
  ASSUME NEW m, TotalOrder(m), NEW z \in Ways, m[z] = {}
  PROVE  lru_victim(m, Ways) = z
<1>1. z \in Flagged(m) /\ \A i \in Flagged(m) : z <= i
  BY FlaggedFrom
<1>2. Flagged(m) \in SUBSET Int
  BY WaysAssumption DEF Flagged, Ways
<1>3. Min(Flagged(m)) = z
  BY <1>1, <1>2, MinIs
<1> QED BY <1>3 DEF lru_victim

\* With free ways it takes a free one.
LEMMA VictimOfPartialSet ==
  ASSUME NEW m, NEW valid \in SUBSET Ways, valid # Ways
  PROVE  lru_victim(m, valid) \in Ways \ valid
<1> DEFINE free == Ways \ valid
<1>1. IsFiniteSet(Ways) /\ Ways \in SUBSET Int
  BY FS_Interval, WaysAssumption DEF Ways
<1>2. free \in SUBSET Int /\ IsFiniteSet(free) /\ free # {}
  BY <1>1, FS_Subset
<1> HIDE DEF free
<1>3. Min(free) \in free
  BY <1>2, Extremes
<1> QED BY <1>3 DEF lru_victim, free

\* The victim is always a way, whatever is valid.
LEMMA VictimIsWay ==
  ASSUME NEW m, TotalOrder(m), NEW valid \in SUBSET Ways
  PROVE  lru_victim(m, valid) \in Ways
<1>1. CASE valid = Ways
  <2>1. PICK z \in Ways : m[z] = {}
    BY OneOldest
  <2> QED BY <1>1, <2>1, VictimOfFullSet
<1>2. CASE valid # Ways
  BY <1>2, VictimOfPartialSet
<1> QED BY <1>1, <1>2

\* Order's last way is the one whose row is empty.
LEMMA OldestIsLast ==
  ASSUME NEW m, TotalOrder(m), NEW z \in Ways, m[z] = {}
  PROVE  Order(m)[W] = z
<1>1. W \in 1 .. W /\ W - W = 0
  BY WaysAssumption
<1>2. Order(m)[W] = CHOOSE w \in Ways : Cardinality(m[w]) = 0
  BY <1>1 DEF Order
<1>3. \A w \in Ways : Cardinality(m[w]) = 0 <=> w = z
  <2> SUFFICES ASSUME NEW w \in Ways PROVE Cardinality(m[w]) = 0 <=> w = z
    OBVIOUS
  <2>1. IsFiniteSet(Ways) /\ m[w] \in SUBSET Ways
    BY FS_Interval, WaysAssumption DEF Ways, TotalOrder
  <2>2. IsFiniteSet(m[w])
    BY <2>1, FS_Subset
  <2>3. Cardinality(m[w]) = 0 <=> m[w] = {}
    BY <2>2, FS_EmptySet
  <2> QED BY <2>3 DEF TotalOrder
<1> QED BY <1>2, <1>3

-----------------------------------------------------------------------------
(* The order as a list.                                                    *)

\* How many ways a way is more recent than.
RankOf(m, w) == Cardinality(m[w])

\* A way that is more recent than another beats more ways; the most recent one beats all
\* the others.
LEMMA RankOrder ==
  ASSUME NEW m, TotalOrder(m), NEW v \in Ways, NEW w \in Ways
  PROVE  /\ RankOf(m, v) \in 0 .. W - 1
         /\ w \in m[v] <=> RankOf(m, w) < RankOf(m, v)
         /\ RankOf(m, v) = RankOf(m, w) => v = w
<1>1. /\ IsFiniteSet(Ways) /\ Cardinality(Ways) = W
      /\ \A i \in Ways : m[i] \in SUBSET Ways /\ i \notin m[i]
  BY FS_Interval, WaysAssumption DEF Ways, TotalOrder
<1>2. \A i \in Ways : IsFiniteSet(m[i]) /\ RankOf(m, i) \in Nat
  BY <1>1, FS_Subset, FS_CardinalityType DEF RankOf
<1>3. ASSUME NEW i \in Ways, NEW j \in Ways, j \in m[i]
      PROVE  RankOf(m, j) < RankOf(m, i)
  <2>1. m[j] \in SUBSET m[i] /\ m[j] # m[i]
    BY <1>1, <1>3 DEF TotalOrder
  <2>2. RankOf(m, j) <= RankOf(m, i) /\ RankOf(m, i) # RankOf(m, j)
    BY <1>2, <2>1, FS_Subset DEF RankOf
  <2> QED BY <1>2, <2>2
<1>4. RankOf(m, v) < W
  <2>1. m[v] \in SUBSET Ways /\ m[v] # Ways
    BY <1>1
  <2>2. RankOf(m, v) <= W /\ RankOf(m, v) # W
    BY <1>1, <2>1, FS_Subset DEF RankOf
  <2> QED BY <1>2, <2>2, WaysAssumption
<1>5. v # w => w \in m[v] \/ v \in m[w]
  BY DEF TotalOrder
<1> QED BY <1>1, <1>2, <1>3, <1>4, <1>5, WaysAssumption

\* Every rank below W is taken by one way: Order lists every way once.
LEMMA OrderByRank ==
  ASSUME NEW m, TotalOrder(m)
  PROVE  /\ Order(m) \in [1 .. W -> Ways]
         /\ \A i \in 1 .. W : RankOf(m, Order(m)[i]) = W - i
         /\ \A w \in Ways : W - RankOf(m, w) \in 1 .. W /\ Order(m)[W - RankOf(m, w)] = w
<1> DEFINE rank == [w \in Ways |-> RankOf(m, w)]
<1>1. rank \in Injection(Ways, 0 .. W - 1)
  BY RankOrder DEF Injection, IsInjective
<1>2. IsFiniteSet(Ways) /\ IsFiniteSet(0 .. W - 1) /\ Cardinality(Ways) = Cardinality(0 .. W - 1)
  BY FS_Interval, WaysAssumption DEF Ways
<1>3. rank \in Surjection(Ways, 0 .. W - 1)
  <2> HIDE DEF rank
  <2> QED BY <1>1, <1>2, FS_Injection
<1>4. \A k \in 0 .. W - 1 : \E w \in Ways : RankOf(m, w) = k
  BY <1>3 DEF Surjection
<1>5. ASSUME NEW i \in 1 .. W
      PROVE  Order(m)[i] \in Ways /\ RankOf(m, Order(m)[i]) = W - i
  <2>1. W - i \in 0 .. W - 1
    BY <1>5, WaysAssumption
  <2>2. \E w \in Ways : RankOf(m, w) = W - i
    BY <1>4, <2>1
  <2>3. Order(m)[i] = CHOOSE w \in Ways : RankOf(m, w) = W - i
    BY <1>5 DEF Order, RankOf
  <2> QED BY <2>2, <2>3
<1>6. DOMAIN Order(m) = 1 .. W /\ Order(m) = [i \in 1 .. W |-> Order(m)[i]]
  BY DEF Order
<1>7. Order(m) \in [1 .. W -> Ways]
  BY <1>5, <1>6
<1>8. ASSUME NEW w \in Ways
      PROVE  W - RankOf(m, w) \in 1 .. W /\ Order(m)[W - RankOf(m, w)] = w
  <2>1. RankOf(m, w) \in 0 .. W - 1
    BY <1>8, RankOrder
  <2>2. W - RankOf(m, w) \in 1 .. W /\ W - (W - RankOf(m, w)) = RankOf(m, w)
    BY <2>1, WaysAssumption
  <2>3. /\ Order(m)[W - RankOf(m, w)] \in Ways
        /\ RankOf(m, Order(m)[W - RankOf(m, w)]) = RankOf(m, w)
    BY <1>5, <2>2
  <2> QED BY <1>8, <2>2, <2>3, RankOrder
<1> QED BY <1>5, <1>7, <1>8

\* A list of the ways by rank is Order.
LEMMA OrderUnique ==
  ASSUME NEW m, TotalOrder(m), NEW list \in [1 .. W -> Ways],
         \A i \in 1 .. W : RankOf(m, list[i]) = W - i
  PROVE  Order(m) = list
<1>1. /\ Order(m) \in [1 .. W -> Ways]
      /\ \A i \in 1 .. W : RankOf(m, Order(m)[i]) = W - i
  BY OrderByRank
<1>2. \A v, w \in Ways : RankOf(m, v) = RankOf(m, w) => v = w
  BY RankOrder
<1>3. \A i \in 1 .. W : Order(m)[i] = list[i]
  BY <1>1, <1>2
<1> DEFINE order == Order(m)
<1>4. order \in [1 .. W -> Ways] /\ \A i \in 1 .. W : order[i] = list[i]
  BY <1>1, <1>3
<1> HIDE DEF order
<1>5. order = list
  <2>1. order = [i \in 1 .. W |-> order[i]] /\ list = [i \in 1 .. W |-> list[i]]
    BY <1>4
  <2>2. [i \in 1 .. W |-> order[i]] = [i \in 1 .. W |-> list[i]]
    BY <1>4
  <2> QED BY <2>1, <2>2, Zenon
<1> QED BY <1>5 DEF order

\* A list whose i-th element was taken out and x put in front.
MovedToFront(list, i, x) ==
  [j \in 1 .. Len(list) |-> IF j = 1 THEN x ELSE IF j <= i THEN list[j - 1] ELSE list[j]]

\* A touch moves a way to the front of the order.
LEMMA TouchMovesToFront ==
  ASSUME NEW m, TotalOrder(m), NEW i \in 1 .. W
  PROVE  Order(lru_touch(m, Order(m)[i])) = MovedToFront(Order(m), i, Order(m)[i])
<1> DEFINE list == Order(m)
           w == list[i]
           n == lru_touch(m, w)
           moved == MovedToFront(list, i, w)
<1>1. /\ list \in [1 .. W -> Ways]
      /\ \A j \in 1 .. W : RankOf(m, list[j]) = W - j
  BY OrderByRank
<1>2. w \in Ways
  BY <1>1
<1>3. TotalOrder(n)
  BY <1>2, TouchKeepsOrder
<1>4. \A v \in Ways : n[v] = (IF v = w THEN Ways ELSE m[v]) \ {w}
  BY DEF lru_touch
<1>5. RankOf(n, w) = W - 1
  <2>1. IsFiniteSet(Ways) /\ Cardinality(Ways) = W
    BY FS_Interval, WaysAssumption DEF Ways
  <2>2. Cardinality(Ways \ {w}) = W - 1
    BY <1>2, <2>1, FS_RemoveElement
  <2> QED BY <1>2, <1>4, <2>2 DEF RankOf
<1>6. ASSUME NEW v \in Ways, v # w
      PROVE  RankOf(n, v) = IF RankOf(m, w) < RankOf(m, v) THEN RankOf(m, v) - 1 ELSE RankOf(m, v)
  <2>1. n[v] = m[v] \ {w}
    BY <1>4, <1>6
  <2>2. IsFiniteSet(m[v])
    <3>1. m[v] \in SUBSET Ways /\ IsFiniteSet(Ways)
      BY FS_Interval, WaysAssumption DEF Ways, TotalOrder
    <3> QED BY <3>1, FS_Subset
  <2>3. Cardinality(m[v] \ {w}) = IF w \in m[v] THEN Cardinality(m[v]) - 1 ELSE Cardinality(m[v])
    BY <2>2, FS_RemoveElement
  <2>4. w \in m[v] <=> RankOf(m, w) < RankOf(m, v)
    BY <1>2, RankOrder
  <2> QED BY <2>1, <2>3, <2>4 DEF RankOf
<1> HIDE DEF list, n
<1>7. moved \in [1 .. W -> Ways] /\ \A j \in 1 .. W :
        moved[j] = IF j = 1 THEN list[i] ELSE IF j <= i THEN list[j - 1] ELSE list[j]
  <2>1. \A j \in 1 .. W : j # 1 => j - 1 \in 1 .. W
    BY WaysAssumption
  <2>2. Len(list) = W
    BY <1>1, WaysAssumption
  <2> QED BY <1>1, <2>1, <2>2 DEF MovedToFront
<1>8. ASSUME NEW j \in 1 .. W
      PROVE  RankOf(n, moved[j]) = W - j
  <2>1. CASE j = 1
    BY <1>5, <1>7, <2>1
  <2>2. CASE j # 1 /\ j <= i
    <3>1. j - 1 \in 1 .. W /\ moved[j] = list[j - 1]
      BY <1>7, <2>2, WaysAssumption
    <3>2. RankOf(m, moved[j]) = W - (j - 1) /\ RankOf(m, w) = W - i /\ moved[j] \in Ways
      BY <1>1, <3>1
    <3>3. RankOf(m, w) < RankOf(m, moved[j]) /\ moved[j] # w
      BY <2>2, <3>2, WaysAssumption
    <3> QED BY <1>6, <3>2, <3>3, WaysAssumption
  <2>3. CASE j # 1 /\ j > i
    <3>1. moved[j] = list[j]
      BY <1>7, <2>3
    <3>2. RankOf(m, moved[j]) = W - j /\ RankOf(m, w) = W - i /\ moved[j] \in Ways
      BY <1>1, <3>1
    <3>3. ~(RankOf(m, w) < RankOf(m, moved[j])) /\ moved[j] # w
      BY <2>3, <3>2, WaysAssumption
    <3> QED BY <1>6, <3>2, <3>3
  <2> QED BY <2>1, <2>2, <2>3
<1> HIDE DEF moved
<1>9. Order(n) = moved
  BY <1>3, <1>7, <1>8, OrderUnique
<1> QED BY <1>9 DEF n, moved, list

\* An element in front of a list.
LEMMA InFront ==
  ASSUME NEW S, NEW x \in S, NEW list \in Seq(S)
  PROVE  /\ <<x>> \o list \in Seq(S) /\ Len(<<x>> \o list) = Len(list) + 1
         /\ <<x>> \o list = [j \in 1 .. Len(list) + 1 |-> IF j = 1 THEN x ELSE list[j - 1]]
<1> DEFINE one == <<x>>
           whole == one \o list
           n == Len(list)
<1>1. one \in Seq(S) /\ Len(one) = 1 /\ one[1] = x
  OBVIOUS
<1>2. n \in Nat
  OBVIOUS
<1> HIDE DEF one
<1>3. \A s, t \in Seq(S) :
        /\ s \o t \in Seq(S) /\ Len(s \o t) = Len(s) + Len(t)
        /\ \A j \in 1 .. Len(s) + Len(t) : (s \o t)[j] = IF j <= Len(s) THEN s[j] ELSE t[j - Len(s)]
  BY ConcatProperties
<1>4. /\ whole \in Seq(S) /\ Len(whole) = Len(one) + n
      /\ \A j \in 1 .. Len(one) + n : whole[j] = IF j <= Len(one) THEN one[j] ELSE list[j - Len(one)]
  BY <1>1, <1>3, Zenon
<1> HIDE DEF whole, n
<1>5. /\ whole \in Seq(S) /\ Len(whole) = n + 1
      /\ \A j \in 1 .. n + 1 : whole[j] = IF j = 1 THEN x ELSE list[j - 1]
  BY <1>1, <1>2, <1>4
<1>6. whole = [j \in 1 .. n + 1 |-> whole[j]]
  BY <1>5
<1>7. [j \in 1 .. n + 1 |-> whole[j]] = [j \in 1 .. n + 1 |-> IF j = 1 THEN x ELSE list[j - 1]]
  BY <1>5
<1> QED BY <1>5, <1>6, <1>7 DEF whole, one, n

\* RemoveAt and a new first element move an element to the front.
LEMMA RemoveToFront ==
  ASSUME NEW S, NEW x \in S, NEW list \in Seq(S), NEW i \in 1 .. Len(list)
  PROVE  <<x>> \o (SubSeq(list, 1, i - 1) \o SubSeq(list, i + 1, Len(list)))
         = MovedToFront(list, i, x)
<1> DEFINE n == Len(list)
           left == SubSeq(list, 1, i - 1)
           right == SubSeq(list, i + 1, n)
           rest == left \o right
<1>1. n \in Nat /\ n >= 1
  OBVIOUS
<1>2. left \in Seq(S) /\ Len(left) = i - 1 /\ \A j \in 1 .. i - 1 : left[j] = list[j]
  BY SubSeqProperties
<1>3. right \in Seq(S) /\ Len(right) = n - i /\ \A j \in 1 .. n - i : right[j] = list[i + j]
  BY SubSeqProperties
<1>4. /\ rest \in Seq(S) /\ Len(rest) = Len(left) + Len(right)
      /\ \A j \in 1 .. Len(left) + Len(right) :
           rest[j] = IF j <= Len(left) THEN left[j] ELSE right[j - Len(left)]
  <2> HIDE DEF left, right
  <2>1. \A s, t \in Seq(S) :
          /\ s \o t \in Seq(S) /\ Len(s \o t) = Len(s) + Len(t)
          /\ \A j \in 1 .. Len(s) + Len(t) :
               (s \o t)[j] = IF j <= Len(s) THEN s[j] ELSE t[j - Len(s)]
    BY ConcatProperties
  <2>2. left \in Seq(S) /\ right \in Seq(S)
    BY <1>2, <1>3
  <2> QED BY <2>1, <2>2, Zenon
<1> HIDE DEF left, right, rest, n
<1>5. i \in 1 .. n
  BY DEF n
<1>6. rest \in Seq(S) /\ Len(rest) = n - 1
  BY <1>1, <1>2, <1>3, <1>4, <1>5
<1>7. \A j \in 1 .. n - 1 : rest[j] = IF j < i THEN list[j] ELSE list[j + 1]
  <2> SUFFICES ASSUME NEW j \in 1 .. n - 1
               PROVE  rest[j] = IF j < i THEN list[j] ELSE list[j + 1]
    OBVIOUS
  <2>1. CASE j < i
    BY <1>1, <1>2, <1>3, <1>4, <1>5, <2>1
  <2>2. CASE j >= i
    <3>1. j - (i - 1) \in 1 .. n - i /\ i + (j - (i - 1)) = j + 1
      BY <1>1, <1>5, <2>2
    <3>2. rest[j] = right[j - (i - 1)]
      BY <1>1, <1>2, <1>3, <1>4, <1>5, <2>2
    <3>3. right[j - (i - 1)] = list[j + 1]
      BY <1>3, <3>1
    <3> QED BY <1>1, <1>5, <2>2, <3>2, <3>3
  <2> QED BY <1>1, <1>5, <2>1, <2>2
<1>8. <<x>> \o rest = [j \in 1 .. n |-> IF j = 1 THEN x ELSE rest[j - 1]]
  <2>1. (n - 1) + 1 = n
    BY <1>1
  <2> QED BY <1>6, <2>1, InFront
<1>9. ASSUME NEW j \in 1 .. n
      PROVE  (IF j = 1 THEN x ELSE rest[j - 1])
             = IF j = 1 THEN x ELSE IF j <= i THEN list[j - 1] ELSE list[j]
  <2>1. CASE j = 1
    BY <2>1
  <2>2. CASE j # 1
    <3>1. j - 1 \in 1 .. n - 1 /\ (j - 1 < i <=> j <= i) /\ (j - 1) + 1 = j
      BY <1>1, <1>5, <2>2
    <3>2. rest[j - 1] = IF j - 1 < i THEN list[j - 1] ELSE list[(j - 1) + 1]
      BY <1>7, <3>1
    <3> QED BY <2>2, <3>1, <3>2
  <2> QED BY <2>1, <2>2
<1>10. <<x>> \o rest = MovedToFront(list, i, x)
  BY <1>8, <1>9 DEF MovedToFront, n
<1> QED BY <1>10 DEF rest, left, right, n

-----------------------------------------------------------------------------
(* The theorems.                                                           *)

\* The matrix is a strict total order after any sequence of uses.
THEOREM MatrixStaysOrder == LruSpec => []StrictOrder
<1>1. LruInit => StrictOrder
  BY InitialOrder DEF LruInit, StrictOrder
<1>2. StrictOrder /\ [LruNext]_lru => StrictOrder'
  BY TouchKeepsOrder DEF StrictOrder, LruNext, LruTouch
<1> QED BY <1>1, <1>2, PTL DEF LruSpec

\* The zero-byte search finds the least recently used way of a full set, and the free
\* way of a set with one.
THEOREM VictimStaysOldest == LruSpec => []VictimIsOldest
<1>1. StrictOrder => VictimIsOldest
  <2> SUFFICES ASSUME TotalOrder(lru) PROVE VictimIsOldest
    BY DEF StrictOrder
  <2>1. PICK z \in Ways : lru[z] = {}
    BY OneOldest
  <2>2. lru_victim(lru, Ways) = Order(lru)[W]
    BY <2>1, VictimOfFullSet, OldestIsLast
  <2>3. ASSUME NEW w \in Ways PROVE lru_victim(lru, Ways \ {w}) = w
    <3>1. Ways \ {w} \in SUBSET Ways /\ Ways \ {w} # Ways /\ Ways \ (Ways \ {w}) = {w}
      OBVIOUS
    <3>2. lru_victim(lru, Ways \ {w}) \in Ways \ (Ways \ {w})
      BY <3>1, VictimOfPartialSet
    <3> QED BY <3>1, <3>2
  <2> QED BY <2>2, <2>3 DEF VictimIsOldest
<1> QED BY <1>1, MatrixStaysOrder, PTL

\* The matrix implements true LRU: a touch of the i-th most recently used way moves it to
\* the front of the list, and nothing else changes it.
THEOREM MatrixImplementsList == LruSpec => ImplementsList
<1>1. LruInit => List!Init
  <2> SUFFICES ASSUME LruInit PROVE Order(lru) = [i \in 1 .. W |-> W - i]
    BY DEF List!Init
  <2> DEFINE list == [i \in 1 .. W |-> W - i]
  <2>1. lru = INIT_MAT /\ TotalOrder(lru)
    BY InitialOrder DEF LruInit
  <2>2. list \in [1 .. W -> Ways]
    BY WaysAssumption DEF Ways
  <2>3. ASSUME NEW i \in 1 .. W PROVE RankOf(lru, list[i]) = W - i
    <3>1. list[i] = W - i /\ W - i \in Ways /\ W - i \in Nat
      BY WaysAssumption DEF Ways
    <3>2. lru[W - i] = 0 .. W - i - 1
      BY <2>1, <3>1, WaysAssumption DEF INIT_MAT, Ways
    <3>3. Cardinality(0 .. W - i - 1) = W - i
      BY <3>1, FS_Interval, WaysAssumption
    <3> QED BY <3>1, <3>2, <3>3 DEF RankOf
  <2> HIDE DEF list
  <2>4. Order(lru) = list
    BY <2>1, <2>2, <2>3, OrderUnique
  <2> QED BY <2>4 DEF list
<1>2. StrictOrder /\ [LruNext]_lru => [List!Next]_(Order(lru))
  <2> SUFFICES ASSUME StrictOrder, [LruNext]_lru PROVE [List!Next]_(Order(lru))
    OBVIOUS
  <2>1. CASE UNCHANGED lru
    BY <2>1
  <2>2. ASSUME NEW w \in Ways, LruTouch(w) PROVE List!Next
    <3> DEFINE list == Order(lru)
    <3>1. TotalOrder(lru)
      BY DEF StrictOrder
    <3>2. list \in [1 .. W -> Ways]
      BY <3>1, OrderByRank
    <3>3. PICK i \in 1 .. W : list[i] = w
      BY <2>2, <3>1, OrderByRank
    <3>4. lru' = lru_touch(lru, list[i])
      BY <2>2, <3>3 DEF LruTouch
    <3>5. Order(lru') = MovedToFront(list, i, list[i])
      BY <3>1, <3>4, TouchMovesToFront
    <3>6. <<list[i]>> \o List!RemoveAt(list, i) = MovedToFront(list, i, list[i])
      <4> HIDE DEF list
      <4>1. list \in Seq(Ways) /\ i \in 1 .. Len(list) /\ list[i] \in Ways
        BY <3>2, WaysAssumption
      <4> QED BY <4>1, RemoveToFront DEF List!RemoveAt
    <3>7. List!Touch(i)
      BY <3>5, <3>6 DEF List!Touch
    <3> QED BY <3>7 DEF List!Next
  <2> QED BY <2>1, <2>2 DEF LruNext
<1> QED BY <1>1, <1>2, MatrixStaysOrder, PTL DEF LruSpec, ImplementsList, List!Spec

-----------------------------------------------------------------------------
(* One set.                                                                *)

\* find_way answers with a valid way that has the tag, or with -1 if there is none.
LEMMA FindWay ==
  ASSUME NEW set, SetInv(set), NEW tag
  PROVE  /\ find_way(set, tag) < 0 => Matching(set, tag) = {}
         /\ find_way(set, tag) >= 0 => /\ find_way(set, tag) \in set.valid
                                       /\ set.tags[find_way(set, tag)] = tag
         /\ find_way(set, tag) >= 0 \/ find_way(set, tag) < 0
         /\ find_way(set, tag) \in Int
<1> DEFINE hits == Matching(set, tag)
<1>1. CASE hits = {}
  <2>1. find_way(set, tag) = -1
    BY <1>1 DEF find_way
  <2> QED BY <1>1, <2>1
<1>2. CASE hits # {}
  <2>1. IsFiniteSet(Ways) /\ Ways \in SUBSET Int /\ \A w \in Ways : w >= 0
    BY FS_Interval, WaysAssumption DEF Ways
  <2>2. hits \subseteq set.valid /\ hits \subseteq Ways
    BY DEF SetInv, Matching
  <2>3. hits \in SUBSET Int /\ IsFiniteSet(hits)
    BY <2>1, <2>2, FS_Subset
  <2>4. Min(hits) \in hits
    <3> HIDE DEF hits
    <3> QED BY <1>2, <2>3, Extremes
  <2>5. find_way(set, tag) = Min(hits)
    BY <1>2 DEF find_way
  <2>6. find_way(set, tag) \in hits /\ find_way(set, tag) \in Ways
    BY <2>2, <2>4, <2>5
  <2>7. find_way(set, tag) \in Int /\ find_way(set, tag) >= 0
    BY <2>1, <2>6
  <2> QED BY <2>6, <2>7 DEF Matching
<1> QED BY <1>1, <1>2

\* The victim of a well-formed set is one of its ways.
LEMMA VictimType ==
  ASSUME NEW set, SetInv(set)
  PROVE  Victim(set) \in Ways
BY VictimIsWay DEF SetInv, Victim

\* A set but for the place of its free ways in the order.
Shaped(set) ==
  /\ set \in [tags : [Ways -> Nat], valid : SUBSET Ways, dirty : SUBSET Ways,
              lru : [Ways -> SUBSET Ways]]
  /\ set.dirty \subseteq set.valid
  /\ \A v, w \in set.valid : set.tags[v] = set.tags[w] => v = w
  /\ TotalOrder(set.lru)

\* A use changes nothing but the matrix, and keeps it an order in which the free ways are
\* the oldest.
LEMMA TouchedInv ==
  ASSUME NEW set, Shaped(set), NEW w \in set.valid,
         \A v \in set.valid \ {w} : \A u \in Ways \ set.valid : u \in set.lru[v]
  PROVE  /\ SetInv(Touched(set, w))
         /\ Touched(set, w).tags = set.tags
         /\ Touched(set, w).valid = set.valid
         /\ Touched(set, w).dirty = set.dirty
         /\ Touched(set, w).lru = lru_touch(set.lru, w)
<1> DEFINE m == lru_touch(set.lru, w)
<1>1. w \in Ways
  BY DEF Shaped
<1>2. TotalOrder(m)
  BY <1>1, TouchKeepsOrder DEF Shaped
<1>3. m \in [Ways -> SUBSET Ways]
  BY <1>2 DEF TotalOrder
<1>4. ASSUME NEW v \in set.valid, NEW u \in Ways \ set.valid PROVE u \in m[v]
  <2>1. v \in Ways /\ u \in Ways /\ u # w
    BY <1>4 DEF Shaped
  <2>2. m[v] = (IF v = w THEN Ways ELSE set.lru[v]) \ {w}
    BY <2>1 DEF lru_touch
  <2> QED BY <1>4, <2>1, <2>2
<1> HIDE DEF m
<1>5. Touched(set, w) = [set EXCEPT !.lru = m]
  BY DEF Touched, m, Shaped
<1>6. /\ Touched(set, w).tags = set.tags /\ Touched(set, w).valid = set.valid
      /\ Touched(set, w).dirty = set.dirty /\ Touched(set, w).lru = m
      /\ Touched(set, w) \in [tags : [Ways -> Nat], valid : SUBSET Ways, dirty : SUBSET Ways,
                              lru : [Ways -> SUBSET Ways]]
  BY <1>3, <1>5 DEF Shaped
<1>7. SetInv(Touched(set, w))
  BY <1>2, <1>4, <1>6 DEF SetInv, Shaped
<1> QED BY <1>6, <1>7 DEF m

\* A well-formed set is shaped, and a use keeps it well formed.
LEMMA UseKeeps ==
  ASSUME NEW set, SetInv(set), NEW w \in set.valid
  PROVE  /\ Shaped(set)
         /\ SetInv(Touched(set, w))
         /\ Touched(set, w).tags = set.tags
         /\ Touched(set, w).valid = set.valid
         /\ Touched(set, w).dirty = set.dirty
         /\ Touched(set, w).lru = lru_touch(set.lru, w)
<1>1. /\ Shaped(set)
      /\ \A v \in set.valid \ {w} : \A u \in Ways \ set.valid : u \in set.lru[v]
  BY DEF SetInv, Shaped
<1> QED BY <1>1, TouchedInv

\* A line that is valid may become dirty.
LEMMA DirtiedInv ==
  ASSUME NEW set, SetInv(set), NEW w \in set.valid
  PROVE  SetInv([set EXCEPT !.dirty = @ \cup {w}])
BY DEF SetInv

\* The victim is free, or the set is full.
LEMMA VictimIsFree ==
  ASSUME NEW set, SetInv(set)
  PROVE  /\ Victim(set) \in Ways
         /\ set.valid # Ways => Victim(set) \notin set.valid
         /\ set.valid = Ways => set.lru[Victim(set)] = {}
<1>1. TotalOrder(set.lru) /\ set.valid \in SUBSET Ways
  BY DEF SetInv
<1>2. CASE set.valid # Ways
  BY <1>1, <1>2, VictimOfPartialSet DEF Victim
<1>3. CASE set.valid = Ways
  <2>1. PICK z \in Ways : set.lru[z] = {}
    BY <1>1, OneOldest
  <2>2. Victim(set) = z
    BY <1>1, <1>3, <2>1, VictimOfFullSet DEF Victim
  <2> QED BY <1>3, <2>1, <2>2
<1> QED BY <1>2, <1>3

\* Installing a tag no way has over the victim keeps the set well formed; it changes the
\* one way.
LEMMA InstalledInv ==
  ASSUME NEW set, SetInv(set), NEW w, w = Victim(set), NEW tag \in Nat, NEW dirty \in BOOLEAN,
         Matching(set, tag) = {}
  PROVE  /\ SetInv(Installed(set, w, tag, dirty))
         /\ Installed(set, w, tag, dirty).tags = [set.tags EXCEPT ![w] = tag]
         /\ dirty => Installed(set, w, tag, dirty).dirty = set.dirty \cup {w}
         /\ ~dirty => Installed(set, w, tag, dirty).dirty = set.dirty \ {w}
         /\ Installed(set, w, tag, dirty).valid = set.valid \cup {w}
         /\ Installed(set, w, tag, dirty).lru = lru_touch(set.lru, w)
<1> DEFINE mid == [set EXCEPT !.tags[w] = tag, !.valid = @ \cup {w},
                              !.dirty = IF dirty THEN @ \cup {w} ELSE @ \ {w}]
<1>0. w \in Ways
  BY VictimType
<1>1. /\ mid.tags = [set.tags EXCEPT ![w] = tag] /\ mid.valid = set.valid \cup {w}
      /\ dirty => mid.dirty = set.dirty \cup {w}
      /\ ~dirty => mid.dirty = set.dirty \ {w}
      /\ mid.lru = set.lru
  BY DEF SetInv
<1>2. mid \in [tags : [Ways -> Nat], valid : SUBSET Ways, dirty : SUBSET Ways,
               lru : [Ways -> SUBSET Ways]]
  BY <1>0 DEF SetInv
<1>3. \A v \in set.valid : set.tags[v] # tag
  BY DEF Matching
<1>4. Installed(set, w, tag, dirty) = Touched(mid, w)
  BY DEF Installed
<1> HIDE DEF mid
<1>5. mid.dirty \subseteq mid.valid
  BY <1>1 DEF SetInv
<1>6. ASSUME NEW v \in mid.valid, NEW u \in mid.valid, mid.tags[v] = mid.tags[u]
      PROVE  v = u
  BY <1>0, <1>1, <1>3, <1>6 DEF SetInv
<1>7. Shaped(mid)
  BY <1>1, <1>2, <1>5, <1>6 DEF SetInv, Shaped
<1>8. \A v \in mid.valid \ {w} : \A u \in Ways \ mid.valid : u \in mid.lru[v]
  BY <1>1 DEF SetInv
<1>9. w \in mid.valid
  BY <1>1
<1> QED BY <1>1, <1>4, <1>7, <1>8, <1>9, TouchedInv

-----------------------------------------------------------------------------
(* The lines of a set, in LRU order.                                       *)

LineSet == [block : Nat, dirty : BOOLEAN]

\* The valid ways come first in the order.
LEMMA ValidFirst ==
  ASSUME NEW set, SetInv(set)
  PROVE  /\ Cardinality(set.valid) \in 0 .. W
         /\ Order(set.lru) \in [1 .. W -> Ways]
         /\ \A i \in 1 .. W : Order(set.lru)[i] \in set.valid <=> i <= Cardinality(set.valid)
<1> DEFINE m == set.lru
           valid == set.valid
           k == Cardinality(valid)
<1>1. /\ TotalOrder(m) /\ valid \in SUBSET Ways
      /\ \A v \in valid : \A u \in Ways \ valid : u \in m[v]
  BY DEF SetInv
<1> HIDE DEF m, valid
<1>2. IsFiniteSet(Ways) /\ Cardinality(Ways) = W
  BY FS_Interval, WaysAssumption DEF Ways
<1>3. IsFiniteSet(valid) /\ k \in Nat /\ k <= W
  <2>1. IsFiniteSet(valid) /\ Cardinality(valid) <= Cardinality(Ways)
    BY <1>1, <1>2, FS_Subset
  <2> QED BY <1>2, <2>1, FS_CardinalityType
<1>4. IsFiniteSet(Ways \ valid) /\ Cardinality(Ways \ valid) = W - k
  <2>1. IsFiniteSet(Ways \ valid)
    BY <1>2, FS_Subset
  <2>2. Cardinality(Ways \ valid) = Cardinality(Ways) - Cardinality(Ways \cap valid)
    BY <1>2, FS_Difference
  <2>3. Ways \cap valid = valid
    BY <1>1
  <2> QED BY <1>2, <2>1, <2>2, <2>3
<1>5. ASSUME NEW v \in valid PROVE RankOf(m, v) >= W - k
  <2>1. m[v] \in SUBSET Ways /\ Ways \ valid \subseteq m[v]
    BY <1>1, <1>5 DEF TotalOrder
  <2>2. IsFiniteSet(m[v])
    BY <1>2, <2>1, FS_Subset
  <2>3. Cardinality(Ways \ valid) <= Cardinality(m[v])
    BY <2>1, <2>2, FS_Subset
  <2> QED BY <1>4, <2>3 DEF RankOf
<1>6. ASSUME NEW u \in Ways \ valid PROVE RankOf(m, u) < W - k
  <2>1. m[u] \in SUBSET Ways /\ u \notin m[u]
    BY <1>1, <1>6 DEF TotalOrder
  <2>2. m[u] \cap valid = {}
    BY <1>1, <1>6 DEF TotalOrder
  <2>3. m[u] \subseteq (Ways \ valid) \ {u}
    BY <2>1, <2>2
  <2>4. /\ IsFiniteSet((Ways \ valid) \ {u})
        /\ Cardinality((Ways \ valid) \ {u}) = (W - k) - 1
    BY <1>4, <1>6, FS_RemoveElement
  <2>5. Cardinality(m[u]) <= Cardinality((Ways \ valid) \ {u})
    BY <2>3, <2>4, FS_Subset
  <2>6. Cardinality(m[u]) \in Nat
    BY <2>3, <2>4, FS_Subset, FS_CardinalityType
  <2> QED BY <1>3, <2>4, <2>5, <2>6, WaysAssumption DEF RankOf
<1>7. /\ Order(m) \in [1 .. W -> Ways]
      /\ \A i \in 1 .. W : RankOf(m, Order(m)[i]) = W - i
  BY <1>1, OrderByRank
<1> HIDE DEF k
<1>8. ASSUME NEW i \in 1 .. W PROVE Order(m)[i] \in valid <=> i <= k
  <2>1. Order(m)[i] \in Ways /\ RankOf(m, Order(m)[i]) = W - i
    BY <1>7
  <2>2. CASE Order(m)[i] \in valid
    <3>1. W - i >= W - k
      BY <1>5, <2>1, <2>2
    <3> QED BY <1>3, <2>2, <3>1, WaysAssumption
  <2>3. CASE Order(m)[i] \notin valid
    <3>1. W - i < W - k
      BY <1>6, <2>1, <2>3
    <3> QED BY <1>3, <2>3, <3>1, WaysAssumption
  <2> QED BY <2>2, <2>3
<1>9. k \in 0 .. W
  BY <1>3, WaysAssumption
<1> QED BY <1>7, <1>8, <1>9 DEF m, valid, k

\* Where a way stands in the order.
PlaceOf(set, w) == W - RankOf(set.lru, w)

\* Every way stands at its place, the valid ones among the first.
LEMMA PlaceIs ==
  ASSUME NEW set, SetInv(set), NEW w \in Ways
  PROVE  /\ PlaceOf(set, w) \in 1 .. W /\ Order(set.lru)[PlaceOf(set, w)] = w
         /\ w \in set.valid <=> PlaceOf(set, w) <= Cardinality(set.valid)
         /\ \A i \in 1 .. W : Order(set.lru)[i] = w => i = PlaceOf(set, w)
<1>1. TotalOrder(set.lru)
  BY DEF SetInv
<1>2. /\ PlaceOf(set, w) \in 1 .. W /\ Order(set.lru)[PlaceOf(set, w)] = w
  BY <1>1, OrderByRank DEF PlaceOf
<1>3. \A i \in 1 .. W : Order(set.lru)[i] = w => i = PlaceOf(set, w)
  <2>1. \A i \in 1 .. W : RankOf(set.lru, Order(set.lru)[i]) = W - i
    BY <1>1, OrderByRank
  <2> SUFFICES ASSUME NEW i \in 1 .. W, Order(set.lru)[i] = w PROVE i = PlaceOf(set, w)
    OBVIOUS
  <2>2. RankOf(set.lru, w) = W - i
    BY <2>1
  <2> QED BY <2>2, WaysAssumption DEF PlaceOf
<1>4. w \in set.valid <=> PlaceOf(set, w) <= Cardinality(set.valid)
  BY <1>2, ValidFirst
<1> QED BY <1>2, <1>3, <1>4

\* Two tags of one set are the same block if they are the same tag.
LEMMA SameBlock ==
  ASSUME NEW n \in Nat \ {0}, NEW s \in 0 .. n - 1, NEW t \in Nat, NEW u \in Nat
  PROVE  /\ t * n + s \in Nat
         /\ t * n + s = u * n + s <=> t = u
<1>1. t * n \in Nat /\ u * n \in Nat
  OBVIOUS
<1>2. t < u => t * n < u * n
  <2> SUFFICES ASSUME t < u PROVE t * n < u * n
    OBVIOUS
  <2>1. PICK d \in Nat : u = t + 1 + d
    <3>1. u - t - 1 \in Nat /\ u = t + 1 + (u - t - 1)
      OBVIOUS
    <3> QED BY <3>1
  <2>2. u * n = t * n + n + d * n /\ d * n \in Nat
    BY <2>1
  <2> QED BY <1>1, <2>2
<1>3. u < t => u * n < t * n
  <2> SUFFICES ASSUME u < t PROVE u * n < t * n
    OBVIOUS
  <2>1. PICK d \in Nat : t = u + 1 + d
    <3>1. t - u - 1 \in Nat /\ t = u + 1 + (t - u - 1)
      OBVIOUS
    <3> QED BY <3>1
  <2>2. t * n = u * n + n + d * n /\ d * n \in Nat
    BY <2>1
  <2> QED BY <1>1, <2>2
<1> QED BY <1>1, <1>2, <1>3

\* The list of the lines of a set.
LEMMA LinesAre ==
  ASSUME NEW n \in Nat \ {0}, NEW s \in 0 .. n - 1, NEW set, SetInv(set)
  PROVE  /\ LinesOf(set, s, n) \in Seq(LineSet)
         /\ Len(LinesOf(set, s, n)) = Cardinality(set.valid)
         /\ DOMAIN LinesOf(set, s, n) = 1 .. Cardinality(set.valid)
         /\ \A i \in 1 .. Cardinality(set.valid) :
              /\ LinesOf(set, s, n)[i] = LineOf(set, Order(set.lru)[i], s, n)
              /\ LinesOf(set, s, n)[i].block = set.tags[Order(set.lru)[i]] * n + s
              /\ LinesOf(set, s, n)[i].dirty = (Order(set.lru)[i] \in set.dirty)
<1> DEFINE k == Cardinality(set.valid)
           list == Order(set.lru)
<1>1. k \in 0 .. W /\ list \in [1 .. W -> Ways]
  BY ValidFirst
<1>2. set.tags \in [Ways -> Nat]
  BY DEF SetInv
<1>3. LinesOf(set, s, n) = [i \in 1 .. k |-> LineOf(set, list[i], s, n)]
  BY DEF LinesOf
<1> HIDE DEF k, list
<1>4. ASSUME NEW i \in 1 .. k
      PROVE  /\ LineOf(set, list[i], s, n) \in LineSet
             /\ LineOf(set, list[i], s, n).block = set.tags[list[i]] * n + s
             /\ LineOf(set, list[i], s, n).dirty = (list[i] \in set.dirty)
  <2>1. list[i] \in Ways
    BY <1>1, WaysAssumption
  <2>2. set.tags[list[i]] * n + s \in Nat
    BY <1>2, <2>1, SameBlock
  <2> QED BY <2>2 DEF LineOf, BlockOf, LineSet
<1>5. [i \in 1 .. k |-> LineOf(set, list[i], s, n)] \in Seq(LineSet)
  BY <1>1, <1>4
<1>6. Len([i \in 1 .. k |-> LineOf(set, list[i], s, n)]) = k
  BY <1>1
<1> QED BY <1>3, <1>4, <1>5, <1>6 DEF k, list

\* A block of the set is in its list if a valid way has its tag, at the way's place and
\* nowhere else.
LEMMA HoldsIs ==
  ASSUME NEW n \in Nat \ {0}, NEW s \in 0 .. n - 1, NEW set, SetInv(set), NEW t \in Nat,
         NEW b, b = t * n + s
  PROVE  /\ Reference!Holds(LinesOf(set, s, n), b) <=> Matching(set, t) # {}
         /\ \A w \in Matching(set, t) : \A i \in 1 .. Cardinality(set.valid) :
              LinesOf(set, s, n)[i].block = b <=> i = PlaceOf(set, w)
<1> DEFINE k == Cardinality(set.valid)
           list == Order(set.lru)
           lines == LinesOf(set, s, n)
<1>1. /\ k \in 0 .. W /\ list \in [1 .. W -> Ways]
      /\ \A i \in 1 .. W : list[i] \in set.valid <=> i <= k
  BY ValidFirst
<1>2. /\ DOMAIN lines = 1 .. k
      /\ \A i \in 1 .. k : lines[i].block = set.tags[list[i]] * n + s
  BY LinesAre
<1>3. \A w \in Ways : /\ PlaceOf(set, w) \in 1 .. W /\ list[PlaceOf(set, w)] = w
                      /\ w \in set.valid <=> PlaceOf(set, w) <= k
                      /\ \A i \in 1 .. W : list[i] = w => i = PlaceOf(set, w)
  BY PlaceIs
<1> HIDE DEF k, list, lines
<1>4. set.tags \in [Ways -> Nat] /\ set.valid \in SUBSET Ways
  BY DEF SetInv
<1>5. ASSUME NEW i \in 1 .. k
      PROVE  lines[i].block = b <=> set.tags[list[i]] = t
  <2>1. list[i] \in Ways
    BY <1>1, WaysAssumption
  <2>2. set.tags[list[i]] \in Nat
    BY <1>4, <2>1
  <2>a. \A u, v \in Nat : u * n + s = v * n + s <=> u = v
    BY SameBlock
  <2>3. set.tags[list[i]] * n + s = t * n + s <=> set.tags[list[i]] = t
    BY <2>2, <2>a, Zenon
  <2> QED BY <1>2, <2>3
<1>6. ASSUME NEW i \in 1 .. k, lines[i].block = b
      PROVE  list[i] \in Matching(set, t)
  BY <1>1, <1>5, <1>6, WaysAssumption DEF Matching
<1>7. ASSUME NEW w \in Matching(set, t)
      PROVE  /\ PlaceOf(set, w) \in 1 .. k
             /\ \A i \in 1 .. k : lines[i].block = b <=> i = PlaceOf(set, w)
  <2>1. w \in set.valid /\ w \in Ways /\ set.tags[w] = t
    BY <1>4, <1>7 DEF Matching
  <2>2. PlaceOf(set, w) \in 1 .. k
    BY <1>1, <1>3, <2>1, WaysAssumption
  <2>3. ASSUME NEW i \in 1 .. k PROVE lines[i].block = b <=> i = PlaceOf(set, w)
    <3>1. CASE i = PlaceOf(set, w)
      BY <1>3, <1>5, <2>1, <3>1
    <3>2. CASE i # PlaceOf(set, w)
      <4>1. list[i] # w /\ i \in 1 .. W
        BY <1>1, <1>3, <2>1, <3>2, WaysAssumption
      <4>2. list[i] \in Matching(set, t) => list[i] = w
        BY <2>1 DEF Matching, SetInv
      <4> QED BY <1>6, <3>2, <4>1, <4>2
    <3> QED BY <3>1, <3>2
  <2> QED BY <2>2, <2>3
<1>8. Reference!Holds(lines, b) <=> \E i \in 1 .. k : lines[i].block = b
  BY <1>2 DEF Reference!Holds
<1> QED BY <1>6, <1>7, <1>8 DEF k, lines

\* b is the block of tag t in set s.
IsBlock(b, t, n, s) == b = t * n + s

\* HoldsIs for a block that is given by its tag.
LEMMA HoldsBlock ==
  ASSUME NEW n \in Nat \ {0}, NEW s \in 0 .. n - 1, NEW set, SetInv(set), NEW t \in Nat,
         NEW b, IsBlock(b, t, n, s)
  PROVE  Reference!Holds(LinesOf(set, s, n), b) <=> Matching(set, t) # {}
<1>1. b = t * n + s
  BY DEF IsBlock
<1> QED BY <1>1, HoldsIs

\* A way of a set that moves to the front of the order moves its line to the front of the
\* list, if the other ways keep theirs.
LEMMA MovedLines ==
  ASSUME NEW n \in Nat \ {0}, NEW s \in 0 .. n - 1, NEW set, SetInv(set), NEW w \in set.valid,
         NEW next, next.lru = lru_touch(set.lru, w), next.valid = set.valid,
         \A v \in Ways \ {w} : LineOf(next, v, s, n) = LineOf(set, v, s, n)
  PROVE  LinesOf(next, s, n)
         = MovedToFront(LinesOf(set, s, n), PlaceOf(set, w), LineOf(next, w, s, n))
<1> DEFINE k == Cardinality(set.valid)
           list == Order(set.lru)
           lines == LinesOf(set, s, n)
           p == PlaceOf(set, w)
           new == LineOf(next, w, s, n)
<1>0. w \in Ways
  BY DEF SetInv
<1>1. k \in 0 .. W /\ list \in [1 .. W -> Ways]
  BY ValidFirst
<1>2. /\ lines \in Seq(LineSet) /\ Len(lines) = k
      /\ \A i \in 1 .. k : lines[i] = LineOf(set, list[i], s, n)
  BY LinesAre
<1>3. /\ p \in 1 .. W /\ list[p] = w /\ p <= k
      /\ \A i \in 1 .. W : list[i] = w => i = p
  BY <1>0, PlaceIs
<1>4. Order(next.lru) = MovedToFront(list, p, w)
  <2>1. TotalOrder(set.lru)
    BY DEF SetInv
  <2> QED BY <1>3, <2>1, TouchMovesToFront
<1>5. LinesOf(next, s, n) = [j \in 1 .. k |-> LineOf(next, Order(next.lru)[j], s, n)]
  BY DEF LinesOf
<1> HIDE DEF k, list, lines, p, new
<1>6. ASSUME NEW j \in 1 .. k
      PROVE  LineOf(next, Order(next.lru)[j], s, n) =
               IF j = 1 THEN new ELSE IF j <= p THEN lines[j - 1] ELSE lines[j]
  <2>1. j \in 1 .. W /\ Len(list) = W
    BY <1>1, WaysAssumption
  <2>2. Order(next.lru)[j] = IF j = 1 THEN w ELSE IF j <= p THEN list[j - 1] ELSE list[j]
    BY <1>4, <2>1 DEF MovedToFront
  <2>3. CASE j = 1
    BY <2>2, <2>3 DEF new
  <2>4. CASE j # 1 /\ j <= p
    <3>1. j - 1 \in 1 .. k /\ j - 1 \in 1 .. W /\ j - 1 # p
      BY <1>1, <1>3, <2>1, <2>4, WaysAssumption
    <3>2. list[j - 1] \in Ways \ {w}
      BY <1>1, <1>3, <3>1
    <3> QED BY <1>2, <2>2, <2>4, <3>1, <3>2
  <2>5. CASE j # 1 /\ j > p
    <3>1. j # p
      BY <1>3, <2>5
    <3>2. list[j] \in Ways \ {w}
      BY <1>1, <1>3, <2>1, <3>1
    <3>3. Order(next.lru)[j] = list[j] /\ ~(j <= p)
      BY <1>3, <2>2, <2>5
    <3> QED BY <1>2, <2>5, <3>2, <3>3
  <2> QED BY <1>3, <2>1, <2>3, <2>4, <2>5
<1>7. LinesOf(next, s, n) = MovedToFront(lines, p, new)
  BY <1>2, <1>5, <1>6 DEF MovedToFront
<1> QED BY <1>7 DEF lines, p, new

\* The list of a set whose block is used.
LEMMA UsedLines ==
  ASSUME NEW n \in Nat \ {0}, NEW s \in 0 .. n - 1, NEW set, SetInv(set), NEW t \in Nat,
         NEW b, IsBlock(b, t, n, s),
         NEW w \in Matching(set, t), NEW wr \in BOOLEAN, NEW next,
         next.tags = set.tags, next.valid = set.valid, next.lru = lru_touch(set.lru, w),
         wr => next.dirty = set.dirty \cup {w}, ~wr => next.dirty = set.dirty
  PROVE  LinesOf(next, s, n) = Reference!Used(LinesOf(set, s, n), b, wr)
<1> USE DEF IsBlock
<1> DEFINE k == Cardinality(set.valid)
           lines == LinesOf(set, s, n)
           p == PlaceOf(set, w)
           new == LineOf(next, w, s, n)
<1>1. w \in set.valid /\ w \in Ways /\ set.tags[w] = t
  BY DEF Matching, SetInv
<1>2. /\ k \in 0 .. W /\ p \in 1 .. W /\ p <= k /\ Order(set.lru)[p] = w
  BY <1>1, PlaceIs, ValidFirst
<1>3. /\ lines \in Seq(LineSet) /\ Len(lines) = k /\ DOMAIN lines = 1 .. k
      /\ \A i \in 1 .. k : lines[i].dirty = (Order(set.lru)[i] \in set.dirty)
  BY LinesAre
<1>4. p \in DOMAIN lines /\ \A i \in DOMAIN lines : lines[i].block = b <=> i = p
  <2>1. \A v \in Matching(set, t) : \A i \in 1 .. k : lines[i].block = b <=> i = PlaceOf(set, v)
    BY HoldsIs
  <2>2. \A i \in 1 .. k : lines[i].block = b <=> i = p
    BY <2>1
  <2> QED BY <1>2, <1>3, <2>2
<1>5. new = Reference!Line(b, wr \/ w \in set.dirty)
  <2>1. w \in next.dirty <=> wr \/ w \in set.dirty
    OBVIOUS
  <2> QED BY <1>1, <2>1 DEF LineOf, BlockOf, Reference!Line
<1>6. \A v \in Ways \ {w} : LineOf(next, v, s, n) = LineOf(set, v, s, n)
  <2>1. \A v \in Ways \ {w} : v \in next.dirty <=> v \in set.dirty
    OBVIOUS
  <2> QED BY <2>1 DEF LineOf, BlockOf
<1>7. LinesOf(next, s, n) = MovedToFront(lines, p, new)
  BY <1>1, <1>6, MovedLines
<1>8. new \in LineSet
  <2>1. b \in Nat
    BY SameBlock
  <2> QED BY <1>5, <2>1 DEF LineSet, Reference!Line
<1> HIDE DEF k, lines, p, new
<1>9. (CHOOSE i \in DOMAIN lines : lines[i].block = b) = p
  BY <1>4
<1>10. lines[p].dirty = (w \in set.dirty)
  BY <1>2, <1>3
<1>11. Reference!Used(lines, b, wr)
         = <<Reference!Line(b, wr \/ lines[p].dirty)>> \o Reference!RemoveAt(lines, p)
  BY <1>9 DEF Reference!Used
<1>12. <<new>> \o Reference!RemoveAt(lines, p) = MovedToFront(lines, p, new)
  <2>1. p \in 1 .. Len(lines)
    BY <1>3, <1>4
  <2>2. <<new>> \o (SubSeq(lines, 1, p - 1) \o SubSeq(lines, p + 1, Len(lines)))
        = MovedToFront(lines, p, new)
    BY <1>3, <1>8, <2>1, RemoveToFront
  <2> QED BY <2>2 DEF Reference!RemoveAt
<1>13. LinesOf(next, s, n) = Reference!Used(lines, b, wr)
  BY <1>5, <1>7, <1>10, <1>11, <1>12
<1> QED BY <1>13 DEF lines

\* The list of a set in which a line becomes dirty where it is.
LEMMA DirtiedLines ==
  ASSUME NEW n \in Nat \ {0}, NEW s \in 0 .. n - 1, NEW set, SetInv(set), NEW t \in Nat,
         NEW b, IsBlock(b, t, n, s),
         NEW w \in Matching(set, t), NEW next,
         next.tags = set.tags, next.valid = set.valid, next.lru = set.lru,
         next.dirty = set.dirty \cup {w}
  PROVE  LinesOf(next, s, n) = Reference!MadeDirty(LinesOf(set, s, n), b)
<1> USE DEF IsBlock
<1> DEFINE k == Cardinality(set.valid)
           list == Order(set.lru)
           lines == LinesOf(set, s, n)
           p == PlaceOf(set, w)
<1>1. w \in set.valid /\ w \in Ways /\ set.tags[w] = t
  BY DEF Matching, SetInv
<1>2. /\ k \in 0 .. W /\ p \in 1 .. W /\ p <= k /\ list[p] = w
      /\ \A i \in 1 .. W : list[i] = w => i = p
  BY <1>1, PlaceIs, ValidFirst
<1>3. /\ DOMAIN lines = 1 .. k
      /\ \A i \in 1 .. k : /\ lines[i].block = set.tags[list[i]] * n + s
                           /\ lines[i].dirty = (list[i] \in set.dirty)
  BY LinesAre
<1>4. \A i \in 1 .. k : lines[i].block = b <=> i = p
  <2>1. \A v \in Matching(set, t) : \A i \in 1 .. k : lines[i].block = b <=> i = PlaceOf(set, v)
    BY HoldsIs
  <2> QED BY <2>1
<1>5. LinesOf(next, s, n) = [i \in 1 .. k |-> LineOf(next, list[i], s, n)]
  BY DEF LinesOf
<1> HIDE DEF k, list, lines, p
<1>6. ASSUME NEW i \in 1 .. k
      PROVE  LineOf(next, list[i], s, n)
             = Reference!Line(lines[i].block, lines[i].dirty \/ lines[i].block = b)
  <2>1. i \in 1 .. W
    BY <1>2, WaysAssumption
  <2>2. list[i] \in next.dirty <=> lines[i].dirty \/ lines[i].block = b
    BY <1>2, <1>3, <1>4, <2>1
  <2>3. (list[i] \in next.dirty) = (lines[i].dirty \/ lines[i].block = b)
    <3>1. (lines[i].dirty \/ lines[i].block = b) \in BOOLEAN
      OBVIOUS
    <3> QED BY <2>2, <3>1
  <2>4. lines[i].block = next.tags[list[i]] * n + s
    BY <1>3
  <2> QED BY <2>3, <2>4 DEF LineOf, BlockOf, Reference!Line
<1>7. LinesOf(next, s, n) = Reference!MadeDirty(lines, b)
  <2>1. Reference!MadeDirty(lines, b)
        = [i \in 1 .. k |-> Reference!Line(lines[i].block, lines[i].dirty \/ lines[i].block = b)]
    BY <1>3 DEF Reference!MadeDirty
  <2> QED BY <1>5, <1>6, <2>1
<1> QED BY <1>7 DEF lines

\* A line in front of the first m lines of a list.
Pushed(lines, x, m) == [j \in 1 .. m + 1 |-> IF j = 1 THEN x ELSE lines[j - 1]]

\* What Filled makes of a list: the last line leaves only a full set.
LEMMA FilledIs ==
  ASSUME NEW lines \in Seq(LineSet), Len(lines) <= W, NEW x \in LineSet
  PROVE  /\ Len(lines) < W => Reference!Filled(lines, x) = Pushed(lines, x, Len(lines))
         /\ Len(lines) = W => Reference!Filled(lines, x) = Pushed(lines, x, W - 1)
<1>1. Len(lines) \in Nat /\ W \in Nat /\ W >= 1
  BY WaysAssumption
<1>2. CASE Len(lines) < W
  <2>1. Reference!Filled(lines, x) = <<x>> \o lines
    BY <1>2 DEF Reference!Filled
  <2>2. <<x>> \o lines = Pushed(lines, x, Len(lines))
    BY InFront DEF Pushed
  <2> QED BY <1>1, <1>2, <2>1, <2>2
<1>3. CASE Len(lines) = W
  <2> DEFINE front == SubSeq(lines, 1, W - 1)
  <2>1. front \in Seq(LineSet) /\ Len(front) = W - 1 /\ \A j \in 1 .. W - 1 : front[j] = lines[j]
    BY <1>1, <1>3, SubSeqProperties
  <2>2. Reference!Filled(lines, x) = <<x>> \o front
    BY <1>1, <1>3 DEF Reference!Filled, Reference!Front
  <2> HIDE DEF front
  <2>3. <<x>> \o front = [j \in 1 .. (W - 1) + 1 |-> IF j = 1 THEN x ELSE front[j - 1]]
    BY <2>1, InFront
  <2>4. ASSUME NEW j \in 1 .. (W - 1) + 1
        PROVE  (IF j = 1 THEN x ELSE front[j - 1]) = IF j = 1 THEN x ELSE lines[j - 1]
    <3>1. CASE j = 1
      BY <3>1
    <3>2. CASE j # 1
      <4>1. j - 1 \in 1 .. W - 1
        BY <1>1, <3>2
      <4> QED BY <2>1, <3>2, <4>1
    <3> QED BY <3>1, <3>2
  <2>5. <<x>> \o front = Pushed(lines, x, W - 1)
    BY <2>3, <2>4 DEF Pushed
  <2> QED BY <1>1, <1>3, <2>2, <2>5
<1> QED BY <1>1, <1>2, <1>3

\* A set is full when its list has W lines.
LEMMA FullWhen ==
  ASSUME NEW set, SetInv(set)
  PROVE  /\ set.valid = Ways <=> Cardinality(set.valid) = W
         /\ set.valid # Ways => Cardinality(set.valid) < W
<1>1. IsFiniteSet(Ways) /\ Cardinality(Ways) = W
  BY FS_Interval, WaysAssumption DEF Ways
<1>2. set.valid \in SUBSET Ways
  BY DEF SetInv
<1>3. Cardinality(set.valid) \in 0 .. W
  BY ValidFirst
<1>4. Cardinality(set.valid) = W => set.valid = Ways
  <2> SUFFICES ASSUME Cardinality(set.valid) = W PROVE set.valid = Ways
    OBVIOUS
  <2>1. set.valid = Ways \/ Cardinality(set.valid) # Cardinality(Ways)
    BY <1>1, <1>2, FS_Subset
  <2> QED BY <1>1, <2>1
<1> QED BY <1>1, <1>3, <1>4, WaysAssumption

ListsTheLines(lines, set, s, n) ==
  /\ lines \in Seq(LineSet) /\ Len(lines) = Cardinality(set.valid)
  /\ \A i \in 1 .. Cardinality(set.valid) : lines[i] = LineOf(set, Order(set.lru)[i], s, n)

\* LinesAre in one word.
LEMMA LinesListed ==
  ASSUME NEW n \in Nat \ {0}, NEW s \in 0 .. n - 1, NEW set, SetInv(set)
  PROVE  ListsTheLines(LinesOf(set, s, n), set, s, n)
BY LinesAre DEF ListsTheLines

\* The list of a set in which a line was installed over the victim.
LEMMA InstalledLines ==
  ASSUME NEW n \in Nat \ {0}, NEW s \in 0 .. n - 1, NEW set, SetInv(set), NEW t \in Nat,
         NEW b, IsBlock(b, t, n, s), NEW w, w = Victim(set), NEW dirty \in BOOLEAN, NEW next,
         next.tags = [set.tags EXCEPT ![w] = t], next.valid = set.valid \cup {w},
         next.lru = lru_touch(set.lru, w),
         dirty => next.dirty = set.dirty \cup {w}, ~dirty => next.dirty = set.dirty \ {w}
  PROVE  LinesOf(next, s, n) = Reference!Filled(LinesOf(set, s, n), Reference!Line(b, dirty))
<1> USE DEF IsBlock
<1> DEFINE k == Cardinality(set.valid)
           list == Order(set.lru)
           lines == LinesOf(set, s, n)
           p == PlaceOf(set, w)
           new == LineOf(next, w, s, n)
           m == IF k < W THEN k ELSE W - 1
<1>1. /\ w \in Ways /\ (set.valid # Ways => w \notin set.valid)
      /\ (set.valid = Ways => set.lru[w] = {})
  BY VictimIsFree
<1>2. k \in 0 .. W /\ list \in [1 .. W -> Ways] /\ (set.valid = Ways <=> k = W)
  BY ValidFirst, FullWhen
<1>3. /\ p \in 1 .. W /\ list[p] = w /\ (w \in set.valid <=> p <= k)
      /\ \A i \in 1 .. W : list[i] = w => i = p
  BY <1>1, PlaceIs
<1>4. /\ lines \in Seq(LineSet) /\ Len(lines) = k
      /\ \A i \in 1 .. k : lines[i] = LineOf(set, list[i], s, n)
  <2>1. ListsTheLines(LinesOf(set, s, n), set, s, n)
    BY LinesListed
  <2> QED BY <2>1 DEF ListsTheLines
<1>5. TotalOrder(set.lru) /\ set.tags \in [Ways -> Nat] /\ set.valid \in SUBSET Ways
  BY DEF SetInv
<1>6. Order(next.lru) = MovedToFront(list, p, w)
  BY <1>3, <1>5, TouchMovesToFront
<1>7. LinesOf(next, s, n)
        = [j \in 1 .. Cardinality(next.valid) |-> LineOf(next, Order(next.lru)[j], s, n)]
  BY DEF LinesOf
<1>8. p > m /\ m \in Nat /\ m < W /\ m <= k /\ Cardinality(next.valid) = m + 1
  <2>1. CASE set.valid # Ways
    <3>1. k < W /\ p > k
      BY <1>1, <1>2, <1>3, <2>1, WaysAssumption
    <3>2. IsFiniteSet(set.valid)
      <4>1. IsFiniteSet(Ways)
        BY FS_Interval, WaysAssumption DEF Ways
      <4> QED BY <1>5, <4>1, FS_Subset
    <3>3. Cardinality(set.valid \cup {w}) = k + 1
      BY <1>1, <2>1, <3>2, FS_AddElement
    <3> QED BY <1>2, <3>1, <3>3
  <2>2. CASE set.valid = Ways
    <3>1. k = W /\ next.valid = set.valid
      BY <1>1, <1>2, <2>2
    <3>2. RankOf(set.lru, w) = 0
      BY <1>1, <2>2, FS_EmptySet DEF RankOf
    <3>3. p = W
      BY <3>2, WaysAssumption DEF PlaceOf
    <3>4. Cardinality(next.valid) = W
      BY <3>1
    <3> HIDE DEF k, p
    <3>5. m = W - 1
      BY <3>1, WaysAssumption
    <3> HIDE DEF m
    <3> QED BY <3>1, <3>3, <3>4, <3>5, WaysAssumption
  <2> QED BY <2>1, <2>2
<1>9. new = Reference!Line(b, dirty)
  <2>1. next.tags[w] = t /\ (w \in next.dirty <=> dirty)
    BY <1>1, <1>5
  <2>2. (w \in next.dirty) = dirty
    BY <2>1
  <2> QED BY <2>1, <2>2 DEF LineOf, BlockOf, Reference!Line
<1>10. \A v \in Ways \ {w} : LineOf(next, v, s, n) = LineOf(set, v, s, n)
  <2>1. \A v \in Ways \ {w} : next.tags[v] = set.tags[v] /\ (v \in next.dirty <=> v \in set.dirty)
    BY <1>1, <1>5
  <2> QED BY <2>1 DEF LineOf, BlockOf
<1>11. new \in LineSet
  <2>1. b \in Nat
    BY SameBlock
  <2> QED BY <1>9, <2>1 DEF LineSet, Reference!Line
<1> HIDE DEF k, list, lines, p, new, m
<1>12. ASSUME NEW j \in 1 .. m + 1
       PROVE  LineOf(next, Order(next.lru)[j], s, n) = IF j = 1 THEN new ELSE lines[j - 1]
  <2>1. j \in 1 .. W /\ Len(list) = W /\ j <= p
    BY <1>2, <1>3, <1>8, WaysAssumption
  <2>2. Order(next.lru)[j] = IF j = 1 THEN w ELSE IF j <= p THEN list[j - 1] ELSE list[j]
    BY <1>6, <2>1 DEF MovedToFront
  <2>3. CASE j = 1
    BY <2>2, <2>3 DEF new
  <2>4. CASE j # 1
    <3>1. j - 1 \in 1 .. k /\ j - 1 \in 1 .. W /\ j - 1 # p
      BY <1>2, <1>3, <1>8, <2>1, <2>4, WaysAssumption
    <3>2. list[j - 1] \in Ways \ {w}
      BY <1>2, <1>3, <3>1
    <3>3. Order(next.lru)[j] = list[j - 1]
      BY <2>1, <2>2, <2>4
    <3> QED BY <1>4, <1>10, <2>4, <3>1, <3>2, <3>3
  <2> QED BY <2>3, <2>4
<1>13. LinesOf(next, s, n) = Pushed(lines, new, m)
  BY <1>7, <1>8, <1>12 DEF Pushed
<1>14. Reference!Filled(lines, new) = Pushed(lines, new, m)
  <2>1. Len(lines) <= W
    BY <1>2, <1>4, WaysAssumption
  <2>2. CASE k < W
    <3>1. m = k
      BY <2>2 DEF m
    <3> QED BY <1>4, <1>11, <2>1, <2>2, <3>1, FilledIs
  <2>3. CASE k = W
    <3>1. m = W - 1
      BY <2>3, WaysAssumption DEF m
    <3> QED BY <1>4, <1>11, <2>1, <2>3, <3>1, FilledIs
  <2> QED BY <1>2, <2>2, <2>3, WaysAssumption
<1> QED BY <1>9, <1>13, <1>14 DEF lines

\* The dirty lines that a new line drives out of the list: the victim's, if it is dirty.
LEMMA DirtyVictimLines ==
  ASSUME NEW n \in Nat \ {0}, NEW s \in 0 .. n - 1, NEW set, SetInv(set)
  PROVE  /\ DirtyVictim(set) => Reference!DirtyVictims(LinesOf(set, s, n))
                                = {Reference!Line(BlockOf(set, Victim(set), s, n), TRUE)}
         /\ ~DirtyVictim(set) => Reference!DirtyVictims(LinesOf(set, s, n)) = {}
<1> DEFINE k == Cardinality(set.valid)
           list == Order(set.lru)
           lines == LinesOf(set, s, n)
           v == Victim(set)
<1>1. /\ v \in Ways /\ (set.valid # Ways => v \notin set.valid)
      /\ (set.valid = Ways => set.lru[v] = {})
  BY VictimIsFree
<1>2. k \in 0 .. W /\ (set.valid # Ways => k < W) /\ (set.valid = Ways => k = W) /\ W >= 1
  BY ValidFirst, FullWhen, WaysAssumption
<1>3. Len(lines) = k /\ \A i \in 1 .. k : lines[i] = LineOf(set, list[i], s, n)
  BY LinesAre
<1>4. DirtyVictim(set) <=> v \in set.valid /\ v \in set.dirty
  BY DEF DirtyVictim
<1>5. TotalOrder(set.lru)
  BY DEF SetInv
<1> HIDE DEF k, lines
<1>6. CASE set.valid # Ways
  <2>1. Len(lines) < W
    BY <1>2, <1>3, <1>6
  <2>2. Reference!DirtyVictims(lines) = {}
    BY <2>1 DEF Reference!DirtyVictims, Reference!Victims
  <2> QED BY <1>1, <1>4, <1>6, <2>2 DEF lines
<1>7. CASE set.valid = Ways
  <2>1. list[W] = v
    BY <1>1, <1>5, <1>7, OldestIsLast
  <2>2. Len(lines) = W /\ lines[W] = LineOf(set, v, s, n)
    BY <1>2, <1>3, <1>7, <2>1
  <2>3. Reference!Victims(lines) = {LineOf(set, v, s, n)}
    BY <2>2 DEF Reference!Victims, Reference!Last
  <2>4. LineOf(set, v, s, n).dirty <=> v \in set.dirty
    BY DEF LineOf
  <2>5. v \in set.dirty => LineOf(set, v, s, n) = Reference!Line(BlockOf(set, v, s, n), TRUE)
    <3> SUFFICES ASSUME v \in set.dirty
                 PROVE  LineOf(set, v, s, n) = Reference!Line(BlockOf(set, v, s, n), TRUE)
      OBVIOUS
    <3>1. (v \in set.dirty) = TRUE
      OBVIOUS
    <3> QED BY <3>1 DEF LineOf, Reference!Line
  <2>6. v \in set.valid
    BY <1>1, <1>7
  <2>7. CASE v \in set.dirty
    <3>1. Reference!DirtyVictims(lines) = {LineOf(set, v, s, n)}
      BY <2>3, <2>4, <2>7 DEF Reference!DirtyVictims
    <3> QED BY <1>4, <2>5, <2>6, <2>7, <3>1 DEF lines
  <2>8. CASE v \notin set.dirty
    <3>1. Reference!DirtyVictims(lines) = {}
      BY <2>3, <2>4, <2>8 DEF Reference!DirtyVictims
    <3> QED BY <1>4, <2>8, <3>1 DEF lines
  <2> QED BY <2>7, <2>8
<1> QED BY <1>6, <1>7

-----------------------------------------------------------------------------
(* One level.                                                              *)

\* The dirty blocks of a level.
DirtyOf(level, n) == BlocksIn(level, n, "dirty")

\* A block is dirty in a level if a dirty way of one of its sets holds it.
LEMMA DirtyOfIs ==
  ASSUME NEW n \in Nat \ {0}, NEW level, LevelInv(level, n), NEW x
  PROVE  x \in DirtyOf(level, n) <=>
           \E s \in 0 .. n - 1 : \E w \in level[s].dirty : x = level[s].tags[w] * n + s
BY DEF DirtyOf, BlocksIn, BlockOf, LevelInv

\* Where a dirty block is.
LEMMA DirtyPlace ==
  ASSUME NEW n \in Nat \ {0}, NEW level, LevelInv(level, n), NEW b \in DirtyOf(level, n)
  PROVE  \E s \in 0 .. n - 1 : \E w \in level[s].dirty : b = level[s].tags[w] * n + s
BY DirtyOfIs

\* A set that keeps its tags and loses no dirty bit drops no dirty block.
LEMMA KeepsDirty ==
  ASSUME NEW n \in Nat \ {0}, NEW level, LevelInv(level, n), NEW s \in 0 .. n - 1,
         NEW x, SetInv(x), x.tags = level[s].tags, level[s].dirty \subseteq x.dirty,
         NEW next, next = [level EXCEPT ![s] = x]
  PROVE  LevelInv(next, n) /\ DirtyOf(level, n) \subseteq DirtyOf(next, n)
<1>1. /\ LevelInv(next, n) /\ next[s] = x
      /\ \A r \in 0 .. n - 1 : r # s => next[r] = level[r]
  BY DEF LevelInv
<1>2. SUFFICES ASSUME NEW b \in DirtyOf(level, n) PROVE b \in DirtyOf(next, n)
  BY <1>1
<1>3. PICK r \in 0 .. n - 1 : \E w \in level[r].dirty : b = level[r].tags[w] * n + r
  BY DirtyOfIs
<1>4. \E w \in next[r].dirty : b = next[r].tags[w] * n + r
  BY <1>1, <1>3
<1> QED BY <1>1, <1>4, DirtyOfIs

\* Going from one state of a level to another drops at most as many dirty blocks as lines
\* were written back to memory.
Drops(before, after, n, writebacks) ==
  \E lost : /\ IsFiniteSet(lost) /\ Cardinality(lost) <= writebacks
            /\ DirtyOf(before, n) \ DirtyOf(after, n) \subseteq lost

\* A level after a line was installed over the victim of set s.
InstalledIn(level, s, tag, dirty) ==
  [level EXCEPT ![s] = Installed(level[s], Victim(level[s]), tag, dirty)]

\* Installing over the victim drops at most the victim's block, and that only if it was
\* dirty; a line installed dirty is a dirty block of the level.
LEMMA InstallDrops ==
  ASSUME NEW n \in Nat \ {0}, NEW level, LevelInv(level, n), NEW s \in 0 .. n - 1,
         NEW tag \in Nat, NEW dirty \in BOOLEAN, Matching(level[s], tag) = {}
  PROVE  /\ LevelInv(InstalledIn(level, s, tag, dirty), n)
         /\ Drops(level, InstalledIn(level, s, tag, dirty), n,
                  Number(DirtyVictim(level[s])))
         /\ \A b \in DirtyOf(level, n) \ DirtyOf(InstalledIn(level, s, tag, dirty), n) :
              DirtyVictim(level[s]) /\ b = BlockOf(level[s], Victim(level[s]), s, n)
         /\ dirty => tag * n + s \in DirtyOf(InstalledIn(level, s, tag, dirty), n)
<1> DEFINE v == Victim(level[s])
           x == Installed(level[s], v, tag, dirty)
           next == InstalledIn(level, s, tag, dirty)
           lost == IF DirtyVictim(level[s]) THEN {level[s].tags[v] * n + s} ELSE {}
<1>1. SetInv(level[s])
  BY DEF LevelInv
<1>2. v \in Ways
  BY <1>1, VictimType
<1>3. DirtyVictim(level[s]) <=> v \in level[s].dirty
  BY <1>1 DEF DirtyVictim, SetInv
<1> HIDE DEF v
<1>4. /\ SetInv(x) /\ x.tags = [level[s].tags EXCEPT ![v] = tag]
      /\ dirty => x.dirty = level[s].dirty \cup {v}
      /\ ~dirty => x.dirty = level[s].dirty \ {v}
  <2> SUFFICES /\ SetInv(Installed(level[s], v, tag, dirty))
               /\ Installed(level[s], v, tag, dirty).tags = [level[s].tags EXCEPT ![v] = tag]
               /\ dirty => Installed(level[s], v, tag, dirty).dirty = level[s].dirty \cup {v}
               /\ ~dirty => Installed(level[s], v, tag, dirty).dirty = level[s].dirty \ {v}
    OBVIOUS
  <2>1. v = Victim(level[s])
    BY DEF v
  <2> QED BY <1>1, <2>1, InstalledInv
<1>5. level[s].tags \in [Ways -> Nat] /\ level[s].dirty \subseteq Ways
  BY <1>1 DEF SetInv
<1>6. next = [level EXCEPT ![s] = x]
  BY DEF v, InstalledIn
<1> HIDE DEF x, next
<1>7. /\ LevelInv(next, n) /\ next[s] = x
      /\ \A r \in 0 .. n - 1 : r # s => next[r] = level[r]
  BY <1>4, <1>6 DEF LevelInv
<1>8. ASSUME NEW b \in DirtyOf(level, n), b \notin lost PROVE b \in DirtyOf(next, n)
  <2>1. PICK r \in 0 .. n - 1 : \E w \in level[r].dirty : b = level[r].tags[w] * n + r
    BY DirtyOfIs
  <2>2. CASE r # s
    <3>1. \E w \in next[r].dirty : b = next[r].tags[w] * n + r
      BY <1>7, <2>1, <2>2
    <3> QED BY <1>7, <3>1, DirtyOfIs
  <2>3. CASE r = s
    <3>0. PICK w \in level[s].dirty : b = level[s].tags[w] * n + s
      BY <2>1, <2>3
    <3>1. w # v
      BY <1>3, <1>8, <3>0
    <3>2. w \in x.dirty /\ x.tags[w] = level[s].tags[w]
      BY <1>4, <1>5, <3>0, <3>1
    <3>3. w \in next[s].dirty /\ b = next[s].tags[w] * n + s
      BY <1>7, <3>0, <3>2
    <3> QED BY <1>7, <3>3, DirtyOfIs
  <2> QED BY <2>2, <2>3
<1>9. dirty => tag * n + s \in DirtyOf(next, n)
  <2> SUFFICES ASSUME dirty PROVE tag * n + s \in DirtyOf(next, n)
    OBVIOUS
  <2>1. v \in next[s].dirty /\ next[s].tags[v] = tag
    <3>1. v \in x.dirty
      BY <1>4
    <3>2. x.tags[v] = tag
      BY <1>2, <1>4, <1>5
    <3> QED BY <1>7, <3>1, <3>2
  <2> QED BY <1>7, <2>1, DirtyOfIs
<1>10. IsFiniteSet(lost) /\ Cardinality(lost) <= Number(DirtyVictim(level[s]))
  <2>1. CASE DirtyVictim(level[s])
    <3>1. Number(DirtyVictim(level[s])) = 1
      BY <2>1 DEF Number
    <3>2. IsFiniteSet({level[s].tags[v] * n + s})
          /\ Cardinality({level[s].tags[v] * n + s}) = 1
      BY FS_Singleton
    <3>3. lost = {level[s].tags[v] * n + s}
      BY <2>1
    <3> HIDE DEF lost
    <3> QED BY <3>1, <3>2, <3>3
  <2>2. CASE ~ DirtyVictim(level[s])
    BY <2>2, FS_EmptySet DEF Number
  <2> QED BY <2>1, <2>2
<1>11. \A b \in lost : DirtyVictim(level[s]) /\ b = BlockOf(level[s], Victim(level[s]), s, n)
  BY DEF v, BlockOf
<1>12. DirtyOf(level, n) \ DirtyOf(next, n) \subseteq lost
  BY <1>8
<1> HIDE DEF lost
<1>13. Drops(level, next, n, Number(DirtyVictim(level[s])))
  BY <1>10, <1>12 DEF Drops
<1> QED BY <1>7, <1>9, <1>11, <1>12, <1>13 DEF next

\* From one state of a level to another at most so many blocks become dirty, and every line
\* written back to memory is one less.
Makes(before, after, n, made, writebacks) ==
  Cardinality(DirtyOf(after, n)) + writebacks <= Cardinality(DirtyOf(before, n)) + made

\* The element of a set that is there on a condition.
If(P, x) == IF P THEN {x} ELSE {}

\* A level has finitely many dirty blocks.
LEMMA DirtyFinite ==
  ASSUME NEW n \in Nat \ {0}, NEW level, LevelInv(level, n)
  PROVE  IsFiniteSet(DirtyOf(level, n)) /\ Cardinality(DirtyOf(level, n)) \in Nat
<1> DEFINE places == (0 .. n - 1) \X Ways
           f == [p \in places |-> level[p[1]].tags[p[2]] * n + p[1]]
           blocks == {f[p] : p \in places}
<1>1. IsFiniteSet(places)
  <2>1. IsFiniteSet(0 .. n - 1) /\ IsFiniteSet(Ways)
    BY FS_Interval, WaysAssumption DEF Ways
  <2> QED BY <2>1, FS_Product
<1>2. DirtyOf(level, n) \subseteq blocks
  <2> SUFFICES ASSUME NEW x \in DirtyOf(level, n) PROVE x \in blocks
    OBVIOUS
  <2>0. PICK s \in 0 .. n - 1 : \E w \in level[s].dirty : x = level[s].tags[w] * n + s
    BY DirtyOfIs
  <2>1. PICK w \in level[s].dirty : x = level[s].tags[w] * n + s
    BY <2>0
  <2>2. w \in Ways
    BY DEF LevelInv, SetInv
  <2>3. <<s, w>> \in places /\ f[<<s, w>>] = x
    BY <2>1, <2>2
  <2> HIDE DEF places, f
  <2> QED BY <2>3
<1> HIDE DEF places, f
<1>3. IsFiniteSet(blocks)
  BY <1>1, FiniteImage
<1>4. IsFiniteSet(DirtyOf(level, n))
  BY <1>2, <1>3, FS_Subset
<1> QED BY <1>4, FS_CardinalityType

\* A set that may lose one element and may gain one.
LEMMA OneForOne ==
  ASSUME NEW D, IsFiniteSet(D), NEW lose \in BOOLEAN, NEW gain \in BOOLEAN, NEW x, NEW y,
         lose => x \in D, NEW E, E \subseteq (D \ If(lose, x)) \cup If(gain, y)
  PROVE  Cardinality(E) + Number(lose) <= Cardinality(D) + Number(gain)
<1> DEFINE kept == D \ If(lose, x)
<1>1. IsFiniteSet(kept) /\ Cardinality(kept) + Number(lose) = Cardinality(D)
      /\ Cardinality(D) \in Nat
  <2>1. Cardinality(D) \in Nat
    BY FS_CardinalityType
  <2>2. CASE lose
    <3>1. kept = D \ {x} /\ Number(lose) = 1
      BY <2>2 DEF If, Number
    <3>2. IsFiniteSet(D \ {x}) /\ Cardinality(D \ {x}) = Cardinality(D) - 1
      BY <2>2, FS_RemoveElement
    <3> HIDE DEF kept
    <3> QED BY <2>1, <3>1, <3>2
  <2>3. CASE ~lose
    <3>1. kept = D /\ Number(lose) = 0
      BY <2>3 DEF If, Number
    <3> HIDE DEF kept
    <3> QED BY <2>1, <3>1
  <2> QED BY <2>2, <2>3
<1> HIDE DEF kept
<1>2. IsFiniteSet(kept \cup If(gain, y))
      /\ Cardinality(kept \cup If(gain, y)) <= Cardinality(kept) + Number(gain)
  <2>1. Cardinality(kept) \in Nat
    BY <1>1, FS_CardinalityType
  <2>2. CASE gain
    <3>1. If(gain, y) = {y} /\ Number(gain) = 1
      BY <2>2 DEF If, Number
    <3>2. IsFiniteSet(kept \cup {y}) /\ Cardinality(kept \cup {y}) <= Cardinality(kept) + 1
      BY <1>1, <2>1, FS_AddElement
    <3> QED BY <3>1, <3>2
  <2>3. CASE ~gain
    <3>1. kept \cup If(gain, y) = kept /\ Number(gain) = 0
      BY <2>3 DEF If, Number
    <3>2. Cardinality(kept) <= Cardinality(kept) + 0
      BY <2>1
    <3> QED BY <1>1, <3>1, <3>2
  <2> QED BY <2>2, <2>3
<1>3. Cardinality(E) <= Cardinality(kept \cup If(gain, y)) /\ IsFiniteSet(E)
  BY <1>2, FS_Subset DEF kept
<1>4. /\ Cardinality(E) \in Nat /\ Cardinality(kept) \in Nat
      /\ Cardinality(kept \cup If(gain, y)) \in Nat
  BY <1>1, <1>2, <1>3, FS_CardinalityType
<1>5. Number(lose) \in Nat /\ Number(gain) \in Nat
  BY DEF Number
<1> QED BY <1>1, <1>2, <1>3, <1>4, <1>5

\* A level that differs from another by one set.
Replaced(next, level, n, s, x) ==
  /\ LevelInv(next, n) /\ next[s] = x
  /\ \A r \in 0 .. n - 1 : r # s => next[r] = level[r]

\* A set that keeps its tags and gets one dirty way more, if any, makes at most its block
\* dirty.
LEMMA DirtyingMakes ==
  ASSUME NEW n \in Nat \ {0}, NEW level, LevelInv(level, n), NEW s \in 0 .. n - 1,
         NEW x, x.tags = level[s].tags, NEW made \in BOOLEAN, NEW w,
         x.dirty \subseteq level[s].dirty \cup If(made, w),
         NEW next, Replaced(next, level, n, s, x)
  PROVE  Makes(level, next, n, Number(made), 0)
<1> DEFINE y == level[s].tags[w] * n + s
<1>1. /\ LevelInv(next, n) /\ next[s] = x
      /\ \A r \in 0 .. n - 1 : r # s => next[r] = level[r]
  BY DEF Replaced
<1>2. ASSUME NEW b \in DirtyOf(next, n), b \notin DirtyOf(level, n) PROVE made /\ b = y
  <2>0. PICK r \in 0 .. n - 1 : \E v \in next[r].dirty : b = next[r].tags[v] * n + r
    <3>1. LevelInv(next, n)
      BY <1>1
    <3> QED BY <3>1, DirtyPlace
  <2>1. PICK v \in next[r].dirty : b = next[r].tags[v] * n + r
    BY <2>0
  <2>2. r = s
    BY <1>1, <1>2, <2>1, DirtyOfIs
  <2>3. v \in x.dirty /\ b = level[s].tags[v] * n + s
    BY <1>1, <2>1, <2>2
  <2>4. v \notin level[s].dirty
    BY <1>2, <2>3, DirtyOfIs
  <2>5. made /\ v = w
    BY <2>3, <2>4 DEF If
  <2> QED BY <2>3, <2>5
<1> HIDE DEF y
<1>3. DirtyOf(next, n) \subseteq (DirtyOf(level, n) \ If(FALSE, y)) \cup If(made, y)
  BY <1>2 DEF If
<1>4. IsFiniteSet(DirtyOf(level, n)) /\ FALSE \in BOOLEAN /\ ~FALSE
  BY DirtyFinite
<1>5. Cardinality(DirtyOf(next, n)) + Number(FALSE) <= Cardinality(DirtyOf(level, n)) + Number(made)
  BY <1>3, <1>4, OneForOne
<1> QED BY <1>5 DEF Makes, Number

\* A block belongs to one set.
LEMMA SetsApart ==
  ASSUME NEW n \in Nat \ {0}, NEW r \in 0 .. n - 1, NEW s \in 0 .. n - 1, r # s,
         NEW t \in Nat, NEW u \in Nat
  PROVE  t * n + r # u * n + s
<1>1. ASSUME NEW a \in Nat, NEW b \in Nat, a < b PROVE a * n + n <= b * n
  <2>1. PICK d \in Nat : b = a + 1 + d
    <3>1. b - a - 1 \in Nat /\ b = a + 1 + (b - a - 1)
      BY <1>1
    <3> QED BY <3>1
  <2>2. b * n = a * n + n + d * n /\ d * n \in Nat /\ a * n \in Nat
    BY <2>1
  <2> QED BY <2>2
<1>2. t * n \in Nat /\ u * n \in Nat
  OBVIOUS
<1>3. t < u => t * n + n <= u * n
  BY <1>1
<1>4. u < t => u * n + n <= t * n
  BY <1>1
<1>5. t = u => t * n = u * n
  OBVIOUS
<1> DEFINE x == t * n
           y == u * n
<1> HIDE DEF x, y
<1>6. x + r # y + s
  BY <1>2, <1>3, <1>4, <1>5 DEF x, y
<1> QED BY <1>6 DEF x, y

\* Installing over the victim makes at most the new line's block dirty, and a dirty victim's
\* block no longer is: no other way of the level holds it.
LEMMA InstallMakes ==
  ASSUME NEW n \in Nat \ {0}, NEW level, LevelInv(level, n), NEW s \in 0 .. n - 1,
         NEW tag \in Nat, NEW dirty \in BOOLEAN, Matching(level[s], tag) = {}
  PROVE  Makes(level, InstalledIn(level, s, tag, dirty), n, Number(dirty),
               Number(DirtyVictim(level[s])))
<1> DEFINE v == Victim(level[s])
           x == Installed(level[s], v, tag, dirty)
           next == InstalledIn(level, s, tag, dirty)
           old == level[s].tags[v] * n + s
           new == tag * n + s
           gone == DirtyVictim(level[s])
<1>1. SetInv(level[s]) /\ LevelInv(next, n)
  BY InstallDrops DEF LevelInv
<1>2. v \in Ways
  BY <1>1, VictimType
<1>3. gone <=> v \in level[s].dirty
  BY <1>1 DEF DirtyVictim, SetInv
<1>4. /\ x.tags = [level[s].tags EXCEPT ![v] = tag]
      /\ dirty => x.dirty = level[s].dirty \cup {v}
      /\ ~dirty => x.dirty = level[s].dirty \ {v}
  <2> DEFINE set == level[s]
             way == Victim(set)
  <2>1. SetInv(set) /\ way = Victim(set) /\ Matching(set, tag) = {}
    BY <1>1
  <2> HIDE DEF set, way
  <2>2. /\ Installed(set, way, tag, dirty).tags = [set.tags EXCEPT ![way] = tag]
        /\ dirty => Installed(set, way, tag, dirty).dirty = set.dirty \cup {way}
        /\ ~dirty => Installed(set, way, tag, dirty).dirty = set.dirty \ {way}
    BY ONLY <2>1, InstalledInv, tag \in Nat, dirty \in BOOLEAN
  <2> QED BY <2>2 DEF set, way
<1>5. next[s] = x /\ \A r \in 0 .. n - 1 : r # s => next[r] = level[r]
  BY DEF InstalledIn, LevelInv
<1>6. /\ level[s].tags \in [Ways -> Nat] /\ level[s].dirty \subseteq Ways
      /\ level[s].dirty \subseteq level[s].valid
      /\ \A a, b \in level[s].valid : level[s].tags[a] = level[s].tags[b] => a = b
  BY <1>1 DEF SetInv
<1>7. gone => old \in DirtyOf(level, n)
  BY <1>3, DirtyOfIs
<1> HIDE DEF v, x, next, gone
<1>8. ASSUME NEW b \in DirtyOf(next, n)
      PROVE  (b \in DirtyOf(level, n) /\ (gone => b # old)) \/ (dirty /\ b = new)
  <2>0. PICK r \in 0 .. n - 1 : \E w \in next[r].dirty : b = next[r].tags[w] * n + r
    BY <1>1, DirtyOfIs
  <2>1. PICK w \in next[r].dirty : b = next[r].tags[w] * n + r
    BY <2>0
  <2>2. CASE r = s /\ w = v
    <3>1. x.tags[v] = tag /\ v \in x.dirty /\ b = new
      BY <1>2, <1>4, <1>5, <1>6, <2>1, <2>2
    <3>2. dirty
      BY <1>4, <3>1
    <3> QED BY <3>1, <3>2
  <2>3. CASE r = s /\ w # v
    <3>1. w \in level[s].dirty /\ x.tags[w] = level[s].tags[w]
      BY <1>4, <1>5, <1>6, <2>1, <2>3
    <3>2. b = level[s].tags[w] * n + s
      BY <1>5, <2>1, <2>3, <3>1
    <3>3. gone => level[s].tags[w] # level[s].tags[v]
      BY <1>3, <1>6, <2>3, <3>1
    <3>4. level[s].tags[w] \in Nat /\ level[s].tags[v] \in Nat
      BY <1>2, <1>6, <3>1
    <3>5. level[s].tags[w] * n + s = level[s].tags[v] * n + s <=> level[s].tags[w] = level[s].tags[v]
      <4>1. \A a, c \in Nat : a * n + s = c * n + s <=> a = c
        BY SameBlock
      <4> QED BY <3>4, <4>1, Zenon
    <3>6. gone => b # old
      BY <3>2, <3>3, <3>5
    <3> QED BY <3>1, <3>2, <3>6, DirtyOfIs
  <2>4. CASE r # s
    <3>1. w \in level[r].dirty /\ b = level[r].tags[w] * n + r
      BY <1>5, <2>1, <2>4
    <3>2. level[r].tags[w] \in Nat /\ level[s].tags[v] \in Nat
      BY <1>2, <1>6, <3>1 DEF LevelInv, SetInv
    <3>3. b # old
      BY <2>4, <3>1, <3>2, SetsApart
    <3> QED BY <3>1, <3>3, DirtyOfIs
  <2> QED BY <2>2, <2>3, <2>4
<1> HIDE DEF old, new
<1>9. DirtyOf(next, n) \subseteq (DirtyOf(level, n) \ If(gone, old)) \cup If(dirty, new)
  BY <1>8 DEF If
<1>10. IsFiniteSet(DirtyOf(level, n)) /\ gone \in BOOLEAN
  BY DirtyFinite DEF gone, DirtyVictim
<1>11. Cardinality(DirtyOf(next, n)) + Number(gone)
         <= Cardinality(DirtyOf(level, n)) + Number(dirty)
  BY <1>7, <1>9, <1>10, OneForOne
<1> QED BY <1>11 DEF Makes, gone, next

\* Probing the second level keeps it well formed; its fill may write one line back.
LEMMA ProbedIs ==
  ASSUME LevelInv(l2, L2S), NEW b \in Nat
  PROVE  /\ LevelInv(Probed(b).sets, L2S)
         /\ Probed(b).hit \in BOOLEAN /\ Probed(b).writebacks \in Nat
         /\ Drops(l2, Probed(b).sets, L2S, Probed(b).writebacks)
         /\ Makes(l2, Probed(b).sets, L2S, 0, Probed(b).writebacks)
<1> DEFINE s2 == b % L2S
           t2 == b \div L2S
           w2 == find_way(l2[s2], t2)
<1>1. s2 \in 0 .. L2S - 1 /\ t2 \in Nat /\ L2S \in Nat \ {0}
  BY GeometryAssumption
<1>2. Probed(b) = IF w2 >= 0
                  THEN [sets |-> [l2 EXCEPT ![s2] = Touched(l2[s2], w2)], hit |-> TRUE,
                        writebacks |-> 0]
                  ELSE [sets |-> [l2 EXCEPT ![s2] =
                                    Installed(l2[s2], Victim(l2[s2]), t2, FALSE)],
                        hit |-> FALSE, writebacks |-> Number(DirtyVictim(l2[s2]))]
  BY DEF Probed
<1> HIDE DEF s2, t2
<1>3. SetInv(l2[s2])
  BY <1>1 DEF LevelInv
<1>4. /\ w2 < 0 => Matching(l2[s2], t2) = {}
      /\ w2 >= 0 => w2 \in l2[s2].valid
      /\ w2 >= 0 \/ w2 < 0
  BY <1>3, FindWay
<1> HIDE DEF w2
<1>5. CASE w2 >= 0
  <2> DEFINE x == Touched(l2[s2], w2)
             next == [l2 EXCEPT ![s2] = x]
  <2>1. w2 \in Ways
    BY <1>3, <1>4, <1>5 DEF SetInv
  <2>2. SetInv(x) /\ x.tags = l2[s2].tags /\ x.dirty = l2[s2].dirty
    BY <1>3, <1>4, <1>5, UseKeeps
  <2>3. Probed(b).sets = next /\ Probed(b).hit = TRUE /\ Probed(b).writebacks = 0
    BY <1>2, <1>5
  <2> HIDE DEF x
  <2>4. l2[s2].dirty \subseteq x.dirty
    BY <2>2
  <2>5. LevelInv(next, L2S) /\ DirtyOf(l2, L2S) \subseteq DirtyOf(next, L2S)
    BY <1>1, <2>2, <2>4, KeepsDirty
  <2>9. Makes(l2, next, L2S, 0, 0)
    <3>1. Replaced(next, l2, L2S, s2, x)
      BY <1>1, <2>5 DEF Replaced, LevelInv
    <3>2. FALSE \in BOOLEAN /\ x.dirty \subseteq l2[s2].dirty \cup If(FALSE, 0) /\ Number(FALSE) = 0
      BY <2>2 DEF Number
    <3> HIDE DEF next
    <3>3. Makes(l2, next, L2S, Number(FALSE), 0)
      BY <1>1, <2>2, <3>1, <3>2, DirtyingMakes
    <3> QED BY <3>2, <3>3
  <2> HIDE DEF next
  <2>6. Drops(l2, next, L2S, 0)
    <3>1. IsFiniteSet({}) /\ Cardinality({}) = 0
      BY FS_EmptySet
    <3>2. DirtyOf(l2, L2S) \ DirtyOf(next, L2S) \subseteq {}
      BY <2>5
    <3> QED BY <3>1, <3>2 DEF Drops
  <2>7. Probed(b).hit \in BOOLEAN
    BY <2>3
  <2>8. LevelInv(Probed(b).sets, L2S) /\ Probed(b).writebacks \in Nat
        /\ Drops(l2, Probed(b).sets, L2S, Probed(b).writebacks)
        /\ Makes(l2, Probed(b).sets, L2S, 0, Probed(b).writebacks)
    BY <2>3, <2>5, <2>6, <2>9
  <2> QED BY <2>7, <2>8
<1>6. CASE w2 < 0
  <2> DEFINE next == InstalledIn(l2, s2, t2, FALSE)
  <2>1. ~ (w2 >= 0)
    BY <1>3, <1>6, FindWay DEF w2, find_way
  <2>2. /\ Probed(b).sets = next /\ Probed(b).hit = FALSE
        /\ Probed(b).writebacks = Number(DirtyVictim(l2[s2]))
    BY <1>2, <2>1 DEF InstalledIn
  <2>3. LevelInv(next, L2S) /\ Drops(l2, next, L2S, Number(DirtyVictim(l2[s2])))
    <3>1. Matching(l2[s2], t2) = {} /\ FALSE \in BOOLEAN
      BY <1>4, <1>6
    <3> QED BY <1>1, <3>1, InstallDrops
  <2>6. Makes(l2, next, L2S, 0, Number(DirtyVictim(l2[s2])))
    <3>1. Matching(l2[s2], t2) = {} /\ FALSE \in BOOLEAN
      BY <1>4, <1>6
    <3>2. Makes(l2, next, L2S, Number(FALSE), Number(DirtyVictim(l2[s2])))
      BY <1>1, <3>1, InstallMakes
    <3>3. Number(FALSE) = 0
      BY DEF Number
    <3> HIDE DEF next
    <3> QED BY <3>2, <3>3
  <2> HIDE DEF next
  <2>4. Number(DirtyVictim(l2[s2])) \in Nat
    BY DEF Number
  <2>5. Probed(b).hit \in BOOLEAN
    BY <2>2
  <2> QED BY <2>2, <2>3, <2>4, <2>5, <2>6
<1> QED BY <1>4, <1>5, <1>6

\* Writing a block back to the second level keeps it well formed, may write one line back
\* to memory, and leaves the block dirty there, besides those that were.
LEMMA WrittenBackIs ==
  ASSUME NEW sets, LevelInv(sets, L2S), NEW b \in Nat
  PROVE  /\ LevelInv(WrittenBack(sets, b).sets, L2S)
         /\ WrittenBack(sets, b).writebacks \in Nat
         /\ Drops(sets, WrittenBack(sets, b).sets, L2S, WrittenBack(sets, b).writebacks)
         /\ b \in DirtyOf(WrittenBack(sets, b).sets, L2S)
         /\ Makes(sets, WrittenBack(sets, b).sets, L2S, 1, WrittenBack(sets, b).writebacks)
<1> DEFINE s == b % L2S
           t == b \div L2S
           w == find_way(sets[s], t)
<1>1. s \in 0 .. L2S - 1 /\ t \in Nat /\ L2S \in Nat \ {0} /\ t * L2S + s = b
  <2>1. L2S \in Nat \ {0} /\ b \in Int
    BY GeometryAssumption
  <2>2. b = L2S * t + s /\ s \in 0 .. L2S - 1
    BY <2>1, Division
  <2>3. t \in Nat
    BY <2>1
  <2> HIDE DEF s, t
  <2> QED BY <2>1, <2>2, <2>3
<1>2. WrittenBack(sets, b) =
        IF w >= 0
        THEN [sets |-> [sets EXCEPT ![s].dirty = @ \cup {w}], writebacks |-> 0]
        ELSE [sets |-> [sets EXCEPT ![s] = Installed(sets[s], Victim(sets[s]), t, TRUE)],
              writebacks |-> Number(DirtyVictim(sets[s]))]
  BY DEF WrittenBack
<1> HIDE DEF s, t
<1>3. SetInv(sets[s])
  BY <1>1 DEF LevelInv
<1>4. /\ w < 0 => Matching(sets[s], t) = {}
      /\ w >= 0 => w \in sets[s].valid /\ sets[s].tags[w] = t
      /\ w >= 0 \/ w < 0
  BY <1>3, FindWay
<1> HIDE DEF w
<1>5. CASE w >= 0
  <2> DEFINE x == [sets[s] EXCEPT !.dirty = @ \cup {w}]
             next == [sets EXCEPT ![s] = x]
  <2>1. SetInv(x) /\ x.tags = sets[s].tags /\ x.dirty = sets[s].dirty \cup {w}
    <3>1. SetInv(x)
      BY <1>3, <1>4, <1>5, DirtiedInv
    <3> QED BY <1>3, <3>1 DEF SetInv
  <2>2. WrittenBack(sets, b).sets = next /\ WrittenBack(sets, b).writebacks = 0
    BY <1>2, <1>5
  <2> HIDE DEF x
  <2>3. sets[s].dirty \subseteq x.dirty
    BY <2>1
  <2>4. LevelInv(next, L2S) /\ DirtyOf(sets, L2S) \subseteq DirtyOf(next, L2S)
    BY <1>1, <2>1, <2>3, KeepsDirty
  <2>5. next[s] = x
    BY <1>1 DEF LevelInv
  <2>8. Makes(sets, next, L2S, 1, 0)
    <3>1. Replaced(next, sets, L2S, s, x)
      BY <1>1, <2>4 DEF Replaced, LevelInv
    <3>2. TRUE \in BOOLEAN /\ x.dirty \subseteq sets[s].dirty \cup If(TRUE, w) /\ Number(TRUE) = 1
      BY <2>1 DEF Number, If
    <3> HIDE DEF next
    <3>3. Makes(sets, next, L2S, Number(TRUE), 0)
      BY <1>1, <2>1, <3>1, <3>2, DirtyingMakes
    <3> QED BY <3>2, <3>3
  <2> HIDE DEF next
  <2>6. Drops(sets, next, L2S, 0)
    <3>1. IsFiniteSet({}) /\ Cardinality({}) = 0
      BY FS_EmptySet
    <3>2. DirtyOf(sets, L2S) \ DirtyOf(next, L2S) \subseteq {}
      BY <2>4
    <3> QED BY <3>1, <3>2 DEF Drops
  <2>7. b \in DirtyOf(next, L2S)
    <3>1. w \in next[s].dirty /\ b = next[s].tags[w] * L2S + s
      BY <1>1, <1>4, <1>5, <2>1, <2>5
    <3> QED BY <1>1, <2>4, <3>1, DirtyOfIs
  <2> QED BY <2>2, <2>4, <2>6, <2>7, <2>8
<1>6. CASE w < 0
  <2> DEFINE next == InstalledIn(sets, s, t, TRUE)
  <2>1. ~ (w >= 0)
    BY <1>3, <1>6, FindWay DEF w, find_way
  <2>2. /\ WrittenBack(sets, b).sets = next
        /\ WrittenBack(sets, b).writebacks = Number(DirtyVictim(sets[s]))
    BY <1>2, <2>1 DEF InstalledIn
  <2>3. /\ LevelInv(next, L2S) /\ Drops(sets, next, L2S, Number(DirtyVictim(sets[s])))
        /\ t * L2S + s \in DirtyOf(next, L2S)
    <3>1. Matching(sets[s], t) = {} /\ TRUE \in BOOLEAN
      BY <1>4, <1>6
    <3> QED BY <1>1, <3>1, InstallDrops
  <2>5. Makes(sets, next, L2S, 1, Number(DirtyVictim(sets[s])))
    <3>1. Matching(sets[s], t) = {} /\ TRUE \in BOOLEAN
      BY <1>4, <1>6
    <3>2. Makes(sets, next, L2S, Number(TRUE), Number(DirtyVictim(sets[s])))
      BY <1>1, <3>1, InstallMakes
    <3>3. Number(TRUE) = 1
      BY DEF Number
    <3> HIDE DEF next
    <3> QED BY <3>2, <3>3
  <2> HIDE DEF next
  <2>4. Number(DirtyVictim(sets[s])) \in Nat
    BY DEF Number
  <2> QED BY <1>1, <2>2, <2>3, <2>4, <2>5
<1> QED BY <1>4, <1>5, <1>6

\* What run() does to a set is what the reference does to its list: a hit,
LEMMA HitLines ==
  ASSUME NEW n \in Nat \ {0}, NEW s \in 0 .. n - 1, NEW set, SetInv(set), NEW t \in Nat,
         NEW b, IsBlock(b, t, n, s), NEW w \in Matching(set, t), NEW wr \in BOOLEAN
  PROVE  LinesOf(Used(set, w, wr), s, n) = Reference!Used(LinesOf(set, s, n), b, wr)
<1> DEFINE touched == Touched(set, w)
           next == Used(set, w, wr)
<1>1. w \in set.valid
  BY DEF Matching
<1>2. /\ touched.tags = set.tags /\ touched.valid = set.valid /\ touched.dirty = set.dirty
      /\ touched.lru = lru_touch(set.lru, w) /\ SetInv(touched)
  BY <1>1, UseKeeps
<1>3. next = [touched EXCEPT !.dirty = IF wr THEN @ \cup {w} ELSE @]
  BY DEF Used
<1> HIDE DEF touched, next
<1>4. /\ next.tags = touched.tags /\ next.valid = touched.valid /\ next.lru = touched.lru
      /\ next.dirty = IF wr THEN touched.dirty \cup {w} ELSE touched.dirty
  BY <1>2, <1>3 DEF SetInv
<1>5. /\ next.tags = set.tags /\ next.valid = set.valid /\ next.lru = lru_touch(set.lru, w)
      /\ (wr => next.dirty = set.dirty \cup {w}) /\ (~wr => next.dirty = set.dirty)
  BY <1>2, <1>4
<1>6. LinesOf(next, s, n) = Reference!Used(LinesOf(set, s, n), b, wr)
  BY <1>5, UsedLines
<1> QED BY <1>6 DEF next

\* a probe that finds the block,
LEMMA TouchLines ==
  ASSUME NEW n \in Nat \ {0}, NEW s \in 0 .. n - 1, NEW set, SetInv(set), NEW t \in Nat,
         NEW b, IsBlock(b, t, n, s), NEW w \in Matching(set, t)
  PROVE  LinesOf(Touched(set, w), s, n) = Reference!Used(LinesOf(set, s, n), b, FALSE)
<1> DEFINE wr == FALSE
           touched == Touched(set, w)
<1>1. w \in set.valid
  BY DEF Matching
<1>2. SetInv(touched)
  BY <1>1, UseKeeps
<1> HIDE DEF touched
<1>3. Used(set, w, wr) = touched
  BY <1>2 DEF Used, SetInv, touched
<1>4. wr \in BOOLEAN
  OBVIOUS
<1> HIDE DEF wr
<1>5. LinesOf(Used(set, w, wr), s, n) = Reference!Used(LinesOf(set, s, n), b, wr)
  BY <1>4, HitLines
<1> QED BY <1>3, <1>5 DEF wr, touched

\* a line made dirty where it is,
LEMMA DirtyLines ==
  ASSUME NEW n \in Nat \ {0}, NEW s \in 0 .. n - 1, NEW set, SetInv(set), NEW t \in Nat,
         NEW b, IsBlock(b, t, n, s), NEW w \in Matching(set, t)
  PROVE  LinesOf([set EXCEPT !.dirty = @ \cup {w}], s, n)
         = Reference!MadeDirty(LinesOf(set, s, n), b)
<1> DEFINE next == [set EXCEPT !.dirty = @ \cup {w}]
<1>1. /\ next.tags = set.tags /\ next.valid = set.valid /\ next.lru = set.lru
      /\ next.dirty = set.dirty \cup {w}
  BY DEF SetInv
<1> HIDE DEF next
<1>2. LinesOf(next, s, n) = Reference!MadeDirty(LinesOf(set, s, n), b)
  BY <1>1, DirtiedLines
<1> QED BY <1>2 DEF next

\* and a line installed over the victim.
LEMMA InstallLines ==
  ASSUME NEW n \in Nat \ {0}, NEW s \in 0 .. n - 1, NEW set, SetInv(set), NEW t \in Nat,
         NEW b, IsBlock(b, t, n, s), NEW dirty \in BOOLEAN, Matching(set, t) = {}
  PROVE  LinesOf(Installed(set, Victim(set), t, dirty), s, n)
         = Reference!Filled(LinesOf(set, s, n), Reference!Line(b, dirty))
<1> DEFINE w == Victim(set)
           next == Installed(set, w, t, dirty)
<1>1. w = Victim(set)
  OBVIOUS
<1> HIDE DEF w
<1>2. /\ next.tags = [set.tags EXCEPT ![w] = t] /\ next.valid = set.valid \cup {w}
      /\ next.lru = lru_touch(set.lru, w)
      /\ dirty => next.dirty = set.dirty \cup {w}
      /\ ~dirty => next.dirty = set.dirty \ {w}
  <2> SUFFICES /\ Installed(set, w, t, dirty).tags = [set.tags EXCEPT ![w] = t]
               /\ Installed(set, w, t, dirty).valid = set.valid \cup {w}
               /\ Installed(set, w, t, dirty).lru = lru_touch(set.lru, w)
               /\ dirty => Installed(set, w, t, dirty).dirty = set.dirty \cup {w}
               /\ ~dirty => Installed(set, w, t, dirty).dirty = set.dirty \ {w}
    OBVIOUS
  <2> QED BY <1>1, InstalledInv
<1> HIDE DEF next
<1>3. LinesOf(next, s, n) = Reference!Filled(LinesOf(set, s, n), Reference!Line(b, dirty))
  BY <1>1, <1>2, InstalledLines
<1> QED BY <1>3 DEF next, w

-----------------------------------------------------------------------------
(* The lists of a level.                                                   *)

\* The set and the tag of a block.
LEMMA SetAndTag ==
  ASSUME NEW n \in Nat \ {0}, NEW b \in Nat
  PROVE  b % n \in 0 .. n - 1 /\ b \div n \in Nat /\ IsBlock(b, b \div n, n, b % n)
<1>1. b \in Int /\ n \in Nat
  OBVIOUS
<1>2. b = n * (b \div n) + (b % n) /\ b % n \in 0 .. n - 1
  BY <1>1, Division
<1>3. b \div n \in Nat
  OBVIOUS
<1> DEFINE s == b % n
           t == b \div n
<1> HIDE DEF s, t
<1>4. b = n * t + s /\ s \in 0 .. n - 1 /\ t \in Nat
  BY <1>2, <1>3 DEF s, t
<1>5. b = t * n + s
  BY <1>1, <1>4
<1>6. IsBlock(b, t, n, s)
  BY <1>5 DEF IsBlock
<1> QED BY <1>4, <1>6 DEF s, t

\* The lists of a level of which one set changes.
LEMMA LevelLines ==
  ASSUME NEW n \in Nat \ {0}, NEW level, LevelInv(level, n), NEW s \in 0 .. n - 1
  PROVE  /\ Lines(level, n)[s] = LinesOf(level[s], s, n)
         /\ \A x : Lines([level EXCEPT ![s] = x], n)
                     = [Lines(level, n) EXCEPT ![s] = LinesOf(x, s, n)]
<1>1. DOMAIN level = 0 .. n - 1
  BY DEF LevelInv
<1>2. Lines(level, n)[s] = LinesOf(level[s], s, n) /\ DOMAIN Lines(level, n) = 0 .. n - 1
  BY <1>1 DEF Lines
<1>3. ASSUME NEW x
      PROVE  Lines([level EXCEPT ![s] = x], n) = [Lines(level, n) EXCEPT ![s] = LinesOf(x, s, n)]
  <2> DEFINE next == [level EXCEPT ![s] = x]
             lines == Lines(level, n)
             after == [lines EXCEPT ![s] = LinesOf(x, s, n)]
  <2>1. /\ DOMAIN next = 0 .. n - 1 /\ next[s] = x
        /\ \A r \in 0 .. n - 1 : r # s => next[r] = level[r]
    BY <1>1
  <2>2. /\ DOMAIN after = 0 .. n - 1 /\ after[s] = LinesOf(x, s, n)
        /\ \A r \in 0 .. n - 1 : r # s => after[r] = LinesOf(level[r], r, n)
        /\ after = [r \in 0 .. n - 1 |-> after[r]]
    BY <1>1, <1>2 DEF Lines
  <2> HIDE DEF next, after
  <2>3. \A r \in 0 .. n - 1 : LinesOf(next[r], r, n) = after[r]
    BY <2>1, <2>2
  <2>4. Lines(next, n) = [r \in 0 .. n - 1 |-> LinesOf(next[r], r, n)]
    BY <2>1 DEF Lines
  <2>5. [r \in 0 .. n - 1 |-> LinesOf(next[r], r, n)] = [r \in 0 .. n - 1 |-> after[r]]
    BY <2>3
  <2>6. Lines(next, n) = after
    BY <2>2, <2>4, <2>5, Zenon
  <2> QED BY <2>6 DEF next, after
<1> QED BY <1>2, <1>3

\* A level holds a block if one of the ways of its set matches the tag; the dirty lines
\* that a fill for a block costs.
LEMMA LostIs ==
  ASSUME NEW n \in Nat \ {0}, NEW level, LevelInv(level, n), NEW b \in Nat
  PROVE  /\ Reference!Holds(Lines(level, n)[b % n], b) <=> Matching(level[b % n], b \div n) # {}
         /\ Matching(level[b % n], b \div n) # {} => Reference!Lost(Lines(level, n), n, b) = 0
         /\ Matching(level[b % n], b \div n) = {} =>
              Reference!Lost(Lines(level, n), n, b) = Number(DirtyVictim(level[b % n]))
<1> DEFINE s == b % n
           t == b \div n
           lines == Lines(level, n)
           set == level[s]
<1>1. s \in 0 .. n - 1 /\ t \in Nat /\ IsBlock(b, t, n, s)
  BY SetAndTag
<1>a. Reference!Lost(lines, n, b) = IF Reference!Holds(lines[s], b) THEN 0
                                    ELSE Cardinality(Reference!DirtyVictims(lines[s]))
  <2>1. \A S : Reference!Cardinality(S) = Cardinality(S)
    BY DEF Reference!Cardinality, Cardinality
  <2> QED BY <2>1 DEF Reference!Lost
<1> HIDE DEF s, t
<1>2. SetInv(set)
  BY <1>1 DEF LevelInv
<1>3. lines[s] = LinesOf(set, s, n)
  BY <1>1, LevelLines
<1> HIDE DEF lines, set
<1>4. Reference!Holds(LinesOf(set, s, n), b) <=> Matching(set, t) # {}
  BY <1>1, <1>2, HoldsBlock
<1>5. /\ DirtyVictim(set) => Reference!DirtyVictims(LinesOf(set, s, n))
                             = {Reference!Line(BlockOf(set, Victim(set), s, n), TRUE)}
      /\ ~DirtyVictim(set) => Reference!DirtyVictims(LinesOf(set, s, n)) = {}
  BY <1>1, <1>2, DirtyVictimLines
<1>7. Cardinality(Reference!DirtyVictims(LinesOf(set, s, n))) = Number(DirtyVictim(set))
  <2>1. CASE DirtyVictim(set)
    <3>1. Number(DirtyVictim(set)) = 1
      BY <2>1 DEF Number
    <3> QED BY <1>5, <2>1, <3>1, FS_Singleton
  <2>2. CASE ~DirtyVictim(set)
    <3>1. Number(DirtyVictim(set)) = 0
      BY <2>2 DEF Number
    <3> QED BY <1>5, <2>2, <3>1, FS_EmptySet
  <2> QED BY <2>1, <2>2
<1>8. /\ Reference!Holds(lines[s], b) <=> Matching(set, t) # {}
      /\ Matching(set, t) # {} => Reference!Lost(lines, n, b) = 0
      /\ Matching(set, t) = {} => Reference!Lost(lines, n, b) = Number(DirtyVictim(set))
  BY <1>3, <1>4, <1>a, <1>7
<1> QED BY <1>8 DEF lines, set, s, t

\* Probing the second level, as the reference sees it.
LEMMA ProbedLines ==
  ASSUME LevelInv(l2, L2S), NEW b \in Nat
  PROVE  /\ Lines(Probed(b).sets, L2S) = Reference!Probed(b)
         /\ Probed(b).hit = Reference!Holds(Lines(l2, L2S)[b % L2S], b)
         /\ Probed(b).writebacks = Reference!Lost(Lines(l2, L2S), L2S, b)
<1> DEFINE s2 == b % L2S
           t2 == b \div L2S
           w2 == find_way(l2[s2], t2)
           lines == Lines(l2, L2S)
           set == l2[s2]
<1>0. L2S \in Nat \ {0}
  BY GeometryAssumption
<1>1. s2 \in 0 .. L2S - 1 /\ t2 \in Nat /\ IsBlock(b, t2, L2S, s2)
  BY <1>0, SetAndTag
<1>2. Probed(b) = IF w2 >= 0
                  THEN [sets |-> [l2 EXCEPT ![s2] = Touched(set, w2)], hit |-> TRUE,
                        writebacks |-> 0]
                  ELSE [sets |-> [l2 EXCEPT ![s2] = Installed(set, Victim(set), t2, FALSE)],
                        hit |-> FALSE, writebacks |-> Number(DirtyVictim(set))]
  BY DEF Probed
<1>3. Reference!Probed(b)
        = [lines EXCEPT ![s2] = IF Reference!Holds(lines[s2], b)
                                THEN Reference!Used(lines[s2], b, FALSE)
                                ELSE Reference!Filled(lines[s2], Reference!Line(b, FALSE))]
  BY DEF Reference!Probed
<1>4. /\ Reference!Holds(lines[s2], b) <=> Matching(set, t2) # {}
      /\ Matching(set, t2) # {} => Reference!Lost(lines, L2S, b) = 0
      /\ Matching(set, t2) = {} => Reference!Lost(lines, L2S, b) = Number(DirtyVictim(set))
  BY <1>0, LostIs
<1> HIDE DEF s2, t2
<1>5. SetInv(set)
  BY <1>1 DEF LevelInv
<1>6. /\ w2 < 0 => Matching(set, t2) = {}
      /\ w2 >= 0 => w2 \in set.valid /\ w2 \in Matching(set, t2)
      /\ w2 \in Int /\ (w2 >= 0 \/ w2 < 0)
  BY <1>5, FindWay DEF Matching
<1>7. /\ lines[s2] = LinesOf(set, s2, L2S)
      /\ \A x : Lines([l2 EXCEPT ![s2] = x], L2S) = [lines EXCEPT ![s2] = LinesOf(x, s2, L2S)]
  BY <1>0, <1>1, LevelLines
<1>8. Reference!Holds(lines[s2], b) \in BOOLEAN
  BY DEF Reference!Holds
<1> HIDE DEF w2, lines, set
<1>9. CASE w2 >= 0
  <2> DEFINE x == Touched(set, w2)
  <2>1. LinesOf(x, s2, L2S) = Reference!Used(LinesOf(set, s2, L2S), b, FALSE)
    BY <1>0, <1>1, <1>5, <1>6, <1>9, TouchLines
  <2>2. Probed(b).sets = [l2 EXCEPT ![s2] = x] /\ Probed(b).hit = TRUE
        /\ Probed(b).writebacks = 0
    BY <1>2, <1>9
  <2> HIDE DEF x
  <2>3. Matching(set, t2) # {} /\ Reference!Holds(lines[s2], b)
    BY <1>4, <1>6, <1>9
  <2>4. Reference!Probed(b) = [lines EXCEPT ![s2] = Reference!Used(lines[s2], b, FALSE)]
    BY <1>3, <2>3
  <2>5. Lines(Probed(b).sets, L2S) = [lines EXCEPT ![s2] = LinesOf(x, s2, L2S)]
    BY <1>7, <2>2
  <2>6. Lines(Probed(b).sets, L2S) = Reference!Probed(b)
    BY <1>7, <2>1, <2>4, <2>5
  <2> QED BY <1>4, <1>8, <2>2, <2>3, <2>6 DEF lines, s2
<1>10. CASE w2 < 0
  <2> DEFINE x == Installed(set, Victim(set), t2, FALSE)
  <2>1. ~(w2 >= 0)
    BY <1>6, <1>10
  <2>2. Matching(set, t2) = {}
    BY <1>6, <1>10
  <2>3. LinesOf(x, s2, L2S) = Reference!Filled(LinesOf(set, s2, L2S), Reference!Line(b, FALSE))
    <3> DEFINE clean == FALSE
    <3>1. clean \in BOOLEAN
      OBVIOUS
    <3> HIDE DEF clean
    <3>2. LinesOf(Installed(set, Victim(set), t2, clean), s2, L2S)
            = Reference!Filled(LinesOf(set, s2, L2S), Reference!Line(b, clean))
      BY <1>0, <1>1, <1>5, <2>2, <3>1, InstallLines
    <3> QED BY <3>2 DEF clean
  <2>4. Probed(b).sets = [l2 EXCEPT ![s2] = x] /\ Probed(b).hit = FALSE
        /\ Probed(b).writebacks = Number(DirtyVictim(set))
    BY <1>2, <2>1
  <2> HIDE DEF x
  <2>5. ~Reference!Holds(lines[s2], b)
    BY <1>4, <2>2
  <2>6. Reference!Probed(b)
        = [lines EXCEPT ![s2] = Reference!Filled(lines[s2], Reference!Line(b, FALSE))]
    BY <1>3, <2>5
  <2>7. Lines(Probed(b).sets, L2S) = [lines EXCEPT ![s2] = LinesOf(x, s2, L2S)]
    BY <1>7, <2>4
  <2>8. Lines(Probed(b).sets, L2S) = Reference!Probed(b)
    BY <1>7, <2>3, <2>6, <2>7
  <2> QED BY <1>4, <1>8, <2>2, <2>4, <2>5, <2>8 DEF lines, s2
<1> QED BY <1>6, <1>9, <1>10

\* Writing a dirty line back to the second level, as the reference sees it.
LEMMA WrittenBackLines ==
  ASSUME NEW sets, LevelInv(sets, L2S), NEW b \in Nat
  PROVE  /\ Lines(WrittenBack(sets, b).sets, L2S)
            = Reference!WrittenBack(Lines(sets, L2S), Reference!Line(b, TRUE))
         /\ WrittenBack(sets, b).writebacks = Reference!Lost(Lines(sets, L2S), L2S, b)
<1> DEFINE s == b % L2S
           t == b \div L2S
           w == find_way(sets[s], t)
           lines == Lines(sets, L2S)
           set == sets[s]
           line == Reference!Line(b, TRUE)
<1>0. L2S \in Nat \ {0}
  BY GeometryAssumption
<1>1. s \in 0 .. L2S - 1 /\ t \in Nat /\ IsBlock(b, t, L2S, s)
  BY <1>0, SetAndTag
<1>2. WrittenBack(sets, b) =
        IF w >= 0
        THEN [sets |-> [sets EXCEPT ![s] = [set EXCEPT !.dirty = @ \cup {w}]], writebacks |-> 0]
        ELSE [sets |-> [sets EXCEPT ![s] = Installed(set, Victim(set), t, TRUE)],
              writebacks |-> Number(DirtyVictim(set))]
  BY DEF WrittenBack
<1>3. Reference!WrittenBack(lines, line)
        = [lines EXCEPT ![s] = IF Reference!Holds(lines[s], b)
                               THEN Reference!MadeDirty(lines[s], b)
                               ELSE Reference!Filled(lines[s], line)]
  <2>1. line.block = b
    BY DEF Reference!Line
  <2> HIDE DEF line
  <2> QED BY <2>1 DEF Reference!WrittenBack
<1>4. /\ Reference!Holds(lines[s], b) <=> Matching(set, t) # {}
      /\ Matching(set, t) # {} => Reference!Lost(lines, L2S, b) = 0
      /\ Matching(set, t) = {} => Reference!Lost(lines, L2S, b) = Number(DirtyVictim(set))
  BY <1>0, LostIs
<1> HIDE DEF s, t
<1>5. SetInv(set)
  BY <1>1 DEF LevelInv
<1>6. /\ w < 0 => Matching(set, t) = {}
      /\ w >= 0 => w \in set.valid /\ w \in Matching(set, t)
      /\ w \in Int /\ (w >= 0 \/ w < 0)
  BY <1>5, FindWay DEF Matching
<1>7. /\ lines[s] = LinesOf(set, s, L2S)
      /\ \A x : Lines([sets EXCEPT ![s] = x], L2S) = [lines EXCEPT ![s] = LinesOf(x, s, L2S)]
  BY <1>0, <1>1, LevelLines
<1> HIDE DEF w, lines, set, line
<1>8. CASE w >= 0
  <2> DEFINE x == [set EXCEPT !.dirty = @ \cup {w}]
  <2>1. LinesOf(x, s, L2S) = Reference!MadeDirty(LinesOf(set, s, L2S), b)
    BY <1>0, <1>1, <1>5, <1>6, <1>8, DirtyLines
  <2>2. WrittenBack(sets, b).sets = [sets EXCEPT ![s] = x] /\ WrittenBack(sets, b).writebacks = 0
    BY <1>2, <1>8
  <2> HIDE DEF x
  <2>3. Matching(set, t) # {} /\ Reference!Holds(lines[s], b)
    BY <1>4, <1>6, <1>8
  <2>4. Reference!WrittenBack(lines, line) = [lines EXCEPT ![s] = Reference!MadeDirty(lines[s], b)]
    BY <1>3, <2>3
  <2>5. Lines(WrittenBack(sets, b).sets, L2S) = [lines EXCEPT ![s] = LinesOf(x, s, L2S)]
    BY <1>7, <2>2
  <2>6. Lines(WrittenBack(sets, b).sets, L2S) = Reference!WrittenBack(lines, line)
    BY <1>7, <2>1, <2>4, <2>5
  <2> QED BY <1>4, <2>2, <2>3, <2>6 DEF lines, line
<1>9. CASE w < 0
  <2> DEFINE x == Installed(set, Victim(set), t, TRUE)
  <2>1. ~(w >= 0)
    BY <1>6, <1>9
  <2>2. Matching(set, t) = {}
    BY <1>6, <1>9
  <2>3. LinesOf(x, s, L2S) = Reference!Filled(LinesOf(set, s, L2S), line)
    <3> DEFINE dirty == TRUE
    <3>1. dirty \in BOOLEAN
      OBVIOUS
    <3> HIDE DEF dirty
    <3>2. LinesOf(Installed(set, Victim(set), t, dirty), s, L2S)
            = Reference!Filled(LinesOf(set, s, L2S), Reference!Line(b, dirty))
      BY <1>0, <1>1, <1>5, <2>2, <3>1, InstallLines
    <3> QED BY <3>2 DEF dirty, line
  <2>4. /\ WrittenBack(sets, b).sets = [sets EXCEPT ![s] = x]
        /\ WrittenBack(sets, b).writebacks = Number(DirtyVictim(set))
    BY <1>2, <2>1
  <2> HIDE DEF x
  <2>5. ~Reference!Holds(lines[s], b)
    BY <1>4, <2>2
  <2>6. Reference!WrittenBack(lines, line) = [lines EXCEPT ![s] = Reference!Filled(lines[s], line)]
    BY <1>3, <2>5
  <2>7. Lines(WrittenBack(sets, b).sets, L2S) = [lines EXCEPT ![s] = LinesOf(x, s, L2S)]
    BY <1>7, <2>4
  <2>8. Lines(WrittenBack(sets, b).sets, L2S) = Reference!WrittenBack(lines, line)
    BY <1>7, <2>3, <2>6, <2>7
  <2> QED BY <1>4, <2>2, <2>4, <2>8 DEF lines, line
<1> QED BY <1>6, <1>8, <1>9

-----------------------------------------------------------------------------
(* The counters.                                                           *)

StatsType == [reads : Nat, writes : Nat, l1_hits : Nat, l1_misses : Nat,
              l2_hits : Nat, l2_misses : Nat, dirty_writebacks : Nat]

\* An access counted once on each level it reaches keeps the counters in balance.
LEMMA CountedBalances ==
  ASSUME st \in StatsType, CountersBalance, NEW wr \in BOOLEAN, NEW hit1 \in BOOLEAN,
         NEW hit2 \in BOOLEAN, NEW n \in Nat, hit1 => ~hit2,
         st' = Counted(wr, hit1, hit2, n)
  PROVE  /\ st' \in StatsType /\ CountersBalance'
         /\ st'.dirty_writebacks = st.dirty_writebacks + n /\ st'.writes = st.writes + Number(wr)
<1>1. /\ st.reads \in Nat /\ st.writes \in Nat /\ st.l1_hits \in Nat /\ st.l1_misses \in Nat
      /\ st.l2_hits \in Nat /\ st.l2_misses \in Nat /\ st.dirty_writebacks \in Nat
  BY DEF StatsType
<1> DEFINE r == Number(~wr)
           w == Number(wr)
           h == Number(hit1)
           m == Number(~hit1)
           h2 == Number(~hit1 /\ hit2)
           m2 == Number(~hit1 /\ ~hit2)
<1>2. /\ r \in Nat /\ w \in Nat /\ r + w = 1
      /\ h \in Nat /\ m \in Nat /\ h + m = 1
      /\ h2 \in Nat /\ m2 \in Nat /\ h2 + m2 = m
  BY DEF Number
<1>3. /\ st'.reads = st.reads + r /\ st'.writes = st.writes + w
      /\ st'.l1_hits = st.l1_hits + h /\ st'.l1_misses = st.l1_misses + m
      /\ st'.l2_hits = st.l2_hits + h2 /\ st'.l2_misses = st.l2_misses + m2
      /\ st'.dirty_writebacks = st.dirty_writebacks + n
  BY DEF Counted
<1>4. st' = [reads |-> st'.reads, writes |-> st'.writes, l1_hits |-> st'.l1_hits,
             l1_misses |-> st'.l1_misses, l2_hits |-> st'.l2_hits,
             l2_misses |-> st'.l2_misses, dirty_writebacks |-> st'.dirty_writebacks]
  BY DEF Counted
<1> HIDE DEF r, w, h, m, h2, m2
<1>5. /\ st'.reads \in Nat /\ st'.writes \in Nat /\ st'.l1_hits \in Nat
      /\ st'.l1_misses \in Nat /\ st'.l2_hits \in Nat /\ st'.l2_misses \in Nat
      /\ st'.dirty_writebacks \in Nat
  BY <1>1, <1>2, <1>3
<1>6. st' \in StatsType
  BY <1>4, <1>5 DEF StatsType
<1>7. CountersBalance'
  BY <1>1, <1>2, <1>3 DEF CountersBalance
<1>8. st'.writes = st.writes + Number(wr)
  BY <1>3 DEF w
<1> QED BY <1>3, <1>6, <1>7, <1>8

\* The parts of CacheInv.
LEMMA CacheInvParts ==
  CacheInv <=> /\ running \in BOOLEAN /\ st \in StatsType /\ CountersBalance
               /\ LevelInv(l1, L1S) /\ LevelInv(l2, L2S)
BY DEF CacheInv, StatsType

\* A step writes to memory no more often than it uses dirty lines up.
Thrifty ==
  DirtyCount' + st'.dirty_writebacks - st.dirty_writebacks <= DirtyCount + st'.writes - st.writes

\* It does if its two levels and its counters do.
LEMMA ThriftyStep ==
  ASSUME LevelInv(l1, L1S), LevelInv(l2, L2S), LevelInv(l1', L1S), LevelInv(l2', L2S),
         st \in StatsType, NEW wr \in BOOLEAN, NEW moved \in Nat, NEW n1 \in Nat, NEW n2 \in Nat,
         Makes(l1, l1', L1S, Number(wr), moved), Makes(l2, l2', L2S, moved, n1 + n2),
         st'.dirty_writebacks = st.dirty_writebacks + (n1 + n2),
         st'.writes = st.writes + Number(wr)
  PROVE  Thrifty
<1> DEFINE a == Cardinality(DirtyOf(l1, L1S))
           b == Cardinality(DirtyOf(l2, L2S))
           c == Cardinality(DirtyOf(l1', L1S))
           d == Cardinality(DirtyOf(l2', L2S))
<1>1. L1S \in Nat \ {0} /\ L2S \in Nat \ {0}
  BY GeometryAssumption
<1>2. a \in Nat /\ b \in Nat /\ c \in Nat /\ d \in Nat
  BY <1>1, DirtyFinite
<1>3. DirtyCount = a + b
  BY DEF DirtyCount, DirtyOf
<1>4. DirtyCount' = c + d
  BY DEF DirtyCount, DirtyOf, BlocksIn
<1>5. c + moved <= a + Number(wr) /\ d + (n1 + n2) <= b + moved
  BY DEF Makes
<1>6. st.dirty_writebacks \in Nat /\ st.writes \in Nat /\ Number(wr) \in Nat
  BY DEF StatsType, Number
<1> HIDE DEF a, b, c, d
<1> QED BY <1>2, <1>3, <1>4, <1>5, <1>6 DEF Thrifty

-----------------------------------------------------------------------------
(* The actions.                                                            *)

\* The caches start empty and well formed.
LEMMA InitCache == Init => CacheInv
<1> SUFFICES ASSUME Init PROVE CacheInv
  OBVIOUS
<1>1. SetInv(EmptySet)
  <2>1. TotalOrder(INIT_MAT) /\ INIT_MAT \in [Ways -> SUBSET Ways]
    BY InitialOrder DEF TotalOrder
  <2> QED BY <2>1 DEF SetInv, EmptySet
<1>2. LevelInv(l1, L1S) /\ LevelInv(l2, L2S)
  BY <1>1 DEF Init, LevelInv
<1>3. st \in StatsType /\ CountersBalance
  BY DEF Init, NoStats, StatsType, CountersBalance
<1> QED BY <1>2, <1>3, CacheInvParts DEF Init

\* A call only resets the counters, a return only ends the call.
LEMMA CallReturn ==
  ASSUME CacheInv, Call \/ Return
  PROVE  CacheInv' /\ ~(running /\ running')
<1>1. /\ running \in BOOLEAN /\ st \in StatsType /\ CountersBalance
      /\ LevelInv(l1, L1S) /\ LevelInv(l2, L2S)
  BY CacheInvParts
<1>2. LevelInv(l1, L1S)' /\ LevelInv(l2, L2S)'
  BY <1>1 DEF Call, Return, LevelInv
<1>3. st' \in StatsType /\ CountersBalance'
  <2>1. CASE Call
    BY <2>1 DEF Call, NoStats, StatsType, CountersBalance
  <2>2. CASE Return
    BY <1>1, <2>2 DEF Return, CountersBalance
  <2> QED BY <2>1, <2>2
<1>4. running' \in BOOLEAN /\ ~(running /\ running')
  BY DEF Call, Return
<1>5. CacheInv'
  BY <1>2, <1>3, <1>4 DEF CacheInv, StatsType
<1> QED BY <1>4, <1>5

\* A hit in the first level keeps the invariant and drops no dirty block; a write makes one.
LEMMA HitKeeps ==
  ASSUME CacheInv, NEW b \in Blocks, NEW wr \in BOOLEAN, HitL1(b, wr)
  PROVE  CacheInv' /\ DirtyBlocks \subseteq DirtyBlocks' /\ Thrifty
<1> DEFINE s1 == b % L1S
           t1 == b \div L1S
           w1 == find_way(l1[s1], t1)
           y == Touched(l1[s1], w1)
           x == Used(l1[s1], w1, wr)
<1>1. /\ running \in BOOLEAN /\ st \in StatsType /\ CountersBalance
      /\ LevelInv(l1, L1S) /\ LevelInv(l2, L2S)
  BY CacheInvParts
<1>2. s1 \in 0 .. L1S - 1 /\ L1S \in Nat \ {0}
  <2>1. b \in Nat /\ L1S \in Nat \ {0}
    BY GeometryAssumption, BlocksAssumption
  <2> QED BY <2>1, ModRange
<1>3. /\ l1' = [l1 EXCEPT ![s1] = x] /\ w1 >= 0
      /\ st' = Counted(wr, TRUE, FALSE, 0) /\ running' = running /\ l2' = l2
  BY DEF HitL1
<1> HIDE DEF s1, t1
<1>4. SetInv(l1[s1])
  BY <1>1, <1>2 DEF LevelInv
<1>5. w1 \in l1[s1].valid /\ w1 \in Ways
  BY <1>3, <1>4, FindWay DEF SetInv
<1> HIDE DEF w1
<1>6. SetInv(y) /\ y.tags = l1[s1].tags /\ y.valid = l1[s1].valid /\ y.dirty = l1[s1].dirty
  BY <1>4, <1>5, UseKeeps
<1>a. x = [y EXCEPT !.dirty = IF wr THEN @ \cup {w1} ELSE @]
  BY DEF Used
<1> HIDE DEF x, y
<1>7. SetInv(x) /\ x.tags = y.tags /\ y.dirty \subseteq x.dirty
      /\ x.dirty \subseteq y.dirty \cup If(wr, w1)
  <2>1. CASE wr
    <3>1. x = [y EXCEPT !.dirty = @ \cup {w1}]
      BY <1>a, <2>1
    <3>2. SetInv([y EXCEPT !.dirty = @ \cup {w1}])
      BY <1>5, <1>6, DirtiedInv
    <3>3. x.tags = y.tags /\ x.dirty = y.dirty \cup {w1}
      BY <1>6, <3>1 DEF SetInv
    <3> QED BY <2>1, <3>1, <3>2, <3>3 DEF If
  <2>2. CASE ~wr
    <3>1. x = y
      BY <1>6, <1>a, <2>2 DEF SetInv
    <3> QED BY <1>6, <3>1
  <2> QED BY <2>1, <2>2
<1>8. LevelInv(l1', L1S) /\ DirtyOf(l1, L1S) \subseteq DirtyOf(l1', L1S)
  <2>1. x.tags = l1[s1].tags /\ l1[s1].dirty \subseteq x.dirty
    BY <1>6, <1>7
  <2> QED BY <1>1, <1>2, <1>3, <1>7, <2>1, KeepsDirty
<1>9. LevelInv(l2', L2S)
  BY <1>1, <1>3
<1>10. st' \in StatsType /\ CountersBalance'
       /\ st'.dirty_writebacks = st.dirty_writebacks + 0 /\ st'.writes = st.writes + Number(wr)
  <2>1. TRUE \in BOOLEAN /\ FALSE \in BOOLEAN /\ 0 \in Nat
    OBVIOUS
  <2> QED BY <1>1, <1>3, <2>1, CountedBalances
<1>11. CacheInv'
  BY <1>1, <1>3, <1>8, <1>9, <1>10 DEF CacheInv, StatsType, LevelInv
<1>12. DirtyBlocks = DirtyOf(l1, L1S) \cup DirtyOf(l2, L2S)
  BY DEF DirtyBlocks, DirtyOf
<1>13. DirtyBlocks' = DirtyOf(l1', L1S) \cup DirtyOf(l2', L2S)
  BY DEF DirtyBlocks, DirtyOf, BlocksIn
<1>14. Makes(l1, l1', L1S, Number(wr), 0)
  <2>1. Replaced(l1', l1, L1S, s1, x)
    BY <1>1, <1>2, <1>3, <1>8 DEF Replaced, LevelInv
  <2>2. x.tags = l1[s1].tags /\ x.dirty \subseteq l1[s1].dirty \cup If(wr, w1)
    BY <1>6, <1>7
  <2> QED BY <1>1, <1>2, <2>1, <2>2, DirtyingMakes
<1>15. Makes(l2, l2', L2S, 0, 0 + 0)
  <2>1. L2S \in Nat \ {0}
    BY GeometryAssumption
  <2>2. Cardinality(DirtyOf(l2, L2S)) \in Nat
    BY <1>1, <2>1, DirtyFinite
  <2> QED BY <1>3, <2>2 DEF Makes
<1>16. Thrifty
  <2> DEFINE z == 0
  <2>1. z \in Nat /\ Makes(l1, l1', L1S, Number(wr), z) /\ Makes(l2, l2', L2S, z, z + z)
        /\ st'.dirty_writebacks = st.dirty_writebacks + (z + z)
    BY <1>10, <1>14, <1>15
  <2> HIDE DEF z
  <2> QED BY <1>1, <1>8, <1>9, <1>10, <2>1, ThriftyStep
<1> QED BY <1>3, <1>8, <1>11, <1>12, <1>13, <1>16

\* A miss keeps the invariant.  It may drop a dirty block in three places: the fill of the
\* second level and the write-back to it each count theirs; the victim of the first level
\* is dirty in the second afterwards.  Besides that it makes one only if it is a write.
LEMMA MissKeeps ==
  ASSUME CacheInv, NEW b \in Blocks, NEW wr \in BOOLEAN, MissL1(b, wr)
  PROVE  /\ CacheInv'
         /\ Cardinality(DirtyBlocks \ DirtyBlocks') <= st'.dirty_writebacks - st.dirty_writebacks
         /\ Thrifty
<1> DEFINE s1 == b % L1S
           t1 == b \div L1S
           v1 == Victim(l1[s1])
           bv == l1[s1].tags[v1] * L1S + s1
           probed == Probed(b)
           wrote == WrittenBack(probed.sets, bv)
           back == IF DirtyVictim(l1[s1]) THEN wrote
                   ELSE [sets |-> probed.sets, writebacks |-> 0]
<1>1. /\ running \in BOOLEAN /\ st \in StatsType /\ CountersBalance
      /\ LevelInv(l1, L1S) /\ LevelInv(l2, L2S)
  BY CacheInvParts
<1>2. b \in Nat /\ L1S \in Nat \ {0} /\ s1 \in 0 .. L1S - 1 /\ t1 \in Nat
  <2>1. b \in Nat /\ L1S \in Nat \ {0}
    BY GeometryAssumption, BlocksAssumption
  <2>2. t1 \in Nat
    BY <2>1
  <2> QED BY <2>1, <2>2, ModRange
<1>3. /\ find_way(l1[s1], t1) < 0
      /\ l2' = back.sets /\ l1' = InstalledIn(l1, s1, t1, wr)
      /\ st' = Counted(wr, FALSE, probed.hit, probed.writebacks + back.writebacks)
      /\ running' = running
  BY DEF MissL1, InstalledIn
<1> HIDE DEF s1, t1
<1>4. SetInv(l1[s1]) /\ Matching(l1[s1], t1) = {}
  <2>1. SetInv(l1[s1])
    BY <1>1, <1>2 DEF LevelInv
  <2> QED BY <1>3, <2>1, FindWay
<1>5. v1 \in Ways /\ bv \in Nat
  <2>1. v1 \in Ways
    BY <1>4, VictimType
  <2>2. l1[s1].tags[v1] \in Nat
    BY <1>4, <2>1 DEF SetInv
  <2> QED BY <1>2, <2>1, <2>2
<1>6. bv = BlockOf(l1[s1], Victim(l1[s1]), s1, L1S)
  BY DEF BlockOf
<1> HIDE DEF v1, bv
<1>7. /\ LevelInv(probed.sets, L2S) /\ probed.hit \in BOOLEAN /\ probed.writebacks \in Nat
      /\ Drops(l2, probed.sets, L2S, probed.writebacks)
      /\ Makes(l2, probed.sets, L2S, 0, probed.writebacks)
  BY <1>1, <1>2, ProbedIs
<1> HIDE DEF probed
<1>8. /\ LevelInv(wrote.sets, L2S) /\ wrote.writebacks \in Nat
      /\ Drops(probed.sets, wrote.sets, L2S, wrote.writebacks)
      /\ bv \in DirtyOf(wrote.sets, L2S)
      /\ Makes(probed.sets, wrote.sets, L2S, 1, wrote.writebacks)
  BY <1>5, <1>7, WrittenBackIs
<1> HIDE DEF wrote
<1>9. /\ LevelInv(back.sets, L2S) /\ back.writebacks \in Nat
      /\ Drops(probed.sets, back.sets, L2S, back.writebacks)
      /\ DirtyVictim(l1[s1]) => bv \in DirtyOf(back.sets, L2S)
      /\ Makes(probed.sets, back.sets, L2S, Number(DirtyVictim(l1[s1])), back.writebacks)
  <2>1. CASE DirtyVictim(l1[s1])
    <3>1. back = wrote
      BY <2>1
    <3> HIDE DEF back
    <3>2. Number(DirtyVictim(l1[s1])) = 1
      BY <2>1 DEF Number
    <3> QED BY <1>8, <3>1, <3>2
  <2>2. CASE ~ DirtyVictim(l1[s1])
    <3>1. back.sets = probed.sets /\ back.writebacks = 0
      BY <2>2
    <3> HIDE DEF back
    <3>2. IsFiniteSet({}) /\ Cardinality({}) = 0
      BY FS_EmptySet
    <3>3. DirtyOf(probed.sets, L2S) \ DirtyOf(probed.sets, L2S) \subseteq {}
      OBVIOUS
    <3>4. Drops(probed.sets, probed.sets, L2S, 0)
      BY <3>2, <3>3 DEF Drops
    <3>5. Makes(probed.sets, probed.sets, L2S, Number(DirtyVictim(l1[s1])), 0)
      <4>1. Number(DirtyVictim(l1[s1])) = 0
        BY <2>2 DEF Number
      <4>2. Cardinality(DirtyOf(probed.sets, L2S)) \in Nat
        BY <1>7, DirtyFinite, GeometryAssumption
      <4> QED BY <4>1, <4>2 DEF Makes
    <3> QED BY <1>7, <2>2, <3>1, <3>4, <3>5
  <2> QED BY <2>1, <2>2
<1> HIDE DEF back
<1>10. /\ LevelInv(l1', L1S)
       /\ \A x \in DirtyOf(l1, L1S) \ DirtyOf(l1', L1S) : DirtyVictim(l1[s1]) /\ x = bv
  BY <1>1, <1>2, <1>3, <1>4, <1>6, InstallDrops
<1> DEFINE n == probed.writebacks + back.writebacks
<1>11. n \in Nat
  BY <1>7, <1>9
<1>12. /\ st' \in StatsType /\ CountersBalance'
       /\ st'.dirty_writebacks = st.dirty_writebacks + n /\ st'.writes = st.writes + Number(wr)
  <2>1. FALSE \in BOOLEAN /\ st' = Counted(wr, FALSE, probed.hit, n)
    BY <1>3
  <2> HIDE DEF n
  <2> QED BY <1>1, <1>7, <1>11, <2>1, CountedBalances
<1>13. CacheInv'
  <2>1. LevelInv(l2', L2S)
    BY <1>3, <1>9
  <2> QED BY <1>1, <1>3, <1>10, <1>12, <2>1 DEF CacheInv, StatsType, LevelInv
<1>14. DirtyBlocks = DirtyOf(l1, L1S) \cup DirtyOf(l2, L2S)
  BY DEF DirtyBlocks, DirtyOf
<1>15. DirtyBlocks' = DirtyOf(l1', L1S) \cup DirtyOf(back.sets, L2S)
  BY <1>3 DEF DirtyBlocks, DirtyOf, BlocksIn
<1>16. PICK A : /\ IsFiniteSet(A) /\ Cardinality(A) <= probed.writebacks
                /\ DirtyOf(l2, L2S) \ DirtyOf(probed.sets, L2S) \subseteq A
  BY <1>7 DEF Drops
<1>17. PICK B : /\ IsFiniteSet(B) /\ Cardinality(B) <= back.writebacks
                /\ DirtyOf(probed.sets, L2S) \ DirtyOf(back.sets, L2S) \subseteq B
  BY <1>9 DEF Drops
<1>18. DirtyBlocks \ DirtyBlocks' \subseteq A \cup B
  BY <1>9, <1>10, <1>14, <1>15, <1>16, <1>17
<1>19. Cardinality(DirtyBlocks \ DirtyBlocks') <= n
  <2> DEFINE D == DirtyBlocks \ DirtyBlocks'
  <2>1. IsFiniteSet(A \cup B)
    BY <1>16, <1>17, FS_Union
  <2>2. Cardinality(A \cup B) = Cardinality(A) + Cardinality(B) - Cardinality(A \cap B)
    BY <1>16, <1>17, FS_Union
  <2>3. IsFiniteSet(A \cap B)
    BY <1>16, FS_Subset
  <2>4. /\ Cardinality(A) \in Nat /\ Cardinality(B) \in Nat /\ Cardinality(A \cap B) \in Nat
        /\ Cardinality(A \cup B) \in Nat
    BY <1>16, <1>17, <2>1, <2>3, FS_CardinalityType
  <2>5. D \subseteq A \cup B
    BY <1>18
  <2> HIDE DEF D
  <2>6. Cardinality(D) <= Cardinality(A \cup B) /\ IsFiniteSet(D)
    BY <2>1, <2>5, FS_Subset
  <2>7. Cardinality(D) \in Nat
    BY <2>6, FS_CardinalityType
  <2>8. Cardinality(A) <= probed.writebacks /\ Cardinality(B) <= back.writebacks
    BY <1>16, <1>17
  <2>9. Cardinality(D) <= n
    BY <1>7, <1>9, <2>2, <2>4, <2>6, <2>7, <2>8
  <2> QED BY <2>9 DEF D
<1> HIDE DEF n
<1>20. st.dirty_writebacks \in Nat
  BY <1>1 DEF StatsType
<1>21. n = st'.dirty_writebacks - st.dirty_writebacks
  BY <1>11, <1>12, <1>20
<1>22. Makes(l1, l1', L1S, Number(wr), Number(DirtyVictim(l1[s1])))
  BY <1>1, <1>2, <1>3, <1>4, InstallMakes
<1>23. Makes(l2, l2', L2S, Number(DirtyVictim(l1[s1])), probed.writebacks + back.writebacks)
  <2>1. /\ Cardinality(DirtyOf(l2, L2S)) \in Nat
        /\ Cardinality(DirtyOf(probed.sets, L2S)) \in Nat
        /\ Cardinality(DirtyOf(back.sets, L2S)) \in Nat
    BY <1>1, <1>7, <1>9, DirtyFinite, GeometryAssumption
  <2>2. Number(DirtyVictim(l1[s1])) \in Nat
    BY DEF Number
  <2> QED BY <1>3, <1>7, <1>9, <2>1, <2>2 DEF Makes
<1>24. Thrifty
  <2>1. Number(DirtyVictim(l1[s1])) \in Nat /\ LevelInv(l2', L2S)
    BY <1>3, <1>9 DEF Number
  <2>2. st'.dirty_writebacks = st.dirty_writebacks + (probed.writebacks + back.writebacks)
    BY <1>12 DEF n
  <2> QED BY <1>1, <1>7, <1>9, <1>10, <1>12, <1>22, <1>23, <2>1, <2>2, ThriftyStep
<1> QED BY <1>13, <1>19, <1>21, <1>24

-----------------------------------------------------------------------------
(* The theorems.                                                           *)

\* Every step, and every stuttering step, keeps CacheInv.
LEMMA NextKeepsCache == CacheInv /\ [Next]_vars => CacheInv'
<1> SUFFICES ASSUME CacheInv, [Next]_vars PROVE CacheInv'
  OBVIOUS
<1>1. CASE Call \/ Return
  BY <1>1, CallReturn
<1>2. ASSUME NEW b \in Blocks, NEW wr \in BOOLEAN, HitL1(b, wr) PROVE CacheInv'
  BY <1>2, HitKeeps
<1>3. ASSUME NEW b \in Blocks, NEW wr \in BOOLEAN, MissL1(b, wr) PROVE CacheInv'
  BY <1>3, MissKeeps
<1>4. CASE UNCHANGED vars
  BY <1>4 DEF vars, CacheInv, LevelInv, CountersBalance
<1> QED BY <1>1, <1>2, <1>3, <1>4 DEF Next

\* The inductive invariant holds of every run of the simulator, whatever the geometry of
\* the levels, the blocks and the length of the traces.
THEOREM CacheInvariant == Spec => []CacheInv
<1> QED BY InitCache, NextKeepsCache, PTL DEF Spec

\* No set holds a block twice: the lowest hit of find_way is the only one.
THEOREM CacheNoDuplicates == Spec => []NoDuplicates
<1>1. CacheInv => NoDuplicates
  BY DEF CacheInv, LevelInv, SetInv, NoDuplicates
<1> QED BY <1>1, CacheInvariant, PTL

\* Every block that stops being dirty was written to memory by that access and counted.
THEOREM CacheNoDirtyLost == Spec => NoDirtyLost
<1> DEFINE Step == running /\ running' =>
             Cardinality(DirtyBlocks \ DirtyBlocks') <= st'.dirty_writebacks - st.dirty_writebacks
<1>1. CacheInv /\ [Next]_vars => [Step]_vars
  <2> SUFFICES ASSUME CacheInv, Next PROVE Step
    OBVIOUS
  <2>1. CASE Call \/ Return
    BY <2>1, CallReturn
  <2>2. ASSUME NEW b \in Blocks, NEW wr \in BOOLEAN, HitL1(b, wr) PROVE Step
    <3>1. DirtyBlocks \ DirtyBlocks' = {}
      BY <2>2, HitKeeps
    <3>2. Cardinality(DirtyBlocks \ DirtyBlocks') = 0
      BY <3>1, FS_EmptySet
    <3>3. st.dirty_writebacks \in Nat /\ st'.dirty_writebacks = st.dirty_writebacks + 0
      BY <2>2 DEF CacheInv, HitL1, Counted
    <3> QED BY <3>2, <3>3
  <2>3. ASSUME NEW b \in Blocks, NEW wr \in BOOLEAN, MissL1(b, wr) PROVE Step
    BY <2>3, MissKeeps
  <2> QED BY <2>1, <2>2, <2>3 DEF Next
<1> QED BY <1>1, CacheInvariant, PTL DEF Spec, NoDirtyLost

\* Every write-back to memory uses up a dirty line: a write makes at most one, reads and
\* the moves between the levels make none.
THEOREM CacheNoNeedlessWriteback == Spec => NoNeedlessWriteback
<1>1. CacheInv /\ [Next]_vars => [running /\ running' => Thrifty]_vars
  <2> SUFFICES ASSUME CacheInv, Next PROVE running /\ running' => Thrifty
    OBVIOUS
  <2>1. CASE Call \/ Return
    BY <2>1, CallReturn
  <2>2. ASSUME NEW b \in Blocks, NEW wr \in BOOLEAN, HitL1(b, wr) \/ MissL1(b, wr) PROVE Thrifty
    BY <2>2, HitKeeps, MissKeeps
  <2> QED BY <2>1, <2>2 DEF Next
<1>2. (running /\ running' => Thrifty) =>
        (running /\ running' =>
           DirtyCount' + st'.dirty_writebacks - st.dirty_writebacks
             <= DirtyCount + st'.writes - st.writes)
  BY DEF Thrifty
<1> QED BY <1>1, <1>2, CacheInvariant, PTL DEF Spec, NoNeedlessWriteback

-----------------------------------------------------------------------------
(* The refinement.                                                         *)

\* The lists of the next state, and the reference's way of counting.
LEMMA SameWords ==
  /\ Lines(l1, L1S)' = Lines(l1', L1S)
  /\ Lines(l2, L2S)' = Lines(l2', L2S)
  /\ Reference!MayAccess <=> MayAccess
  /\ \A wr, hit1, hit2 \in BOOLEAN : \A n \in Nat :
       Reference!Counted(wr, hit1, hit2, n) = Counted(wr, hit1, hit2, n)
<1>1. Lines(l1, L1S)' = Lines(l1', L1S)
  BY DEF Lines
<1>2. Lines(l2, L2S)' = Lines(l2', L2S)
  BY DEF Lines
<1>3. Reference!MayAccess <=> MayAccess
  BY DEF Reference!MayAccess, MayAccess
<1>4. ASSUME NEW wr \in BOOLEAN, NEW hit1 \in BOOLEAN, NEW hit2 \in BOOLEAN, NEW n \in Nat
      PROVE  Reference!Counted(wr, hit1, hit2, n) = Counted(wr, hit1, hit2, n)
  BY DEF Reference!Counted, Counted, Reference!Number, Number
<1> QED BY <1>1, <1>2, <1>3, <1>4

\* The empty sets are empty lists.
LEMMA InitRefines == Init => Reference!Init
<1> SUFFICES ASSUME Init PROVE Reference!Init
  OBVIOUS
<1>1. \A s, n : LinesOf(EmptySet, s, n) = << >>
  <2> SUFFICES ASSUME NEW s, NEW n PROVE LinesOf(EmptySet, s, n) = << >>
    OBVIOUS
  <2>1. Cardinality(EmptySet.valid) = 0
    BY FS_EmptySet DEF EmptySet
  <2>2. LinesOf(EmptySet, s, n) = [i \in 1 .. 0 |-> LineOf(EmptySet, Order(EmptySet.lru)[i], s, n)]
    BY <2>1 DEF LinesOf
  <2>3. \A f : [i \in 1 .. 0 |-> f[i]] = << >>
    OBVIOUS
  <2> QED BY <2>2
<1>2. Lines(l1, L1S) = [s \in 0 .. L1S - 1 |-> << >>]
  BY <1>1 DEF Init, Lines
<1>3. Lines(l2, L2S) = [s \in 0 .. L2S - 1 |-> << >>]
  BY <1>1 DEF Init, Lines
<1> QED BY <1>2, <1>3 DEF Init, Reference!Init, NoStats, Reference!NoStats

\* A hit of the simulator is a hit of the reference.
LEMMA HitRefines ==
  ASSUME CacheInv, NEW b \in Blocks, NEW wr \in BOOLEAN, HitL1(b, wr)
  PROVE  Reference!Hit(b, wr)
<1> DEFINE s1 == b % L1S
           t1 == b \div L1S
           set == l1[s1]
           w1 == find_way(set, t1)
           lines == Lines(l1, L1S)
<1>1. LevelInv(l1, L1S) /\ L1S \in Nat \ {0} /\ b \in Nat
  BY CacheInvParts, GeometryAssumption, BlocksAssumption
<1>2. s1 \in 0 .. L1S - 1 /\ t1 \in Nat /\ IsBlock(b, t1, L1S, s1)
  BY <1>1, SetAndTag
<1>3. /\ l1' = [l1 EXCEPT ![s1] = Used(set, w1, wr)] /\ w1 >= 0 /\ MayAccess
      /\ st' = Counted(wr, TRUE, FALSE, 0) /\ running' = running /\ l2' = l2
  BY DEF HitL1
<1>4. Reference!Holds(lines[s1], b) <=> Matching(set, t1) # {}
  BY <1>1, LostIs
<1>5. Reference!Hit(b, wr) <=>
        /\ Reference!MayAccess /\ Reference!Holds(lines[s1], b)
        /\ Lines(l1, L1S)' = [lines EXCEPT ![s1] = Reference!Used(lines[s1], b, wr)]
        /\ st' = Reference!Counted(wr, TRUE, FALSE, 0)
        /\ running' = running /\ Lines(l2, L2S)' = Lines(l2, L2S)
  BY DEF Reference!Hit
<1> HIDE DEF s1, t1
<1>6. SetInv(set)
  BY <1>1, <1>2 DEF LevelInv
<1>7. w1 \in Matching(set, t1)
  BY <1>3, <1>6, FindWay DEF Matching
<1>8. /\ lines[s1] = LinesOf(set, s1, L1S)
      /\ \A x : Lines([l1 EXCEPT ![s1] = x], L1S) = [lines EXCEPT ![s1] = LinesOf(x, s1, L1S)]
  BY <1>1, <1>2, LevelLines
<1> HIDE DEF w1, set, lines
<1>9. LinesOf(Used(set, w1, wr), s1, L1S) = Reference!Used(LinesOf(set, s1, L1S), b, wr)
  BY <1>1, <1>2, <1>6, <1>7, HitLines
<1>10. Lines(l1', L1S) = [lines EXCEPT ![s1] = Reference!Used(lines[s1], b, wr)]
  BY <1>3, <1>8, <1>9
<1>11. Reference!Counted(wr, TRUE, FALSE, 0) = Counted(wr, TRUE, FALSE, 0)
  BY SameWords
<1> QED BY <1>3, <1>4, <1>5, <1>7, <1>10, <1>11, SameWords

\* A miss of the simulator is a miss of the reference.
LEMMA MissRefines ==
  ASSUME CacheInv, NEW b \in Blocks, NEW wr \in BOOLEAN, MissL1(b, wr)
  PROVE  Reference!Miss(b, wr)
<1> DEFINE s1 == b % L1S
           t1 == b \div L1S
           set == l1[s1]
           v1 == Victim(set)
           bv == set.tags[v1] * L1S + s1
           probed == Probed(b)
           wrote == WrittenBack(probed.sets, bv)
           lines == Lines(l1, L1S)
           lower == Lines(l2, L2S)
           hit == Reference!Holds(lower[b % L2S], b)
           line == Reference!Line(bv, TRUE)
<1>1. LevelInv(l1, L1S) /\ LevelInv(l2, L2S) /\ L1S \in Nat \ {0} /\ b \in Nat
  BY CacheInvParts, GeometryAssumption, BlocksAssumption
<1>2. s1 \in 0 .. L1S - 1 /\ t1 \in Nat /\ IsBlock(b, t1, L1S, s1)
  BY <1>1, SetAndTag
<1>3. /\ MayAccess /\ find_way(set, t1) < 0 /\ running' = running
      /\ l1' = [l1 EXCEPT ![s1] = Installed(set, Victim(set), t1, wr)]
      /\ DirtyVictim(set) =>
           /\ l2' = wrote.sets
           /\ st' = Counted(wr, FALSE, probed.hit, probed.writebacks + wrote.writebacks)
      /\ ~DirtyVictim(set) =>
           /\ l2' = probed.sets
           /\ st' = Counted(wr, FALSE, probed.hit, probed.writebacks + 0)
  BY DEF MissL1
<1>4. Reference!Holds(lines[s1], b) <=> Matching(set, t1) # {}
  BY <1>1, LostIs
<1>5. Reference!Miss(b, wr) <=>
        /\ Reference!MayAccess /\ ~Reference!Holds(lines[s1], b)
        /\ Lines(l1, L1S)' = [lines EXCEPT ![s1] = Reference!Filled(lines[s1], Reference!Line(b, wr))]
        /\ \/ /\ Reference!DirtyVictims(lines[s1]) = {}
              /\ Lines(l2, L2S)' = Reference!Probed(b)
              /\ st' = Reference!Counted(wr, FALSE, hit, Reference!Lost(lower, L2S, b))
           \/ \E victim \in Reference!DirtyVictims(lines[s1]) :
                /\ Lines(l2, L2S)' = Reference!WrittenBack(Reference!Probed(b), victim)
                /\ st' = Reference!Counted(wr, FALSE, hit,
                           Reference!Lost(lower, L2S, b)
                             + Reference!Lost(Reference!Probed(b), L2S, victim.block))
        /\ running' = running
  BY DEF Reference!Miss
<1> HIDE DEF s1, t1
<1>6. SetInv(set) /\ Matching(set, t1) = {}
  <2>1. SetInv(set)
    BY <1>1, <1>2 DEF LevelInv
  <2> QED BY <1>3, <2>1, FindWay
<1>7. /\ lines[s1] = LinesOf(set, s1, L1S)
      /\ \A x : Lines([l1 EXCEPT ![s1] = x], L1S) = [lines EXCEPT ![s1] = LinesOf(x, s1, L1S)]
  BY <1>1, <1>2, LevelLines
<1>8. bv \in Nat /\ bv = BlockOf(set, Victim(set), s1, L1S)
  <2>1. v1 \in Ways
    BY <1>6, VictimType
  <2>2. set.tags[v1] \in Nat
    BY <1>6, <2>1 DEF SetInv
  <2>3. bv \in Nat
    BY <1>1, <1>2, <2>2, SameBlock
  <2> QED BY <2>3 DEF BlockOf
<1> HIDE DEF v1, bv
<1>9. /\ DirtyVictim(set) => Reference!DirtyVictims(LinesOf(set, s1, L1S)) = {line}
      /\ ~DirtyVictim(set) => Reference!DirtyVictims(LinesOf(set, s1, L1S)) = {}
  BY <1>1, <1>2, <1>6, <1>8, DirtyVictimLines
<1>10. /\ Lines(probed.sets, L2S) = Reference!Probed(b) /\ probed.hit = hit
       /\ probed.writebacks = Reference!Lost(lower, L2S, b)
       /\ LevelInv(probed.sets, L2S) /\ probed.hit \in BOOLEAN /\ probed.writebacks \in Nat
  BY <1>1, ProbedLines, ProbedIs
<1> HIDE DEF probed, lower, hit
<1>11. /\ Lines(wrote.sets, L2S) = Reference!WrittenBack(Lines(probed.sets, L2S), line)
       /\ wrote.writebacks = Reference!Lost(Lines(probed.sets, L2S), L2S, bv)
       /\ wrote.writebacks \in Nat
  BY <1>8, <1>10, WrittenBackLines, WrittenBackIs
<1>12. LinesOf(Installed(set, Victim(set), t1, wr), s1, L1S)
         = Reference!Filled(LinesOf(set, s1, L1S), Reference!Line(b, wr))
  BY <1>1, <1>2, <1>6, InstallLines
<1>13. line.block = bv
  BY DEF Reference!Line
<1> HIDE DEF set, wrote, lines, line
<1>14. Lines(l1', L1S) = [lines EXCEPT ![s1] = Reference!Filled(lines[s1], Reference!Line(b, wr))]
  BY <1>3, <1>7, <1>12
<1>15. \A n \in Nat : Reference!Counted(wr, FALSE, probed.hit, n) = Counted(wr, FALSE, probed.hit, n)
  BY <1>10, SameWords
<1>16. CASE DirtyVictim(set)
  <2>1. Reference!DirtyVictims(lines[s1]) = {line}
    BY <1>7, <1>9, <1>16
  <2>2. Lines(l2', L2S) = Reference!WrittenBack(Reference!Probed(b), line)
    BY <1>3, <1>10, <1>11, <1>16
  <2>3. st' = Reference!Counted(wr, FALSE, hit, Reference!Lost(lower, L2S, b)
                + Reference!Lost(Reference!Probed(b), L2S, line.block))
    <3>1. probed.writebacks + wrote.writebacks \in Nat
      BY <1>10, <1>11
    <3>2. st' = Reference!Counted(wr, FALSE, probed.hit, probed.writebacks + wrote.writebacks)
      BY <1>3, <1>15, <1>16, <3>1
    <3> QED BY <1>10, <1>11, <1>13, <3>2
  <2> QED BY <1>3, <1>4, <1>5, <1>6, <1>14, <2>1, <2>2, <2>3, SameWords
<1>17. CASE ~DirtyVictim(set)
  <2>1. Reference!DirtyVictims(lines[s1]) = {}
    BY <1>7, <1>9, <1>17
  <2>2. Lines(l2', L2S) = Reference!Probed(b)
    BY <1>3, <1>10, <1>17
  <2>3. st' = Reference!Counted(wr, FALSE, hit, Reference!Lost(lower, L2S, b))
    <3>1. probed.writebacks + 0 = probed.writebacks
      BY <1>10
    <3>2. st' = Reference!Counted(wr, FALSE, probed.hit, probed.writebacks)
      BY <1>3, <1>10, <1>15, <1>17, <3>1
    <3> QED BY <1>10, <3>2
  <2> QED BY <1>3, <1>4, <1>5, <1>6, <1>14, <2>1, <2>2, <2>3, SameWords
<1> QED BY <1>16, <1>17

\* Every step of the simulator is a step of the reference, or changes nothing it shows.
LEMMA NextRefines == CacheInv /\ [Next]_vars => [Reference!Next]_Reference!hierarchyVars
<1> SUFFICES ASSUME CacheInv, [Next]_vars
             PROVE  Reference!Next \/ UNCHANGED Reference!hierarchyVars
  OBVIOUS
<1>1. CASE Call
  <2>1. Reference!Call
    BY <1>1, SameWords DEF Call, Reference!Call, NoStats, Reference!NoStats
  <2> QED BY <2>1 DEF Reference!Next
<1>2. CASE Return
  <2>1. Reference!Return
    BY <1>2, SameWords DEF Return, Reference!Return
  <2> QED BY <2>1 DEF Reference!Next
<1>3. ASSUME NEW b \in Blocks, NEW wr \in BOOLEAN, HitL1(b, wr) PROVE Reference!Next
  <2>1. Reference!Hit(b, wr)
    BY <1>3, HitRefines
  <2> QED BY <2>1 DEF Reference!Next
<1>4. ASSUME NEW b \in Blocks, NEW wr \in BOOLEAN, MissL1(b, wr) PROVE Reference!Next
  <2>1. Reference!Miss(b, wr)
    BY <1>4, MissRefines
  <2> QED BY <2>1 DEF Reference!Next
<1>5. CASE UNCHANGED vars
  BY <1>5, SameWords DEF vars, Reference!hierarchyVars
<1> QED BY <1>1, <1>2, <1>3, <1>4, <1>5 DEF Next

\* The simulator implements the reference hierarchy: whatever the ways, sets, blocks and
\* trace, its seven counters are those of lists in LRU order.
THEOREM CacheImplementsReference == Spec => ImplementsReference
<1> QED BY InitRefines, NextRefines, CacheInvariant, PTL DEF Spec, ImplementsReference, Reference!Spec
=============================================================================
