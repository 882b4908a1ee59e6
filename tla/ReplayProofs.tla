---------------------------- MODULE ReplayProofs ----------------------------
(***************************************************************************)
(* What holds of the week-1 program for every file, number of slots,       *)
(* window, histogram and set of latencies: the loader's names, the         *)
(* strategy's slots and positions, the histogram's percentiles and the     *)
(* engine's counts; that it trades as specified where nothing is rounded;  *)
(* and how far rounding can take the sums and the positions elsewhere.     *)
(* A view of a short name is followed from one buffer of the vector to the *)
(* next; what needs it to be the same in all of them is proved for names   *)
(* too long for a string's own buffer (replay_interned shows that it fails *)
(* for others).                                                            *)
(***************************************************************************)
EXTENDS Replay, RoundingProofs, SequenceTheorems

-----------------------------------------------------------------------------
(* The histogram.                                                          *)

\* A bucket is one of the buckets, and those up to i are for the latencies below 2^(i+1).
LEMMA BucketOfIs ==
  ASSUME NEW ns \in Nat
  PROVE  /\ BucketOf(ns) \in 0 .. N - 1
         /\ \A i \in 0 .. N - 2 : BucketOf(ns) <= i <=> ns < 2 ^ (i + 1)
<1>1. N \in Nat \ {0}
  BY HistogramAssumption
<1> DEFINE small == {i \in 0 .. N - 1 : 2 ^ i <= ns}
<1>2. \A i \in Nat : 2 ^ i \in Nat
  BY PowType
<1>3. 2 ^ 0 = 1
  BY PowZero
<1>4. CASE ns = 0
  <2>1. BucketOf(ns) = 0
    BY <1>4 DEF BucketOf
  <2>2. ASSUME NEW i \in 0 .. N - 2 PROVE ns < 2 ^ (i + 1)
    <3>1. i + 1 \in Nat /\ 0 \in Nat /\ 0 <= i + 1
      BY <1>1
    <3>2. 2 ^ 0 <= 2 ^ (i + 1)
      BY <3>1, PowMonotone
    <3>3. 2 ^ (i + 1) \in Nat
      BY <3>1, <1>2
    <3> QED BY <1>3, <1>4, <3>2, <3>3
  <2> QED BY <1>1, <2>1, <2>2
<1>5. CASE ns # 0
  <2> DEFINE b == BucketOf(ns)
  <2>1. b = Max(small)
    BY <1>5 DEF BucketOf
  <2>2. small \in SUBSET Int /\ 0 \in small /\ small \subseteq 0 .. N - 1
    BY <1>1, <1>3, <1>5
  <2>3. IsFiniteSet(small)
    <3>1. IsFiniteSet(0 .. N - 1)
      BY <1>1, FS_Interval
    <3> QED BY <2>2, <3>1, FS_Subset
  <2> HIDE DEF small, b
  <2>4. b \in small /\ \A y \in small : b >= y
    BY <2>1, <2>2, <2>3, Extremes
  <2>5. b \in 0 .. N - 1 /\ 2 ^ b <= ns
    BY <2>4 DEF small
  <2>6. ASSUME NEW i \in 0 .. N - 2 PROVE b <= i <=> ns < 2 ^ (i + 1)
    <3>1. i + 1 \in 0 .. N - 1 /\ i + 1 \in Nat /\ b \in Nat /\ i \in Nat
      BY <1>1, <2>5
    <3>2. 2 ^ (i + 1) \in Nat /\ 2 ^ b \in Nat
      BY <1>2, <3>1
    <3>3. b <= i => ns < 2 ^ (i + 1)
      <4>1. b <= i => i + 1 \notin small
        BY <2>4, <2>5, <3>1
      <4>2. i + 1 \notin small => ~ (2 ^ (i + 1) <= ns)
        BY <3>1 DEF small
      <4> QED BY <3>2, <4>1, <4>2
    <3>4. i + 1 <= b => 2 ^ (i + 1) <= 2 ^ b
      BY <3>1, PowMonotone
    <3>5. ~ (b <= i) => ~ (ns < 2 ^ (i + 1))
      BY <2>5, <3>1, <3>2, <3>4
    <3> QED BY <3>3, <3>5
  <2> QED BY <2>5, <2>6 DEF b
<1> QED BY <1>4, <1>5

Counted(f, z) == [f EXCEPT ![z] = @ + 1]

\* One more at one place of a table of counts makes a sum over places larger by one when
\* the place is among them.
LEMMA SumCounted ==
  ASSUME NEW S, NEW T, IsFiniteSet(T), T \subseteq S, NEW f \in [S -> Nat], NEW z \in S
  PROVE  /\ SumOver(f, T) \in Nat
         /\ SumOver(Counted(f, z), T) = SumOver(f, T) + (IF z \in T THEN 1 ELSE 0)
<1> DEFINE e == Counted(f, z)
<1>1. /\ \A x \in T : f[x] \in Nat /\ f[x] \in Int
      /\ \A x \in T : x # z => e[x] = f[x]
      /\ e[z] = f[z] + 1 /\ f[z] \in Nat /\ e[z] \in Int
  BY DEF Counted
<1> HIDE DEF e
<1>2. SumOver(f, T) \in Nat
  BY <1>1, SumNat
<1>3. CASE z \in T
  <2>1. SumOver(e, T) = SumOver(f, T) + e[z] - f[z]
    BY <1>1, <1>3, SumExcept
  <2>2. SumOver(e, T) = SumOver(f, T) + 1
    BY <1>1, <1>2, <2>1
  <2> QED BY <1>2, <1>3, <2>2 DEF e
<1>4. CASE z \notin T
  <2>1. \A x \in T : e[x] = f[x]
    BY <1>1, <1>4
  <2>2. SumOver(e, T) = SumOver(f, T)
    BY <2>1, SumSame
  <2> QED BY <1>2, <1>4, <2>2 DEF e
<1> QED BY <1>3, <1>4

\* Before the first latency the counts are all 0.
LEMMA HistogramInitially ==
  ASSUME HistogramInit
  PROVE  HistogramInv
<1>1. N \in Nat \ {0} /\ Latencies \subseteq Nat
  BY HistogramAssumption
<1>2. /\ buckets_ \in [0 .. N - 1 -> Nat] /\ count_ \in Nat /\ samples \in [Latencies -> Nat]
      /\ \A i \in 0 .. N - 1 : buckets_[i] = 0
      /\ \A ns \in Latencies : samples[ns] = 0
  BY DEF HistogramInit
<1>3. ASSUME NEW i \in 0 .. N - 2 PROVE Cumulative(i) = Below(2 ^ (i + 1))
  <2> DEFINE low == 0 .. i
             bound == 2 ^ (i + 1)
             short == {ns \in Latencies : ns < bound}
  <2>1. low \subseteq 0 .. N - 1 /\ i + 1 \in Nat
    BY <1>1
  <2>2. bound \in Nat
    BY <2>1, PowType
  <2> HIDE DEF bound
  <2>3. IsFiniteSet(low) /\ IsFiniteSet(0 .. bound - 1)
    BY <2>2, FS_Interval
  <2>4. short \subseteq 0 .. bound - 1 /\ short \subseteq Latencies
    <3>1. ASSUME NEW x \in short PROVE x \in 0 .. bound - 1
      <4>1. x \in Nat /\ x < bound
        BY <1>1
      <4> QED BY <2>2, <4>1
    <3> QED BY <3>1
  <2>5. IsFiniteSet(short)
    BY <2>3, <2>4, FS_Subset
  <2>6. (\A x \in low : buckets_[x] = 0) /\ (\A x \in short : samples[x] = 0)
    BY <1>2, <2>1, <2>4
  <2>7. Cumulative(i) = SumOver(buckets_, low) /\ Below(bound) = SumOver(samples, short)
    BY DEF Cumulative, Below, SumOver
  <2> HIDE DEF low, short
  <2>8. SumOver(buckets_, low) = 0
    BY <2>3, <2>6, SumZero
  <2>9. SumOver(samples, short) = 0
    BY <2>5, <2>6, SumZero
  <2> QED BY <2>7, <2>8, <2>9 DEF bound
<1> QED BY <1>2, <1>3 DEF HistogramInv

\* record() counts a latency in the bucket it is below the end of.
LEMMA RecordKeeps ==
  ASSUME HistogramInv, NEW ns \in Latencies, Record(ns)
  PROVE  HistogramInv'
<1>1. N \in Nat \ {0} /\ Latencies \subseteq Nat /\ ns \in Nat
  BY HistogramAssumption
<1>2. /\ buckets_ \in [0 .. N - 1 -> Nat] /\ count_ \in Nat /\ samples \in [Latencies -> Nat]
      /\ \A i \in 0 .. N - 2 : Cumulative(i) = Below(2 ^ (i + 1))
  BY DEF HistogramInv
<1> DEFINE b == BucketOf(ns)
<1>3. b \in 0 .. N - 1 /\ \A i \in 0 .. N - 2 : b <= i <=> ns < 2 ^ (i + 1)
  BY <1>1, BucketOfIs
<1>4. /\ buckets_' = [buckets_ EXCEPT ![b] = @ + 1]
      /\ count_' = count_ + 1
      /\ samples' = [samples EXCEPT ![ns] = @ + 1]
      /\ buckets_' = Counted(buckets_, b) /\ samples' = Counted(samples, ns)
  BY DEF Record, Counted
<1> HIDE DEF b
<1>5. /\ buckets_' \in [0 .. N - 1 -> Nat] /\ count_' \in Nat /\ samples' \in [Latencies -> Nat]
  BY <1>2, <1>3, <1>4
<1>6. ASSUME NEW i \in 0 .. N - 2 PROVE Cumulative(i)' = Below(2 ^ (i + 1))'
  <2> DEFINE low == 0 .. i
             bound == 2 ^ (i + 1)
             short == {x \in Latencies : x < bound}
  <2>1. low \subseteq 0 .. N - 1 /\ i + 1 \in Nat /\ (b \in low <=> b <= i)
    BY <1>1, <1>3
  <2>2. bound \in Nat
    BY <2>1, PowType
  <2>0. Cumulative(i) = Below(bound) /\ (b <= i <=> ns < bound)
    BY <1>2, <1>3
  <2> HIDE DEF bound
  <2>3. IsFiniteSet(low) /\ IsFiniteSet(0 .. bound - 1)
    BY <2>2, FS_Interval
  <2>4. short \subseteq 0 .. bound - 1 /\ short \subseteq Latencies /\ (ns \in short <=> ns < bound)
    <3>1. ASSUME NEW x \in short PROVE x \in 0 .. bound - 1
      <4>1. x \in Nat /\ x < bound
        BY <1>1
      <4> QED BY <2>2, <4>1
    <3> QED BY <3>1
  <2>5. IsFiniteSet(short)
    BY <2>3, <2>4, FS_Subset
  <2>6. /\ Cumulative(i) = SumOver(buckets_, low) /\ Below(bound) = SumOver(samples, short)
        /\ Cumulative(i)' = SumOver(buckets_', low) /\ Below(bound)' = SumOver(samples', short)
    <3>1. Cumulative(i) = SumOver(buckets_, low) /\ Below(bound) = SumOver(samples, short)
      BY DEF Cumulative, Below, SumOver
    <3>2. Cumulative(i)' = SumOver(buckets_', low)
      BY DEF Cumulative, SumOver, MapThenSumSet, MapThenFoldSet
    <3>3. Below(bound)' = SumOver(samples', short)
      BY DEF Below, SumOver, MapThenSumSet, MapThenFoldSet
    <3> QED BY <3>1, <3>2, <3>3
  <2> HIDE DEF low, short
  <2>7. SumOver(buckets_', low) = SumOver(buckets_, low) + (IF b \in low THEN 1 ELSE 0)
    <3> DEFINE all == 0 .. N - 1
    <3>1. low \subseteq all /\ IsFiniteSet(low) /\ buckets_ \in [all -> Nat] /\ b \in all
      BY <1>2, <1>3, <2>1, <2>3
    <3> HIDE DEF all
    <3>2. SumOver(Counted(buckets_, b), low) = SumOver(buckets_, low) + (IF b \in low THEN 1 ELSE 0)
      BY <3>1, SumCounted
    <3> QED BY <1>4, <3>2
  <2>8. SumOver(samples', short) = SumOver(samples, short) + (IF ns \in short THEN 1 ELSE 0)
    <3>0. short \subseteq Latencies /\ IsFiniteSet(short) /\ samples \in [Latencies -> Nat] /\ ns \in Latencies
      BY <1>2, <2>4, <2>5
    <3>1. SumOver(Counted(samples, ns), short) = SumOver(samples, short) + (IF ns \in short THEN 1 ELSE 0)
      BY <3>0, SumCounted
    <3> QED BY <1>4, <3>1
  <2>9. Cumulative(i)' = Below(bound)'
    BY <2>0, <2>1, <2>4, <2>6, <2>7, <2>8
  <2> QED BY <2>9 DEF bound
<1> QED BY <1>5, <1>6 DEF HistogramInv

\* Steps that record nothing.
LEMMA HistogramUnchanged ==
  ASSUME HistogramInv, UNCHANGED histogramVars
  PROVE  HistogramInv'
<1>0. UNCHANGED <<buckets_, count_, samples>>
  BY DEF histogramVars
<1>1. ASSUME NEW i PROVE Cumulative(i)' = Cumulative(i)
  BY <1>0 DEF Cumulative, MapThenSumSet, MapThenFoldSet
<1>2. ASSUME NEW b PROVE Below(b)' = Below(b)
  BY <1>0 DEF Below, MapThenSumSet, MapThenFoldSet
<1> QED BY <1>0, <1>1, <1>2 DEF HistogramInv

\* The rank is the share q of the count, truncated, but at least 1.
LEMMA TargetIs ==
  ASSUME count_ \in Nat, NEW q \in Quantiles, NEW b \in Int
  PROVE  /\ Target(q) \in Int
         /\ b >= Target(q) => b > 0 /\ 1000 * (b + 1) > count_ * q
         /\ b < Target(q) /\ b > 0 => 1000 * (b + 1) <= count_ * q
<1>1. q \in Nat
  BY HistogramAssumption
<1>2. count_ * q \in Nat
  BY <1>1
<1> DEFINE share == count_ * q
           rank == share \div 1000
<1>3. Target(q) = IF rank = 0 THEN 1 ELSE rank
  BY DEF Target
<1>4. share \in Nat
  BY <1>2
<1> HIDE DEF share
<1>5. rank \in Nat /\ 1000 * rank <= share /\ share < 1000 * rank + 1000
  BY <1>4
<1> HIDE DEF rank
<1> QED BY <1>3, <1>4, <1>5 DEF share

\* A percentile is the end of the first bucket up to which the counts reach the rank: by
\* the invariant, the samples below it do, and those below half of it do not.
LEMMA PercentilesBounded ==
  ASSUME HistogramInv
  PROVE  PercentileBounds
<1> SUFFICES ASSUME count_ > 0, NEW q \in Quantiles
             PROVE  LET p == Percentile(q)
                    IN  /\ p < 2 ^ N => Below(p) > 0 /\ 1000 * (Below(p) + 1) > count_ * q
                        /\ p > 2 /\ Below(p \div 2) > 0 =>
                             1000 * (Below(p \div 2) + 1) <= count_ * q
  BY DEF PercentileBounds
<1>1. N \in Nat \ {0} /\ count_ \in Nat /\ count_ # 0
      /\ \A i \in 0 .. N - 2 : Cumulative(i) = Below(2 ^ (i + 1))
  BY HistogramAssumption DEF HistogramInv
<1> DEFINE reached == {i \in 0 .. N - 1 : Cumulative(i) >= Target(q)}
           r == IF reached = {} THEN N ELSE Min(reached) + 1
           p == 2 ^ r
<1>2. Percentile(q) = p
  BY <1>1 DEF Percentile
<1>3. IsFiniteSet(reached) /\ reached \in SUBSET Int
  <2>1. IsFiniteSet(0 .. N - 1)
    BY <1>1, FS_Interval
  <2>2. reached \subseteq 0 .. N - 1
    OBVIOUS
  <2>3. reached \in SUBSET Int
    OBVIOUS
  <2> HIDE DEF reached
  <2> QED BY <2>1, <2>2, <2>3, FS_Subset
<1>4. /\ r \in 1 .. N
      /\ r < N => r - 1 \in reached
      /\ \A i \in 0 .. N - 1 : i < r - 1 => i \notin reached
  <2>1. CASE reached = {}
    BY <1>1, <2>1
  <2>2. CASE reached # {}
    <3> DEFINE m == Min(reached)
    <3>1. m \in reached /\ \A y \in reached : m <= y
      BY <1>3, <2>2, Extremes
    <3>2. m \in 0 .. N - 1 /\ r = m + 1
      BY <2>2, <3>1
    <3> HIDE DEF m, reached, r
    <3>3. r - 1 = m /\ r \in 1 .. N
      BY <1>1, <3>2
    <3>4. ASSUME NEW i \in 0 .. N - 1, i < r - 1 PROVE i \notin reached
      BY <3>1, <3>2, <3>3, <3>4
    <3> QED BY <3>1, <3>3, <3>4
  <2> QED BY <2>1, <2>2
<1> HIDE DEF r
<1>5. Target(q) \in Int /\ \A i \in 0 .. N - 2 : Cumulative(i) \in Int
  <2>4. Target(q) \in Int
    BY <1>1, TargetIs
  <2>5. ASSUME NEW i \in 0 .. N - 2 PROVE Cumulative(i) \in Int
    <3> DEFINE low == 0 .. i
    <3>0. IsFiniteSet(0 .. i)
      BY FS_Interval
    <3>1. IsFiniteSet(low) /\ (\A x \in low : buckets_[x] \in Nat)
      BY <1>1, <3>0 DEF HistogramInv
    <3>2. Cumulative(i) = SumOver(buckets_, low)
      BY DEF Cumulative, SumOver
    <3> HIDE DEF low
    <3>3. SumOver(buckets_, low) \in Nat
      BY <3>1, SumNat
    <3> QED BY <3>2, <3>3
  <2> QED BY <2>4, <2>5
<1>6. p < 2 ^ N => Below(p) \in Int /\ Below(p) >= Target(q)
  <2>1. CASE r = N
    <3>1. p \in Nat /\ p = 2 ^ N
      BY <2>1, <1>1, PowType
    <3> HIDE DEF p
    <3> QED BY <3>1
  <2>2. CASE r < N
    <3> DEFINE j == r - 1
    <3>1. j \in 0 .. N - 2 /\ j \in reached /\ j + 1 = r
      BY <1>1, <1>4, <2>2
    <3> HIDE DEF j
    <3>2. Cumulative(j) = Below(2 ^ (j + 1)) /\ Cumulative(j) >= Target(q) /\ Cumulative(j) \in Int
      BY <1>1, <1>5, <3>1
    <3> QED BY <3>1, <3>2
  <2> QED BY <1>1, <1>4, <2>1, <2>2
<1>7. p > 2 => Below(p \div 2) \in Int /\ Below(p \div 2) < Target(q)
  <2>1. CASE r = 1
    <3> DEFINE z == 0
    <3>1. z \in Nat /\ z + 1 = r
      BY <2>1
    <3> HIDE DEF z
    <3>2. 2 ^ (z + 1) = 2 * 2 ^ z
      BY <3>1, PowNext
    <3>3. 2 ^ z = 1
      BY PowZero DEF z
    <3>4. p = 2
      BY <3>1, <3>2, <3>3
    <3> HIDE DEF p
    <3> QED BY <3>4
  <2>2. CASE r > 1
    <3> DEFINE j == r - 2
               h == 2 ^ (j + 1)
    <3>1. j \in 0 .. N - 2 /\ j + 1 \in Nat /\ (j + 1) + 1 = r /\ j \in 0 .. N - 1 /\ j < r - 1
      BY <1>1, <1>4, <2>2
    <3> HIDE DEF j
    <3>2. 2 ^ ((j + 1) + 1) = 2 * h /\ h \in Nat
      BY <3>1, PowNext, PowType
    <3>3. p = 2 * h
      BY <3>1, <3>2
    <3>4. Cumulative(j) = Below(h) /\ Cumulative(j) \in Int
      BY <1>1, <1>5, <3>1
    <3>5. j \notin reached
      BY <1>4, <3>1
    <3>6. Cumulative(j) < Target(q)
      BY <1>5, <3>1, <3>4, <3>5
    <3> HIDE DEF p, h
    <3>7. p \div 2 = h
      BY <3>2, <3>3
    <3> QED BY <3>4, <3>6, <3>7
  <2> QED BY <1>4, <2>1, <2>2
<1> HIDE DEF p, reached
<1> QED BY <1>1, <1>2, <1>6, <1>7, TargetIs

-----------------------------------------------------------------------------
(* The loader.                                                             *)

TickType == [symbol : Views, bid : Int, ask : Int]

\* The rows are one of the files.
LEMMA FileIs ==
  ASSUME LoaderInv
  PROVE  file \in Seq(Rows)
<1>1. file \in Files \/ file = <<>>
  BY DEF LoaderInv
<1>2. file \in Files => file \in Seq(Rows)
  BY FilesAssumption
<1>3. <<>> \in Seq(Rows)
  OBVIOUS
<1> QED BY <1>1, <1>2, <1>3

\* The row about to be read is one of a file's.
LEMMA RowIs ==
  ASSUME LoaderInv, Len(ticks) < Len(file)
  PROVE  /\ file \in Seq(Rows) /\ Len(ticks) \in Nat /\ Len(file) \in Nat
         /\ Row \in Rows /\ Len(ticks) + 1 \in 1 .. Len(file)
<1>1. ticks \in Seq(TickType)
  BY DEF LoaderInv, TickType
<1>2. file \in Seq(Rows)
  BY FileIs
<1>3. Len(ticks) \in Nat /\ Len(file) \in Nat
  BY <1>1, <1>2
<1>4. Len(ticks) + 1 \in 1 .. Len(file)
  BY <1>3
<1> QED BY <1>2, <1>3, <1>4 DEF Row

\* Whatever the buffer and the map have become, the tick of the row is appended with the
\* view its name has now, and the earlier ticks keep theirs.
LEMMA ConvertedKeeps ==
  ASSUME LoaderInv, status = "loading", Len(ticks) < Len(file), UNCHANGED file,
         NamesInv', buffer' \in [base : Nat, capacity : Nat],
         \A n \in DOMAIN symbol_map : n \in DOMAIN symbol_map' /\ symbol_map'[n] = symbol_map[n],
         Row.symbol \in DOMAIN symbol_map',
         Converted(symbol_storage_', buffer', symbol_map'[Row.symbol])
  PROVE  LoaderInv'
<1>1. /\ file \in Files \cup {<<>>} /\ NamesInv
      /\ ticks \in Seq(TickType) /\ \A i \in 1 .. Len(ticks) : TickOf(i)
  BY DEF LoaderInv, TickType
<1>2. /\ file \in Seq(Rows) /\ Len(ticks) \in Nat /\ Len(file) \in Nat
      /\ Row \in Rows /\ Len(ticks) + 1 \in 1 .. Len(file)
  BY RowIs
<1>3. CASE Row.bid = Malformed
  <2>1. status' = "rejected" /\ UNCHANGED ticks
    BY <1>3 DEF Converted
  <2>2. ASSUME NEW i \in 1 .. Len(ticks)' PROVE TickOf(i)'
    BY <1>1, <2>1 DEF TickOf
  <2> QED BY <1>1, <1>2, <2>1, <2>2 DEF LoaderInv, TickType
<1>4. CASE Row.bid # Malformed
  <2> DEFINE idx == symbol_map'[Row.symbol]
             t == [symbol |-> ViewOf(symbol_storage_', buffer', idx), bid |-> Row.bid, ask |-> Row.ask]
  <2>1. status' = "loading" /\ ticks' = Append(ticks, t)
    BY <1>4 DEF Converted
  <2>2. idx \in Nat /\ symbol_storage_'[idx] = Row.symbol
    BY DEF NamesInv
  <2>3. /\ Row.symbol \in ShortNames => t.symbol = <<"buffer", buffer'.base + idx>>
        /\ Row.symbol \notin ShortNames => t.symbol = <<"heap", idx>>
    BY <2>2 DEF ViewOf
  <2>4. buffer'.base \in Nat
    OBVIOUS
  <2>5. t.symbol \in Views
    BY <2>2, <2>3, <2>4 DEF Views
  <2>6. t.bid = Row.bid /\ t.ask = Row.ask /\ Row.bid \in Int /\ Row.ask \in Int
    BY <1>2, <1>4 DEF Rows
  <2>7. t \in TickType
    BY <2>5, <2>6 DEF TickType
  <2> HIDE DEF t, idx
  <2>8. /\ ticks' \in Seq(TickType) /\ Len(ticks') = Len(ticks) + 1
        /\ \A i \in 1 .. Len(ticks) : ticks'[i] = ticks[i]
        /\ ticks'[Len(ticks) + 1] = t
    BY <1>1, <2>1, <2>7
  <2>9. ASSUME NEW i \in 1 .. Len(ticks') PROVE TickOf(i)'
    <3>1. CASE i \in 1 .. Len(ticks)
      BY <1>1, <2>8, <3>1 DEF TickOf
    <3>2. CASE i = Len(ticks) + 1
      <4>1. ticks'[i] = t /\ file'[i] = Row
        BY <2>8, <3>2 DEF Row
      <4>2. t.symbol[1] = "buffer" \/ Row.symbol \notin ShortNames
        BY <2>3
      <4>3. Row.symbol \notin ShortNames => t.symbol = <<"heap", symbol_map'[Row.symbol]>>
        BY <2>3 DEF idx
      <4> QED BY <4>1, <4>2, <4>3, <2>5, <2>6 DEF TickOf
    <3> QED BY <1>2, <2>8, <3>1, <3>2
  <2> QED BY <1>1, <1>2, <2>1, <2>8, <2>9 DEF LoaderInv, TickType
<1> QED BY <1>3, <1>4

\* A new name is stored behind the others, where the map says.
LEMMA NewNameKeeps ==
  ASSUME LoaderInv, LoadNew
  PROVE  /\ NamesInv' /\ buffer' \in [base : Nat, capacity : Nat]
         /\ \A n \in DOMAIN symbol_map : n \in DOMAIN symbol_map' /\ symbol_map'[n] = symbol_map[n]
         /\ Row.symbol \in DOMAIN symbol_map'
         /\ symbol_map'[Row.symbol] = Len(symbol_storage_')
<1> DEFINE name == Row.symbol
           len == Len(symbol_storage_)
<1>1. /\ name \notin DOMAIN symbol_map
      /\ symbol_storage_' = Append(symbol_storage_, name)
      /\ buffer' \in Grown
      /\ symbol_map' = [n \in DOMAIN symbol_map \cup {name} |->
                          IF n = name THEN Len(symbol_storage_') ELSE symbol_map[n]]
      /\ Len(ticks) < Len(file)
  BY DEF LoadNew
<1>2. Row \in Rows
  BY <1>1, RowIs
<1>3. name \in Symbols
  BY <1>2 DEF Rows
<1>4. /\ symbol_storage_ \in Seq(Symbols)
      /\ \A n \in DOMAIN symbol_map : /\ symbol_map[n] \in 1 .. len
                                     /\ symbol_storage_[symbol_map[n]] = n
      /\ \A i \in 1 .. len : /\ symbol_storage_[i] \in DOMAIN symbol_map
                            /\ symbol_map[symbol_storage_[i]] = i
      /\ buffer \in [base : Nat, capacity : Nat]
  BY DEF LoaderInv, NamesInv
<1> HIDE DEF name
<1>5. /\ symbol_storage_' \in Seq(Symbols) /\ Len(symbol_storage_') = len + 1 /\ len \in Nat
      /\ \A i \in 1 .. len : symbol_storage_'[i] = symbol_storage_[i]
      /\ symbol_storage_'[len + 1] = name
  BY <1>1, <1>3, <1>4
<1> HIDE DEF len
<1>6. /\ DOMAIN symbol_map' = DOMAIN symbol_map \cup {name} /\ symbol_map'[name] = len + 1
      /\ \A n \in DOMAIN symbol_map : symbol_map'[n] = symbol_map[n]
  BY <1>1, <1>5
<1>7. ASSUME NEW n \in DOMAIN symbol_map'
      PROVE  symbol_map'[n] \in 1 .. len + 1 /\ symbol_storage_'[symbol_map'[n]] = n
  <2>1. CASE n = name
    BY <1>5, <1>6, <2>1
  <2>2. CASE n # name
    <3>1. n \in DOMAIN symbol_map /\ symbol_map'[n] = symbol_map[n] /\ symbol_map[n] \in 1 .. len
      BY <1>4, <1>6, <2>2
    <3> QED BY <1>4, <1>5, <3>1
  <2> QED BY <2>1, <2>2
<1>8. ASSUME NEW i \in 1 .. len + 1
      PROVE  symbol_storage_'[i] \in DOMAIN symbol_map' /\ symbol_map'[symbol_storage_'[i]] = i
  <2>1. CASE i = len + 1
    BY <1>5, <1>6, <2>1
  <2>2. CASE i # len + 1
    <3>1. i \in 1 .. len
      BY <1>5, <2>2
    <3> QED BY <1>4, <1>5, <1>6, <3>1
  <2> QED BY <2>1, <2>2
<1>9. NamesInv'
  BY <1>5, <1>7, <1>8 DEF NamesInv
<1>10. buffer' \in [base : Nat, capacity : Nat]
  <2>1. CASE Len(symbol_storage_) < buffer.capacity
    BY <1>1, <1>4, <2>1 DEF Grown
  <2>2. CASE ~ (Len(symbol_storage_) < buffer.capacity)
    <3> DEFINE wanted == IF buffer.capacity = 0 THEN 1 ELSE 2 * buffer.capacity
    <3>1. wanted \in Nat
      BY <1>4
    <3>2. buffer' \in [base : Bases, capacity : {wanted}]
      BY <1>1, <2>2 DEF Grown
    <3> HIDE DEF wanted
    <3> QED BY <3>1, <3>2, MemoryAssumption
  <2> QED BY <2>1, <2>2
<1> QED BY <1>5, <1>6, <1>9, <1>10 DEF name

\* Every step of the loader keeps its invariant.
LEMMA LoadKeeps ==
  ASSUME LoaderInv, Load
  PROVE  LoaderInv'
<1>1. CASE OpenFails
  BY <1>1 DEF LoaderInv, OpenFails, loaderVars, NamesInv, TickOf
<1>2. ASSUME NEW f \in Files, Open(f) PROVE LoaderInv'
  <2>1. /\ ticks = <<>> /\ ticks' = <<>> /\ file' = f /\ status' = "loading"
        /\ UNCHANGED <<symbol_storage_, buffer, symbol_map>>
    BY <1>2 DEF Open, LoaderInv
  <2>2. NamesInv'
    BY <2>1 DEF LoaderInv, NamesInv
  <2>3. f \in Seq(Rows) /\ Len(ticks') = 0 /\ Len(f) \in Nat
    BY <2>1, FilesAssumption
  <2> QED BY <2>1, <2>2, <2>3 DEF LoaderInv
<1>3. CASE LoadKnown
  <2>1. /\ Row.symbol \in DOMAIN symbol_map
        /\ UNCHANGED <<file, symbol_storage_, buffer, symbol_map>>
        /\ status = "loading" /\ Len(ticks) < Len(file)
        /\ Converted(symbol_storage_', buffer', symbol_map'[Row.symbol])
    BY <1>3 DEF LoadKnown
  <2>2. NamesInv' /\ buffer' \in [base : Nat, capacity : Nat]
    BY <2>1 DEF LoaderInv, NamesInv
  <2> QED BY <2>1, <2>2, ConvertedKeeps
<1>4. CASE LoadNew
  <2>1. status = "loading" /\ Len(ticks) < Len(file) /\ UNCHANGED file
        /\ Converted(symbol_storage_', buffer', Len(symbol_storage_'))
    BY <1>4 DEF LoadNew
  <2> QED BY <1>4, <2>1, NewNameKeeps, ConvertedKeeps
<1>5. CASE LoadDone
  BY <1>5 DEF LoaderInv, LoadDone, loaderVars, NamesInv, TickOf
<1> QED BY <1>1, <1>2, <1>3, <1>4, <1>5 DEF Load

-----------------------------------------------------------------------------
(* Addresses.                                                              *)

\* What a sequence of n values yields is at most n values.
LEMMA ImageBound ==
  ASSUME NEW n \in Nat, NEW f
  PROVE  /\ IsFiniteSet({f[i] : i \in 1 .. n})
         /\ Cardinality({f[i] : i \in 1 .. n}) \in Nat
         /\ Cardinality({f[i] : i \in 1 .. n}) <= n
<1> DEFINE S == 1 .. n
           T == {f[i] : i \in S}
           g == [i \in S |-> f[i]]
<1>1. IsFiniteSet(S) /\ Cardinality(S) = n
  BY FS_Interval
<1>2. g \in [S -> T] /\ \A y \in T : \E x \in S : g[x] = y
  OBVIOUS
<1> HIDE DEF S, T, g
<1>3. g \in Surjection(S, T)
  BY <1>2 DEF Surjection
<1>4. IsFiniteSet(T) /\ Cardinality(T) <= Cardinality(S)
  BY <1>1, <1>3, FS_Surjection
<1>5. Cardinality(T) \in Nat
  BY <1>4, FS_CardinalityType
<1> QED BY <1>1, <1>4, <1>5 DEF S, T

\* Some ticks' views are finitely many.
LEMMA ViewsFinite ==
  ASSUME LoaderInv, NEW K \in SUBSET DOMAIN ticks
  PROVE  /\ IsFiniteSet({ticks[i].symbol : i \in K})
         /\ Cardinality({ticks[i].symbol : i \in K}) \in Nat
<1> DEFINE f == [i \in K |-> ticks[i].symbol]
           T == {f[i] : i \in K}
<1>1. ticks \in Seq(TickType) /\ DOMAIN ticks = 1 .. Len(ticks) /\ Len(ticks) \in Nat
  BY DEF LoaderInv, TickType
<1>2. IsFiniteSet(1 .. Len(ticks))
  BY <1>1, FS_Interval
<1>3. IsFiniteSet(K)
  BY <1>1, <1>2, FS_Subset
<1>4. {ticks[i].symbol : i \in K} = T
  OBVIOUS
<1> HIDE DEF f
<1>5. IsFiniteSet(T)
  BY <1>3, FiniteImage
<1>6. Cardinality(T) \in Nat
  BY <1>5, FS_CardinalityType
<1> QED BY <1>4, <1>5, <1>6

\* The names of the ticks are in the map, whose indices are those of the vector.
LEMMA TickNames ==
  ASSUME LoaderInv, NEW i \in DOMAIN ticks
  PROVE  /\ i \in 1 .. Len(ticks) /\ Len(ticks) \in Nat /\ Len(symbol_storage_) \in Nat
         /\ file[i].symbol \in DOMAIN symbol_map
         /\ symbol_map[file[i].symbol] \in 1 .. Len(symbol_storage_)
         /\ symbol_storage_[symbol_map[file[i].symbol]] = file[i].symbol
         /\ file[i].symbol \notin ShortNames =>
              ticks[i].symbol = <<"heap", symbol_map[file[i].symbol]>>
<1>1. ticks \in Seq(TickType) /\ DOMAIN ticks = 1 .. Len(ticks) /\ Len(ticks) \in Nat
      /\ symbol_storage_ \in Seq(Symbols)
  BY DEF LoaderInv, NamesInv, TickType
<1>2. TickOf(i)
  BY <1>1 DEF LoaderInv
<1>3. file[i].symbol \in DOMAIN symbol_map
  BY <1>2 DEF TickOf
<1>4. /\ symbol_map[file[i].symbol] \in 1 .. Len(symbol_storage_)
      /\ symbol_storage_[symbol_map[file[i].symbol]] = file[i].symbol
  BY <1>3 DEF LoaderInv, NamesInv
<1> QED BY <1>1, <1>2, <1>3, <1>4 DEF TickOf

\* What a row has done to the names: the map has its name, and kept the others.
NamesKept ==
  /\ LoaderInv /\ LoaderInv' /\ PlacementInv
  /\ status = "loading" /\ Len(ticks) < Len(file) /\ UNCHANGED file
  /\ DOMAIN symbol_map' = DOMAIN symbol_map \cup {Row.symbol}
  /\ \A n \in DOMAIN symbol_map : symbol_map'[n] = symbol_map[n]
  /\ Converted(symbol_storage_', buffer', symbol_map'[Row.symbol])

\* The buffer it has left, the views of the earlier ticks that are still lasting, and
\* those that are not.
EarlierKept ==
  /\ Len(symbol_storage_') <= buffer'.capacity
  /\ buffer'.capacity <= 1 \/ buffer'.capacity <= 2 * (Len(symbol_storage_') - 1)
  /\ \A i \in DOMAIN ticks :
       Lasting(i)' =>
         ticks[i].symbol = ViewOf(symbol_storage_', buffer', symbol_map'[file[i].symbol])
  /\ LET moved == {ticks[i].symbol : i \in {k \in DOMAIN ticks : ~ Lasting(k)'}}
     IN  moved = {} \/ Cardinality(moved) < buffer'.capacity

\* A row's own view is lasting, whether its name is new or not.
LEMMA RowPlaced ==
  ASSUME NamesKept, EarlierKept
  PROVE  PlacementInv'
<1> DEFINE moved == {ticks[i].symbol : i \in {j \in DOMAIN ticks : ~ Lasting(j)'}}
<1>0. PICK k : k = Len(ticks) + 1
  OBVIOUS
<1>1. /\ LoaderInv /\ LoaderInv' /\ file \in Seq(Rows) /\ k \in 1 .. Len(file)
      /\ Len(ticks) \in Nat /\ Row = file[k] /\ file' = file /\ status = "loading"
  BY <1>0, RowIs DEF NamesKept, Row
<1>2. ticks \in Seq(TickType) /\ DOMAIN ticks = 1 .. Len(ticks)
  BY <1>1 DEF LoaderInv, TickType
<1>3. /\ DOMAIN symbol_map' = DOMAIN symbol_map \cup {file[k].symbol}
      /\ DOMAIN symbol_map \subseteq {file[i].symbol : i \in DOMAIN ticks}
  BY <1>1 DEF NamesKept, PlacementInv
<1>4. CASE Row.bid = Malformed
  <2>1. status' = "rejected" /\ ticks' = ticks
    BY <1>4 DEF NamesKept, Converted
  <2>2. LeftBehind' = moved
    BY <2>1 DEF LeftBehind
  <2> QED BY <1>1, <2>1, <2>2 DEF PlacementInv, EarlierKept
<1>5. CASE Row.bid # Malformed
  <2> DEFINE t == [symbol |-> ViewOf(symbol_storage_', buffer', symbol_map'[Row.symbol]),
                   bid |-> Row.bid, ask |-> Row.ask]
  <2>1. ticks' = Append(ticks, t)
    BY <1>5 DEF NamesKept, Converted
  <2>2. t.symbol = ViewOf(symbol_storage_', buffer', symbol_map'[file'[k].symbol])
    BY <1>1
  <2> HIDE DEF t
  <2>3. /\ DOMAIN ticks' = DOMAIN ticks \cup {k} /\ ticks'[k] = t
        /\ \A i \in DOMAIN ticks : ticks'[i] = ticks[i] /\ i \in 1 .. k
    BY <1>0, <1>1, <1>2, <2>1
  <2>4. DOMAIN symbol_map' \subseteq {file'[i].symbol : i \in DOMAIN ticks'}
    BY <1>1, <1>3, <2>3
  <2>5. SinceGrown(k)'
    <3> DEFINE l == Len(symbol_storage_')
               n == symbol_storage_'[l]
    <3>1. /\ symbol_storage_' \in Seq(Symbols) /\ l \in Nat
          /\ \A m \in DOMAIN symbol_map' : symbol_map'[m] \in 1 .. l
          /\ \A i \in 1 .. l : symbol_storage_'[i] \in DOMAIN symbol_map'
                              /\ symbol_map'[symbol_storage_'[i]] = i
          /\ buffer'.capacity \in Nat
      BY <1>1 DEF LoaderInv, NamesInv
    <3>2. symbol_map'[file[k].symbol] \in 1 .. l
      BY <1>3, <3>1
    <3> HIDE DEF l
    <3>3. l \in 1 .. l
      BY <3>1, <3>2
    <3>4. n \in DOMAIN symbol_map' /\ symbol_map'[n] = l
      BY <3>1, <3>3
    <3> HIDE DEF n
    <3>5. PICK j \in 1 .. k : file[j].symbol = n
      <4>1. n \in {file'[i].symbol : i \in DOMAIN ticks'}
        BY <2>4, <3>4
      <4>2. k \in 1 .. k
        BY <1>1
      <4> QED BY <1>1, <2>3, <4>1, <4>2
    <3>6. l > buffer'.capacity \div 2
      <4> DEFINE c == buffer'.capacity
      <4>1. c \in Nat /\ l \in Nat /\ l >= 1 /\ (c <= 1 \/ c <= 2 * (l - 1))
        BY <3>1, <3>3 DEF EarlierKept, l
      <4> HIDE DEF c
      <4>2. l > c \div 2
        BY <4>1
      <4> QED BY <4>2 DEF c
    <3>7. symbol_map'[file'[j].symbol] > buffer'.capacity \div 2
      BY <1>1, <3>4, <3>5, <3>6
    <3> QED BY <3>5, <3>7 DEF SinceGrown
  <2>6. Lasting(k)'
    BY <2>5 DEF Lasting
  <2>7. \A i \in DOMAIN ticks' :
          Lasting(i)' => ticks'[i].symbol
                           = ViewOf(symbol_storage_', buffer', symbol_map'[file'[i].symbol])
    BY <1>1, <2>2, <2>3 DEF EarlierKept
  <2>8. LeftBehind' = moved
    <3>1. {i \in DOMAIN ticks' : ~ Lasting(i)'} = {i \in DOMAIN ticks : ~ Lasting(i)'}
      BY <2>3, <2>6
    <3>2. LeftBehind' = {ticks'[i].symbol : i \in {j \in DOMAIN ticks' : ~ Lasting(j)'}}
      BY DEF LeftBehind
    <3> QED BY <2>3, <3>1, <3>2
  <2> QED BY <2>4, <2>7, <2>8 DEF PlacementInv, EarlierKept
<1> QED BY <1>4, <1>5

\* While the buffer stays nothing moves.
LEMMA StaysPlaced ==
  ASSUME NamesKept, buffer' = buffer, Len(symbol_storage_') <= buffer.capacity,
         Len(symbol_storage_') >= Len(symbol_storage_)
  PROVE  PlacementInv'
<1>1. /\ LoaderInv /\ LoaderInv' /\ PlacementInv /\ file' = file
      /\ \A n \in DOMAIN symbol_map : symbol_map'[n] = symbol_map[n] /\ n \in DOMAIN symbol_map'
  BY DEF NamesKept
<1>2. ASSUME NEW i \in DOMAIN ticks
      PROVE  /\ symbol_map'[file'[i].symbol] = symbol_map[file[i].symbol]
             /\ symbol_storage_'[symbol_map[file[i].symbol]]
                  = symbol_storage_[symbol_map[file[i].symbol]]
  <2>1. /\ file[i].symbol \in DOMAIN symbol_map
        /\ symbol_storage_[symbol_map[file[i].symbol]] = file[i].symbol
    BY <1>1, TickNames
  <2>2. \A n \in DOMAIN symbol_map' : symbol_storage_'[symbol_map'[n]] = n
    BY <1>1 DEF LoaderInv, NamesInv
  <2> QED BY <1>1, <2>1, <2>2
<1>3. ASSUME NEW i \in DOMAIN ticks PROVE Lasting(i)' <=> Lasting(i)
  <2>1. \A j \in 1 .. i : j \in DOMAIN ticks
    BY <1>1, TickNames DEF LoaderInv
  <2>2. SinceGrown(i)' <=> SinceGrown(i)
    BY <1>2, <2>1 DEF SinceGrown
  <2> QED BY <1>1, <2>2 DEF Lasting
<1>4. \A i \in DOMAIN ticks :
        ViewOf(symbol_storage_', buffer', symbol_map'[file[i].symbol])
          = ViewOf(symbol_storage_, buffer, symbol_map[file[i].symbol])
  BY <1>1, <1>2 DEF ViewOf
<1>5. {k \in DOMAIN ticks : ~ Lasting(k)'} = {k \in DOMAIN ticks : ~ Lasting(k)}
  BY <1>3
<1>6. {ticks[i].symbol : i \in {k \in DOMAIN ticks : ~ Lasting(k)'}} = LeftBehind
  BY <1>5 DEF LeftBehind
<1>7. buffer.capacity <= 1 \/ buffer.capacity <= 2 * (Len(symbol_storage_') - 1)
  <2>1. Len(symbol_storage_) \in Nat /\ Len(symbol_storage_') \in Nat /\ buffer.capacity \in Nat
    BY <1>1 DEF LoaderInv, NamesInv
  <2> QED BY <1>1, <2>1 DEF PlacementInv
<1>8. \A i \in DOMAIN ticks :
        Lasting(i)' =>
          ticks[i].symbol = ViewOf(symbol_storage_', buffer', symbol_map'[file[i].symbol])
  BY <1>1, <1>3, <1>4 DEF PlacementInv
<1>9. EarlierKept
  BY <1>1, <1>6, <1>7, <1>8 DEF EarlierKept, PlacementInv
<1> QED BY <1>9, RowPlaced

\* The names a growing buffer moves are all those it held, of which a view was lasting,
\* and leave no more views behind than it had cells.
LEMMA GrownPlaced ==
  ASSUME NamesKept, Len(symbol_storage_) = buffer.capacity,
         Len(symbol_storage_') = Len(symbol_storage_) + 1,
         buffer'.capacity = IF buffer.capacity = 0 THEN 1 ELSE 2 * buffer.capacity
  PROVE  PlacementInv'
<1> DEFINE c == buffer.capacity
           behind == LeftBehind
           f == [x \in 1 .. c |-> ViewOf(symbol_storage_, buffer, x)]
           held == {f[x] : x \in 1 .. c}
           moved == {ticks[i].symbol : i \in {k \in DOMAIN ticks : ~ Lasting(k)'}}
<1>1. /\ LoaderInv /\ LoaderInv' /\ PlacementInv /\ file' = file
      /\ \A n \in DOMAIN symbol_map : symbol_map'[n] = symbol_map[n] /\ n \in DOMAIN symbol_map'
      /\ c \in Nat /\ Len(symbol_storage_) = c /\ Len(symbol_storage_') = c + 1
  BY DEF NamesKept, LoaderInv
<1>2. ASSUME NEW i \in DOMAIN ticks
      PROVE  /\ symbol_map'[file'[i].symbol] = symbol_map[file[i].symbol]
             /\ symbol_map[file[i].symbol] \in 1 .. c /\ c # 0
             /\ \A j \in 1 .. i : j \in DOMAIN ticks
  <2>1. symbol_map[file[i].symbol] \in 1 .. c /\ file[i].symbol \in DOMAIN symbol_map
    BY <1>1, TickNames
  <2>2. \A j \in 1 .. i : j \in DOMAIN ticks
    BY <1>1, TickNames DEF LoaderInv
  <2> QED BY <1>1, <2>1, <2>2
<1>3. ASSUME NEW i \in DOMAIN ticks PROVE ~ SinceGrown(i)'
  <2>1. c # 0 /\ buffer'.capacity = 2 * c
    BY <1>2
  <2> HIDE DEF c
  <2>2. buffer'.capacity \div 2 = c
    BY <1>1, <2>1
  <2>3. \A j \in 1 .. i : ~ (symbol_map'[file'[j].symbol] > c)
    BY <1>1, <1>2
  <2> QED BY <2>2, <2>3 DEF SinceGrown
<1>4. ASSUME NEW i \in DOMAIN ticks, Lasting(i)'
      PROVE  ticks[i].symbol = ViewOf(symbol_storage_', buffer', symbol_map'[file[i].symbol])
  <2>1. file[i].symbol \notin ShortNames
    BY <1>1, <1>3, <1>4 DEF Lasting
  <2>2. /\ ticks[i].symbol = <<"heap", symbol_map[file[i].symbol]>>
        /\ file[i].symbol \in DOMAIN symbol_map
    BY <1>1, <2>1, TickNames
  <2>3. symbol_storage_'[symbol_map'[file[i].symbol]] = file[i].symbol
    BY <1>1, <2>2 DEF LoaderInv, NamesInv
  <2> QED BY <1>1, <1>2, <2>1, <2>2, <2>3 DEF ViewOf
<1>5. ASSUME NEW i \in DOMAIN ticks PROVE ticks[i].symbol \in behind \cup held
  <2>1. CASE Lasting(i)
    <3>1. ticks[i].symbol = f[symbol_map[file[i].symbol]] /\ symbol_map[file[i].symbol] \in 1 .. c
      BY <1>1, <1>2, <2>1 DEF PlacementInv
    <3> QED BY <3>1
  <2>2. CASE ~ Lasting(i)
    BY <2>2 DEF LeftBehind
  <2> QED BY <2>1, <2>2
<1>6. moved \subseteq behind \cup held
  BY <1>5
<1>7. IsFiniteSet(behind) /\ Cardinality(behind) \in Nat
  BY <1>1, ViewsFinite DEF LeftBehind
<1>8. IsFiniteSet(held) /\ Cardinality(held) \in Nat /\ Cardinality(held) <= c
  <2> HIDE DEF c, f
  <2> QED BY <1>1, ImageBound
<1>9. behind = {} \/ Cardinality(behind) < c
  BY <1>1 DEF PlacementInv
<1>10. buffer'.capacity = IF c = 0 THEN 1 ELSE 2 * c
  OBVIOUS
<1>11. moved # {} => c # 0
  BY <1>2
<1>12. IsFiniteSet(moved) /\ Cardinality(moved) \in Nat
  BY <1>1, ViewsFinite
<1> HIDE DEF c, behind, held, f, moved
<1>13. moved = {} \/ Cardinality(moved) < buffer'.capacity
  <2>1. SUFFICES ASSUME moved # {} PROVE Cardinality(moved) < buffer'.capacity
    OBVIOUS
  <2>2. /\ IsFiniteSet(behind \cup held)
        /\ Cardinality(behind \cup held)
             = Cardinality(behind) + Cardinality(held) - Cardinality(behind \cap held)
    BY <1>7, <1>8, FS_Union
  <2>3. Cardinality(behind \cap held) \in Nat /\ Cardinality(behind \cup held) \in Nat
    <3>1. IsFiniteSet(behind \cap held)
      BY <1>7, FS_Subset
    <3> QED BY <2>2, <3>1, FS_CardinalityType
  <2>4. Cardinality(moved) <= Cardinality(behind \cup held)
    BY <1>6, <2>2, FS_Subset
  <2>5. c # 0 /\ buffer'.capacity = 2 * c
    BY <1>10, <1>11, <2>1
  <2>6. Cardinality(behind) < c
    <3>1. Cardinality({}) = 0
      BY FS_EmptySet
    <3>2. CASE behind = {}
      BY <1>1, <2>5, <3>1, <3>2
    <3> QED BY <1>9, <3>2
  <2> QED BY <1>1, <1>7, <1>8, <1>12, <2>2, <2>3, <2>4, <2>5, <2>6
<1>14. /\ Len(symbol_storage_') <= buffer'.capacity
       /\ buffer'.capacity <= 1 \/ buffer'.capacity <= 2 * (Len(symbol_storage_') - 1)
  BY <1>1, <1>10
<1>15. EarlierKept
  BY <1>4, <1>13, <1>14 DEF EarlierKept, moved
<1> QED BY <1>15, RowPlaced

\* Where nothing is loaded nothing moves either.
LEMMA UnloadedPlaced ==
  ASSUME PlacementInv, UNCHANGED <<ticks, symbol_storage_, buffer, symbol_map>>,
         UNCHANGED file \/ ticks = <<>>, status' # "rejected" => status # "rejected"
  PROVE  PlacementInv'
<1>1. CASE UNCHANGED file
  <2>1. \A i : Lasting(i)' <=> Lasting(i)
    BY <1>1 DEF Lasting, SinceGrown
  <2>2. LeftBehind' = LeftBehind
    BY <2>1 DEF LeftBehind
  <2>3. {file'[i].symbol : i \in DOMAIN ticks'} = {file[i].symbol : i \in DOMAIN ticks}
    BY <1>1
  <2>4. \A i \in DOMAIN ticks' :
          Lasting(i)' => ticks'[i].symbol
                           = ViewOf(symbol_storage_', buffer', symbol_map'[file'[i].symbol])
    BY <1>1, <2>1 DEF PlacementInv
  <2> QED BY <2>2, <2>3, <2>4 DEF PlacementInv
<1>2. CASE ticks = <<>>
  <2>1. DOMAIN ticks = {} /\ DOMAIN ticks' = {}
    BY <1>2
  <2>2. LeftBehind' = {}
    BY <2>1 DEF LeftBehind
  <2>3. status' # "rejected" => DOMAIN symbol_map = {}
    BY <2>1 DEF PlacementInv
  <2> QED BY <2>1, <2>2, <2>3 DEF PlacementInv
<1> QED BY <1>1, <1>2

\* Every step of the loader keeps track of the addresses.
LEMMA LoadPlaced ==
  ASSUME LoaderInv, PlacementInv, Load
  PROVE  PlacementInv'
<1>0. LoaderInv'
  BY LoadKeeps
<1>1. CASE OpenFails \/ LoadDone
  BY <1>1, UnloadedPlaced DEF OpenFails, LoadDone, loaderVars
<1>2. ASSUME NEW f \in Files, Open(f) PROVE PlacementInv'
  BY <1>2, UnloadedPlaced DEF Open, LoaderInv
<1>3. CASE LoadKnown
  <2>1. /\ Row.symbol \in DOMAIN symbol_map /\ status = "loading" /\ Len(ticks) < Len(file)
        /\ UNCHANGED <<file, symbol_storage_, buffer, symbol_map>>
        /\ Converted(symbol_storage_', buffer', symbol_map'[Row.symbol])
    BY <1>3 DEF LoadKnown
  <2>2. NamesKept
    BY <1>0, <2>1 DEF NamesKept
  <2>3. Len(symbol_storage_) \in Nat /\ Len(symbol_storage_) <= buffer.capacity
    BY DEF PlacementInv, LoaderInv, NamesInv
  <2> QED BY <2>1, <2>2, <2>3, StaysPlaced
<1>4. CASE LoadNew
  <2>1. /\ Row.symbol \notin DOMAIN symbol_map /\ status = "loading" /\ Len(ticks) < Len(file)
        /\ UNCHANGED file /\ symbol_storage_' = Append(symbol_storage_, Row.symbol)
        /\ buffer' \in Grown
        /\ symbol_map' = [n \in DOMAIN symbol_map \cup {Row.symbol} |->
                            IF n = Row.symbol THEN Len(symbol_storage_') ELSE symbol_map[n]]
        /\ Converted(symbol_storage_', buffer', Len(symbol_storage_'))
    BY <1>4 DEF LoadNew
  <2>2. NamesKept
    BY <1>0, <2>1 DEF NamesKept
  <2>3. /\ Len(symbol_storage_) \in Nat /\ Len(symbol_storage_') = Len(symbol_storage_) + 1
        /\ buffer.capacity \in Nat /\ Len(symbol_storage_) <= buffer.capacity
    <3>1. symbol_storage_ \in Seq(Symbols) /\ buffer.capacity \in Nat
      BY DEF LoaderInv, NamesInv
    <3>2. Row.symbol \in Symbols
      BY <2>1, RowIs DEF Rows
    <3> QED BY <2>1, <3>1, <3>2 DEF PlacementInv
  <2>4. CASE Len(symbol_storage_) < buffer.capacity
    <3>1. buffer' = buffer
      BY <2>1, <2>4 DEF Grown
    <3> QED BY <2>2, <2>3, <2>4, <3>1, StaysPlaced
  <2>5. CASE ~ (Len(symbol_storage_) < buffer.capacity)
    <3>1. Len(symbol_storage_) = buffer.capacity
      BY <2>3, <2>5
    <3>2. buffer'.capacity = IF buffer.capacity = 0 THEN 1 ELSE 2 * buffer.capacity
      BY <2>1, <2>5 DEF Grown
    <3> QED BY <2>2, <2>3, <3>1, <3>2, GrownPlaced
  <2> QED BY <2>4, <2>5
<1> QED BY <1>1, <1>2, <1>3, <1>4 DEF Load

-----------------------------------------------------------------------------
(* Names.                                                                  *)

\* No name of a file is short enough for the string's own buffer.
LongNames == \A f \in Files : NamesIn(f) \cap ShortNames = {}

\* A view is that of a long name only for the ticks of that name.
LEMMA ViewsTellNames ==
  ASSUME LoaderInv, NEW i \in 1 .. Len(ticks), NEW j \in 1 .. Len(ticks),
         file[i].symbol \notin ShortNames
  PROVE  ticks[i].symbol = ticks[j].symbol <=> file[i].symbol = file[j].symbol
<1> DEFINE a == file[i].symbol
           b == file[j].symbol
<1>1. TickOf(i) /\ TickOf(j)
  BY DEF LoaderInv
<1>2. /\ a \in DOMAIN symbol_map /\ ticks[i].symbol = <<"heap", symbol_map[a]>>
      /\ b \in DOMAIN symbol_map
      /\ b \notin ShortNames => ticks[j].symbol = <<"heap", symbol_map[b]>>
      /\ b \in ShortNames => ticks[j].symbol[1] = "buffer"
  BY <1>1 DEF TickOf
<1>3. \A n \in DOMAIN symbol_map : symbol_storage_[symbol_map[n]] = n
  BY DEF LoaderInv, NamesInv
<1> HIDE DEF a, b
<1>4. CASE b \in ShortNames
  <2>1. ticks[i].symbol[1] = "heap"
    BY <1>2
  <2>2. ticks[i].symbol # ticks[j].symbol
    BY <1>2, <1>4, <2>1
  <2> QED BY <1>4, <2>2 DEF a, b
<1>5. CASE b \notin ShortNames
  <2>1. ticks[i].symbol = ticks[j].symbol <=> symbol_map[a] = symbol_map[b]
    BY <1>2, <1>5
  <2>2. symbol_map[a] = symbol_map[b] <=> a = b
    BY <1>2, <1>3
  <2> QED BY <2>1, <2>2 DEF a, b
<1> QED BY <1>4, <1>5

\* With long names only, every name of the file is one.
LEMMA NoShortName ==
  ASSUME LongNames, LoaderInv, NEW i \in 1 .. Len(file)
  PROVE  file[i].symbol \notin ShortNames
<1>1. file \in Files \cup {<<>>}
  BY DEF LoaderInv
<1>2. file \in Files
  BY <1>1
<1>3. file \in Seq(Rows)
  BY FileIs
<1>4. i \in DOMAIN file
  BY <1>3
<1> QED BY <1>2, <1>4 DEF LongNames, NamesIn

\* A set a sequence numbers has as many members as the sequence.
LEMMA Numbered ==
  ASSUME NEW S, NEW n \in Nat, NEW f \in [S -> 1 .. n],
         \A x, y \in S : f[x] = f[y] => x = y,
         \A i \in 1 .. n : \E x \in S : f[x] = i
  PROVE  IsFiniteSet(S) /\ Cardinality(S) = n
<1>1. f \in Bijection(S, 1 .. n)
  BY DEF Bijection, Injection, Surjection, IsInjective
<1>2. ExistsBijection(S, 1 .. n)
  BY <1>1 DEF ExistsBijection
<1>3. ExistsBijection(1 .. n, S)
  BY <1>2, Fun_ExistsBijSymmetric
<1> QED BY <1>3, FS_CountingElements, FS_NatBijection

-----------------------------------------------------------------------------
(* The strategy.                                                           *)

\* A slot nobody uses is one.
LEMMA EmptySlotInv == SlotInv(EmptySlot)
<1>1. Window \in Nat \ {0}
  BY StrategyAssumption
<1> QED BY <1>1 DEF SlotInv, EmptySlot

\* One more mid leaves a slot one, and its position as it was.
LEMMA AppendedSlot ==
  ASSUME NEW s, SlotInv(s), NEW mid \in Int
  PROVE  SlotInv(Appended(s, mid)) /\ Appended(s, mid).position = s.position
<1> DEFINE a == Appended(s, mid)
<1>1. Window \in Nat \ {0}
  BY StrategyAssumption
<1>2. /\ DOMAIN s = {"mids", "head", "count", "position", "rolling_sum", "rolling_sq_sum"}
      /\ s.mids \in [0 .. Window - 1 -> Int] /\ s.head \in 0 .. Window - 1 /\ s.count \in 0 .. Window
      /\ s.count < Window => s.head = s.count
      /\ s.position \in -1 .. 1
  BY DEF SlotInv, EmptySlot
<1>3. DOMAIN EmptySlot = {"mids", "head", "count", "position", "rolling_sum", "rolling_sq_sum"}
  BY DEF EmptySlot
<1>4. DOMAIN a = DOMAIN s
  BY DEF Appended
<1>5. a.mids = [s.mids EXCEPT ![s.head] = mid]
  BY <1>2 DEF Appended
<1>6. a.head = (s.head + 1) % Window /\ a.count = IF s.count < Window THEN s.count + 1 ELSE s.count
  BY <1>2 DEF Appended
<1>7. a.position = s.position
  BY <1>2 DEF Appended
<1> HIDE DEF a
<1>8. a.head \in 0 .. Window - 1
  <2> DEFINE h == s.head + 1
  <2>1. h \in Nat
    BY <1>2
  <2> HIDE DEF h
  <2>2. h % Window \in 0 .. Window - 1
    BY <1>1, <2>1, ModRange
  <2> QED BY <1>6, <2>2 DEF h
<1>9. a.count < Window => a.head = a.count
  <2> SUFFICES ASSUME a.count < Window PROVE a.head = a.count
    OBVIOUS
  <2>1. s.count < Window /\ a.count = s.count + 1 /\ s.head = s.count
    BY <1>1, <1>2, <1>6
  <2> DEFINE h == s.head + 1
  <2>2. h \in 0 .. Window - 1 /\ h = a.count
    BY <1>1, <1>2, <2>1
  <2> HIDE DEF h
  <2>3. h % Window = h
    BY <1>1, <2>2, ModSmall
  <2> QED BY <1>6, <2>2, <2>3 DEF h
<1>10. a.mids \in [0 .. Window - 1 -> Int] /\ a.count \in 0 .. Window
  BY <1>1, <1>2, <1>5, <1>6
<1> QED BY <1>2, <1>3, <1>4, <1>7, <1>8, <1>9, <1>10 DEF SlotInv, a

\* An address in use has one slot, which Lookup finds.
KnownSlots == \A i \in Slots \ Free : Known(symbols_[i]) = {i} /\ Lookup(symbols_[i]) = i

\* So it is whenever the strategy's invariant holds: no address has two slots.
LEMMA LookupFinds == StrategyInv => KnownSlots
<1> SUFFICES ASSUME StrategyInv, NEW i \in Slots \ Free
             PROVE  Known(symbols_[i]) = {i} /\ Lookup(symbols_[i]) = i
  BY DEF KnownSlots
<1>1. symbols_[i] # Unused
  BY DEF Free
<1>2. \A j \in Slots : symbols_[j] = symbols_[i] => j = i
  BY <1>1 DEF StrategyInv, Free
<1>3. Known(symbols_[i]) = {i}
  BY <1>2 DEF Known
<1>4. Candidates(symbols_[i]) = {i}
  BY <1>3 DEF Candidates
<1>5. Min({i}) = i
  <2>1. {i} \in SUBSET Int /\ i \in {i} /\ \A y \in {i} : i <= y
    BY StrategyAssumption DEF Slots
  <2> QED BY <2>1, MinIs
<1> QED BY <1>3, <1>4, <1>5 DEF Lookup

\* What get_symbol_index answers is a slot of the address, or an unused one when it has none.
LEMMA LookupAnswers ==
  ASSUME NEW view, Candidates(view) # {}
  PROVE  /\ Lookup(view) \in Slots
         /\ Known(view) # {} => symbols_[Lookup(view)] = view
         /\ Known(view) = {} => Lookup(view) \in Free
<1> DEFINE C == Candidates(view)
<1>1. C \subseteq Slots /\ (Known(view) # {} => C = Known(view)) /\ (Known(view) = {} => C = Free)
  BY DEF Candidates, Known, Free
<1>2. IsFiniteSet(Slots) /\ Slots \subseteq Int
  BY StrategyAssumption, FS_Interval DEF Slots
<1> HIDE DEF C
<1>3. IsFiniteSet(C) /\ C \in SUBSET Int
  BY <1>1, <1>2, FS_Subset
<1>4. Lookup(view) = Min(C) /\ C # {}
  BY DEF Lookup, C
<1>5. Lookup(view) \in C
  BY <1>3, <1>4, Extremes
<1> QED BY <1>1, <1>5 DEF Known

\* A step that registers an address and changes the slot it has, or is given, keeps the
\* table in order.
LEMMA SlotChanges ==
  ASSUME StrategyInv, NEW view, view # Unused, Candidates(view) # {},
         symbols_' = Registered(view), DOMAIN slot_' = Slots,
         \A i \in Slots : i # Lookup(view) => slot_'[i] = slot_[i],
         SlotInv(slot_'[Lookup(view)])
  PROVE  /\ StrategyInv'
         /\ symbols_'[Lookup(view)] = view
         /\ \A i \in Slots : i # Lookup(view) => symbols_'[i] = symbols_[i]
         /\ symbols_[Lookup(view)] \in {Unused, view}
<1> DEFINE L == Lookup(view)
<1>1. /\ L \in Slots
      /\ Known(view) # {} => symbols_[L] = view
      /\ Known(view) = {} => L \in Free
  BY LookupAnswers
<1>2. /\ DOMAIN symbols_ = Slots /\ DOMAIN slot_ = Slots
      /\ \A i \in Slots : SlotInv(slot_[i])
      /\ \A i \in Free : slot_[i] = EmptySlot
      /\ \A i, j \in Slots \ Free : symbols_[i] = symbols_[j] => i = j
  BY DEF StrategyInv
<1>3. symbols_' = [symbols_ EXCEPT ![L] = view]
  BY DEF Registered
<1> HIDE DEF L
<1>4. /\ DOMAIN symbols_' = Slots /\ symbols_'[L] = view
      /\ \A i \in Slots : i # L => symbols_'[i] = symbols_[i]
  BY <1>1, <1>2, <1>3
<1>5. symbols_[L] \in {Unused, view}
  BY <1>1 DEF Free
<1>6. ASSUME NEW i \in Slots PROVE SlotInv(slot_[i])'
  <2>1. CASE i = L
    BY <2>1 DEF L, SlotInv
  <2>2. CASE i # L
    BY <1>2, <2>2 DEF L, SlotInv
  <2> QED BY <2>1, <2>2
<1>7. ASSUME NEW i \in Free' PROVE slot_'[i] = EmptySlot
  <2>1. i \in Slots /\ symbols_'[i] = Unused
    BY DEF Free
  <2>2. i # L /\ i \in Free
    BY <1>4, <2>1 DEF Free
  <2> QED BY <1>2, <2>1, <2>2 DEF L
<1>8. ASSUME NEW i \in Slots \ Free', NEW j \in Slots \ Free', symbols_'[i] = symbols_'[j]
      PROVE  i = j
  <2>1. /\ i \in Slots /\ symbols_'[i] # Unused
        /\ j \in Slots /\ symbols_'[j] # Unused
    BY DEF Free
  <2>2. ASSUME NEW k \in Slots, k # L, symbols_'[k] = view PROVE FALSE
    <3>1. symbols_[k] = view
      BY <1>4, <2>2
    <3>2. k \in Known(view)
      BY <3>1 DEF Known
    <3>3. symbols_[L] = view
      BY <1>1, <3>2
    <3>4. k \notin Free /\ L \notin Free
      BY <3>1, <3>3 DEF Free
    <3> QED BY <1>1, <1>2, <2>2, <3>1, <3>3, <3>4
  <2>3. CASE i = L \/ j = L
    BY <1>4, <1>8, <2>1, <2>2, <2>3
  <2>4. CASE i # L /\ j # L
    <3>1. symbols_[i] = symbols_'[i] /\ symbols_[j] = symbols_'[j]
      BY <1>4, <2>1, <2>4
    <3>2. i \in Slots \ Free /\ j \in Slots \ Free
      BY <2>1, <3>1 DEF Free
    <3> QED BY <1>2, <1>8, <3>1, <3>2
  <2> QED BY <2>3, <2>4
<1>9. StrategyInv'
  BY <1>4, <1>6, <1>7, <1>8 DEF StrategyInv, EmptySlot, Slots
<1> QED BY <1>4, <1>5, <1>9 DEF L

\* An order is for one unit: an entry, or the exit from one unit.
LEMMA DecisionIs ==
  ASSUME NEW s, s.position \in -1 .. 1, NEW t
  PROVE  \/ Decision(s, t) = <<>>
         \/ Decision(s, t) = <<Order(t, "BUY", 1)>> /\ s.position \in {-1, 0}
         \/ Decision(s, t) = <<Order(t, "SELL", 1)>> /\ s.position \in {0, 1}
<1> DEFINE mid == t.bid + t.ask
           sell == \/ s.position = 0 /\ Diff(s, mid) > 0 /\ Far(s, mid)
                   \/ s.position > 0 /\ Near(s, mid)
           buy == \/ s.position = 0 /\ Diff(s, mid) < 0 /\ Far(s, mid)
                  \/ s.position < 0 /\ Near(s, mid)
           qty == IF s.position = 0 THEN 1 ELSE IF s.position > 0 THEN s.position ELSE -s.position
           idle == s.count < Window \/ Variance(s) <= 0
           ready == s.count = Window /\ Variance(s) > 0
<1>1. Decision(s, t) = CASE idle -> <<>>
                         [] ready /\ sell -> <<Order(t, "SELL", qty)>>
                         [] ready /\ buy -> <<Order(t, "BUY", qty)>>
                         [] OTHER -> <<>>
  BY Zenon DEF Decision
<1>2. qty = 1
  OBVIOUS
<1>3. (sell => s.position \in {0, 1}) /\ (buy => s.position \in {-1, 0})
  OBVIOUS
<1> HIDE DEF qty, sell, buy, idle, ready
<1> QED BY <1>1, <1>2, <1>3

-----------------------------------------------------------------------------
(* The engine.                                                             *)

\* The tick about to be given to on_tick, its view and the slot of that.
At == next + 1
View == ticks[next + 1].symbol
TheSlot == Lookup(View)

OrderType == [tick_index : Nat, symbol : Symbols, side : {"BUY", "SELL"}, price : Int]

\* A view is never the mark of an unused slot.
LEMMA ViewsUsed == \A v \in Views : v # Unused
BY DEF Views, Unused

\* Neither is that of a tick.
LEMMA TicksUsed ==
  ASSUME LoaderInv, NEW k \in 1 .. Len(ticks)
  PROVE  ticks[k].symbol \in Views /\ ticks[k].symbol # Unused
<1>1. TickOf(k)
  BY DEF LoaderInv
<1>2. ticks[k].symbol \in Views
  BY <1>1 DEF TickOf
<1> QED BY <1>2, ViewsUsed

\* What is known before a tick of the replay.
LEMMA BeforeTick ==
  ASSUME BooksInv, status = "replay", next < Len(ticks)
  PROVE  /\ next \in Nat /\ At \in 1 .. Len(ticks) /\ Len(ticks) = Len(file) /\ Len(ticks) \in Nat
         /\ ticks[At] \in TickType /\ View = ticks[At].symbol /\ View \in Views /\ View # Unused
<1>1. next \in 0 .. Len(ticks) /\ ticks \in Seq(TickType) /\ Len(ticks) = Len(file)
  BY DEF BooksInv, EngineInv, LoaderInv, TickType
<1>2. Len(ticks) \in Nat
  BY <1>1
<1>3. next \in Nat /\ At \in 1 .. Len(ticks)
  BY <1>1, <1>2 DEF At
<1>4. ticks[At] \in TickType /\ View = ticks[At].symbol
  BY <1>1, <1>3 DEF At, View
<1>5. View \in Views
  BY <1>4 DEF TickType
<1> QED BY <1>1, <1>2, <1>3, <1>4, <1>5, ViewsUsed

\* What on_tick does to the table of slots.
LEMMA TickSlots ==
  ASSUME BooksInv, Tick
  PROVE  /\ StrategyInv' /\ TheSlot \in Slots
         /\ symbols_'[TheSlot] = View /\ symbols_[TheSlot] \in {Unused, View}
         /\ \A i \in Slots : i # TheSlot => symbols_'[i] = symbols_[i] /\ slot_'[i] = slot_[i]
         /\ slot_'[TheSlot].position = slot_[TheSlot].position
         /\ slot_[TheSlot].position \in -1 .. 1
         /\ pending' = Decision(slot_'[TheSlot], ticks[At])
         /\ Known(View) = {} => slot_[TheSlot].position = 0
<1>1. /\ status = "replay" /\ next < Len(ticks) /\ OnTick(ticks[next + 1])
      /\ pending' = Returned(ticks[next + 1])
  BY DEF Tick
<1>2. /\ View = ticks[At].symbol /\ View # Unused /\ ticks[At] \in TickType
  BY <1>1, BeforeTick
<1>3. StrategyInv
  BY DEF BooksInv
<1> DEFINE mid == ticks[At].bid + ticks[At].ask
<1>4. mid \in Int
  BY <1>2 DEF TickType
<1>5. /\ Candidates(View) # {} /\ symbols_' = Registered(View)
      /\ slot_' = [slot_ EXCEPT ![TheSlot] = Appended(slot_[TheSlot], mid)]
      /\ pending' = Decision(slot_'[TheSlot], ticks[At])
  BY <1>1 DEF OnTick, Returned, At, View, TheSlot
<1> HIDE DEF mid
<1>6. /\ TheSlot \in Slots /\ (Known(View) = {} => TheSlot \in Free)
  BY <1>5, LookupAnswers DEF TheSlot
<1>7. /\ DOMAIN slot_ = Slots /\ SlotInv(slot_[TheSlot])
      /\ (Known(View) = {} => slot_[TheSlot] = EmptySlot)
  BY <1>3, <1>6 DEF StrategyInv
<1>8. /\ SlotInv(Appended(slot_[TheSlot], mid))
      /\ Appended(slot_[TheSlot], mid).position = slot_[TheSlot].position
  BY <1>4, <1>7, AppendedSlot
<1>9. /\ DOMAIN slot_' = Slots /\ slot_'[TheSlot] = Appended(slot_[TheSlot], mid)
      /\ \A i \in Slots : i # TheSlot => slot_'[i] = slot_[i]
  BY <1>5, <1>6, <1>7
<1>10. SlotInv(slot_'[TheSlot])
  BY <1>8, <1>9
<1>11. /\ StrategyInv'
       /\ symbols_'[TheSlot] = View
       /\ \A i \in Slots : i # TheSlot => symbols_'[i] = symbols_[i]
       /\ symbols_[TheSlot] \in {Unused, View}
  BY <1>2, <1>3, <1>5, <1>9, <1>10, SlotChanges DEF TheSlot
<1>12. slot_[TheSlot].position \in -1 .. 1 /\ EmptySlot.position = 0
  BY <1>7 DEF SlotInv, EmptySlot
<1> QED BY <1>5, <1>6, <1>7, <1>8, <1>9, <1>11, <1>12

\* The order returned, if any, joins the stream.
LEMMA TickOrders ==
  ASSUME BooksInv, Tick
  PROVE  \/ pending' = <<>> /\ orders' = orders
         \/ \E side \in {"BUY", "SELL"} :
              /\ pending' = <<Order(ticks[At], side, 1)>>
              /\ \E e \in OrderType : /\ orders' = Append(orders, e)
                                     /\ e.symbol = file[At].symbol /\ e.side = side
              /\ side = "BUY" => slot_'[TheSlot].position \in {-1, 0}
              /\ side = "SELL" => slot_'[TheSlot].position \in {0, 1}
<1>1. /\ pending' = Decision(slot_'[TheSlot], ticks[At])
      /\ slot_'[TheSlot].position \in -1 .. 1
  BY TickSlots
<1>2. /\ status = "replay" /\ next < Len(ticks)
      /\ orders' = orders \o [k \in DOMAIN pending' |-> Emission(pending'[k])]
  BY DEF Tick
<1>3. /\ next \in Nat /\ At \in 1 .. Len(ticks) /\ Len(ticks) = Len(file) /\ ticks[At] \in TickType
  BY <1>2, BeforeTick
<1>4. orders \in Seq(OrderType)
  BY DEF BooksInv, OrdersInv, OrderType
<1>5. file[At].symbol \in Symbols
  <2>2. file \in Seq(Rows)
    BY FileIs DEF BooksInv
  <2>3. file[At] \in Rows
    BY <1>3, <2>2
  <2> QED BY <2>3 DEF Rows
<1>6. CASE pending' = <<>>
  <2>1. [k \in DOMAIN pending' |-> Emission(pending'[k])] = <<>>
    BY <1>6
  <2>2. orders' = orders \o <<>>
    BY <1>2, <2>1
  <2> QED BY <1>4, <1>6, <2>2, ConcatEmptySeq
<1>7. ASSUME NEW side \in {"BUY", "SELL"}, pending' = <<Order(ticks[At], side, 1)>>
      PROVE  \E e \in OrderType : /\ orders' = Append(orders, e)
                                 /\ e.symbol = file[At].symbol /\ e.side = side
  <2> DEFINE o == Order(ticks[At], side, 1)
             e == Emission(o)
  <2>1. o.side = side /\ o.price \in Int
    BY <1>3 DEF Order, TickType
  <2> HIDE DEF o
  <2>2. e = [tick_index |-> next, symbol |-> file[At].symbol, side |-> side, price |-> o.price]
    BY <2>1 DEF Emission, At
  <2>3. e \in OrderType /\ e.symbol = file[At].symbol /\ e.side = side
    BY <1>3, <1>5, <2>1, <2>2 DEF OrderType
  <2>4. [k \in DOMAIN pending' |-> Emission(pending'[k])] = <<e>>
    <3>1. pending' = <<o>>
      BY <1>7 DEF o
    <3>2. DOMAIN pending' = 1 .. 1 /\ pending'[1] = o
      BY <3>1
    <3>3. [k \in 1 .. 1 |-> Emission(pending'[k])] = [k \in 1 .. 1 |-> e]
      BY <3>2
    <3> HIDE DEF e
    <3>4. [k \in 1 .. 1 |-> e] = <<e>>
      OBVIOUS
    <3> QED BY <3>2, <3>3, <3>4
  <2> HIDE DEF e
  <2>5. orders \o <<e>> = Append(orders, e)
    BY <1>4, <2>3
  <2> QED BY <1>2, <2>3, <2>4, <2>5
<1>8. \/ pending' = <<>>
      \/ pending' = <<Order(ticks[At], "BUY", 1)>> /\ slot_'[TheSlot].position \in {-1, 0}
      \/ pending' = <<Order(ticks[At], "SELL", 1)>> /\ slot_'[TheSlot].position \in {0, 1}
  BY <1>1, DecisionIs
<1> QED BY <1>6, <1>7, <1>8

\* A view in use leads to its slot.
LEMMA SlotFound ==
  ASSUME StrategyInv, NEW i \in Slots, symbols_[i] # Unused
  PROVE  Known(symbols_[i]) = {i} /\ Lookup(symbols_[i]) = i
<1>1. i \in Slots \ Free
  BY DEF Free
<1> QED BY <1>1, LookupFinds DEF KnownSlots

\* It does so after a step, too.
LEMMA SlotFoundNext ==
  ASSUME StrategyInv', NEW i \in Slots, NEW k, ticks'[k].symbol = symbols_'[i], symbols_'[i] # Unused
  PROVE  SlotOf(k)' = slot_'[i] /\ Known(ticks[k].symbol)' # {}
<1>1. KnownSlots'
  BY LookupFinds, PTL
<1>2. i \in Slots \ Free'
  BY DEF Free
<1>3. Lookup(symbols_[i])' = i /\ Known(symbols_[i])' = {i}
  BY <1>1, <1>2 DEF KnownSlots
<1>4. Lookup(ticks[k].symbol)' = Lookup(symbols_[i])' /\ Known(ticks[k].symbol)' = Known(symbols_[i])'
  BY DEF Lookup, Candidates, Known, Free
<1> QED BY <1>3, <1>4 DEF SlotOf

\* The slots in use are those of the symbols seen, one more after a tick.
LEMMA TickSeen ==
  ASSUME BooksInv, Tick
  PROVE  SeenInv'
<1>1. /\ StrategyInv' /\ TheSlot \in Slots
      /\ symbols_'[TheSlot] = View /\ symbols_[TheSlot] \in {Unused, View}
      /\ \A i \in Slots : i # TheSlot => symbols_'[i] = symbols_[i]
  BY TickSlots
<1>2. status = "replay" /\ next < Len(ticks) /\ next' = next + 1 /\ UNCHANGED ticks
  BY DEF Tick, loaderVars
<1>3. /\ next \in Nat /\ next' = At /\ At = next + 1 /\ View = ticks[At].symbol
      /\ View # Unused /\ Len(ticks) \in Nat
  BY <1>2, BeforeTick DEF At
<1>4. /\ \A k \in 1 .. next : Known(ticks[k].symbol) # {}
      /\ \A i \in Slots \ Free : \E k \in 1 .. next : symbols_[i] = ticks[k].symbol
  BY DEF BooksInv, SeenInv
<1>5. ASSUME NEW k \in 1 .. next' PROVE Known(ticks[k].symbol)' # {}
  <2>1. CASE k = At
    BY <1>1, <1>2, <1>3, <2>1, SlotFoundNext
  <2>2. CASE k # At
    <3>1. k \in 1 .. next /\ k \in 1 .. Len(ticks)
      BY <1>2, <1>3, <2>2
    <3>2. PICK i \in Slots : symbols_[i] = ticks[k].symbol
      BY <1>4, <3>1 DEF Known
    <3>4. ticks[k].symbol # Unused
      BY <3>1, TicksUsed DEF BooksInv
    <3>5. symbols_'[i] = ticks'[k].symbol /\ symbols_'[i] # Unused
      BY <1>1, <1>2, <3>2, <3>4
    <3> QED BY <1>1, <3>5, SlotFoundNext
  <2> QED BY <2>1, <2>2
<1>6. ASSUME NEW i \in Slots \ Free' PROVE \E k \in 1 .. next' : symbols_'[i] = ticks'[k].symbol
  <2>1. i \in Slots /\ symbols_'[i] # Unused
    BY DEF Free
  <2>2. CASE i = TheSlot
    BY <1>1, <1>2, <1>3, <2>2
  <2>3. CASE i # TheSlot
    <3>1. symbols_'[i] = symbols_[i] /\ i \in Slots \ Free
      BY <1>1, <2>1, <2>3 DEF Free
    <3>2. PICK k \in 1 .. next : symbols_[i] = ticks[k].symbol
      BY <1>4, <3>1
    <3> QED BY <1>2, <1>3, <3>1, <3>2
  <2> QED BY <2>2, <2>3
<1> QED BY <1>5, <1>6 DEF SeenInv, Slots

\* The order returned is about the latest tick.
LEMMA TickPending ==
  ASSUME BooksInv, Tick
  PROVE  PendingInv'
<1>1. /\ StrategyInv' /\ TheSlot \in Slots /\ symbols_'[TheSlot] = View
  BY TickSlots
<1>2. status = "replay" /\ next < Len(ticks) /\ next' = next + 1 /\ UNCHANGED ticks
  BY DEF Tick, loaderVars
<1>3. next \in Nat /\ next' = At /\ View = ticks[At].symbol /\ View # Unused /\ At > 0
  BY <1>2, BeforeTick DEF At
<1>4. PICK k \in Nat : k = At
  BY <1>3 DEF At
<1>a. SlotOf(k)' = slot_'[TheSlot]
  BY <1>1, <1>2, <1>3, <1>4, SlotFoundNext
<1>5. SlotOf(next)' = slot_'[TheSlot]
  BY <1>3, <1>4, <1>a DEF SlotOf, Lookup, Candidates, Known, Free
<1>6. CASE pending' = <<>>
  BY <1>6 DEF PendingInv
<1>7. ASSUME NEW side \in {"BUY", "SELL"}, pending' = <<Order(ticks[At], side, 1)>>,
             side = "BUY" => slot_'[TheSlot].position \in {-1, 0},
             side = "SELL" => slot_'[TheSlot].position \in {0, 1}
      PROVE  PendingInv'
  <2>1. Head(pending').side = side
    BY <1>7 DEF Order
  <2>2. pending' = <<Order(ticks'[next'], side, 1)>>
    BY <1>2, <1>3, <1>7
  <2> QED BY <1>3, <1>5, <1>7, <2>1, <2>2 DEF PendingInv, Order
<1> QED BY <1>6, <1>7, TickOrders

\* The orders for a name on one side.
On(name, side) == {k \in DOMAIN orders : orders[k].symbol = name /\ orders[k].side = side}

\* One more order is one more on its side.
LEMMA OneMoreOn ==
  ASSUME orders \in Seq(OrderType), NEW e \in OrderType, orders' = Append(orders, e),
         NEW name, NEW side
  PROVE  /\ Cardinality(On(name, side)) \in Nat
         /\ Cardinality(On(name, side)') =
              Cardinality(On(name, side)) + (IF e.symbol = name /\ e.side = side THEN 1 ELSE 0)
<1> DEFINE S == On(name, side)
           T == On(name, side)'
           new == Len(orders) + 1
<1>1. /\ Len(orders) \in Nat /\ DOMAIN orders = 1 .. Len(orders) /\ DOMAIN orders' = 1 .. new
      /\ \A k \in 1 .. Len(orders) : orders'[k] = orders[k]
      /\ orders'[new] = e
  OBVIOUS
<1>2. IsFiniteSet(S)
  <2>1. IsFiniteSet(1 .. Len(orders))
    BY <1>1, FS_Interval
  <2>2. S \subseteq 1 .. Len(orders)
    BY <1>1 DEF On
  <2> HIDE DEF S
  <2> QED BY <2>1, <2>2, FS_Subset
<1>3. new \notin S
  BY <1>1 DEF On
<1>4. CASE e.symbol = name /\ e.side = side
  <2>1. T = S \cup {new}
    BY <1>1, <1>4 DEF On
  <2> HIDE DEF S, T, new
  <2>2. Cardinality(S \cup {new}) = Cardinality(S) + 1
    BY <1>2, <1>3, FS_AddElement
  <2> QED BY <1>2, <1>4, <2>1, <2>2, FS_CardinalityType DEF S, T
<1>5. CASE ~ (e.symbol = name /\ e.side = side)
  <2>1. T = S
    BY <1>1, <1>5 DEF On
  <2> HIDE DEF S, T, new
  <2>2. Cardinality(S) \in Nat
    BY <1>2, FS_CardinalityType
  <2> QED BY <1>5, <2>1, <2>2 DEF S, T
<1> QED BY <1>4, <1>5

\* What an order adds to a name's net.
LEMMA NetAppended ==
  ASSUME orders \in Seq(OrderType), NEW e \in OrderType, orders' = Append(orders, e), NEW name
  PROVE  /\ Net(name) \in Int
         /\ Net(name)' = Net(name) + (IF e.symbol # name THEN 0 ELSE IF e.side = "BUY" THEN 1 ELSE -1)
<1> DEFINE b == "BUY"
           s == "SELL"
<1>1. /\ Net(name) = Cardinality(On(name, b)) - Cardinality(On(name, s))
      /\ Net(name)' = Cardinality(On(name, b)') - Cardinality(On(name, s)')
  BY DEF Net, On
<1>2. (e.side = b \/ e.side = s) /\ ~ (e.side = b /\ e.side = s)
  BY DEF OrderType
<1> HIDE DEF b, s
<1>3. /\ Cardinality(On(name, b)) \in Nat
      /\ Cardinality(On(name, b)') =
           Cardinality(On(name, b)) + (IF e.symbol = name /\ e.side = b THEN 1 ELSE 0)
  BY OneMoreOn
<1>4. /\ Cardinality(On(name, s)) \in Nat
      /\ Cardinality(On(name, s)') =
           Cardinality(On(name, s)) + (IF e.symbol = name /\ e.side = s THEN 1 ELSE 0)
  BY OneMoreOn
<1>5. Net(name) \in Int
  BY <1>1, <1>3, <1>4
<1>6. Net(name)' = Net(name) + (IF e.symbol # name THEN 0 ELSE IF e.side = b THEN 1 ELSE -1)
  BY <1>1, <1>2, <1>3, <1>4
<1> QED BY <1>5, <1>6 DEF b

\* A name without orders has none to add up.
LEMMA NetOfNone ==
  ASSUME NEW name, \A k \in DOMAIN orders : orders[k].symbol # name
  PROVE  Net(name) = 0
<1>1. {k \in DOMAIN orders : orders[k].symbol = name /\ orders[k].side = "BUY"} = {}
  OBVIOUS
<1>2. {k \in DOMAIN orders : orders[k].symbol = name /\ orders[k].side = "SELL"} = {}
  OBVIOUS
<1> QED BY <1>1, <1>2, FS_EmptySet DEF Net

\* Before a tick of a long name, the position of the slot on_tick will use is what the
\* orders of the name add up to, whether the name has been seen or not.
LEMMA TickNet ==
  ASSUME BooksInv, Tick, file[At].symbol \notin ShortNames
  PROVE  slot_[TheSlot].position = Net(file[At].symbol)
<1>1. /\ status = "replay" /\ next < Len(ticks) /\ pending = <<>>
  BY DEF Tick
<1>2. /\ next \in Nat /\ At \in 1 .. Len(ticks) /\ View = ticks[At].symbol /\ View # Unused
      /\ 1 .. next \subseteq 1 .. Len(ticks) /\ Len(ticks) \in Nat
  BY <1>1, BeforeTick
<1>3. LoaderInv /\ StrategyInv /\ SeenInv /\ OrdersInv
  BY DEF BooksInv
<1>4. ASSUME NEW j \in 1 .. next
      PROVE  View = ticks[j].symbol <=> file[At].symbol = file[j].symbol
  <2>1. j \in 1 .. Len(ticks)
    BY <1>2
  <2> QED BY <1>2, <1>3, <2>1, ViewsTellNames
<1>5. CASE Known(View) = {}
  <2>1. slot_[TheSlot].position = 0
    BY <1>5, TickSlots
  <2>2. ASSUME NEW k \in DOMAIN orders, orders[k].symbol = file[At].symbol PROVE FALSE
    <3>1. PICK j \in 1 .. next : orders[k].symbol = file[j].symbol
      BY <1>3 DEF OrdersInv
    <3>2. View = ticks[j].symbol
      BY <1>4, <2>2, <3>1
    <3>3. Known(ticks[j].symbol) # {}
      BY <1>3 DEF SeenInv
    <3> QED BY <1>5, <3>2, <3>3
  <2>3. Net(file[At].symbol) = 0
    BY <2>2, NetOfNone
  <2> QED BY <2>1, <2>3
<1>6. CASE Known(View) # {}
  <2>1. PICK i \in Slots : symbols_[i] = View
    BY <1>6 DEF Known
  <2>2. i \in Slots \ Free
    BY <1>2, <2>1 DEF Free
  <2>3. PICK j \in 1 .. next : symbols_[i] = ticks[j].symbol
    BY <1>3, <2>2 DEF SeenInv
  <2>4. file[j].symbol = file[At].symbol /\ ticks[j].symbol = View
    BY <1>4, <2>1, <2>3
  <2>5. SlotOf(j).position + Owed(ticks[j].symbol) = Net(file[j].symbol)
    BY <1>3, <2>4 DEF OrdersInv
  <2>6. Owed(ticks[j].symbol) = 0
    BY <1>1 DEF Owed
  <2>7. SlotOf(j) = slot_[TheSlot]
    BY <2>4 DEF SlotOf, TheSlot
  <2>8. slot_[TheSlot].position \in Int
    BY TickSlots
  <2> QED BY <2>4, <2>5, <2>6, <2>7, <2>8
<1> QED BY <1>5, <1>6

\* A net is a number.
LEMMA NetType ==
  ASSUME orders \in Seq(OrderType), NEW name
  PROVE  Net(name) \in Int
<1> DEFINE B == {k \in DOMAIN orders : orders[k].symbol = name /\ orders[k].side = "BUY"}
           S == {k \in DOMAIN orders : orders[k].symbol = name /\ orders[k].side = "SELL"}
<1>1. DOMAIN orders = 1 .. Len(orders) /\ Len(orders) \in Nat
  OBVIOUS
<1>2. IsFiniteSet(1 .. Len(orders))
  BY <1>1, FS_Interval
<1>3. B \subseteq 1 .. Len(orders) /\ S \subseteq 1 .. Len(orders)
  BY <1>1
<1>4. Net(name) = Cardinality(B) - Cardinality(S)
  BY DEF Net
<1> HIDE DEF B, S
<1>5. IsFiniteSet(B) /\ IsFiniteSet(S)
  BY <1>2, <1>3, FS_Subset
<1>6. Cardinality(B) \in Nat /\ Cardinality(S) \in Nat
  BY <1>5, FS_CardinalityType
<1> QED BY <1>4, <1>6

\* What a tick's order, if any, will do to the position of its symbol, it has already
\* done to the net of the name.
LEMMA TickBooks ==
  ASSUME BooksInv, Tick
  PROVE  \E d \in Int :
            /\ \A v : Owed(v)' = IF v = View THEN d ELSE 0
            /\ \A n : Net(n)' = IF n = file[At].symbol THEN Net(n) + d ELSE Net(n)
<1>1. orders \in Seq(OrderType)
  BY DEF BooksInv, OrdersInv, OrderType
<1>2. View = ticks[At].symbol
  BY DEF View, At
<1>3. CASE pending' = <<>> /\ orders' = orders
  <2>1. \A v : Owed(v)' = 0
    BY <1>3 DEF Owed
  <2>2. \A n : Net(n) \in Int
    BY <1>1, NetType
  <2>3. \A n : Net(n)' = Net(n)
    BY <1>3 DEF Net
  <2>4. \A n : Net(n)' = IF n = file[At].symbol THEN Net(n) + 0 ELSE Net(n)
    BY <2>2, <2>3
  <2> QED BY <2>1, <2>4
<1>4. ASSUME NEW side \in {"BUY", "SELL"}, pending' = <<Order(ticks[At], side, 1)>>,
             NEW e \in OrderType, orders' = Append(orders, e),
             e.symbol = file[At].symbol, e.side = side
      PROVE  \E d \in Int :
                /\ \A v : Owed(v)' = IF v = View THEN d ELSE 0
                /\ \A n : Net(n)' = IF n = file[At].symbol THEN Net(n) + d ELSE Net(n)
  <2> DEFINE d == IF side = "BUY" THEN 1 ELSE -1
  <2>1. /\ pending' # <<>> /\ Head(pending').symbol = View /\ Head(pending').side = side
    BY <1>2, <1>4 DEF Order
  <2>2. \A v : Owed(v)' = IF v = View THEN d ELSE 0
    BY <2>1 DEF Owed
  <2>3. ASSUME NEW n PROVE Net(n)' = IF n = file[At].symbol THEN Net(n) + d ELSE Net(n)
    <3>1. /\ Net(n) \in Int
          /\ Net(n)' = Net(n) + (IF e.symbol # n THEN 0 ELSE IF e.side = "BUY" THEN 1 ELSE -1)
      BY <1>1, <1>4, NetAppended
    <3> QED BY <1>4, <3>1
  <2>4. d \in Int
    OBVIOUS
  <2> HIDE DEF d
  <2> QED BY <2>2, <2>3, <2>4
<1> QED BY <1>3, <1>4, TickOrders

\* The slot of a symbol seen before keeps its place in a tick; only that of the tick's
\* symbol changes.
LEMMA OtherSlots ==
  ASSUME BooksInv, Tick, NEW j \in 1 .. next, ticks[j].symbol # View
  PROVE  SlotOf(j)' = SlotOf(j)
<1>1. /\ StrategyInv' /\ TheSlot \in Slots /\ symbols_[TheSlot] \in {Unused, View}
      /\ \A i \in Slots : i # TheSlot => symbols_'[i] = symbols_[i] /\ slot_'[i] = slot_[i]
  BY TickSlots
<1>2. /\ UNCHANGED ticks /\ StrategyInv /\ LoaderInv /\ j \in 1 .. Len(ticks)
      /\ Known(ticks[j].symbol) # {}
  <2>1. UNCHANGED ticks /\ status = "replay" /\ next < Len(ticks)
    BY DEF Tick, loaderVars
  <2>2. StrategyInv /\ LoaderInv /\ SeenInv
    BY DEF BooksInv
  <2>3. next \in Nat /\ Len(ticks) \in Nat
    BY <2>1, BeforeTick
  <2> QED BY <2>1, <2>2, <2>3 DEF SeenInv
<1>3. PICK i \in Slots : symbols_[i] = ticks[j].symbol
  BY <1>2 DEF Known
<1>4. symbols_[i] # Unused
  BY <1>2, <1>3, TicksUsed
<1>5. i # TheSlot
  BY <1>1, <1>3, <1>4
<1>6. SlotOf(j) = slot_[i]
  BY <1>2, <1>3, <1>4, SlotFound DEF SlotOf
<1>7. symbols_'[i] = ticks'[j].symbol /\ symbols_'[i] # Unused /\ slot_'[i] = slot_[i]
  BY <1>1, <1>2, <1>3, <1>4, <1>5
<1>8. SlotOf(j)' = slot_'[i]
  BY <1>1, <1>7, SlotFoundNext
<1> QED BY <1>6, <1>7, <1>8

\* The orders still add up to the positions.
LEMMA TickOrdersKeep ==
  ASSUME BooksInv, Tick
  PROVE  OrdersInv'
<1>1. /\ status = "replay" /\ next < Len(ticks) /\ pending = <<>> /\ next' = next + 1
      /\ UNCHANGED <<file, ticks, orders_generated, fills_processed>>
  BY DEF Tick, loaderVars
<1>2. /\ next \in Nat /\ At \in 1 .. Len(ticks) /\ At = next + 1 /\ View = ticks[At].symbol
      /\ View # Unused /\ Len(ticks) \in Nat /\ 1 .. next \subseteq 1 .. Len(ticks)
  BY <1>1, BeforeTick DEF At
<1>3. LoaderInv /\ OrdersInv
  BY DEF BooksInv
<1>4. orders \in Seq(OrderType) /\ Len(orders) = orders_generated + Len(pending)
      /\ fills_processed = orders_generated /\ orders_generated \in Nat
      /\ \A k \in DOMAIN orders : \E j \in 1 .. next : orders[k].symbol = file[j].symbol
  BY <1>3 DEF OrdersInv, OrderType
<1>5. /\ orders' \in Seq(OrderType) /\ Len(orders') = orders_generated' + Len(pending')
      /\ \A k \in DOMAIN orders' : \E j \in 1 .. next' : orders'[k].symbol = file'[j].symbol
  <2>1. CASE pending' = <<>> /\ orders' = orders
    <3>1. \A j \in 1 .. next : j \in 1 .. next'
      BY <1>1, <1>2
    <3> QED BY <1>1, <1>4, <2>1, <3>1
  <2>2. ASSUME NEW side \in {"BUY", "SELL"}, pending' = <<Order(ticks[At], side, 1)>>,
               NEW e \in OrderType, orders' = Append(orders, e),
               e.symbol = file[At].symbol, e.side = side
        PROVE  /\ orders' \in Seq(OrderType) /\ Len(orders') = orders_generated' + Len(pending')
               /\ \A k \in DOMAIN orders' : \E j \in 1 .. next' : orders'[k].symbol = file'[j].symbol
    <3>1. orders' \in Seq(OrderType) /\ Len(orders') = Len(orders) + 1 /\ Len(orders) \in Nat
          /\ DOMAIN orders' = 1 .. Len(orders) + 1 /\ DOMAIN orders = 1 .. Len(orders)
          /\ orders'[Len(orders) + 1] = e
          /\ \A k \in 1 .. Len(orders) : orders'[k] = orders[k]
      BY <1>4, <2>2
    <3>2. Len(pending') = 1 /\ Len(pending) = 0
      BY <1>1, <2>2
    <3>3. ASSUME NEW k \in DOMAIN orders' PROVE \E j \in 1 .. next' : orders'[k].symbol = file'[j].symbol
      <4>1. CASE k = Len(orders) + 1
        BY <1>1, <1>2, <2>2, <3>1, <4>1
      <4>2. CASE k # Len(orders) + 1
        <5>1. k \in DOMAIN orders /\ orders'[k] = orders[k]
          BY <3>1, <4>2
        <5>2. PICK j \in 1 .. next : orders[k].symbol = file[j].symbol
          BY <1>4, <5>1
        <5> QED BY <1>1, <1>2, <5>1, <5>2
      <4> QED BY <4>1, <4>2
    <3> QED BY <1>1, <1>4, <3>1, <3>2, <3>3
  <2> QED BY <2>1, <2>2, TickOrders
<1>6. ASSUME NEW j \in 1 .. next', file'[j].symbol \notin ShortNames
      PROVE  (SlotOf(j).position)' + Owed(ticks[j].symbol)' = Net(file[j].symbol)'
  <2>1. PICK d \in Int : /\ \A v : Owed(v)' = IF v = View THEN d ELSE 0
                         /\ \A n : Net(n)' = IF n = file[At].symbol THEN Net(n) + d ELSE Net(n)
    BY TickBooks
  <2>2. j \in 1 .. Len(ticks) /\ (j \in 1 .. next \/ j = At) /\ file[j].symbol \notin ShortNames
    BY <1>1, <1>2, <1>6
  <2>3. Net(file[j].symbol) \in Int
    BY <1>4, NetType
  <2>4. ticks[j].symbol = View <=> file[j].symbol = file[At].symbol
    BY <1>2, <1>3, <2>2, ViewsTellNames
  <2>5. /\ Owed(ticks[j].symbol)' = IF ticks[j].symbol = View THEN d ELSE 0
        /\ Net(file[j].symbol)' = IF ticks[j].symbol = View THEN Net(file[j].symbol) + d ELSE Net(file[j].symbol)
    <3>1. Owed(ticks[j].symbol)' = IF ticks'[j].symbol = View THEN d ELSE 0
      BY <2>1
    <3>2. Net(file[j].symbol)' = IF file'[j].symbol = file[At].symbol
                                   THEN Net(file'[j].symbol) + d ELSE Net(file'[j].symbol)
      BY <2>1
    <3> QED BY <1>1, <2>4, <3>1, <3>2
  <2>6. CASE ticks[j].symbol = View
    <3>1. /\ StrategyInv' /\ TheSlot \in Slots /\ symbols_'[TheSlot] = View
          /\ slot_'[TheSlot].position = slot_[TheSlot].position
      BY TickSlots
    <3>2. SlotOf(j)' = slot_'[TheSlot]
      BY <1>1, <1>2, <2>6, <3>1, SlotFoundNext
    <3>3. file[At].symbol \notin ShortNames /\ file[j].symbol = file[At].symbol
      BY <2>2, <2>4, <2>6
    <3>4. slot_[TheSlot].position = Net(file[j].symbol)
      BY <3>3, TickNet
    <3> QED BY <2>3, <2>5, <2>6, <3>1, <3>2, <3>4
  <2>7. CASE ticks[j].symbol # View
    <3>1. j \in 1 .. next
      BY <1>2, <2>2, <2>7
    <3>2. SlotOf(j)' = SlotOf(j)
      BY <2>7, <3>1, OtherSlots
    <3>3. SlotOf(j).position + Owed(ticks[j].symbol) = Net(file[j].symbol)
      BY <1>3, <2>2, <3>1 DEF OrdersInv
    <3>4. Owed(ticks[j].symbol) = 0
      BY <1>1 DEF Owed
    <3> QED BY <2>5, <2>7, <3>2, <3>3, <3>4
  <2> QED BY <2>6, <2>7
<1> QED BY <1>1, <1>4, <1>5, <1>6 DEF OrdersInv, OrderType

\* A tick keeps the invariant.
LEMMA TickKeeps ==
  ASSUME BooksInv, Tick
  PROVE  BooksInv'
<1>1. /\ status = "replay" /\ status' = "replay" /\ next < Len(ticks) /\ next' = next + 1
      /\ UNCHANGED <<file, ticks, symbol_storage_, buffer, symbol_map>>
  BY DEF Tick, loaderVars
<1>2. next \in Nat /\ Len(ticks) \in Nat
  BY <1>1, BeforeTick
<1>3. LoaderInv'
  BY <1>1 DEF BooksInv, LoaderInv, NamesInv, TickOf
<1>4. PICK ns \in Latencies : Record(ns)
  BY DEF Tick
<1>5. HistogramInv'
  BY <1>4, RecordKeeps DEF BooksInv
<1>6. EngineInv'
  BY <1>1, <1>2, <1>4 DEF BooksInv, EngineInv, Record
<1> QED BY <1>3, <1>5, <1>6, TickSlots, TickPending, TickSeen, TickOrdersKeep DEF BooksInv

\* The fill of an order reaches the slot of its symbol, and settles what was owed to it.
LEMMA FillSlots ==
  ASSUME BooksInv, Fill
  PROVE  /\ StrategyInv' /\ pending' = <<>>
         /\ next \in 1 .. Len(ticks) /\ status = "replay"
         /\ \E i \in Slots :
              /\ symbols_[i] = ticks[next].symbol
              /\ slot_'[i].position = slot_[i].position + Owed(ticks[next].symbol)
              /\ \A j \in Slots : j # i => slot_'[j] = slot_[j]
         /\ \A j \in Slots : symbols_'[j] = symbols_[j]
         /\ \A v : v # ticks[next].symbol => Owed(v) = 0
<1> DEFINE v == ticks[next].symbol
<1>1. pending # <<>> /\ OnFill(Head(pending)) /\ pending' = Tail(pending)
  BY DEF Fill
<1>2. LoaderInv /\ StrategyInv /\ SeenInv /\ PendingInv /\ EngineInv
  BY DEF BooksInv
<1>3. PICK side \in {"BUY", "SELL"} : pending = <<Order(ticks[next], side, 1)>>
  BY <1>1, <1>2 DEF PendingInv
<1>4. Head(pending) = Order(ticks[next], side, 1) /\ pending' = <<>>
  BY <1>1, <1>3
<1>5. Order(ticks[next], side, 1).symbol = v /\ Order(ticks[next], side, 1).side = side
      /\ Order(ticks[next], side, 1).qty = 1
  BY DEF Order
<1>6. next > 0 /\ next \in 0 .. Len(ticks) /\ status = "replay"
  BY <1>1, <1>2 DEF PendingInv, EngineInv
<1>7. next \in 1 .. Len(ticks) /\ next \in 1 .. next
  BY <1>6
<1>8. v # Unused
  BY <1>2, <1>7, TicksUsed
<1>9. PICK i \in Slots : symbols_[i] = v
  <2>1. Known(v) # {}
    BY <1>2, <1>7 DEF SeenInv
  <2> QED BY <2>1 DEF Known
<1>10. Known(v) = {i} /\ Lookup(v) = i
  BY <1>2, <1>8, <1>9, SlotFound
<1>11. /\ SlotOf(next) = slot_[i]
       /\ side = "BUY" => slot_[i].position \in {-1, 0}
       /\ side = "SELL" => slot_[i].position \in {0, 1}
  BY <1>1, <1>2, <1>4, <1>5, <1>10 DEF PendingInv, SlotOf
<1>12. Owed(v) = (IF side = "BUY" THEN 1 ELSE -1) /\ \A w : w # v => Owed(w) = 0
  BY <1>1, <1>4, <1>5 DEF Owed
<1>13. /\ symbols_' = Registered(v)
       /\ slot_' = [slot_ EXCEPT ![i].position = IF side = "BUY" THEN @ + 1 ELSE @ - 1]
  BY <1>1, <1>4, <1>5, <1>10 DEF OnFill
<1> HIDE DEF v
<1>14. DOMAIN slot_ = Slots /\ SlotInv(slot_[i])
  BY <1>2, <1>9 DEF StrategyInv
<1>15. /\ DOMAIN slot_' = Slots
       /\ slot_'[i] = [slot_[i] EXCEPT !.position = IF side = "BUY" THEN @ + 1 ELSE @ - 1]
       /\ \A j \in Slots : j # i => slot_'[j] = slot_[j]
  BY <1>9, <1>13, <1>14
<1>16. slot_'[i].position = slot_[i].position + Owed(v)
  BY <1>11, <1>12, <1>14, <1>15 DEF SlotInv, EmptySlot
<1>17. SlotInv(slot_'[i])
  <2>1. slot_'[i].position \in -1 .. 1
    BY <1>3, <1>11, <1>12, <1>16
  <2>2. /\ DOMAIN slot_'[i] = DOMAIN slot_[i] /\ slot_'[i].mids = slot_[i].mids
        /\ slot_'[i].head = slot_[i].head /\ slot_'[i].count = slot_[i].count
    BY <1>14, <1>15 DEF SlotInv, EmptySlot
  <2> QED BY <1>14, <2>1, <2>2 DEF SlotInv
<1>18. Candidates(v) # {}
  BY <1>9, <1>10 DEF Candidates
<1>19. /\ StrategyInv' /\ symbols_'[i] = v
       /\ \A j \in Slots : j # i => symbols_'[j] = symbols_[j]
  BY <1>2, <1>8, <1>10, <1>13, <1>15, <1>17, <1>18, SlotChanges
<1>20. \A j \in Slots : symbols_'[j] = symbols_[j]
  BY <1>9, <1>19
<1> QED BY <1>4, <1>6, <1>7, <1>9, <1>12, <1>15, <1>16, <1>19, <1>20 DEF v

\* A fill keeps the invariant.
LEMMA FillKeeps ==
  ASSUME BooksInv, Fill
  PROVE  BooksInv'
<1>1. /\ StrategyInv' /\ pending' = <<>> /\ next \in 1 .. Len(ticks) /\ status = "replay"
      /\ \A j \in Slots : symbols_'[j] = symbols_[j]
      /\ \A v : v # ticks[next].symbol => Owed(v) = 0
  BY FillSlots
<1>2. /\ UNCHANGED <<status, file, ticks, symbol_storage_, buffer, symbol_map, buckets_, count_, samples>>
      /\ UNCHANGED <<next, orders>> /\ pending # <<>> /\ pending' = Tail(pending)
      /\ orders_generated' = orders_generated + 1 /\ fills_processed' = fills_processed + 1
  BY DEF Fill, loaderVars, histogramVars
<1>3. LoaderInv /\ StrategyInv /\ SeenInv /\ PendingInv /\ EngineInv /\ OrdersInv /\ HistogramInv
  BY DEF BooksInv
<1>4. LoaderInv'
  BY <1>2, <1>3 DEF LoaderInv, NamesInv, TickOf
<1>5. HistogramInv'
  BY <1>2, <1>3, HistogramUnchanged DEF histogramVars
<1>6. EngineInv' /\ PendingInv'
  BY <1>1, <1>2, <1>3 DEF EngineInv, PendingInv
<1>7. SeenInv'
  <2>1. Slots \ Free' = Slots \ Free /\ \A k : Known(ticks[k].symbol)' = Known(ticks[k].symbol)
    BY <1>1, <1>2 DEF Free, Known
  <2> QED BY <1>1, <1>2, <1>3, <2>1 DEF SeenInv, Free
<1>8. OrdersInv'
  <2>1. /\ orders \in Seq(OrderType) /\ Len(orders) = orders_generated + Len(pending)
        /\ fills_processed = orders_generated /\ orders_generated \in Nat
        /\ \A k \in DOMAIN orders : \E j \in 1 .. next : orders[k].symbol = file[j].symbol
        /\ \A j \in 1 .. next :
             file[j].symbol \notin ShortNames =>
               SlotOf(j).position + Owed(ticks[j].symbol) = Net(file[j].symbol)
    BY <1>3 DEF OrdersInv, OrderType
  <2>2. Len(pending) = 1 /\ Len(pending') = 0
    <3>1. \E side \in {"BUY", "SELL"} : pending = <<Order(ticks[next], side, 1)>>
      BY <1>2, <1>3 DEF PendingInv
    <3> QED BY <1>1, <3>1
  <2>3. ASSUME NEW j \in 1 .. next, file[j].symbol \notin ShortNames
        PROVE  (SlotOf(j).position)' + Owed(ticks[j].symbol)' = Net(file[j].symbol)'
    <3>1. Net(file[j].symbol)' = Net(file[j].symbol) /\ Owed(ticks[j].symbol)' = 0
      BY <1>1, <1>2 DEF Net, Owed
    <3>2. PICK i \in Slots : /\ symbols_[i] = ticks[next].symbol
                             /\ slot_'[i].position = slot_[i].position + Owed(ticks[next].symbol)
                             /\ \A k \in Slots : k # i => slot_'[k] = slot_[k]
      BY FillSlots
    <3>3. j \in 1 .. Len(ticks) /\ Known(ticks[j].symbol) # {}
      <4>1. ticks \in Seq(TickType)
        BY <1>3 DEF LoaderInv, TickType
      <4> QED BY <1>1, <1>3, <4>1 DEF SeenInv
    <3>4. PICK m \in Slots : symbols_[m] = ticks[j].symbol
      BY <3>3 DEF Known
    <3>5. symbols_[m] # Unused
      BY <1>3, <3>3, <3>4, TicksUsed
    <3>6. SlotOf(j) = slot_[m]
      BY <1>3, <3>4, <3>5, SlotFound DEF SlotOf
    <3>7. SlotOf(j)' = slot_'[m]
      BY <1>1, <1>2, <3>4, <3>5, SlotFoundNext
    <3>8. SlotOf(j).position + Owed(ticks[j].symbol) = Net(file[j].symbol)
      BY <2>1, <2>3
    <3>9. slot_'[m].position = slot_[m].position + Owed(ticks[j].symbol)
      <4>1. CASE m = i
        BY <3>2, <3>4, <4>1
      <4>2. CASE m # i
        <5>1. ticks[j].symbol # ticks[next].symbol
          <6>1. ASSUME ticks[j].symbol = ticks[next].symbol PROVE m = i
            BY <1>3, <3>2, <3>4, <3>5, <6>1 DEF StrategyInv, Free
          <6> QED BY <4>2, <6>1
        <5>2. Owed(ticks[j].symbol) = 0 /\ slot_'[m] = slot_[m]
          BY <1>1, <3>2, <4>2, <5>1
        <5>3. slot_[m].position \in Int
          BY <1>3 DEF StrategyInv, SlotInv
        <5> QED BY <5>2, <5>3
      <4> QED BY <4>1, <4>2
    <3>10. Net(file[j].symbol) \in Int
      BY <2>1, NetType
    <3> QED BY <3>1, <3>6, <3>7, <3>8, <3>9, <3>10
  <2>4. \A k \in DOMAIN orders' : \E j \in 1 .. next' : orders'[k].symbol = file'[j].symbol
    BY <1>2, <2>1
  <2>5. /\ orders' \in Seq(OrderType) /\ Len(orders') = orders_generated' + Len(pending')
        /\ fills_processed' = orders_generated' /\ orders_generated' \in Nat
    <3>1. /\ orders \in Seq(OrderType) /\ Len(orders) = orders_generated + Len(pending)
          /\ fills_processed = orders_generated /\ orders_generated \in Nat
      BY <2>1
    <3>2. /\ orders' = orders /\ orders_generated' = orders_generated + 1
          /\ fills_processed' = fills_processed + 1
      BY <1>2
    <3> QED BY <2>2, <3>1, <3>2
  <2>6. ASSUME NEW j \in 1 .. next', file'[j].symbol \notin ShortNames
        PROVE  (SlotOf(j).position)' + Owed(ticks[j].symbol)' = Net(file[j].symbol)'
    BY <1>2, <2>3, <2>6
  <2> QED BY <2>4, <2>5, <2>6 DEF OrdersInv, OrderType
<1> QED BY <1>1, <1>4, <1>5, <1>6, <1>7, <1>8 DEF BooksInv

\* The parts of the invariant that do not know the status.
LEMMA NothingMoves ==
  ASSUME BooksInv, UNCHANGED <<file, ticks, strategyVars, histogramVars, engineVars>>
  PROVE  StrategyInv' /\ HistogramInv' /\ PendingInv' /\ SeenInv' /\ OrdersInv'
<1>1. /\ UNCHANGED <<file, ticks, symbols_, slot_, buckets_, count_, samples>>
      /\ UNCHANGED <<next, pending, orders, orders_generated, fills_processed>>
  BY DEF strategyVars, histogramVars, engineVars
<1>2. StrategyInv /\ HistogramInv /\ PendingInv /\ SeenInv /\ OrdersInv
  BY DEF BooksInv
<1>3. HistogramInv'
  BY <1>2, HistogramUnchanged
<1>4. StrategyInv'
  BY <1>1, <1>2 DEF StrategyInv, SlotInv, Free
<1>5. \A k : SlotOf(k)' = SlotOf(k) /\ Known(ticks[k].symbol)' = Known(ticks[k].symbol)
  BY <1>1 DEF SlotOf, Lookup, Candidates, Known, Free
<1>6. PendingInv'
  BY <1>1, <1>2, <1>5 DEF PendingInv, SlotOf, Lookup, Candidates, Known, Free
<1>7. SeenInv'
  <2>1. Free' = Free
    BY <1>1 DEF Free
  <2> QED BY <1>1, <1>2, <1>5, <2>1 DEF SeenInv
<1>8. OrdersInv'
  <2>1. ASSUME NEW v PROVE Owed(v)' = Owed(v)
    BY <1>1 DEF Owed
  <2>2. ASSUME NEW n PROVE Net(n)' = Net(n)
    BY <1>1 DEF Net
  <2>3. ASSUME NEW j \in 1 .. next, file[j].symbol \notin ShortNames
        PROVE  (SlotOf(j).position)' + Owed(ticks[j].symbol)' = Net(file[j].symbol)'
    <3>1. SlotOf(j).position + Owed(ticks[j].symbol) = Net(file[j].symbol)
      BY <1>2, <2>3 DEF OrdersInv
    <3>2. Owed(ticks[j].symbol)' = Owed(ticks[j].symbol)
      BY <1>1 DEF Owed
    <3>3. Net(file[j].symbol)' = Net(file[j].symbol)
      BY <1>1 DEF Net
    <3> QED BY <1>5, <3>1, <3>2, <3>3
  <2>4. /\ orders \in Seq(OrderType) /\ Len(orders) = orders_generated + Len(pending)
        /\ fills_processed = orders_generated /\ orders_generated \in Nat
        /\ \A k \in DOMAIN orders : \E j \in 1 .. next : orders[k].symbol = file[j].symbol
    BY <1>2 DEF OrdersInv, OrderType
  <2>5. \A k \in DOMAIN orders' : \E j \in 1 .. next' : orders'[k].symbol = file'[j].symbol
    BY <1>1, <2>4
  <2>6. /\ orders' \in Seq(OrderType) /\ Len(orders') = orders_generated' + Len(pending')
        /\ fills_processed' = orders_generated' /\ orders_generated' \in Nat
    BY <1>1, <2>4
  <2>7. ASSUME NEW j \in 1 .. next', file'[j].symbol \notin ShortNames
        PROVE  (SlotOf(j).position)' + Owed(ticks[j].symbol)' = Net(file[j].symbol)'
    BY <1>1, <2>3, <2>7
  <2> QED BY <2>5, <2>6, <2>7 DEF OrdersInv, OrderType
<1> QED BY <1>3, <1>4, <1>6, <1>7, <1>8

\* Loading a row keeps the invariant: nothing has been given to the strategy yet.
LEMMA LoadStepKeeps ==
  ASSUME BooksInv, LoadStep
  PROVE  BooksInv'
<1>1. /\ LoaderInv /\ StrategyInv /\ HistogramInv /\ EngineInv /\ PendingInv /\ SeenInv /\ OrdersInv
      /\ Load
      /\ UNCHANGED <<symbols_, slot_, next, pending, orders, orders_generated, fills_processed>>
      /\ UNCHANGED <<buckets_, count_, samples>>
  BY DEF BooksInv, LoadStep, strategyVars, histogramVars, engineVars
<1>2. LoaderInv'
  BY <1>1, LoadKeeps
<1>3. status \in {"start", "loading"} /\ status' \in {"rejected", "loading", "replay"}
  BY <1>1 DEF Load, OpenFails, Open, LoadKnown, LoadNew, LoadDone, Converted
<1>4. next = 0 /\ pending = <<>> /\ count_ = 0
  BY <1>1, <1>3 DEF EngineInv
<1>5. ticks' \in Seq(TickType) /\ Len(ticks') \in Nat
  BY <1>2 DEF LoaderInv, TickType
<1>6. EngineInv'
  BY <1>1, <1>3, <1>4, <1>5 DEF EngineInv
<1>7. HistogramInv'
  BY <1>1, HistogramUnchanged DEF histogramVars
<1>8. StrategyInv'
  BY <1>1 DEF StrategyInv, SlotInv, Free
<1>9. PendingInv'
  BY <1>1, <1>4 DEF PendingInv
<1>10. SeenInv'
  <2>1. Free' = Free
    BY <1>1 DEF Free
  <2>2. 1 .. next = {} /\ 1 .. next' = {}
    BY <1>1, <1>4
  <2> QED BY <1>1, <2>1, <2>2 DEF SeenInv
<1>11. OrdersInv'
  <2>1. 1 .. next = {} /\ 1 .. next' = {}
    BY <1>1, <1>4
  <2>2. /\ orders \in Seq(OrderType) /\ Len(orders) = orders_generated + Len(pending)
        /\ fills_processed = orders_generated /\ orders_generated \in Nat
        /\ \A k \in DOMAIN orders : \E j \in 1 .. next : orders[k].symbol = file[j].symbol
    BY <1>1 DEF OrdersInv, OrderType
  <2>3. DOMAIN orders' = {}
    BY <1>1, <2>1, <2>2
  <2> QED BY <1>1, <2>1, <2>2, <2>3 DEF OrdersInv, OrderType
<1> QED BY <1>2, <1>6, <1>7, <1>8, <1>9, <1>10, <1>11 DEF BooksInv

\* When on_tick throws, every slot is in use and none has the view.
LEMMA TickFailsKeeps ==
  ASSUME BooksInv, TickFails
  PROVE  BooksInv'
<1>1. /\ status = "replay" /\ status' = "aborted" /\ pending = <<>> /\ next < Len(ticks)
      /\ Candidates(ticks[next + 1].symbol) = {}
      /\ UNCHANGED <<loaderVars, strategyVars, histogramVars, engineVars>>
      /\ UNCHANGED <<file, ticks, symbol_storage_, buffer, symbol_map, symbols_, slot_>>
      /\ UNCHANGED <<count_, next, pending>>
  BY DEF TickFails, OnTickThrows, loaderVars, strategyVars, histogramVars, engineVars
<1>2. LoaderInv'
  BY <1>1 DEF BooksInv, LoaderInv, NamesInv, TickOf
<1>3. Candidates(ticks[next + 1].symbol)' = {}
  BY <1>1 DEF Candidates, Known, Free
<1>4. EngineInv'
  BY <1>1, <1>3 DEF BooksInv, EngineInv
<1>5. StrategyInv' /\ HistogramInv' /\ PendingInv' /\ SeenInv' /\ OrdersInv'
  BY <1>1, NothingMoves
<1> QED BY <1>2, <1>4, <1>5 DEF BooksInv

\* The end of the replay, and staying as it is, keep the invariant.
LEMMA RestKeeps ==
  ASSUME BooksInv, Finish \/ UNCHANGED vars
  PROVE  BooksInv'
<1>1. /\ UNCHANGED <<loaderVars, strategyVars, histogramVars, engineVars>>
      /\ UNCHANGED <<file, ticks, symbol_storage_, buffer, symbol_map, symbols_, slot_>>
      /\ UNCHANGED <<count_, next, pending>>
      /\ \/ status' = status
         \/ status = "replay" /\ status' = "done" /\ pending = <<>> /\ next = Len(ticks)
  BY DEF Finish, vars, loaderVars, strategyVars, histogramVars, engineVars
<1>2. LoaderInv'
  BY <1>1 DEF BooksInv, LoaderInv, NamesInv, TickOf
<1>3. Candidates(ticks[next + 1].symbol)' = Candidates(ticks[next + 1].symbol)
  BY <1>1 DEF Candidates, Known, Free
<1>4. EngineInv'
  BY <1>1, <1>3 DEF BooksInv, EngineInv
<1>5. StrategyInv' /\ HistogramInv' /\ PendingInv' /\ SeenInv' /\ OrdersInv'
  BY <1>1, NothingMoves
<1> QED BY <1>2, <1>4, <1>5 DEF BooksInv

\* The invariant holds before the file is opened.
LEMMA BooksInitially ==
  ASSUME Init
  PROVE  BooksInv
<1>1. /\ status = "start" /\ file = <<>> /\ ticks = <<>> /\ symbol_storage_ = <<>> /\ symbol_map = <<>>
      /\ buffer = [base |-> 0, capacity |-> 0]
      /\ symbols_ = [i \in Slots |-> Unused] /\ slot_ = [i \in Slots |-> EmptySlot]
      /\ HistogramInit /\ count_ = 0
      /\ next = 0 /\ pending = <<>> /\ orders = <<>> /\ orders_generated = 0 /\ fills_processed = 0
  BY DEF Init, LoaderInit, StrategyInit, HistogramInit
<1>2. LoaderInv
  <2>1. DOMAIN symbol_map = {} /\ 1 .. Len(symbol_storage_) = {} /\ symbol_storage_ \in Seq(Symbols)
    BY <1>1
  <2>2. NamesInv
    BY <2>1 DEF NamesInv
  <2>3. ticks \in Seq([symbol : Views, bid : Int, ask : Int]) /\ Len(ticks) = 0 /\ Len(file) = 0
    BY <1>1
  <2>4. \A i \in 1 .. Len(ticks) : TickOf(i)
    BY <2>3
  <2> QED BY <1>1, <2>2, <2>3, <2>4 DEF LoaderInv
<1>3. StrategyInv
  <2>1. DOMAIN symbols_ = Slots /\ DOMAIN slot_ = Slots /\ Free = Slots
        /\ \A i \in Slots : slot_[i] = EmptySlot
    BY <1>1 DEF Free
  <2> QED BY <2>1, EmptySlotInv DEF StrategyInv
<1>4. HistogramInv
  BY <1>1, HistogramInitially
<1>5. EngineInv /\ PendingInv
  BY <1>1 DEF EngineInv, PendingInv
<1>6. SeenInv
  <2>1. 1 .. next = {} /\ Slots \ Free = {}
    BY <1>1 DEF Free
  <2> QED BY <2>1 DEF SeenInv
<1>7. OrdersInv
  <2>1. 1 .. next = {} /\ DOMAIN orders = {} /\ orders \in Seq(OrderType) /\ Len(orders) = 0 /\ Len(pending) = 0
    BY <1>1
  <2> QED BY <1>1, <2>1 DEF OrdersInv, OrderType
<1> QED BY <1>2, <1>3, <1>4, <1>5, <1>6, <1>7 DEF BooksInv

\* Every step keeps it.
LEMMA BooksStep == BooksInv /\ [Next]_vars => BooksInv'
<1> SUFFICES ASSUME BooksInv, [Next]_vars PROVE BooksInv'
  OBVIOUS
<1>1. CASE LoadStep
  BY <1>1, LoadStepKeeps
<1>2. CASE Tick
  BY <1>2, TickKeeps
<1>3. CASE TickFails
  BY <1>3, TickFailsKeeps
<1>4. CASE Fill
  BY <1>4, FillKeeps
<1>5. CASE Finish \/ Terminated \/ UNCHANGED vars
  BY <1>5, RestKeeps DEF Terminated
<1> QED BY <1>1, <1>2, <1>3, <1>4, <1>5 DEF Next

-----------------------------------------------------------------------------
(* Sums of short mids.                                                     *)

\* A number is at most its square, and a square times a positive factor is no smaller.
LEMMA SquareGrows ==
  ASSUME NEW x \in Nat, NEW w \in Nat \ {0}
  PROVE  /\ x * x \in Nat /\ x <= x * x
         /\ w * x \in Nat /\ x <= w * x
         /\ x * x <= (w * x) * (w * x)
         /\ w * (x * x) <= (w * x) * (w * x)
         /\ (w * x) * (w * x) \in Nat
<1>1. w * x \in Nat /\ x <= w * x
  OBVIOUS
<1>2. \A y \in Nat : y * y \in Nat /\ y <= y * y
  OBVIOUS
<1>3. \A y, v \in Nat : y <= v => y * y <= v * v
  <2> SUFFICES ASSUME NEW y \in Nat, NEW v \in Nat, y <= v PROVE y * y <= v * v
    OBVIOUS
  <2>1. y * y <= y * v /\ y * v <= v * v
    OBVIOUS
  <2>2. {y * y, y * v, v * v} \subseteq Int
    OBVIOUS
  <2> DEFINE a == y * y
             b == y * v
             c == v * v
  <2> HIDE DEF a, b, c
  <2>3. a <= b /\ b <= c /\ {a, b, c} \subseteq Int
    BY <2>1, <2>2 DEF a, b, c
  <2>4. a <= c
    BY <2>3
  <2> QED BY <2>4 DEF a, c
<1>4. x * x <= (w * x) * (w * x)
  BY <1>1, <1>3
<1>5. w * (x * x) <= (w * x) * (w * x)
  <2> DEFINE s == x * x
             u == w * s
  <2>1. s \in Nat /\ u \in Nat
    OBVIOUS
  <2> HIDE DEF s
  <2>2. u <= w * u
    BY <2>1
  <2>3. (w * x) * (w * x) = w * u
    BY DEF s
  <2> QED BY <2>2, <2>3 DEF s
<1> QED BY <1>1, <1>2, <1>4, <1>5

\* What a sum of squared differences says of a sum and a sum of squares.
LEMMA SpreadPositive ==
  ASSUME NEW w \in Nat \ {0}, NEW q \in Int, NEW t \in Int
  PROVE  /\ (w * w) * q - (2 * w * t) * t + (t * t) * w = w * (w * q - t * t)
         /\ w * (w * q - t * t) >= 0 => t * t <= w * q
<1>1. (w * w) * q - (2 * w * t) * t + (t * t) * w = w * (w * q - t * t)
  OBVIOUS
<1> DEFINE a == w * q
           b == t * t
<1>2. a \in Int /\ b \in Int
  OBVIOUS
<1> HIDE DEF a, b
<1>3. w * (a - b) >= 0 => b <= a
  BY <1>2
<1> QED BY <1>1, <1>3 DEF a, b

\* What the squared deviations of a window with sum t and sum of squares q add up to.
SpreadsTo(g, t, q) ==
  \A d : (\A i \in 0 .. Window - 1 : d[i] = (Window * g[i] - t) * (Window * g[i] - t))
           => SumOver(d, 0 .. Window - 1) = Window * (Window * q - t * t)

\* The sum of a window, the sum of its squares, and the squared deviations.
LEMMA WindowSpread ==
  ASSUME NEW g \in [0 .. Window - 1 -> Int], \A i \in 0 .. Window - 1 : g[i] \in Nat,
         NEW squares, \A i \in 0 .. Window - 1 : squares[i] = g[i] * g[i],
         NEW t, t = SumOver(g, 0 .. Window - 1), NEW q, q = SumOver(squares, 0 .. Window - 1)
  PROVE  t \in Nat /\ q \in Nat /\ t * t <= Window * q /\ SpreadsTo(g, t, q)
<1> DEFINE S == 0 .. Window - 1
           w == Window
<1>1. w \in Nat \ {0} /\ IsFiniteSet(S) /\ Cardinality(S) = w
  <2>1. 0 \in Int /\ Window - 1 \in Int /\ Window \in Nat \ {0}
    BY StrategyAssumption
  <2>2. IsFiniteSet(S) /\ Cardinality(S) = IF 0 > Window - 1 THEN 0 ELSE (Window - 1) - 0 + 1
    BY <2>1, FS_Interval
  <2> QED BY <2>1, <2>2
<1>3. \A i \in S : g[i] \in Nat
  OBVIOUS
<1>4. /\ \A i \in S : g[i] \in Int
      /\ \A i \in S : squares[i] = g[i] * g[i]
      /\ t = SumOver(g, S) /\ q = SumOver(squares, S)
  OBVIOUS
<1> HIDE DEF S, w
<1>5. t \in Nat
  BY <1>1, <1>3, <1>4, SumNat
<1>6. q \in Nat
  <2>1. \A i \in S : squares[i] \in Nat
    <3> SUFFICES ASSUME NEW i \in S PROVE squares[i] \in Nat
      OBVIOUS
    <3> DEFINE x == g[i]
    <3>1. x \in Nat /\ squares[i] = x * x
      BY <1>3, <1>4
    <3> HIDE DEF x
    <3> QED BY <3>1
  <2> QED BY <1>1, <1>4, <2>1, SumNat
<1>7. ASSUME NEW d, \A i \in S : d[i] = (w * g[i] - t) * (w * g[i] - t)
      PROVE  SumOver(d, S) = (w * w) * q - (2 * w * t) * t + (t * t) * w /\ SumOver(d, S) >= 0
  <2>1. w \in Int /\ t \in Int
    BY <1>1, <1>5
  <2>2. Squares(squares, g, S) /\ SquaredDifferences(d, g, S, w, t)
    BY <1>4, <1>7 DEF Squares, SquaredDifferences
  <2>3. AddUp(d, squares, g, S, w, t) /\ SumOver(d, S) >= 0
    BY <1>1, <1>4, <2>1, <2>2, SumOfSquares
  <2> QED BY <1>1, <1>4, <2>3 DEF AddUp
<1>9. ASSUME NEW d, \A i \in S : d[i] = (w * g[i] - t) * (w * g[i] - t)
      PROVE  SumOver(d, S) = w * (w * q - t * t) /\ t * t <= w * q
  <2>1. SumOver(d, S) = (w * w) * q - (2 * w * t) * t + (t * t) * w /\ SumOver(d, S) >= 0
    BY <1>7, <1>9
  <2>2. t \in Int /\ q \in Int
    BY <1>5, <1>6
  <2>3. (w * w) * q - (2 * w * t) * t + (t * t) * w = w * (w * q - t * t)
    BY <1>1, <2>2, SpreadPositive
  <2>4. w * (w * q - t * t) >= 0 => t * t <= w * q
    BY <1>1, <2>2, SpreadPositive
  <2> QED BY <2>1, <2>3, <2>4
<1>10. t * t <= w * q
  <2> DEFINE d == [i \in S |-> (w * g[i] - t) * (w * g[i] - t)]
  <2>1. \A i \in S : d[i] = (w * g[i] - t) * (w * g[i] - t)
    OBVIOUS
  <2> HIDE DEF d
  <2> QED BY <1>9, <2>1
<1> QED BY <1>5, <1>6, <1>9, <1>10 DEF S, w, SpreadsTo

\* How large the sums of a window of bounded mids are.
LEMMA WindowBounded ==
  ASSUME NEW g \in [0 .. Window - 1 -> Int], NEW M \in Nat, \A i \in 0 .. Window - 1 : g[i] \in 0 .. M,
         NEW squares, \A i \in 0 .. Window - 1 : squares[i] = g[i] * g[i],
         NEW t, t = SumOver(g, 0 .. Window - 1), NEW q, q = SumOver(squares, 0 .. Window - 1)
  PROVE  t \in 0 .. Window * M /\ q \in 0 .. Window * (M * M)
<1> DEFINE S == 0 .. Window - 1
           w == Window
           B == M * M
<1>1. w \in Nat \ {0} /\ IsFiniteSet(S) /\ Cardinality(S) = w
  <2>1. 0 \in Int /\ Window - 1 \in Int /\ Window \in Nat \ {0}
    BY StrategyAssumption
  <2>2. IsFiniteSet(S) /\ Cardinality(S) = IF 0 > Window - 1 THEN 0 ELSE (Window - 1) - 0 + 1
    BY <2>1, FS_Interval
  <2> QED BY <2>1, <2>2
<1>2. t \in Nat /\ q \in Nat
  <2>1. \A i \in 0 .. Window - 1 : g[i] \in Nat
    OBVIOUS
  <2> QED BY <2>1, WindowSpread
<1>3. /\ \A i \in S : g[i] \in 0 .. M /\ squares[i] = g[i] * g[i]
      /\ t = SumOver(g, S) /\ q = SumOver(squares, S) /\ B \in Nat
  OBVIOUS
<1>4. \A i \in S : squares[i] \in Nat /\ squares[i] <= B
  <2> SUFFICES ASSUME NEW i \in S PROVE squares[i] \in Nat /\ squares[i] <= B
    OBVIOUS
  <2> DEFINE x == g[i]
             y == x * x
  <2>1. x \in Nat /\ x <= M /\ squares[i] = y
    BY <1>3
  <2> HIDE DEF x
  <2>2. x \in - M .. M
    BY <2>1
  <2>3. x * x \in - (M * M) .. M * M
    BY <2>2, ProductWithin
  <2>4. y \in Nat
    BY <2>1
  <2> HIDE DEF y
  <2>5. y \in - B .. B
    BY <2>3 DEF y
  <2> HIDE DEF B
  <2> QED BY <1>3, <2>1, <2>4, <2>5
<1> HIDE DEF S, B
<1>5. t <= M * w
  <2>1. \A i \in S : g[i] \in Nat /\ g[i] <= M
    BY <1>3
  <2> HIDE DEF w
  <2> QED BY <1>1, <1>3, <2>1, SumBounded
<1>6. q <= B * w
  <2> HIDE DEF w
  <2> QED BY <1>1, <1>3, <1>4, SumBounded
<1>7. M * w = w * M /\ B * w = w * B
  BY <1>1, <1>3
<1> DEFINE a == w * M
           b == w * B
<1>8. a \in Nat /\ b \in Nat /\ t <= a /\ q <= b
  BY <1>1, <1>3, <1>5, <1>6, <1>7
<1> HIDE DEF a, b
<1>9. t \in 0 .. a /\ q \in 0 .. b
  BY <1>2, <1>8
<1> QED BY <1>9 DEF a, b, B

\* The sum of a window of short mids, and that of their squares, fit the mantissa.
LEMMA WindowSums ==
  ASSUME NEW g \in [0 .. Window - 1 -> Int], \A i \in 0 .. Window - 1 : Short(g[i]),
         NEW squares, \A i \in 0 .. Window - 1 : squares[i] = g[i] * g[i],
         NEW t, t = SumOver(g, 0 .. Window - 1), NEW q, q = SumOver(squares, 0 .. Window - 1)
  PROVE  t \in Nat /\ q \in Nat /\ t * t <= Window * q /\ Window * q < 2 ^ Precision
<1> DEFINE S == 0 .. Window - 1
           L == 2 ^ Precision
           w == Window
<1>1. w \in Nat \ {0} /\ IsFiniteSet(S) /\ Cardinality(S) = w
  <2>1. 0 \in Int /\ Window - 1 \in Int /\ Window \in Nat \ {0}
    BY StrategyAssumption
  <2>2. IsFiniteSet(S) /\ Cardinality(S) = IF 0 > Window - 1 THEN 0 ELSE (Window - 1) - 0 + 1
    BY <2>1, FS_Interval
  <2> QED BY <2>1, <2>2
<1>2. L \in Nat /\ L >= 2
  BY Mantissas
<1>3. \A i \in S : g[i] \in Nat /\ (w * g[i]) * (w * g[i]) < L
  BY DEF Short
<1>5. t \in Nat /\ q \in Nat /\ t * t <= w * q
  <2>1. \A i \in 0 .. Window - 1 : g[i] \in Nat
    BY <1>3
  <2> QED BY <2>1, WindowSpread
<1>4. /\ \A i \in S : g[i] \in Int
      /\ \A i \in S : squares[i] = g[i] * g[i]
      /\ t = SumOver(g, S) /\ q = SumOver(squares, S)
  OBVIOUS
<1> HIDE DEF S, L, w
<1> DEFINE d == [i \in S |-> (w * g[i] - 0) * (w * g[i] - 0)]
           b == L - 1
<1>6. \A i \in S : d[i] = (w * g[i] - 0) * (w * g[i] - 0)
  OBVIOUS
<1>7. \A i \in S : d[i] \in Nat /\ d[i] <= b
  <2> SUFFICES ASSUME NEW i \in S PROVE d[i] \in Nat /\ d[i] <= b
    OBVIOUS
  <2> DEFINE x == g[i]
             y == w * x
  <2>1. x \in Nat /\ y * y < L /\ d[i] = (y - 0) * (y - 0)
    BY <1>3
  <2>2. y \in Nat
    BY <1>1, <2>1
  <2> HIDE DEF y, d
  <2>3. y - 0 = y /\ y * y \in Nat
    BY <2>2
  <2> QED BY <1>2, <2>1, <2>3
<1> HIDE DEF d
<1>8. b \in Nat
  BY <1>2
<1> HIDE DEF b
<1>9. SumOver(d, S) <= b * w
  BY <1>1, <1>7, <1>8, SumBounded
<1>10. SumOver(d, S) = (w * w) * q - (2 * w * 0) * t + (0 * 0) * w
  <2>1. w \in Int /\ 0 \in Int
    BY <1>1
  <2>2. Squares(squares, g, S) /\ SquaredDifferences(d, g, S, w, 0)
    BY <1>4, <1>6 DEF Squares, SquaredDifferences
  <2>3. AddUp(d, squares, g, S, w, 0)
    BY <1>1, <1>4, <2>1, <2>2, SumOfSquares
  <2> QED BY <1>1, <1>4, <2>3 DEF AddUp
<1>11. (w * w) * q - (2 * w * 0) * t + (0 * 0) * w = w * (w * q)
  BY <1>1, <1>5
<1> DEFINE a == w * q
<1>12. a \in Nat
  BY <1>1, <1>5
<1>13. w * a <= b * w
  BY <1>9, <1>10, <1>11
<1> HIDE DEF a
<1>14. a <= b
  BY <1>1, <1>8, <1>12, <1>13
<1>15. a < L
  BY <1>2, <1>12, <1>14 DEF b
<1> QED BY <1>5, <1>15 DEF a, w, L

-----------------------------------------------------------------------------
(* The slot of a symbol with short mids: nothing the strategy computes is  *)
(* rounded.                                                                *)

\* The sums of functions are those of the data lemmas.
LEMMA SpecifiedOperators ==
  /\ \A f : SumFunction(f) = SumOver(f, DOMAIN f) /\ Specified!SumFunction(f) = SumOver(f, DOMAIN f)
  /\ \A S : Specified!Cardinality(S) = Cardinality(S)
  /\ \A own, j : Specified!Number(own, j) = Cardinality(Smaller(own, j))
<1>1. \A f : SumFunction(f) = SumOver(f, DOMAIN f)
  BY DEF SumFunction, SumFunctionOnSet, FoldFunctionOnSet, MapThenFoldSet, SumOver, MapThenSumSet
<1>2. \A f : Specified!SumFunction(f) = SumOver(f, DOMAIN f)
  BY DEF Specified!SumFunction, Specified!SumFunctionOnSet, Specified!FoldFunctionOnSet,
         Specified!MapThenFoldSet, MapThenFoldSet, SumOver, MapThenSumSet
<1>3. \A S : Specified!Cardinality(S) = Cardinality(S)
  BY DEF Specified!Cardinality, Cardinality
<1>4. \A own, j : Specified!Number(own, j) = Cardinality(Smaller(own, j))
  BY <1>3 DEF Specified!Number, Smaller
<1> QED BY <1>1, <1>2, <1>3, <1>4

\* The squares of a slot's mids.
SquaresOf(s) == [j \in DOMAIN s.mids |-> s.mids[j] * s.mids[j]]

\* What exact sums are, and how large.
SumsKnown(s) ==
  /\ s.rolling_sum = SumOver(s.mids, 0 .. Window - 1)
  /\ s.rolling_sq_sum = SumOver(SquaresOf(s), 0 .. Window - 1)
  /\ s.rolling_sum \in Nat /\ s.rolling_sq_sum \in Nat
  /\ s.rolling_sum * s.rolling_sum <= Window * s.rolling_sq_sum
  /\ Window * s.rolling_sq_sum < 2 ^ Precision

\* A window of short mids.
ShortWindow(g) == g \in [0 .. Window - 1 -> Int] /\ \A i \in 0 .. Window - 1 : Short(g[i])

\* The sums are exact when they are what adding up the window afresh would give.
LEMMA SumsExactIs ==
  ASSUME NEW s, s.mids \in [0 .. Window - 1 -> Int]
  PROVE  SumsExact(s) <=> /\ ShortWindow(s.mids)
                          /\ s.rolling_sum = SumOver(s.mids, 0 .. Window - 1)
                          /\ s.rolling_sq_sum = SumOver(SquaresOf(s), 0 .. Window - 1)
<1>1. DOMAIN s.mids = 0 .. Window - 1 /\ DOMAIN SquaresOf(s) = 0 .. Window - 1
  BY DEF SquaresOf
<1>2. /\ SumFunction(s.mids) = SumOver(s.mids, 0 .. Window - 1)
      /\ SumFunction(SquaresOf(s)) = SumOver(SquaresOf(s), 0 .. Window - 1)
  BY <1>1, SpecifiedOperators
<1> QED BY <1>1, <1>2 DEF SumsExact, SquaresOf, ShortWindow

\* Exact sums of short mids are small.
LEMMA SumsSmall ==
  ASSUME NEW s, SlotInv(s), SumsExact(s)
  PROVE  SumsKnown(s) /\ ShortWindow(s.mids)
<1>1. s.mids \in [0 .. Window - 1 -> Int]
  BY DEF SlotInv
<1>2. /\ ShortWindow(s.mids)
      /\ s.rolling_sum = SumOver(s.mids, 0 .. Window - 1)
      /\ s.rolling_sq_sum = SumOver(SquaresOf(s), 0 .. Window - 1)
  BY <1>1, SumsExactIs
<1> DEFINE g == s.mids
           squares == SquaresOf(s)
           t == s.rolling_sum
           q == s.rolling_sq_sum
<1>3. /\ g \in [0 .. Window - 1 -> Int] /\ \A i \in 0 .. Window - 1 : Short(g[i])
      /\ \A i \in 0 .. Window - 1 : squares[i] = g[i] * g[i]
      /\ t = SumOver(g, 0 .. Window - 1) /\ q = SumOver(squares, 0 .. Window - 1)
  BY <1>1, <1>2 DEF SquaresOf, ShortWindow
<1> HIDE DEF g, squares, t, q
<1>4. t \in Nat /\ q \in Nat /\ t * t <= Window * q /\ Window * q < 2 ^ Precision
  BY <1>3, WindowSums
<1> QED BY <1>2, <1>4 DEF SumsKnown, t, q

\* The slot a is s with the mid in the place of the old one: its sums, and those of its window.
Carries(s, a, mid, old) ==
  /\ a.rolling_sum = Rounded(s.rolling_sum + Rounded(mid - old))
  /\ a.rolling_sq_sum = Rounded(s.rolling_sq_sum
                                 + Rounded(Rounded(mid * mid) - Rounded(old * old)))
  /\ a.mids = [s.mids EXCEPT ![s.head] = mid]
  /\ a.mids \in [0 .. Window - 1 -> Int] /\ old \in Int
  /\ SumOver(a.mids, 0 .. Window - 1) = SumOver(s.mids, 0 .. Window - 1) + mid - old
  /\ SumOver(SquaresOf(a), 0 .. Window - 1)
       = SumOver(SquaresOf(s), 0 .. Window - 1) + mid * mid - old * old

\* That is what one more mid does.
LEMMA AppendedSums ==
  ASSUME NEW s, SlotInv(s), NEW mid \in Int, NEW a, a = Appended(s, mid),
         NEW old, old = s.mids[s.head]
  PROVE  Carries(s, a, mid, old)
<1> DEFINE g == s.mids
           h == a.mids
           squares == SquaresOf(s)
           after == SquaresOf(a)
           S == 0 .. Window - 1
           z == s.head
<1>1. /\ DOMAIN s = {"mids", "head", "count", "position", "rolling_sum", "rolling_sq_sum"}
      /\ g \in [S -> Int] /\ z \in S /\ IsFiniteSet(S)
  BY FS_Interval, StrategyAssumption DEF SlotInv, EmptySlot
<1>2. /\ h = [g EXCEPT ![z] = mid]
      /\ a.rolling_sum = Rounded(s.rolling_sum + Rounded(mid - old))
      /\ a.rolling_sq_sum = Rounded(s.rolling_sq_sum
                                     + Rounded(Rounded(mid * mid) - Rounded(old * old)))
  BY <1>1 DEF Appended
<1>3. h \in [S -> Int] /\ h[z] = mid /\ old = g[z] /\ old \in Int
  BY <1>1, <1>2
<1>4. /\ \A i \in S : g[i] \in Int
      /\ \A i \in S : i # z => h[i] = g[i]
  BY <1>1, <1>2
<1>5. \A i \in S : squares[i] = g[i] * g[i] /\ after[i] = h[i] * h[i]
  BY <1>1, <1>3 DEF SquaresOf
<1> HIDE DEF g, h, squares, after, S, z
<1>6. \A i \in S : squares[i] \in Int /\ after[i] \in Int
  <2> SUFFICES ASSUME NEW i \in S PROVE squares[i] \in Int /\ after[i] \in Int
    OBVIOUS
  <2> DEFINE x == g[i]
             y == h[i]
  <2>1. x \in Int /\ y \in Int /\ squares[i] = x * x /\ after[i] = y * y
    BY <1>3, <1>4, <1>5
  <2> HIDE DEF x, y
  <2> QED BY <2>1
<1>7. SumOver(h, S) = SumOver(g, S) + mid - old
  <2>1. SumOver(h, S) = SumOver(g, S) + h[z] - g[z]
    BY <1>1, <1>3, <1>4, SumExcept
  <2> QED BY <1>3, <2>1
<1>8. SumOver(after, S) = SumOver(squares, S) + mid * mid - old * old
  <2>1. \A i \in S : i # z => after[i] = squares[i]
    BY <1>4, <1>5
  <2>2. after[z] \in Int /\ after[z] = mid * mid /\ squares[z] = old * old
    BY <1>1, <1>3, <1>5, <1>6
  <2>3. \A i \in S : squares[i] \in Int
    BY <1>6
  <2>4. SumOver(after, S) = SumOver(squares, S) + after[z] - squares[z]
    BY <1>1, <2>1, <2>2, <2>3, SumExcept
  <2> QED BY <2>2, <2>4
<1> QED BY <1>2, <1>3, <1>7, <1>8 DEF g, h, squares, after, S, z, Carries

\* One more short mid leaves the sums exact: the subtractions and the additions of the
\* code are not rounded.
LEMMA AppendedExact ==
  ASSUME NEW s, SlotInv(s), SumsExact(s), NEW mid \in Int, Short(mid)
  PROVE  SumsExact(Appended(s, mid))
<1> DEFINE a == Appended(s, mid)
           g == s.mids
           h == a.mids
           old == g[s.head]
           after == SquaresOf(a)
           t == SumOver(g, 0 .. Window - 1)
           q == SumOver(SquaresOf(s), 0 .. Window - 1)
           u == SumOver(h, 0 .. Window - 1)
           r == SumOver(after, 0 .. Window - 1)
           L == 2 ^ Precision
<1>0. Window \in Nat \ {0}
  BY StrategyAssumption
<1>1. g \in [0 .. Window - 1 -> Int] /\ s.head \in 0 .. Window - 1
  BY DEF SlotInv
<1>2. s.rolling_sum = t /\ s.rolling_sq_sum = q /\ ShortWindow(g)
  BY SumsSmall DEF SumsKnown
<1> HIDE DEF a, t, q, u, r
<1>3. /\ h = [g EXCEPT ![s.head] = mid]
      /\ a.rolling_sum = Rounded(s.rolling_sum + Rounded(mid - old))
      /\ a.rolling_sq_sum = Rounded(s.rolling_sq_sum
                                     + Rounded(Rounded(mid * mid) - Rounded(old * old)))
      /\ h \in [0 .. Window - 1 -> Int] /\ u = t + mid - old /\ r = q + mid * mid - old * old
  <2>1. a = Appended(s, mid) /\ old = s.mids[s.head]
    BY DEF a
  <2> HIDE DEF old
  <2>2. Carries(s, a, mid, old)
    BY <2>1, AppendedSums
  <2> QED BY <2>2 DEF t, q, u, r, Carries
<1>5. ShortWindow(h)
  <2>1. \A i \in 0 .. Window - 1 : Short(h[i])
    BY <1>1, <1>2, <1>3 DEF ShortWindow
  <2> QED BY <1>3, <2>1 DEF ShortWindow
<1>6. \A i \in 0 .. Window - 1 : after[i] = h[i] * h[i]
  BY <1>3 DEF SquaresOf
<1>7. old \in Int /\ Short(old)
  BY <1>1, <1>2 DEF ShortWindow
<1> HIDE DEF g, h, old, after
<1>13. u \in Nat /\ r \in Nat /\ u * u <= Window * r /\ Window * r < L
  <2>1. \A i \in 0 .. Window - 1 : Short(h[i])
    BY <1>5 DEF ShortWindow
  <2> QED BY <1>3, <1>6, <2>1, WindowSums DEF u, r
<1>25. u \in Nat /\ r \in Nat
  BY <1>13
<1>14. t \in Nat /\ q \in Nat
  BY <1>2, SumsSmall DEF SumsKnown
<1>15. L \in Nat
  BY Mantissas
<1> HIDE DEF L
<1>16. u < L /\ r < L
  <2>1. u <= u * u /\ r <= Window * r /\ {u * u, Window * r} \subseteq Int
    BY <1>0, <1>13, SquareGrows
  <2> DEFINE uu == u * u
             wr == Window * r
  <2>2. u <= uu /\ r <= wr /\ uu <= wr /\ wr < L /\ uu \in Int /\ wr \in Int
    BY <1>13, <2>1
  <2> HIDE DEF uu, wr
  <2> QED BY <1>13, <1>15, <2>2
<1> DEFINE Fits(x) == x \in Nat /\ x * x \in Nat /\ x <= x * x /\ x * x < L
<1>17. \A x \in Int : Short(x) => Fits(x)
  <2> SUFFICES ASSUME NEW x \in Int, Short(x) PROVE Fits(x)
    OBVIOUS
  <2>1. x \in Nat /\ (Window * x) * (Window * x) < L
    BY DEF Short, L
  <2>2. x * x \in Nat /\ x <= x * x /\ x * x <= (Window * x) * (Window * x)
        /\ (Window * x) * (Window * x) \in Nat
    BY <1>0, <2>1, SquareGrows
  <2> DEFINE b == x * x
             c == (Window * x) * (Window * x)
  <2>3. b <= c /\ c < L /\ b \in Nat /\ c \in Nat
    BY <2>1, <2>2
  <2> HIDE DEF b, c
  <2>4. b < L
    BY <1>15, <2>3
  <2> QED BY <2>1, <2>2, <2>4 DEF b
<1> DEFINE b == mid * mid
           c == old * old
<1>18. mid \in Nat /\ old \in Nat /\ b \in Nat /\ c \in Nat /\ mid <= b /\ old <= c /\ b < L /\ c < L
  BY <1>7, <1>17
<1> HIDE DEF b, c, Fits
<1>19. \A x \in Int : (-L < x /\ x < L) => Rounded(x) = x
  <2> SUFFICES ASSUME NEW x \in Int, -L < x, x < L PROVE Rounded(x) = x
    OBVIOUS
  <2>1. Abs(x) < L
    BY <1>15 DEF Abs
  <2> QED BY <2>1, RoundedExact DEF L
<1>20. Rounded(mid - old) = mid - old
  <2>1. mid - old \in Int /\ -L < mid - old /\ mid - old < L
    BY <1>15, <1>18
  <2> QED BY <1>19, <2>1
<1>21. Rounded(b) = b /\ Rounded(c) = c /\ Rounded(b - c) = b - c
  <2>1. /\ b \in Int /\ -L < b /\ b < L /\ c \in Int /\ -L < c /\ c < L
        /\ b - c \in Int /\ -L < b - c /\ b - c < L
    BY <1>15, <1>18
  <2> QED BY <1>19, <2>1
<1>22. a.rolling_sum = u
  <2>1. a.rolling_sum = Rounded(t + (mid - old))
    BY <1>2, <1>3, <1>20
  <2>2. t + (mid - old) = u
    BY <1>3, <1>14, <1>18
  <2>3. -L < u /\ u \in Int
    BY <1>15, <1>16, <1>25
  <2> QED BY <1>16, <1>19, <2>1, <2>2, <2>3
<1>23. a.rolling_sq_sum = r
  <2>1. a.rolling_sq_sum = Rounded(q + (b - c))
    BY <1>2, <1>3, <1>21 DEF b, c
  <2>2. q + (b - c) = r
    BY <1>3, <1>14, <1>18 DEF b, c
  <2>3. -L < r /\ r \in Int
    BY <1>15, <1>16, <1>25
  <2> QED BY <1>16, <1>19, <2>1, <2>2, <2>3
<1>24. SumsExact(a)
  <2>1. a.rolling_sum = SumOver(a.mids, 0 .. Window - 1)
    BY <1>22 DEF u, h
  <2>2. a.rolling_sq_sum = SumOver(SquaresOf(a), 0 .. Window - 1)
    BY <1>23 DEF r, after
  <2>3. ShortWindow(a.mids) /\ a.mids \in [0 .. Window - 1 -> Int]
    BY <1>3, <1>5 DEF h
  <2> QED BY <2>1, <2>2, <2>3, SumsExactIs
<1> QED BY <1>24 DEF a

\* diff, diff_sq and variance are not rounded either.
LEMMA ValuesExact ==
  ASSUME NEW s, SlotInv(s), SumsExact(s), NEW mid \in Int, Short(mid)
  PROVE  /\ Diff(s, mid) = Window * mid - s.rolling_sum
         /\ Diff(s, mid) \in Int
         /\ DiffSq(s, mid) = Diff(s, mid) * Diff(s, mid)
         /\ Variance(s) = Window * s.rolling_sq_sum - s.rolling_sum * s.rolling_sum
         /\ Variance(s) \in Nat
<1> DEFINE t == s.rolling_sum
           q == s.rolling_sq_sum
           L == 2 ^ Precision
           tt == t * t
           wq == Window * q
           x == Window * mid
           xx == x * x
<1>1. t \in Nat /\ q \in Nat /\ tt <= wq /\ wq < L
  BY SumsSmall DEF SumsKnown
<1>2. Window \in Nat \ {0} /\ mid \in Nat /\ xx < L
  BY StrategyAssumption DEF Short
<1>3. x \in Nat /\ wq \in Nat /\ t <= tt /\ tt \in Nat
  BY <1>1, <1>2, SquareGrows
<1>4. x <= xx /\ xx \in Nat
  <2> HIDE DEF x
  <2> QED BY <1>2, <1>3, SquareGrows
<1>5. L \in Nat
  BY Mantissas
<1> HIDE DEF L
<1>6. \A y \in Int : (-L < y /\ y < L) => Rounded(y) = y
  <2> SUFFICES ASSUME NEW y \in Int, -L < y, y < L PROVE Rounded(y) = y
    OBVIOUS
  <2>1. Abs(y) < L
    BY <1>5 DEF Abs
  <2> QED BY <2>1, RoundedExact DEF L
<1> DEFINE d == x - t
           dd == d * d
<1>7. d \in Int /\ dd \in Nat /\ dd < L /\ -L < d /\ d < L
  <2> HIDE DEF x
  <2>1. d \in Int /\ (0 <= d => d <= x) /\ (d < 0 => -d <= t)
    BY <1>1, <1>3
  <2>2. dd <= xx \/ dd <= tt
    <3>1. \A y, z \in Nat : y <= z => y * y <= z * z
      <4> SUFFICES ASSUME NEW y \in Nat, NEW z \in Nat, y <= z PROVE y * y <= z * z
        OBVIOUS
      <4>1. y * y <= y * z /\ y * z <= z * z
        OBVIOUS
      <4> DEFINE a == y * y
                 b == y * z
                 c == z * z
      <4>2. a <= b /\ b <= c /\ {a, b, c} \subseteq Int
        BY <4>1
      <4> HIDE DEF a, b, c
      <4>3. a <= c
        BY <4>2
      <4> QED BY <4>3 DEF a, c
    <3> HIDE DEF d
    <3>2. CASE 0 <= d
      <4>1. d \in Nat /\ d <= x
        BY <2>1, <3>2
      <4> QED BY <1>3, <3>1, <4>1
    <3>3. CASE d < 0
      <4> DEFINE e == -d
      <4>1. e \in Nat /\ e <= t /\ d = -e
        BY <2>1, <3>3
      <4>2. (-e) * (-e) = e * e
        BY <4>1
      <4> HIDE DEF e
      <4>3. e * e <= tt
        BY <1>1, <3>1, <4>1
      <4> QED BY <4>1, <4>2, <4>3
    <3> QED BY <2>1, <3>2, <3>3
  <2>3. dd \in Nat
    <3> HIDE DEF d
    <3> QED BY <2>1
  <2> HIDE DEF d
  <2>4. d <= dd /\ -d <= dd
    BY <2>1
  <2> HIDE DEF dd, tt, xx, wq
  <2>5. dd < L
    BY <1>1, <1>2, <1>3, <1>4, <1>5, <2>2, <2>3
  <2> QED BY <1>5, <2>1, <2>3, <2>4, <2>5
<1>8. Diff(s, mid) = d
  BY <1>6, <1>7 DEF Diff
<1>9. DiffSq(s, mid) = dd
  <2> HIDE DEF d
  <2>1. DiffSq(s, mid) = Rounded(dd)
    BY <1>8 DEF DiffSq
  <2> HIDE DEF dd
  <2>2. dd \in Int /\ -L < dd
    BY <1>5, <1>7
  <2> QED BY <1>6, <1>7, <2>1, <2>2
<1>10. Variance(s) = wq - tt /\ wq - tt \in Nat
  <2>1. Variance(s) = Rounded(wq - Rounded(tt))
    BY DEF Variance
  <2> HIDE DEF wq, tt
  <2>2. tt \in Int /\ -L < tt /\ tt < L /\ wq - tt \in Nat /\ -L < wq - tt /\ wq - tt < L
    BY <1>1, <1>3, <1>5
  <2>3. Rounded(tt) = tt /\ Rounded(wq - tt) = wq - tt
    BY <1>6, <2>2
  <2> QED BY <2>1, <2>2, <2>3
<1> QED BY <1>7, <1>8, <1>9, <1>10

-----------------------------------------------------------------------------
(* A full window: the specified rule and the strategy agree.               *)

\* The variance of a window, times Window^2.
VarianceOf(s) == Window * SumOver(SquaresOf(s), 0 .. Window - 1)
                   - SumOver(s.mids, 0 .. Window - 1) * SumOver(s.mids, 0 .. Window - 1)

\* What the specified rule reads off the window made of the last ticks, when the ring of the
\* slot holds them.
LEMMA FullWindow ==
  ASSUME NEW s, s.mids \in [0 .. Window - 1 -> Int], \A i \in 0 .. Window - 1 : s.mids[i] \in Nat,
         NEW mid \in Int,
         NEW own \in SUBSET Nat, IsFiniteSet(own), Cardinality(own) >= Window,
         NEW val, Wound(s.mids, val, own, Window),
         NEW m, m = [j \in Recent(own, Window) |-> val[j]]
  PROVE  /\ Specified!Deviation(m, mid) = Window * mid - SumOver(s.mids, 0 .. Window - 1)
         /\ Specified!Spread(m) = Window * VarianceOf(s)
<1> DEFINE last == Recent(own, Window)
           g == s.mids
           sq == SquaresOf(s)
           t == SumOver(g, 0 .. Window - 1)
           q == SumOver(sq, 0 .. Window - 1)
           d == [i \in 0 .. Window - 1 |-> (Window * g[i] - t) * (Window * g[i] - t)]
           dm == [j \in last |-> (Window * m[j] - t) * (Window * m[j] - t)]
<1>0. Window \in Nat \ {0}
  BY StrategyAssumption
<1>1. g \in [0 .. Window - 1 -> Int]
  OBVIOUS
<1>2. /\ \A i \in 0 .. Window - 1 : g[i] \in Nat
      /\ \A i \in 0 .. Window - 1 : sq[i] = g[i] * g[i]
  BY <1>1 DEF SquaresOf
<1>3. last \in SUBSET own
  BY <1>0, RecentInSlots
<1>4. ASSUME NEW j \in last PROVE RingSlot(own, j, Window) \in 0 .. Window - 1 /\ g[RingSlot(own, j, Window)] = m[j]
  BY <1>0, WoundRecent
<1>5. \A j \in last : m[j] \in Int /\ g[RingSlot(own, j, Window)] = m[j]
  BY <1>1, <1>4
<1>6. t = SumOver(m, last)
  <2> HIDE DEF g
  <2>1. SumOver(g, 0 .. Window - 1) = SumOver(m, Recent(own, Window))
    BY <1>0, <1>5, SumOfRecent
  <2> QED BY <2>1
<1> HIDE DEF t, q
<1>7. t \in Nat /\ q \in Nat /\ SpreadsTo(g, t, q)
  <2> HIDE DEF g, sq
  <2> QED BY <1>1, <1>2, WindowSpread DEF t, q
<1>8. \A j \in last : dm[j] \in Int /\ d[RingSlot(own, j, Window)] = dm[j]
  <2> SUFFICES ASSUME NEW j \in last PROVE dm[j] \in Int /\ d[RingSlot(own, j, Window)] = dm[j]
    OBVIOUS
  <2> DEFINE x == m[j]
             i == RingSlot(own, j, Window)
  <2>1. i \in 0 .. Window - 1 /\ g[i] = x /\ x \in Int
    BY <1>4, <1>5
  <2> HIDE DEF x, i, g
  <2>2. dm[j] = (Window * x - t) * (Window * x - t) /\ d[i] = (Window * x - t) * (Window * x - t)
    BY <2>1 DEF x
  <2> HIDE DEF dm, d
  <2>3. (Window * x - t) * (Window * x - t) \in Int
    BY <1>0, <1>7, <2>1, SquaredDifference
  <2> QED BY <2>2, <2>3 DEF i
<1>9. SumOver(d, 0 .. Window - 1) = SumOver(dm, last)
  <2> HIDE DEF d, dm
  <2>1. SumOver(d, 0 .. Window - 1) = SumOver(dm, Recent(own, Window))
    BY <1>0, <1>8, SumOfRecent
  <2> QED BY <2>1
<1>10. SumOver(d, 0 .. Window - 1) = Window * (Window * q - t * t)
  <2>1. \A i \in 0 .. Window - 1 : d[i] = (Window * g[i] - t) * (Window * g[i] - t)
    OBVIOUS
  <2> HIDE DEF d, g, sq
  <2> QED BY <1>7, <2>1 DEF SpreadsTo
<1>11. DOMAIN m = last /\ Specified!SumFunction(m) = t
  <2>1. DOMAIN m = last
    OBVIOUS
  <2> HIDE DEF last
  <2> QED BY <1>6, <2>1, SpecifiedOperators
<1>12. Specified!Spread(m) = Specified!SumFunction(dm)
  BY <1>11 DEF Specified!Spread
<1>13. Specified!SumFunction(dm) = SumOver(dm, last)
  <2>1. DOMAIN dm = last
    OBVIOUS
  <2> HIDE DEF dm
  <2> QED BY <2>1, SpecifiedOperators
<1>15. Specified!Deviation(m, mid) = Window * mid - t
  BY <1>11 DEF Specified!Deviation
<1>16. Specified!Spread(m) = Window * (Window * q - t * t)
  BY <1>9, <1>10, <1>12, <1>13
<1> QED BY <1>15, <1>16 DEF VarianceOf, t, q

\* The comparisons of the specified rule are those of the code multiplied by Window.
LEMMA Multiplied ==
  ASSUME NEW w \in Nat \ {0}, NEW d \in Int, NEW v \in Nat
  PROVE  /\ w * d * d >= 4 * (w * v) <=> d * d >= 4 * v
         /\ 4 * w * d * d <= w * v <=> 4 * (d * d) <= v
         /\ w * v = 0 <=> v = 0
<1> DEFINE e == d * d
<1>1. e \in Int
  OBVIOUS
<1>2. w * d * d = w * e /\ 4 * w * d * d = w * (4 * e) /\ 4 * (w * v) = w * (4 * v)
  OBVIOUS
<1>3. \A x, y \in Int : w * x <= w * y <=> x <= y
  <2> SUFFICES ASSUME NEW x \in Int, NEW y \in Int PROVE w * x <= w * y <=> x <= y
    OBVIOUS
  <2>1. CASE x <= y
    BY <2>1
  <2>2. CASE y < x
    BY <2>2
  <2> QED BY <2>1, <2>2
<1> HIDE DEF e
<1>4. w * (4 * v) <= w * e <=> 4 * v <= e
  BY <1>1, <1>3
<1>5. w * (4 * e) <= w * v <=> 4 * e <= v
  BY <1>1, <1>3
<1>6. w * v = 0 <=> v = 0
  OBVIOUS
<1>7. w * d * d \in Int /\ 4 * (w * v) \in Int
  OBVIOUS
<1>8. w * d * d >= 4 * (w * v) <=> w * (4 * v) <= w * e
  BY <1>1, <1>2, <1>7
<1>9. w * d * d >= 4 * (w * v) <=> e >= 4 * v
  BY <1>1, <1>4, <1>8
<1>10. 4 * w * d * d <= w * v <=> 4 * e <= v
  BY <1>2, <1>5
<1> QED BY <1>6, <1>9, <1>10 DEF e

\* The strategy answers the questions of the rule as the rule does.
Answers(m, mid, s) ==
  LET d == Specified!Deviation(m, mid)
      spread == Specified!Spread(m)
  IN  /\ Variance(s) \in Int /\ Diff(s, mid) \in Int
      /\ Specified!Flat(spread) <=> Variance(s) <= 0
      /\ Specified!AboveEntry(d, spread) <=> Diff(s, mid) > 0 /\ Far(s, mid)
      /\ Specified!BelowEntry(d, spread) <=> Diff(s, mid) < 0 /\ Far(s, mid)
      /\ Specified!WithinExit(d, spread) <=> Near(s, mid)

\* It does when the sums are exact.
LEMMA ExactAnswers ==
  ASSUME NEW s, SlotInv(s), SumsExact(s), NEW mid \in Int, Short(mid),
         NEW m, Specified!Deviation(m, mid) = Window * mid - SumOver(s.mids, 0 .. Window - 1),
         Specified!Spread(m) = Window * VarianceOf(s)
  PROVE  Answers(m, mid, s)
<1> DEFINE d == Diff(s, mid)
           v == Variance(s)
<1>1. d \in Int /\ v \in Nat /\ DiffSq(s, mid) = d * d
  BY ValuesExact
<1>2. Window \in Nat \ {0}
  BY StrategyAssumption
<1>3. Specified!Deviation(m, mid) = d /\ Specified!Spread(m) = Window * v
  <2>1. /\ s.rolling_sum = SumOver(s.mids, 0 .. Window - 1)
        /\ s.rolling_sq_sum = SumOver(SquaresOf(s), 0 .. Window - 1)
    BY SumsSmall DEF SumsKnown
  <2> QED BY <2>1, ValuesExact DEF VarianceOf
<1>4. /\ Far(s, mid) <=> d * d >= 4 * v
      /\ Near(s, mid) <=> 4 * (d * d) <= v
  BY <1>1 DEF Far, Near
<1> HIDE DEF d, v
<1>5. /\ Window * d * d >= 4 * (Window * v) <=> d * d >= 4 * v
      /\ 4 * Window * d * d <= Window * v <=> 4 * (d * d) <= v
      /\ Window * v = 0 <=> v = 0
  BY <1>1, <1>2, Multiplied
<1>6. v = 0 <=> v <= 0
  BY <1>1
<1>7. /\ Specified!Flat(Window * v) <=> v <= 0
      /\ Specified!AboveEntry(d, Window * v) <=> d > 0 /\ Far(s, mid)
      /\ Specified!BelowEntry(d, Window * v) <=> d < 0 /\ Far(s, mid)
      /\ Specified!WithinExit(d, Window * v) <=> Near(s, mid)
  BY <1>4, <1>5, <1>6 DEF Specified!Flat, Specified!AboveEntry, Specified!BelowEntry, Specified!WithinExit
<1>8. v \in Int /\ d \in Int
  BY <1>1
<1> QED BY <1>3, <1>7, <1>8 DEF Answers, d, v

\* So the decision of the strategy is the signal of the rule, for one unit.
LEMMA AnswersDecide ==
  ASSUME NEW s, SlotInv(s), s.count = Window,
         NEW t, NEW mid, mid = t.bid + t.ask, NEW m, Answers(m, mid, s),
         NEW side, side = Specified!Signal(m, mid, s.position)
  PROVE  /\ Decision(s, t) = IF side = "NONE" THEN <<>> ELSE <<Order(t, side, 1)>>
         /\ side \in {"NONE", "BUY", "SELL"}
<1> DEFINE d == Diff(s, mid)
           v == Variance(s)
           p == s.position
           far == Far(s, mid)
           near == Near(s, mid)
           qty == IF p = 0 THEN 1 ELSE IF p > 0 THEN p ELSE -p
           sell == \/ p = 0 /\ d > 0 /\ far
                   \/ p > 0 /\ near
           buy == \/ p = 0 /\ d < 0 /\ far
                  \/ p < 0 /\ near
<1>1. d \in Int /\ v \in Int
  BY DEF Answers
<1>2. p \in -1 .. 1 /\ Window \in Nat \ {0}
  BY StrategyAssumption DEF SlotInv
<1>5. Decision(s, t) = CASE s.count < Window \/ v <= 0 -> <<>>
                         [] s.count = Window /\ v > 0 /\ sell -> <<Order(t, "SELL", qty)>>
                         [] s.count = Window /\ v > 0 /\ buy -> <<Order(t, "BUY", qty)>>
                         [] OTHER -> <<>>
  BY Zenon DEF Decision
<1>6. qty = 1
  BY <1>2
<1>8. side = CASE v <= 0 -> "NONE"
               [] ~(v <= 0) /\ p = 0 /\ d > 0 /\ far -> "SELL"
               [] ~(v <= 0) /\ p = 0 /\ d < 0 /\ far -> "BUY"
               [] ~(v <= 0) /\ p > 0 /\ near -> "SELL"
               [] ~(v <= 0) /\ p < 0 /\ near -> "BUY"
               [] OTHER -> "NONE"
  <2> DEFINE D == Specified!Deviation(m, mid)
             S == Specified!Spread(m)
             flat == Specified!Flat(S)
             above == Specified!AboveEntry(D, S)
             below == Specified!BelowEntry(D, S)
             within == Specified!WithinExit(D, S)
  <2>1. side = CASE flat -> "NONE"
                 [] ~flat /\ p = 0 /\ above -> "SELL"
                 [] ~flat /\ p = 0 /\ below -> "BUY"
                 [] ~flat /\ p > 0 /\ within -> "SELL"
                 [] ~flat /\ p < 0 /\ within -> "BUY"
                 [] OTHER -> "NONE"
    BY DEF Specified!Signal
  <2>2. /\ flat <=> v <= 0
        /\ above <=> d > 0 /\ far
        /\ below <=> d < 0 /\ far
        /\ within <=> near
    BY DEF Answers
  <2> HIDE DEF flat, above, below, within, d, v, p, far, near
  <2> QED BY <2>1, <2>2
<1> HIDE DEF d, v, p, far, near, qty
<1>9. ~(s.count < Window) /\ s.count = Window
  BY <1>2
<1>10. CASE v <= 0
  <2>2. ~(v > 0)
    BY <1>1, <1>10
  <2>1. Decision(s, t) = <<>>
    BY <1>5, <1>10, <2>2
  <2> QED BY <1>8, <1>10, <2>1
<1>11. CASE ~(v <= 0)
  <2>1. v > 0
    BY <1>1, <1>11
  <2>2. Decision(s, t) = CASE sell -> <<Order(t, "SELL", 1)>>
                           [] buy -> <<Order(t, "BUY", 1)>>
                           [] OTHER -> <<>>
    BY <1>5, <1>6, <1>9, <1>11, <2>1
  <2>3. ~ (sell /\ buy)
    BY <1>1, <1>2
  <2>4. side = CASE sell -> "SELL" [] buy -> "BUY" [] OTHER -> "NONE"
    BY <1>1, <1>2, <1>8, <1>11, <2>3
  <2> HIDE DEF sell, buy
  <2> QED BY <2>2, <2>3, <2>4
<1> QED BY <1>10, <1>11

\* The mids of a file.
Mids(f) == [k \in Nat |-> f[k].bid + f[k].ask]

\* The layout of a slot, in the terms of the lemmas about rings.
LEMMA LaidOutIs ==
  ASSUME NEW f, NEW s, NEW own \in SUBSET Nat, IsFiniteSet(own)
  PROVE  LaidOut(f, s, own) <=>
           /\ s.head = Cardinality(own) % Window
           /\ s.count = IF Cardinality(own) < Window THEN Cardinality(own) ELSE Window
           /\ Wound(s.mids, Mids(f), own, Window)
<1>1. ASSUME NEW i \in 0 .. Window - 1
      PROVE  /\ {k \in own : Specified!Number(own, k) % Window = i} = AtSlot(own, i, Window)
             /\ AtSlot(own, i, Window) # {} =>
                  Mids(f)[Max(AtSlot(own, i, Window))]
                    = f[Max(AtSlot(own, i, Window))].bid + f[Max(AtSlot(own, i, Window))].ask
  <2> DEFINE A == AtSlot(own, i, Window)
  <2>1. {k \in own : Specified!Number(own, k) % Window = i} = A
    BY SpecifiedOperators DEF AtSlot, RingSlot
  <2>2. A \in SUBSET own
    BY DEF AtSlot
  <2> HIDE DEF A
  <2>3. IsFiniteSet(A)
    BY <2>2, FS_Subset
  <2>4. A \in SUBSET Int
    BY <2>2
  <2>5. A # {} => Max(A) \in Nat
    BY <2>2, <2>3, <2>4, Extremes
  <2> QED BY <2>1, <2>5 DEF Mids, A
<1> QED BY <1>1 DEF LaidOut, Wound

-----------------------------------------------------------------------------
(* The positions the specified strategy reaches: it replays the whole      *)
(* history.                                                                *)

\* The first n ticks are the same.
Continues(more, history, n) == \A k \in 1 .. n : more[k] = history[k]

\* The ticks of a symbol before and after one tick more.
LEMMA TicksAppended ==
  ASSUME NEW n \in Nat, NEW history, NEW more, Continues(more, history, n), NEW s
  PROVE  /\ Specified!TicksOf(history, s, n) \in SUBSET (1 .. n)
         /\ \A k \in 0 .. n : Specified!TicksOf(more, s, k) = Specified!TicksOf(history, s, k)
         /\ more[n + 1].symbol = s =>
              Specified!TicksOf(more, s, n + 1) = Specified!TicksOf(history, s, n) \cup {n + 1}
         /\ more[n + 1].symbol # s =>
              Specified!TicksOf(more, s, n + 1) = Specified!TicksOf(history, s, n)
<1>1. 1 .. n + 1 = (1 .. n) \cup {n + 1}
  OBVIOUS
<1>2. /\ \A k \in 0 .. n : \A j \in 1 .. k : more[j] = history[j]
      /\ \A k \in 1 .. n : more[k] = history[k]
  BY DEF Continues
<1>3. \A k \in 0 .. n : Specified!TicksOf(more, s, k) = Specified!TicksOf(history, s, k)
  BY <1>2 DEF Specified!TicksOf
<1>4. Specified!TicksOf(history, s, n) \in SUBSET (1 .. n)
  BY DEF Specified!TicksOf
<1>5. more[n + 1].symbol = s =>
        Specified!TicksOf(more, s, n + 1) = Specified!TicksOf(history, s, n) \cup {n + 1}
  BY <1>1, <1>2 DEF Specified!TicksOf
<1>6. more[n + 1].symbol # s =>
        Specified!TicksOf(more, s, n + 1) = Specified!TicksOf(history, s, n)
  BY <1>1, <1>2 DEF Specified!TicksOf
<1> QED BY <1>3, <1>4, <1>5, <1>6

\* The positions after the k-th tick, from those before it.
Stepped(before, history, k) ==
  [before EXCEPT ![history[k].symbol] =
     Specified!Filled(@, Specified!SideAt(history, k, @))]

\* f gives the positions of all symbols after each of the first n ticks.
Replays(f, history, n) ==
  f = [k \in 0 .. n |-> IF k = 0 THEN [s \in Symbols |-> 0]
                        ELSE Stepped(f[k - 1], history, k)]

\* The same, tick by tick.
Unfolds(f, history, n) ==
  /\ f[0] = [s \in Symbols |-> 0]
  /\ \A k \in 1 .. n : f[k] = Stepped(f[k - 1], history, k)

\* A replay, tick by tick.
LEMMA ReplayAt ==
  ASSUME NEW history, NEW n \in Nat, NEW f, Replays(f, history, n)
  PROVE  Unfolds(f, history, n)
<1> DEFINE body == [k \in 0 .. n |-> IF k = 0 THEN [s \in Symbols |-> 0]
                                     ELSE Stepped(f[k - 1], history, k)]
<1>1. f = body
  BY DEF Replays
<1>2. body[0] = [s \in Symbols |-> 0]
  OBVIOUS
<1>3. ASSUME NEW k \in 1 .. n PROVE body[k] = Stepped(f[k - 1], history, k)
  <2>1. k \in 0 .. n /\ k # 0
    OBVIOUS
  <2> QED BY <2>1
<1> HIDE DEF body
<1> QED BY <1>1, <1>2, <1>3 DEF Unfolds

\* Every history can be replayed.
LEMMA ReplayExists ==
  ASSUME NEW history, NEW n \in Nat
  PROVE  \E f : Replays(f, history, n)
<1> DEFINE P == {m \in Nat : \E f : Replays(f, history, m)}
<1>1. 0 \in P
  <2> DEFINE f == [k \in 0 .. 0 |-> [s \in Symbols |-> 0]]
  <2>1. f = [k \in 0 .. 0 |-> IF k = 0 THEN [s \in Symbols |-> 0]
                              ELSE Stepped(f[k - 1], history, k)]
    OBVIOUS
  <2>2. Replays(f, history, 0)
    BY <2>1 DEF Replays
  <2> QED BY <2>2
<1>2. ASSUME NEW m \in P PROVE m + 1 \in P
  <2>1. m \in Nat
    OBVIOUS
  <2>2. PICK f : Replays(f, history, m)
    OBVIOUS
  <2> DEFINE g == [k \in 0 .. m + 1 |-> IF k = m + 1 THEN Stepped(f[m], history, m + 1) ELSE f[k]]
  <2>3. \A k \in 0 .. m : f[k] = IF k = 0 THEN [s \in Symbols |-> 0]
                                 ELSE Stepped(f[k - 1], history, k)
    <3>1. Unfolds(f, history, m)
      BY <2>1, <2>2, ReplayAt
    <3>2. \A k \in 0 .. m : k # 0 => k \in 1 .. m
      BY <2>1
    <3> QED BY <3>1, <3>2 DEF Unfolds
  <2>4. \A k \in 0 .. m + 1 : g[k] = IF k = 0 THEN [s \in Symbols |-> 0]
                                     ELSE Stepped(g[k - 1], history, k)
    <3> SUFFICES ASSUME NEW k \in 0 .. m + 1
                 PROVE  g[k] = IF k = 0 THEN [s \in Symbols |-> 0]
                               ELSE Stepped(g[k - 1], history, k)
      OBVIOUS
    <3>1. CASE k = m + 1
      <4>1. k # 0 /\ k - 1 = m /\ m \in 0 .. m + 1 /\ m # m + 1 /\ g[m] = f[m]
        BY <2>1, <3>1
      <4>2. g[k] = Stepped(f[m], history, k)
        BY <3>1
      <4> HIDE DEF g
      <4> QED BY <4>1, <4>2
    <3>2. CASE k # m + 1
      <4>1. k \in 0 .. m /\ g[k] = f[k] /\ (k # 0 => k - 1 \in 0 .. m + 1 /\ k - 1 # m + 1)
        BY <2>1, <3>2
      <4>2. k # 0 => g[k - 1] = f[k - 1]
        BY <4>1
      <4> HIDE DEF g
      <4> QED BY <2>3, <4>1, <4>2
    <3> QED BY <3>1, <3>2
  <2>5. g = [k \in 0 .. m + 1 |-> g[k]]
    OBVIOUS
  <2> HIDE DEF g
  <2>6. g = [k \in 0 .. m + 1 |-> IF k = 0 THEN [s \in Symbols |-> 0]
                                  ELSE Stepped(g[k - 1], history, k)]
    BY <2>4, <2>5
  <2>7. Replays(g, history, m + 1)
    BY <2>6 DEF Replays
  <2> QED BY <2>1, <2>7
<1> HIDE DEF P
<1>3. P = Nat
  <2>1. P \in SUBSET Nat
    BY DEF P
  <2> QED BY <1>1, <1>2, <2>1, NatInductionSet
<1> QED BY <1>3 DEF P

\* The positions of the reference are a replay of the history.
LEMMA PositionsReplay ==
  ASSUME NEW history, Len(history) \in Nat
  PROVE  Replays(Specified!Positions(history), history, Len(history))
<1> DEFINE f == CHOOSE f : Replays(f, history, Len(history))
<1>1. Replays(f, history, Len(history))
  BY ReplayExists
<1>2. Specified!Positions(history) = f
  BY DEF Specified!Positions, Replays, Stepped
<1> QED BY <1>1, <1>2

\* A step keeps the positions among -1, 0 and 1.
LEMMA SteppedType ==
  ASSUME NEW before, before \in [Symbols -> -1 .. 1], NEW history, NEW k
  PROVE  Stepped(before, history, k) \in [Symbols -> -1 .. 1]
<1> DEFINE a == history[k].symbol
           v == Specified!Filled(before[a], Specified!SideAt(history, k, before[a]))
<1>1. Stepped(before, history, k) = [before EXCEPT ![a] = v]
  BY DEF Stepped
<1>2. a \in Symbols => v \in -1 .. 1
  BY DEF Specified!Filled
<1> HIDE DEF a, v
<1> QED BY <1>1, <1>2

\* Positions are -1, 0 or 1.
LEMMA ReplayType ==
  ASSUME NEW history, NEW n \in Nat, NEW f, Replays(f, history, n)
  PROVE  \A k \in 0 .. n : f[k] \in [Symbols -> -1 .. 1]
<1>0. /\ f[0] = [s \in Symbols |-> 0]
      /\ \A k \in 1 .. n : f[k] = Stepped(f[k - 1], history, k)
  <2>1. Unfolds(f, history, n)
    BY ReplayAt
  <2> QED BY <2>1 DEF Unfolds
<1> DEFINE P == {m \in Nat : m <= n => f[m] \in [Symbols -> -1 .. 1]}
<1>1. 0 \in P
  <2>1. [s \in Symbols |-> 0] \in [Symbols -> -1 .. 1]
    OBVIOUS
  <2> QED BY <1>0, <2>1
<1>2. ASSUME NEW m \in P PROVE m + 1 \in P
  <2>1. m \in Nat /\ m + 1 \in Nat
    OBVIOUS
  <2>2. ASSUME m + 1 <= n PROVE f[m + 1] \in [Symbols -> -1 .. 1]
    <3>1. m + 1 \in 1 .. n /\ (m + 1) - 1 = m /\ m <= n
      BY <2>1, <2>2
    <3>2. f[m] \in [Symbols -> -1 .. 1]
      BY <3>1
    <3>3. f[m + 1] = Stepped(f[m], history, m + 1)
      BY <1>0, <3>1
    <3> QED BY <3>2, <3>3, SteppedType
  <2> QED BY <2>1, <2>2
<1> HIDE DEF P
<1>3. P = Nat
  <2>1. P \in SUBSET Nat
    BY DEF P
  <2> QED BY <1>1, <1>2, <2>1, NatInductionSet
<1> QED BY <1>3 DEF P

\* What a tick makes its symbol do depends on the ticks up to it.
LEMMA SideContinued ==
  ASSUME NEW n \in Nat, NEW history, NEW more, Continues(more, history, n), NEW k \in 1 .. n
  PROVE  /\ \A p : Specified!SideAt(more, k, p) = Specified!SideAt(history, k, p)
         /\ \A before : Stepped(before, more, k) = Stepped(before, history, k)
<1>1. \A j \in 1 .. k : more[j] = history[j]
  BY DEF Continues
<1>2. more[k] = history[k]
  BY <1>1
<1> DEFINE s == history[k].symbol
           own == Specified!TicksOf(history, s, k)
           last == Specified!LastOf(own)
<1>3. Specified!TicksOf(more, s, k) = own /\ own \subseteq 1 .. k
  BY <1>1 DEF Specified!TicksOf
<1>4. last \subseteq own
  BY DEF Specified!LastOf
<1>5. [j \in last |-> Specified!Mid(more[j])] = [j \in last |-> Specified!Mid(history[j])]
  BY <1>1, <1>3, <1>4
<1> HIDE DEF own, last
<1>6. \A p : Specified!SideAt(more, k, p) = Specified!SideAt(history, k, p)
  BY <1>2, <1>3, <1>5 DEF Specified!SideAt, own, last
<1> QED BY <1>2, <1>6 DEF Stepped

\* A replay of a longer history begins with the replay of the shorter one.
LEMMA ReplayContinued ==
  ASSUME NEW n \in Nat, NEW m \in Nat, n <= m, NEW history, NEW more,
         Continues(more, history, n), NEW f, Replays(f, history, n), NEW g, Replays(g, more, m)
  PROVE  \A k \in 0 .. n : g[k] = f[k]
<1>0. /\ f[0] = [s \in Symbols |-> 0] /\ g[0] = [s \in Symbols |-> 0]
      /\ \A k \in 1 .. n : f[k] = Stepped(f[k - 1], history, k)
      /\ \A k \in 1 .. m : g[k] = Stepped(g[k - 1], more, k)
  <2>1. Unfolds(f, history, n) /\ Unfolds(g, more, m)
    BY ReplayAt
  <2> QED BY <2>1 DEF Unfolds
<1> DEFINE P == {k \in Nat : k <= n => g[k] = f[k]}
<1>1. 0 \in P
  BY <1>0
<1>2. ASSUME NEW k \in P PROVE k + 1 \in P
  <2> SUFFICES ASSUME k + 1 <= n PROVE g[k + 1] = f[k + 1]
    OBVIOUS
  <2>1. /\ k \in Nat /\ k + 1 \in 1 .. n /\ k + 1 \in 1 .. m /\ (k + 1) - 1 = k
        /\ g[k] = f[k]
    OBVIOUS
  <2>2. f[k + 1] = Stepped(f[k], history, k + 1) /\ g[k + 1] = Stepped(g[k], more, k + 1)
    BY <1>0, <2>1
  <2>4. Stepped(f[k], more, k + 1) = Stepped(f[k], history, k + 1)
    BY <2>1, SideContinued
  <2> QED BY <2>1, <2>2, <2>4
<1> HIDE DEF P
<1>3. P = Nat
  <2>1. P \in SUBSET Nat
    BY DEF P
  <2> QED BY <1>1, <1>2, <2>1, NatInductionSet
<1> QED BY <1>3 DEF P

\* The positions after one tick more.
LEMMA PositionsAppended ==
  ASSUME NEW history, NEW more, NEW n \in Nat, Len(history) = n, Len(more) = n + 1,
         Continues(more, history, n)
  PROVE  /\ Specified!Positions(more)[n] = Specified!Positions(history)[n]
         /\ Specified!Positions(more)[n + 1] =
              Stepped(Specified!Positions(history)[n], more, n + 1)
         /\ Specified!Positions(history)[n] \in [Symbols -> -1 .. 1]
<1> DEFINE f == Specified!Positions(history)
           g == Specified!Positions(more)
<1>1. Replays(f, history, n) /\ Replays(g, more, n + 1)
  BY PositionsReplay
<1> HIDE DEF f, g
<1>2. n \in 0 .. n /\ n + 1 \in 1 .. n + 1 /\ (n + 1) - 1 = n /\ n <= n + 1
  OBVIOUS
<1>3. g[n] = f[n]
  BY <1>1, <1>2, ReplayContinued
<1>4. g[n + 1] = Stepped(g[n], more, n + 1)
  <2>1. Unfolds(g, more, n + 1)
    BY <1>1, ReplayAt
  <2> QED BY <1>2, <2>1 DEF Unfolds
<1>5. f[n] \in [Symbols -> -1 .. 1]
  BY <1>1, <1>2, ReplayType
<1> QED BY <1>3, <1>4, <1>5 DEF f, g

-----------------------------------------------------------------------------
(* The windows.                                                            *)

\* The mid of the tick about to be given to on_tick.
TheMid == ticks[At].bid + ticks[At].ask

\* What on_tick does to the slot of its symbol.
LEMMA TickAppends ==
  ASSUME BooksInv, Tick
  PROVE  /\ slot_'[TheSlot] = Appended(slot_[TheSlot], TheMid)
         /\ SlotInv(slot_[TheSlot]) /\ SlotInv(slot_'[TheSlot]) /\ TheMid \in Int
         /\ TheMid = file[At].bid + file[At].ask
         /\ Known(View) = {} => slot_[TheSlot] = EmptySlot
<1>1. status = "replay" /\ next < Len(ticks) /\ OnTick(ticks[next + 1])
  BY DEF Tick
<1>2. At \in 1 .. Len(ticks) /\ ticks[At] \in TickType
  BY <1>1, BeforeTick
<1>3. StrategyInv /\ LoaderInv
  BY DEF BooksInv
<1>4. TheMid \in Int
  BY <1>2 DEF TickType, TheMid
<1>5. /\ Candidates(View) # {}
      /\ slot_' = [slot_ EXCEPT ![TheSlot] = Appended(slot_[TheSlot], TheMid)]
  BY <1>1 DEF OnTick, At, View, TheSlot, TheMid
<1>6. TheSlot \in Slots /\ (Known(View) = {} => TheSlot \in Free)
  BY <1>5, LookupAnswers DEF TheSlot
<1>7. /\ DOMAIN slot_ = Slots /\ SlotInv(slot_[TheSlot])
      /\ (Known(View) = {} => slot_[TheSlot] = EmptySlot)
  BY <1>3, <1>6 DEF StrategyInv
<1>8. slot_'[TheSlot] = Appended(slot_[TheSlot], TheMid)
  BY <1>5, <1>6, <1>7
<1>9. SlotInv(slot_'[TheSlot])
  BY <1>4, <1>7, <1>8, AppendedSlot
<1>10. TickOf(At)
  BY <1>2, <1>3 DEF LoaderInv
<1>11. TheMid = file[At].bid + file[At].ask
  BY <1>10 DEF TickOf, TheMid
<1> QED BY <1>4, <1>7, <1>8, <1>9, <1>11

\* The ticks of a name among the first k of the file.
LEMMA TicksOfIs ==
  ASSUME NEW name, NEW k \in Nat
  PROVE  /\ Specified!TicksOf(file, name, k) \in SUBSET (1 .. k)
         /\ Specified!TicksOf(file, name, k) \in SUBSET Nat
         /\ IsFiniteSet(Specified!TicksOf(file, name, k))
<1> DEFINE own == Specified!TicksOf(file, name, k)
<1>1. own \in SUBSET (1 .. k)
  BY DEF Specified!TicksOf
<1>2. IsFiniteSet(1 .. k)
  BY FS_Interval
<1> HIDE DEF own
<1>3. IsFiniteSet(own)
  BY <1>1, <1>2, FS_Subset
<1>4. own \in SUBSET Nat
  BY <1>1
<1> QED BY <1>1, <1>3, <1>4 DEF own

\* A slot nobody uses is an empty window.
LEMMA EmptyLaidOut == LaidOut(file, EmptySlot, {})
<1>1. Window \in Nat \ {0}
  BY StrategyAssumption
<1>2. Cardinality({}) = 0 /\ IsFiniteSet({}) /\ {} \in SUBSET Nat
  BY FS_EmptySet
<1>3. 0 % Window = 0
  BY <1>1, ModSmall
<1>4. \A i \in 0 .. Window - 1 : EmptySlot.mids[i] = 0
  BY DEF EmptySlot
<1>5. Wound(EmptySlot.mids, Mids(file), {}, Window)
  BY <1>1, <1>4, WoundEmpty
<1>6. EmptySlot.head = 0 /\ EmptySlot.count = 0
  BY DEF EmptySlot
<1> QED BY <1>1, <1>2, <1>3, <1>5, <1>6, LaidOutIs

\* The mid of one more tick goes where the window of one more tick has it.
LEMMA AppendedLaidOut ==
  ASSUME NEW n \in Nat, NEW own \in SUBSET (1 .. n), NEW s, SlotInv(s), LaidOut(file, s, own),
         NEW mid \in Int, mid = file[n + 1].bid + file[n + 1].ask
  PROVE  LaidOut(file, Appended(s, mid), own \cup {n + 1})
<1> DEFINE a == Appended(s, mid)
           own2 == own \cup {n + 1}
           c == Cardinality(own)
<1>0. Window \in Nat \ {0}
  BY StrategyAssumption
<1>1. /\ IsFiniteSet(own) /\ c \in Nat /\ Cardinality(own2) = c + 1
  BY <1>0, OneMoreMember
<1>2. own \in SUBSET Nat /\ own2 \in SUBSET Nat /\ IsFiniteSet(own2)
  BY <1>1, FS_AddElement
<1>3. /\ s.head = c % Window /\ s.count = IF c < Window THEN c ELSE Window
      /\ Wound(s.mids, Mids(file), own, Window)
  BY <1>1, <1>2, LaidOutIs
<1>4. /\ DOMAIN s = {"mids", "head", "count", "position", "rolling_sum", "rolling_sq_sum"}
      /\ s.mids \in [0 .. Window - 1 -> Int] /\ s.head \in 0 .. Window - 1
  BY DEF SlotInv, EmptySlot
<1>5. /\ a.mids = [s.mids EXCEPT ![s.head] = mid]
      /\ a.head = (s.head + 1) % Window
      /\ a.count = IF s.count < Window THEN s.count + 1 ELSE s.count
  BY <1>4 DEF Appended
<1>6. Mids(file)[n + 1] = mid
  BY DEF Mids
<1> HIDE DEF a, c
<1>7. Wound(a.mids, Mids(file), own2, Window)
  <2> DEFINE g == s.mids
             head == s.head
             h == a.mids
             val == Mids(file)
  <2>1. /\ g \in [0 .. Window - 1 -> Int] /\ Wound(g, val, own, Window)
        /\ head \in 0 .. Window - 1 /\ head = Cardinality(own) % Window
        /\ h = [g EXCEPT ![head] = val[n + 1]]
    BY <1>3, <1>4, <1>5, <1>6 DEF c
  <2> HIDE DEF g, head, h, val
  <2>2. Wound(h, val, own \cup {n + 1}, Window)
    BY <1>0, <2>1, WoundMore
  <2> QED BY <2>2 DEF h, val
<1>8. a.head = (c + 1) % Window
  BY <1>0, <1>1, <1>3, <1>5, WrappedSuccessor
<1>9. a.count = IF c + 1 < Window THEN c + 1 ELSE Window
  BY <1>0, <1>1, <1>3, <1>5
<1>10. LaidOut(file, a, own2)
  <2> HIDE DEF own2
  <2> QED BY <1>1, <1>2, <1>7, <1>8, <1>9, LaidOutIs
<1> QED BY <1>10 DEF a

\* The symbol of the tick about to be given to on_tick is that of the earlier ticks with
\* the same view.
LEMMA ViewsSeen ==
  ASSUME BooksInv, Tick, file[At].symbol \notin ShortNames, NEW j \in 1 .. next
  PROVE  View = ticks[j].symbol <=> file[At].symbol = file[j].symbol
<1>1. status = "replay" /\ next < Len(ticks)
  BY DEF Tick
<1>2. /\ next \in Nat /\ At \in 1 .. Len(ticks) /\ View = ticks[At].symbol
      /\ 1 .. next \subseteq 1 .. Len(ticks) /\ Len(ticks) \in Nat
  BY <1>1, BeforeTick
<1>3. LoaderInv /\ j \in 1 .. Len(ticks)
  BY <1>2 DEF BooksInv
<1> QED BY <1>2, <1>3, ViewsTellNames

\* Before a tick of a long name, the slot on_tick will use holds the window of the name,
\* whether the name has been seen or not.
LEMMA BeforeTickLaidOut ==
  ASSUME BooksInv, WindowsInv, Tick, file[At].symbol \notin ShortNames
  PROVE  LaidOut(file, slot_[TheSlot], Specified!TicksOf(file, file[At].symbol, next))
<1> DEFINE name == file[At].symbol
           own == Specified!TicksOf(file, name, next)
<1>1. StrategyInv /\ SeenInv
  BY DEF BooksInv
<1>2. View # Unused
  <2>1. status = "replay" /\ next < Len(ticks)
    BY DEF Tick
  <2> QED BY <2>1, BeforeTick
<1>3. CASE Known(View) = {}
  <2>1. ASSUME NEW j \in 1 .. next, file[j].symbol = name PROVE FALSE
    <3>1. View = ticks[j].symbol
      BY <2>1, ViewsSeen
    <3>2. Known(ticks[j].symbol) # {}
      BY <1>1 DEF SeenInv
    <3> QED BY <1>3, <3>1, <3>2
  <2>2. own = {}
    BY <2>1 DEF Specified!TicksOf
  <2>3. slot_[TheSlot] = EmptySlot
    BY <1>3, TickAppends
  <2> QED BY <2>2, <2>3, EmptyLaidOut
<1>4. CASE Known(View) # {}
  <2>1. PICK i \in Slots : symbols_[i] = View
    BY <1>4 DEF Known
  <2>2. i \in Slots \ Free
    BY <1>2, <2>1 DEF Free
  <2>3. PICK j \in 1 .. next : symbols_[i] = ticks[j].symbol
    BY <1>1, <2>2 DEF SeenInv
  <2>4. file[j].symbol = name /\ ticks[j].symbol = View
    BY <2>1, <2>3, ViewsSeen
  <2>5. LaidOut(file, SlotOf(j), Specified!TicksOf(file, file[j].symbol, next))
    BY <2>4 DEF WindowsInv
  <2>6. SlotOf(j) = slot_[TheSlot]
    BY <2>4 DEF SlotOf, TheSlot
  <2> QED BY <2>4, <2>5, <2>6
<1> QED BY <1>3, <1>4

\* After it, the slot holds the window with the tick.
LEMMA AfterTickLaidOut ==
  ASSUME BooksInv, WindowsInv, Tick, file[At].symbol \notin ShortNames
  PROVE  LaidOut(file, slot_'[TheSlot], Specified!TicksOf(file, file[At].symbol, At))
<1> DEFINE name == file[At].symbol
           own == Specified!TicksOf(file, name, next)
           own2 == Specified!TicksOf(file, name, next + 1)
           n == next
           mid == TheMid
           s == slot_[TheSlot]
<1>1. next \in Nat
  BY BeforeTick DEF Tick
<1>2. /\ LaidOut(file, s, own) /\ SlotInv(s) /\ mid \in Int
      /\ mid = file[n + 1].bid + file[n + 1].ask
      /\ slot_'[TheSlot] = Appended(s, mid)
  BY BeforeTickLaidOut, TickAppends DEF At
<1>3. own \in SUBSET (1 .. n) /\ own2 = own \cup {n + 1}
  <2>1. Continues(file, file, next)
    BY DEF Continues
  <2>2. file[next + 1].symbol = name
    BY DEF At
  <2> HIDE DEF name
  <2> QED BY <1>1, <2>1, <2>2, TicksAppended
<1> HIDE DEF own, own2, n, mid, s
<1>4. LaidOut(file, Appended(s, mid), own \cup {n + 1})
  BY <1>1, <1>2, <1>3, AppendedLaidOut DEF n
<1> QED BY <1>2, <1>3, <1>4 DEF At, own2

\* A tick keeps the windows laid out.
LEMMA TickWindows ==
  ASSUME BooksInv, WindowsInv, Tick
  PROVE  WindowsInv'
<1>1. /\ status = "replay" /\ next < Len(ticks) /\ next' = next + 1
      /\ UNCHANGED <<file, ticks>>
  BY DEF Tick, loaderVars
<1>2. /\ next \in Nat /\ At \in 1 .. Len(ticks) /\ At = next + 1 /\ View = ticks[At].symbol
      /\ View # Unused /\ Len(ticks) \in Nat /\ 1 .. next \subseteq 1 .. Len(ticks)
  BY <1>1, BeforeTick DEF At
<1>3. LoaderInv
  BY DEF BooksInv
<1>4. ASSUME NEW j \in 1 .. next + 1, file[j].symbol \notin ShortNames
      PROVE  LaidOut(file, SlotOf(j)', Specified!TicksOf(file, file[j].symbol, next + 1))
  <2>1. j \in 1 .. Len(ticks) /\ (j \in 1 .. next \/ j = At)
    BY <1>1, <1>2
  <2>2. ticks[j].symbol = View <=> file[j].symbol = file[At].symbol
    BY <1>2, <1>3, <1>4, <2>1, ViewsTellNames
  <2>3. CASE ticks[j].symbol = View
    <3>1. StrategyInv' /\ TheSlot \in Slots /\ symbols_'[TheSlot] = View
      BY TickSlots
    <3>2. SlotOf(j)' = slot_'[TheSlot]
      BY <1>1, <1>2, <2>3, <3>1, SlotFoundNext
    <3>3. file[At].symbol \notin ShortNames /\ file[j].symbol = file[At].symbol
      BY <1>4, <2>2, <2>3
    <3>4. LaidOut(file, slot_'[TheSlot], Specified!TicksOf(file, file[At].symbol, At))
      BY <3>3, AfterTickLaidOut
    <3> QED BY <1>2, <3>2, <3>3, <3>4
  <2>4. CASE ticks[j].symbol # View
    <3>1. j \in 1 .. next
      BY <1>2, <2>1, <2>4
    <3>2. SlotOf(j)' = SlotOf(j)
      BY <2>4, <3>1, OtherSlots
    <3>3. LaidOut(file, SlotOf(j), Specified!TicksOf(file, file[j].symbol, next))
      BY <1>4, <3>1 DEF WindowsInv
    <3>4. Specified!TicksOf(file, file[j].symbol, next + 1) = Specified!TicksOf(file, file[j].symbol, next)
      <4> DEFINE name == file[j].symbol
      <4>1. Continues(file, file, next) /\ file[next + 1].symbol # name
        BY <1>2, <2>2, <2>4 DEF Continues
      <4> HIDE DEF name
      <4>2. Specified!TicksOf(file, name, next + 1) = Specified!TicksOf(file, name, next)
        BY <1>2, <4>1, TicksAppended
      <4> QED BY <4>2 DEF name
    <3> QED BY <3>2, <3>3, <3>4
  <2> QED BY <2>3, <2>4
<1> QED BY <1>1, <1>4 DEF WindowsInv

\* Two slots with the same window and the same sums.
SameWindow(s, t) == /\ s.mids = t.mids /\ s.head = t.head /\ s.count = t.count
                    /\ s.rolling_sum = t.rolling_sum /\ s.rolling_sq_sum = t.rolling_sq_sum

\* A fill changes a position, and nothing else of the slots.
LEMMA FillWindows ==
  ASSUME BooksInv, Fill
  PROVE  /\ \A i \in Slots : SameWindow(slot_'[i], slot_[i])
         /\ \A j \in 1 .. next : SameWindow(SlotOf(j)', SlotOf(j))
<1>1. StrategyInv /\ SeenInv /\ slot_' = [slot_ EXCEPT ![Lookup(Head(pending).symbol)].position =
                               IF Head(pending).side = "BUY" THEN @ + Head(pending).qty
                                                             ELSE @ - Head(pending).qty]
  BY DEF Fill, OnFill, BooksInv
<1>2. ASSUME NEW i \in Slots PROVE SameWindow(slot_'[i], slot_[i])
  <2>1. DOMAIN slot_ = Slots /\ SlotInv(slot_[i])
    BY <1>1 DEF StrategyInv
  <2>2. DOMAIN slot_[i] = {"mids", "head", "count", "position", "rolling_sum", "rolling_sq_sum"}
    BY <2>1 DEF SlotInv, EmptySlot
  <2> DEFINE L == Lookup(Head(pending).symbol)
             v == IF Head(pending).side = "BUY" THEN slot_[L].position + Head(pending).qty
                                                ELSE slot_[L].position - Head(pending).qty
  <2>3. slot_' = [slot_ EXCEPT ![L].position = v]
    BY <1>1
  <2> HIDE DEF L, v
  <2>4. CASE i = L
    <3>1. slot_'[i] = [slot_[i] EXCEPT !.position = v]
      BY <2>1, <2>3, <2>4
    <3> QED BY <2>2, <3>1 DEF SameWindow
  <2>5. CASE i # L
    BY <2>1, <2>3, <2>5 DEF SameWindow
  <2> QED BY <2>4, <2>5
<1>3. ASSUME NEW j \in 1 .. next PROVE SameWindow(SlotOf(j)', SlotOf(j))
  <2>1. UNCHANGED ticks /\ \A i \in Slots : symbols_'[i] = symbols_[i]
    BY FillSlots DEF Fill, loaderVars
  <2>2. Lookup(ticks[j].symbol)' = Lookup(ticks[j].symbol)
    BY <2>1 DEF Lookup, Candidates, Known, Free
  <2>3. Known(ticks[j].symbol) # {}
    BY <1>1 DEF SeenInv
  <2>4. Lookup(ticks[j].symbol) \in Slots
    <3>1. Candidates(ticks[j].symbol) # {}
      BY <2>3 DEF Candidates
    <3> QED BY <3>1, LookupAnswers
  <2> QED BY <1>2, <2>2, <2>4 DEF SlotOf
<1> QED BY <1>2, <1>3

\* So it keeps the windows laid out.
LEMMA FillKeepsWindows ==
  ASSUME BooksInv, WindowsInv, Fill
  PROVE  WindowsInv'
<1>1. UNCHANGED <<file, ticks, next>>
  BY DEF Fill, loaderVars
<1>2. ASSUME NEW j \in 1 .. next, file[j].symbol \notin ShortNames
      PROVE  LaidOut(file, SlotOf(j)', Specified!TicksOf(file, file[j].symbol, next))
  <2>1. LaidOut(file, SlotOf(j), Specified!TicksOf(file, file[j].symbol, next))
    BY <1>2 DEF WindowsInv
  <2>2. SameWindow(SlotOf(j)', SlotOf(j))
    BY FillWindows
  <2> QED BY <2>1, <2>2 DEF LaidOut, SameWindow
<1> QED BY <1>1, <1>2 DEF WindowsInv

\* So do all the other steps: nothing is traded while the file is loaded.
LEMMA RestKeepsWindows ==
  ASSUME BooksInv, WindowsInv,
         LoadStep \/ UNCHANGED <<file, ticks, symbols_, slot_, next>>
  PROVE  WindowsInv'
<1>1. CASE LoadStep
  <2>1. EngineInv /\ status \in {"start", "loading"} /\ UNCHANGED next
    BY <1>1 DEF BooksInv, LoadStep, engineVars, Load, OpenFails, Open, LoadKnown, LoadNew, LoadDone
  <2>2. next' = 0
    BY <2>1 DEF EngineInv
  <2> QED BY <2>2 DEF WindowsInv
<1>2. CASE UNCHANGED <<file, ticks, symbols_, slot_, next>>
  <2>1. \A j : SlotOf(j)' = SlotOf(j)
    BY <1>2 DEF SlotOf, Lookup, Candidates, Known, Free
  <2>2. \A j \in 1 .. next : file[j].symbol \notin ShortNames =>
           LaidOut(file, SlotOf(j)', Specified!TicksOf(file, file[j].symbol, next))
    BY <2>1 DEF WindowsInv
  <2> QED BY <1>2, <2>2 DEF WindowsInv
<1> QED BY <1>1, <1>2

-----------------------------------------------------------------------------
(* The decisions, where nothing is rounded.                                *)

\* The window of an empty slot adds up to what its sums are.
LEMMA EmptyExact == SumsExact(EmptySlot)
<1> DEFINE g == EmptySlot.mids
           S == 0 .. Window - 1
<1>1. Window \in Nat \ {0} /\ IsFiniteSet(S)
  BY StrategyAssumption, FS_Interval
<1>2. /\ g \in [S -> Int] /\ \A i \in S : g[i] = 0
      /\ EmptySlot.rolling_sum = 0 /\ EmptySlot.rolling_sq_sum = 0
  BY DEF EmptySlot
<1>3. \A i \in S : SquaresOf(EmptySlot)[i] = 0
  <2>1. 0 * 0 = 0 /\ DOMAIN g = S
    BY <1>2
  <2>2. SquaresOf(EmptySlot) = [i \in S |-> g[i] * g[i]]
    BY <2>1 DEF SquaresOf
  <2> HIDE DEF g, S
  <2>3. [i \in S |-> g[i] * g[i]] = [i \in S |-> 0]
    BY <1>2, <2>1
  <2> QED BY <2>2, <2>3
<1>4. SumOver(g, S) = 0 /\ SumOver(SquaresOf(EmptySlot), S) = 0
  <2> DEFINE sq == SquaresOf(EmptySlot)
  <2>1. IsFiniteSet(S) /\ (\A i \in S : g[i] = 0) /\ (\A i \in S : sq[i] = 0)
    BY <1>1, <1>2, <1>3
  <2> HIDE DEF S, g, sq
  <2>2. SumOver(g, S) = 0
    BY <2>1, SumZero
  <2>3. SumOver(sq, S) = 0
    BY <2>1, SumZero
  <2> QED BY <2>2, <2>3 DEF sq
<1>5. Short(0)
  <2>1. (Window * 0) * (Window * 0) = 0
    BY <1>1
  <2>2. 0 < 2 ^ Precision
    BY Mantissas
  <2> QED BY <2>1, <2>2 DEF Short
<1>6. ShortWindow(g)
  BY <1>2, <1>5 DEF ShortWindow
<1> QED BY <1>2, <1>4, <1>6, SumsExactIs

\* The mid of a tick of a file with short prices is short.
LEMMA TickShort ==
  ASSUME BooksInv, Tick, Exact(file)
  PROVE  Short(TheMid)
<1>1. status = "replay" /\ next < Len(ticks)
  BY DEF Tick
<1>2. At \in 1 .. Len(file)
  BY <1>1, BeforeTick
<1>3. file \in Seq(Rows)
  BY FileIs DEF BooksInv
<1>4. At \in DOMAIN file
  BY <1>2, <1>3
<1>5. Short(file[At].bid + file[At].ask)
  BY <1>4 DEF Exact
<1> QED BY <1>5, TickAppends

\* The sums of all the slots stay exact.
LEMMA TickSums ==
  ASSUME BooksInv, Tick, Exact(file), \A i \in Slots : SumsExact(slot_[i])
  PROVE  \A i \in Slots : SumsExact(slot_'[i])
<1>1. /\ TheSlot \in Slots
      /\ \A i \in Slots : i # TheSlot => slot_'[i] = slot_[i]
  BY TickSlots
<1>2. /\ slot_'[TheSlot] = Appended(slot_[TheSlot], TheMid)
      /\ SlotInv(slot_[TheSlot]) /\ TheMid \in Int
  BY TickAppends
<1>3. SumsExact(Appended(slot_[TheSlot], TheMid))
  BY <1>1, <1>2, TickShort, AppendedExact
<1> QED BY <1>1, <1>2, <1>3

\* The side is the specified one, and the order on_tick returns is for it.
Takes(side) ==
  /\ side \in {"NONE", "BUY", "SELL"}
  /\ side = Specified!SideAt(file, At, slot_[TheSlot].position)
  /\ pending' = IF side = "NONE" THEN <<>> ELSE <<Order(ticks[At], side, 1)>>
  /\ side = "BUY" => slot_[TheSlot].position \in {-1, 0}
  /\ side = "SELL" => slot_[TheSlot].position \in {0, 1}

\* The window of the latest tick of a symbol.
LastWindow(own) == [j \in Specified!LastOf(own) |-> Specified!Mid(file[j])]

\* The same in the terms of the lemmas about rings.
LEMMA LastWindowIs ==
  ASSUME NEW own \in SUBSET Nat
  PROVE  LastWindow(own) = [j \in Recent(own, Window) |-> Mids(file)[j]]
<1>1. Specified!LastOf(own) = Recent(own, Window)
  BY SpecifiedOperators DEF Specified!LastOf, Recent
<1>2. Recent(own, Window) \in SUBSET Nat
  BY DEF Recent
<1>3. \A j \in Recent(own, Window) : Specified!Mid(file[j]) = Mids(file)[j]
  BY <1>2 DEF Specified!Mid, Mids
<1> QED BY <1>1, <1>3 DEF LastWindow

\* What the specified rule reads off the window of a slot.
LEMMA WindowRead ==
  ASSUME NEW s, SlotInv(s), \A i \in 0 .. Window - 1 : s.mids[i] \in Nat, NEW mid \in Int,
         NEW own \in SUBSET Nat, IsFiniteSet(own), Cardinality(own) >= Window,
         LaidOut(file, s, own)
  PROVE  /\ Specified!Deviation(LastWindow(own), mid)
              = Window * mid - SumOver(s.mids, 0 .. Window - 1)
         /\ Specified!Spread(LastWindow(own)) = Window * VarianceOf(s)
<1> DEFINE val == Mids(file)
           m == LastWindow(own)
<1>1. Wound(s.mids, val, own, Window) /\ m = [j \in Recent(own, Window) |-> val[j]]
  BY LaidOutIs, LastWindowIs
<1>2. s.mids \in [0 .. Window - 1 -> Int]
  BY DEF SlotInv
<1> HIDE DEF val, m
<1>3. /\ Specified!Deviation(m, mid) = Window * mid - SumOver(s.mids, 0 .. Window - 1)
      /\ Specified!Spread(m) = Window * VarianceOf(s)
  BY <1>1, <1>2, FullWindow
<1> QED BY <1>3 DEF m

\* A slot that holds the window of the latest tick and answers as the rule does decides as
\* specified, and so it does before the window is full.
LEMMA WindowDecides ==
  ASSUME NEW s, SlotInv(s), NEW n \in Nat \ {0},
         NEW own, own = Specified!TicksOf(file, file[n].symbol, n), LaidOut(file, s, own),
         NEW t, NEW mid, mid = t.bid + t.ask, mid = file[n].bid + file[n].ask,
         Cardinality(own) >= Window => Answers(LastWindow(own), mid, s),
         NEW side, side = Specified!SideAt(file, n, s.position)
  PROVE  /\ Decision(s, t) = IF side = "NONE" THEN <<>> ELSE <<Order(t, side, 1)>>
         /\ side \in {"NONE", "BUY", "SELL"}
<1>1. own \in SUBSET Nat /\ IsFiniteSet(own)
  BY TicksOfIs
<1>2. s.count = IF Cardinality(own) < Window THEN Cardinality(own) ELSE Window
  BY <1>1, LaidOutIs
<1>3. Window \in Nat \ {0} /\ Cardinality(own) \in Nat
  BY <1>1, StrategyAssumption, FS_CardinalityType
<1> DEFINE m == LastWindow(own)
<1>4. side = IF Cardinality(own) < Window THEN "NONE"
             ELSE Specified!Signal(m, mid, s.position)
  BY SpecifiedOperators DEF Specified!SideAt, Specified!Mid, LastWindow
<1> HIDE DEF m
<1>8. CASE Cardinality(own) < Window
  <2>1. s.count < Window
    BY <1>2, <1>8
  <2>2. Decision(s, t) = <<>>
    <3>1. s.count # Window
      BY <1>3, <2>1
    <3> QED BY <2>1, <3>1 DEF Decision
  <2> QED BY <1>4, <1>8, <2>2
<1>9. CASE ~(Cardinality(own) < Window)
  <2>1. s.count = Window /\ Cardinality(own) >= Window
    BY <1>2, <1>3, <1>9
  <2>2. Answers(m, mid, s)
    BY <2>1 DEF m
  <2>3. side = Specified!Signal(m, mid, s.position)
    BY <1>4, <1>9
  <2> QED BY <2>1, <2>2, <2>3, AnswersDecide
<1> QED BY <1>8, <1>9

\* After a tick whose window is full, the slot answers as the rule does.
Answered ==
  LET own == Specified!TicksOf(file, file[At].symbol, At)
  IN  Cardinality(own) >= Window => Answers(LastWindow(own), TheMid, slot_'[TheSlot])

\* It does where no operation is rounded.
LEMMA ExactAnswered ==
  ASSUME BooksInv, WindowsInv, Tick, Exact(file), \A i \in Slots : SumsExact(slot_[i]),
         file[At].symbol \notin ShortNames
  PROVE  Answered
<1> DEFINE s == slot_'[TheSlot]
           own == Specified!TicksOf(file, file[At].symbol, At)
           mid == TheMid
<1>1. TheSlot \in Slots /\ SlotInv(s) /\ mid \in Int
  BY TickSlots, TickAppends
<1>2. SumsExact(s) /\ Short(mid)
  BY <1>1, TickSums, TickShort
<1>3. LaidOut(file, s, own)
  BY AfterTickLaidOut
<1>4. At \in Nat
  <2>1. status = "replay" /\ next < Len(ticks)
    BY DEF Tick
  <2> QED BY <2>1, BeforeTick
<1>5. own \in SUBSET Nat /\ IsFiniteSet(own)
  BY <1>4, TicksOfIs
<1> HIDE DEF s, own, mid
<1>6. \A i \in 0 .. Window - 1 : s.mids[i] \in Nat
  <2>1. s.mids \in [0 .. Window - 1 -> Int] /\ \A i \in 0 .. Window - 1 : Short(s.mids[i])
    BY <1>1, <1>2, SumsSmall DEF ShortWindow
  <2>2. ASSUME NEW x \in Int, Short(x) PROVE x \in Nat
    BY <2>2 DEF Short
  <2>3. \A i \in 0 .. Window - 1 : s.mids[i] \in Int /\ Short(s.mids[i])
    BY <2>1
  <2> QED BY <2>2, <2>3
<1>7. ASSUME Cardinality(own) >= Window PROVE Answers(LastWindow(own), mid, s)
  <2> DEFINE m == LastWindow(own)
  <2>1. /\ Specified!Deviation(m, mid) = Window * mid - SumOver(s.mids, 0 .. Window - 1)
        /\ Specified!Spread(m) = Window * VarianceOf(s)
    BY <1>1, <1>3, <1>5, <1>6, <1>7, WindowRead
  <2> HIDE DEF m
  <2>2. Answers(m, mid, s)
    BY <1>1, <1>2, <2>1, ExactAnswers
  <2> QED BY <2>2 DEF m
<1> QED BY <1>7 DEF Answered, s, own, mid

\* Where it does, on_tick decides as specified.
LEMMA TickSide ==
  ASSUME BooksInv, WindowsInv, Tick, Answered, file[At].symbol \notin ShortNames
  PROVE  \E side : Takes(side)
<1> DEFINE s == slot_'[TheSlot]
           t == ticks[At]
           own == Specified!TicksOf(file, file[At].symbol, At)
           side == Specified!SideAt(file, At, s.position)
           p == slot_[TheSlot].position
<1>1. /\ TheSlot \in Slots /\ s.position = p /\ p \in -1 .. 1
      /\ pending' = Decision(s, t)
  BY TickSlots
<1>2. SlotInv(s) /\ TheMid \in Int /\ TheMid = t.bid + t.ask /\ TheMid = file[At].bid + file[At].ask
  BY TickAppends DEF TheMid
<1>5. At \in Nat \ {0}
  <2>1. status = "replay" /\ next < Len(ticks)
    BY DEF Tick
  <2>2. At \in 1 .. Len(ticks)
    BY <2>1, BeforeTick
  <2> QED BY <2>2
<1>6. LaidOut(file, s, own)
  BY AfterTickLaidOut
<1>7. /\ Decision(s, t) = IF side = "NONE" THEN <<>> ELSE <<Order(t, side, 1)>>
      /\ side \in {"NONE", "BUY", "SELL"}
  <2> DEFINE n == At
             mid == TheMid
  <2>2. Cardinality(own) >= Window => Answers(LastWindow(own), mid, s)
    BY DEF Answered
  <2> HIDE DEF s, t
  <2>1. /\ SlotInv(s) /\ n \in Nat \ {0}
        /\ own = Specified!TicksOf(file, file[n].symbol, n) /\ LaidOut(file, s, own)
        /\ mid = t.bid + t.ask /\ mid = file[n].bid + file[n].ask
        /\ side = Specified!SideAt(file, n, s.position)
    BY <1>2, <1>5, <1>6
  <2> HIDE DEF n, mid, own, side
  <2> QED BY <2>1, <2>2, WindowDecides
<1>8. /\ side = "BUY" => p \in {-1, 0}
      /\ side = "SELL" => p \in {0, 1}
  <2>1. \/ Decision(s, t) = <<>>
        \/ Decision(s, t) = <<Order(t, "BUY", 1)>> /\ p \in {-1, 0}
        \/ Decision(s, t) = <<Order(t, "SELL", 1)>> /\ p \in {0, 1}
    <3>1. s.position \in -1 .. 1
      BY <1>1
    <3> HIDE DEF s, t
    <3>2. \/ Decision(s, t) = <<>>
          \/ Decision(s, t) = <<Order(t, "BUY", 1)>> /\ s.position \in {-1, 0}
          \/ Decision(s, t) = <<Order(t, "SELL", 1)>> /\ s.position \in {0, 1}
      BY <3>1, DecisionIs
    <3> QED BY <1>1, <3>2
  <2>2. \A a : Order(t, a, 1).side = a
    BY DEF Order
  <2> HIDE DEF s, t, side, p
  <2>3. ASSUME NEW a \in {"BUY", "SELL"}, NEW b \in {"BUY", "SELL"},
               <<Order(t, a, 1)>> = <<Order(t, b, 1)>>
        PROVE  a = b
    <3>1. Order(t, a, 1) = Order(t, b, 1)
      BY <2>3
    <3> QED BY <2>2, <3>1
  <2>4. CASE side = "BUY"
    <3>1. Decision(s, t) = <<Order(t, "BUY", 1)>>
      BY <1>7, <2>4
    <3>2. Decision(s, t) # <<>> /\ Decision(s, t) # <<Order(t, "SELL", 1)>>
      BY <2>3, <3>1
    <3> QED BY <2>1, <2>4, <3>2
  <2>5. CASE side = "SELL"
    <3>1. Decision(s, t) = <<Order(t, "SELL", 1)>>
      BY <1>7, <2>5
    <3>2. Decision(s, t) # <<>> /\ Decision(s, t) # <<Order(t, "BUY", 1)>>
      BY <2>3, <3>1
    <3> QED BY <2>1, <2>5, <3>2
  <2>6. CASE side = "NONE"
    BY <2>6
  <2> QED BY <1>7, <2>4, <2>5, <2>6
<1>9. Takes(side)
  BY <1>1, <1>7, <1>8 DEF Takes
<1> QED BY <1>9

-----------------------------------------------------------------------------
(* The orders and the specified positions.                                 *)

\* The positions the specified strategy has reached.
Reached == Specified!Positions(Traded)[next]

\* The history before and after a tick.
LEMMA TradedAppended ==
  ASSUME BooksInv, Tick
  PROVE  /\ next \in Nat /\ next < Len(file) /\ next' = next + 1 /\ file' = file
         /\ Len(Traded) = next /\ Len(Traded') = next + 1
         /\ Continues(Traded', Traded, next) /\ Continues(Traded', file, next + 1)
         /\ Traded' = Append(Traded, file[next + 1]) /\ file[next + 1] \in Rows
<1>1. status = "replay" /\ next < Len(ticks) /\ next' = next + 1 /\ file' = file
  BY DEF Tick, loaderVars
<1>2. next \in Nat /\ Len(ticks) = Len(file) /\ file \in Seq(Rows)
  <2>1. next \in Nat /\ Len(ticks) = Len(file)
    BY <1>1, BeforeTick
  <2> QED BY <2>1, FileIs DEF BooksInv
<1> DEFINE n == next
           h == SubSeq(file, 1, n)
           m == SubSeq(file, 1, n + 1)
<1>3. Traded = h /\ Traded' = m
  BY <1>1 DEF Traded
<1>4. n \in Nat /\ n + 1 \in 1 .. Len(file) /\ file \in Seq(Rows) /\ n < Len(file)
  BY <1>1, <1>2
<1> HIDE DEF n
<1>5. /\ Len(h) = n /\ Len(m) = n + 1 /\ h \in Seq(Rows) /\ m \in Seq(Rows)
      /\ \A k \in 1 .. n : h[k] = file[k]
      /\ \A k \in 1 .. n + 1 : m[k] = file[k]
  BY <1>4
<1> HIDE DEF h, m
<1>6. Continues(m, h, n) /\ Continues(m, file, n + 1)
  BY <1>4, <1>5 DEF Continues
<1>7. file[n + 1] \in Rows
  BY <1>4
<1>8. m = Append(h, file[n + 1])
  <2> DEFINE e == file[n + 1]
             a == Append(h, e)
  <2>1. e \in Rows
    BY <1>7
  <2> HIDE DEF e
  <2>2. a \in Seq(Rows) /\ Len(a) = n + 1 /\ a[n + 1] = e /\ \A k \in 1 .. n : a[k] = h[k]
    BY <1>4, <1>5, <2>1
  <2> HIDE DEF a
  <2>3. \A k \in 1 .. n + 1 : m[k] = a[k]
    <3>1. m[n + 1] = e
      BY <1>4, <1>5 DEF e
    <3>2. \A k \in 1 .. n : m[k] = a[k]
      BY <1>4, <1>5, <2>2
    <3> QED BY <1>4, <2>2, <3>1, <3>2
  <2>4. m = a
    BY <1>4, <1>5, <2>2, <2>3
  <2> QED BY <2>4 DEF a, e
<1> QED BY <1>1, <1>3, <1>4, <1>5, <1>6, <1>7, <1>8 DEF n

\* The tick takes the specified strategy one step further.
LEMMA ReachedNext ==
  ASSUME BooksInv, Tick
  PROVE  /\ Reached \in [Symbols -> -1 .. 1]
         /\ Specified!Positions(Traded')[next] = Reached
         /\ Reached' = [Reached EXCEPT ![file[At].symbol] =
                          Specified!Filled(@, Specified!SideAt(file, At, @))]
         /\ \A p : Specified!SideAt(Traded', At, p) = Specified!SideAt(file, At, p)
<1> DEFINE n == next
           h == Traded
           m == Traded'
<1>1. /\ n \in Nat /\ next' = n + 1 /\ Len(h) = n /\ Len(m) = n + 1
      /\ Continues(m, h, n) /\ Continues(m, file, n + 1)
  BY TradedAppended
<1>2. Reached = Specified!Positions(h)[n] /\ Reached' = Specified!Positions(m)[n + 1]
  BY <1>1 DEF Reached
<1> HIDE DEF n, h, m
<1>3. /\ Specified!Positions(m)[n] = Specified!Positions(h)[n]
      /\ Specified!Positions(m)[n + 1] = Stepped(Specified!Positions(h)[n], m, n + 1)
      /\ Specified!Positions(h)[n] \in [Symbols -> -1 .. 1]
  BY <1>1, PositionsAppended
<1>4. /\ \A p : Specified!SideAt(m, n + 1, p) = Specified!SideAt(file, n + 1, p)
      /\ \A before : Stepped(before, m, n + 1) = Stepped(before, file, n + 1)
  <2> DEFINE k == n + 1
  <2>1. k \in Nat /\ k \in 1 .. k /\ Continues(m, file, k)
    BY <1>1
  <2> HIDE DEF k
  <2>2. /\ \A p : Specified!SideAt(m, k, p) = Specified!SideAt(file, k, p)
        /\ \A before : Stepped(before, m, k) = Stepped(before, file, k)
    BY <2>1, SideContinued
  <2> QED BY <2>2 DEF k
<1>5. Reached' = Stepped(Reached, file, n + 1)
  BY <1>2, <1>3, <1>4
<1> QED BY <1>2, <1>3, <1>4, <1>5 DEF Stepped, At, n, m

\* What an order does to the specified position, it does to the net of its name.
LEMMA FilledIs ==
  ASSUME NEW p \in -1 .. 1, NEW side \in {"NONE", "BUY", "SELL"},
         side = "BUY" => p \in {-1, 0}, side = "SELL" => p \in {0, 1}
  PROVE  Specified!Filled(p, side) =
           p + (IF side = "NONE" THEN 0 ELSE IF side = "BUY" THEN 1 ELSE -1)
BY DEF Specified!Filled

\* What is owed to the symbol after the tick.
LEMMA OwedBySide ==
  ASSUME NEW side, Takes(side), NEW v, v = View
  PROVE  Owed(v)' = IF side = "NONE" THEN 0 ELSE IF side = "BUY" THEN 1 ELSE -1
<1>1. /\ side \in {"NONE", "BUY", "SELL"}
      /\ pending' = IF side = "NONE" THEN <<>> ELSE <<Order(ticks[At], side, 1)>>
  BY DEF Takes
<1>2. CASE side = "NONE"
  BY <1>1, <1>2 DEF Owed
<1>3. CASE side # "NONE"
  <2> DEFINE o == Order(ticks[At], side, 1)
  <2>1. o.side = side /\ o.symbol = v
    BY DEF Order, View, At
  <2>2. pending' = <<o>>
    BY <1>1, <1>3
  <2> HIDE DEF o
  <2>3. pending' # <<>> /\ Head(pending') = o
    BY <2>2
  <2> QED BY <1>1, <1>3, <2>1, <2>3 DEF Owed
<1> QED BY <1>2, <1>3

\* What a tick does to its symbol's net: what the specified rule does to a position.
LEMMA NetFilled ==
  ASSUME BooksInv, WindowsInv, Tick, Answered, file[At].symbol \notin ShortNames,
         NEW n, n = file[At].symbol, NEW p, p = Net(n)
  PROVE  p \in -1 .. 1 /\ Net(n)' = Specified!Filled(p, Specified!SideAt(file, At, p))
<1>1. PICK d \in Int : /\ \A v : Owed(v)' = IF v = View THEN d ELSE 0
                       /\ \A a : Net(a)' = IF a = file[At].symbol THEN Net(a) + d ELSE Net(a)
  BY TickBooks
<1>2. slot_[TheSlot].position = p /\ p \in -1 .. 1
  <2>1. Net(file[At].symbol) = slot_[TheSlot].position
    BY TickNet
  <2>2. slot_[TheSlot].position \in -1 .. 1
    BY TickSlots
  <2> QED BY <2>1, <2>2
<1>3. PICK side : Takes(side)
  BY TickSide
<1>4. /\ side \in {"NONE", "BUY", "SELL"}
      /\ side = Specified!SideAt(file, At, p)
      /\ side = "BUY" => p \in {-1, 0}
      /\ side = "SELL" => p \in {0, 1}
  BY <1>2, <1>3 DEF Takes
<1>5. d = IF side = "NONE" THEN 0 ELSE IF side = "BUY" THEN 1 ELSE -1
  <2>1. PICK v : v = View
    OBVIOUS
  <2>2. Owed(v)' = IF side = "NONE" THEN 0 ELSE IF side = "BUY" THEN 1 ELSE -1
    BY <1>3, <2>1, OwedBySide
  <2>3. Owed(v)' = d
    BY <1>1, <2>1
  <2> QED BY <2>2, <2>3
<1>6. Specified!Filled(p, side) = p + (IF side = "NONE" THEN 0 ELSE IF side = "BUY" THEN 1 ELSE -1)
  BY <1>2, <1>4, FilledIs
<1>7. Net(n)' = p + d
  BY <1>1
<1> QED BY <1>2, <1>4, <1>5, <1>6, <1>7

\* The other symbols' nets and specified positions stay.
LEMMA OtherNets ==
  ASSUME BooksInv, Tick, NEW n \in Symbols, n # file[At].symbol
  PROVE  Net(n)' = Net(n) /\ Reached'[n] = Reached[n]
<1>1. Net(n)' = Net(n)
  <2>1. PICK d \in Int : \A a : Net(a)' = IF a = file[At].symbol THEN Net(a) + d ELSE Net(a)
    BY TickBooks
  <2> QED BY <2>1
<1>2. Reached'[n] = Reached[n]
  <2> DEFINE name == file[At].symbol
             q == Specified!Filled(Reached[name], Specified!SideAt(file, At, Reached[name]))
  <2>1. Reached \in [Symbols -> -1 .. 1] /\ Reached' = [Reached EXCEPT ![name] = q]
    BY ReachedNext
  <2> HIDE DEF q
  <2> QED BY <2>1
<1> QED BY <1>1, <1>2

\* A net that is as specified stays so.
LEMMA NetStaysReached ==
  ASSUME BooksInv, WindowsInv, Tick, Answered, file[At].symbol \notin ShortNames,
         NEW n \in Symbols, n = file[At].symbol, Net(n) = Reached[n]
  PROVE  Net(n)' = Reached'[n]
<1> DEFINE p == Net(n)
           q == Specified!Filled(p, Specified!SideAt(file, At, p))
<1>1. Net(n)' = q
  BY NetFilled
<1>2. Reached \in [Symbols -> -1 .. 1] /\ Reached' = [Reached EXCEPT ![n] = q]
  BY ReachedNext
<1> HIDE DEF q
<1> QED BY <1>1, <1>2

\* The orders of every long name add up to the specified position.
NetsReached == \A n \in Symbols \ ShortNames : Net(n) = Reached[n]

\* They still do after a tick.
LEMMA TickNets ==
  ASSUME BooksInv, WindowsInv, Tick, Exact(file), \A i \in Slots : SumsExact(slot_[i]), NetsReached
  PROVE  NetsReached'
<1>1. ASSUME NEW n \in Symbols \ ShortNames PROVE Net(n)' = Reached'[n]
  <2>1. Net(n) = Reached[n]
    BY DEF NetsReached
  <2>2. CASE n = file[At].symbol
    <3>1. file[At].symbol \notin ShortNames
      BY <2>2
    <3>2. Answered
      BY <3>1, ExactAnswered
    <3> QED BY <2>1, <2>2, <3>1, <3>2, NetStaysReached
  <2>3. CASE n # file[At].symbol
    BY <2>1, <2>3, OtherNets
  <2> QED BY <2>2, <2>3
<1> QED BY <1>1 DEF NetsReached

\* Before the first tick nothing is owed and nothing is reached.
LEMMA NothingReached ==
  ASSUME next = 0
  PROVE  Traded = <<>> /\ Reached = [s \in Symbols |-> 0]
<1>1. Traded = <<>>
  BY DEF Traded
<1>2. Unfolds(Specified!Positions(<<>>), <<>>, 0)
  <2> DEFINE h == <<>>
             f == Specified!Positions(h)
             n == Len(h)
  <2>1. n \in Nat /\ n = 0
    OBVIOUS
  <2> HIDE DEF h, n
  <2>2. Replays(f, h, n)
    BY <2>1, PositionsReplay DEF n
  <2> HIDE DEF f
  <2>3. Unfolds(f, h, n)
    BY <2>1, <2>2, ReplayAt
  <2> QED BY <2>1, <2>3 DEF f, h
<1>3. Specified!Positions(<<>>)[0] = [s \in Symbols |-> 0]
  BY <1>2 DEF Unfolds
<1> QED BY <1>1, <1>3 DEF Reached

-----------------------------------------------------------------------------
(* The invariant of the exact prices.                                      *)

\* What the exact part of the invariant says.
LEMMA ExactInvIs ==
  ExactInv <=> (Shown => NetsReached /\ \A i \in Slots : SumsExact(slot_[i]))
BY DEF ExactInv, NetsReached, Reached

\* So it says after a step, too.
LEMMA ExactInvNext ==
  ExactInv' <=> (Shown' => NetsReached' /\ \A i \in Slots : SumsExact(slot_'[i]))
BY DEF ExactInv, NetsReached, Reached

\* While a file is loaded the slots are empty, and so are the orders.
LEMMA LoadStepExact ==
  ASSUME BooksInv, LoadStep
  PROVE  /\ next = 0 /\ next' = 0 /\ orders = <<>> /\ orders' = <<>>
         /\ status \in {"start", "loading"} /\ ExactInv'
<1>1. /\ StrategyInv /\ EngineInv /\ SeenInv /\ OrdersInv
      /\ UNCHANGED <<symbols_, slot_, next, orders>> /\ status \in {"start", "loading"}
  BY DEF BooksInv, LoadStep, strategyVars, engineVars, Load, OpenFails, Open, LoadKnown,
         LoadNew, LoadDone
<1>2. next = 0 /\ next' = 0
  BY <1>1 DEF EngineInv
<1>3. 1 .. next = {}
  BY <1>2
<1>4. \A i \in Slots : i \in Free
  BY <1>1, <1>3 DEF SeenInv
<1>5. \A i \in Slots : SumsExact(slot_'[i])
  BY <1>1, <1>4, EmptyExact DEF StrategyInv
<1>6. orders = <<>>
  <2>1. DOMAIN orders = {} /\ orders \in Seq(OrderType)
    BY <1>1, <1>3 DEF OrdersInv, OrderType
  <2> QED BY <2>1
<1>7. \A n : Net(n)' = 0
  <2>1. ASSUME NEW n, orders = <<>> PROVE Net(n) = 0
    <3>1. \A k \in DOMAIN orders : orders[k].symbol # n
      BY <2>1
    <3> QED BY <3>1, NetOfNone
  <2>2. \A n : Net(n) = 0
    BY <1>6, <2>1
  <2> QED BY <1>1, <2>2 DEF Net
<1>8. Reached' = [s \in Symbols |-> 0]
  <2>1. (next = 0 => Reached = [s \in Symbols |-> 0])'
    BY NothingReached, PTL
  <2> QED BY <1>2, <2>1
<1>9. NetsReached'
  BY <1>7, <1>8 DEF NetsReached
<1> QED BY <1>1, <1>2, <1>5, <1>6, <1>9, ExactInvNext

\* A tick keeps the exact part.
LEMMA TickExact ==
  ASSUME BooksInv, WindowsInv, ExactInv, Tick
  PROVE  ExactInv'
<1>1. status = "replay" /\ UNCHANGED <<status, file>>
  BY DEF Tick, loaderVars
<1>2. Shown' => Shown /\ Exact(file)
  BY <1>1 DEF Shown
<1>3. ASSUME Shown' PROVE NetsReached' /\ \A i \in Slots : SumsExact(slot_'[i])
  <2>1. Exact(file) /\ NetsReached /\ \A i \in Slots : SumsExact(slot_[i])
    BY <1>2, <1>3, ExactInvIs
  <2> QED BY <2>1, TickNets, TickSums
<1> QED BY <1>3, ExactInvNext

\* A fill keeps it.
LEMMA FillExact ==
  ASSUME BooksInv, ExactInv, Fill
  PROVE  ExactInv'
<1>1. UNCHANGED <<status, file, next, orders>>
  BY DEF Fill, loaderVars
<1>2. ASSUME Shown' PROVE NetsReached' /\ \A i \in Slots : SumsExact(slot_'[i])
  <2>1. NetsReached /\ \A i \in Slots : SumsExact(slot_[i])
    BY <1>1, <1>2, ExactInvIs DEF Shown
  <2>2. NetsReached'
    BY <1>1, <2>1 DEF NetsReached, Net, Reached, Traded
  <2>3. ASSUME NEW i \in Slots PROVE SumsExact(slot_'[i])
    <3>1. SumsExact(slot_[i]) /\ SameWindow(slot_'[i], slot_[i])
      BY <2>1, FillWindows
    <3> QED BY <3>1 DEF SumsExact, SameWindow
  <2> QED BY <2>2, <2>3
<1> QED BY <1>2, ExactInvNext

\* So do the steps that change nothing of it: what is shown has been shown before.
LEMMA RestExact ==
  ASSUME ExactInv, UNCHANGED <<file, slot_, next, orders>>,
         status' = status \/ status = "replay"
  PROVE  ExactInv'
<1>1. ASSUME Shown' PROVE NetsReached' /\ \A i \in Slots : SumsExact(slot_'[i])
  <2>1. NetsReached /\ \A i \in Slots : SumsExact(slot_[i])
    BY <1>1, ExactInvIs DEF Shown
  <2>2. NetsReached'
    BY <2>1 DEF NetsReached, Net, Reached, Traded
  <2> QED BY <2>1, <2>2
<1> QED BY <1>1, ExactInvNext

-----------------------------------------------------------------------------
(* The errors of the sums.                                                 *)

\* The sums of a slot are within e and f of those of its window.
Within(s, e, f) ==
  /\ s.rolling_sum \in Int /\ s.rolling_sq_sum \in Int
  /\ s.rolling_sum - SumOver(s.mids, 0 .. Window - 1) \in - e .. e
  /\ s.rolling_sq_sum - SumOver(SquaresOf(s), 0 .. Window - 1) \in - f .. f

\* The mids of a slot are not negative, and not larger than M.
UpTo(s, M) == \A i \in 0 .. Window - 1 : s.mids[i] \in 0 .. M

\* The sums of a window of bounded mids.
LEMMA SumsUpTo ==
  ASSUME NEW s, s.mids \in [0 .. Window - 1 -> Int], NEW M \in Nat, UpTo(s, M)
  PROVE  /\ SumOver(s.mids, 0 .. Window - 1) \in 0 .. Window * M
         /\ SumOver(SquaresOf(s), 0 .. Window - 1) \in 0 .. Window * (M * M)
         /\ SumOver(s.mids, 0 .. Window - 1) * SumOver(s.mids, 0 .. Window - 1)
              <= Window * SumOver(SquaresOf(s), 0 .. Window - 1)
<1> DEFINE g == s.mids
           squares == SquaresOf(s)
           t == SumOver(g, 0 .. Window - 1)
           q == SumOver(squares, 0 .. Window - 1)
<1>1. g \in [0 .. Window - 1 -> Int] /\ \A i \in 0 .. Window - 1 : g[i] \in 0 .. M
  BY DEF UpTo
<1>2. \A i \in 0 .. Window - 1 : squares[i] = g[i] * g[i]
  BY DEF SquaresOf
<1>3. \A i \in 0 .. Window - 1 : g[i] \in Nat
  BY <1>1
<1> HIDE DEF g, squares
<1>4. t \in 0 .. Window * M /\ q \in 0 .. Window * (M * M)
  BY <1>1, <1>2, WindowBounded
<1>5. t * t <= Window * q
  BY <1>1, <1>2, <1>3, WindowSpread
<1> QED BY <1>4, <1>5 DEF g, squares, t, q

\* One more mid puts the sums farther off by less than a unit in the last place.
LEMMA AppendedWithin ==
  ASSUME NEW s, SlotInv(s), NEW M \in Nat, UpTo(s, M), NEW mid \in 0 .. M, Window >= 8,
         NEW U, U = Ulp(Window * M), NEW V, V = Ulp(Window * (M * M)),
         NEW E \in Nat, NEW F \in Nat, Within(s, E, F),
         HasRoom(Window * M, E + (U - 1)), HasRoom(Window * (M * M), F + (V - 1))
  PROVE  /\ Within(Appended(s, mid), E + (U - 1), F + (V - 1))
         /\ UpTo(Appended(s, mid), M)
<1> DEFINE a == Appended(s, mid)
           old == s.mids[s.head]
           t == SumOver(s.mids, 0 .. Window - 1)
           q == SumOver(SquaresOf(s), 0 .. Window - 1)
           B == M * M
           x == mid * mid
           y == old * old
           S == s.rolling_sum
           Q == s.rolling_sq_sum
           u == SumOver(a.mids, 0 .. Window - 1)
           r == SumOver(SquaresOf(a), 0 .. Window - 1)
<1>0. Window \in Nat
  BY StrategyAssumption
<1>1. s.mids \in [0 .. Window - 1 -> Int] /\ s.head \in 0 .. Window - 1
  BY DEF SlotInv
<1>2. old \in 0 .. M
  BY <1>1 DEF UpTo
<1>3. Carries(s, a, mid, old)
  <2> HIDE DEF a, old
  <2>1. a = Appended(s, mid) /\ old = s.mids[s.head] /\ mid \in Int
    BY DEF a, old
  <2> QED BY <2>1, AppendedSums
<1>4. a.mids \in [0 .. Window - 1 -> Int] /\ UpTo(a, M)
  <2>1. /\ a.mids = [s.mids EXCEPT ![s.head] = mid]
        /\ a.mids \in [0 .. Window - 1 -> Int]
    BY <1>3 DEF Carries
  <2> HIDE DEF a
  <2> QED BY <1>1, <2>1 DEF UpTo
<1> HIDE DEF a, old, t, q, S, Q, u, r
<1>5. /\ a.rolling_sum = Rounded(S + Rounded(mid - old)) /\ u = t + mid - old
      /\ a.rolling_sq_sum = Rounded(Q + Rounded(Rounded(x) - Rounded(y))) /\ r = q + x - y
  BY <1>3 DEF Carries, S, Q, u, t, r, q
<1>6. u \in 0 .. Window * M /\ r \in 0 .. Window * B
  BY <1>4, SumsUpTo DEF u, r
<1>7. S \in Int /\ Q \in Int /\ S - t \in - E .. E /\ Q - q \in - F .. F
  BY DEF Within, S, Q, t, q
<1>8. t \in Int /\ q \in Int
  <2>1. t \in 0 .. Window * M /\ q \in 0 .. Window * B
    BY <1>1, SumsUpTo DEF t, q
  <2> DEFINE A == Window * M
             C == Window * B
  <2> HIDE DEF A, C
  <2>2. t \in 0 .. A /\ q \in 0 .. C
    BY <2>1 DEF A, C
  <2> QED BY <2>2
<1>9. B \in Nat /\ x \in 0 .. B /\ y \in 0 .. B
  <2>1. \A z \in 0 .. M : z * z \in 0 .. M * M
    <3> SUFFICES ASSUME NEW z \in 0 .. M PROVE z * z \in 0 .. M * M
      OBVIOUS
    <3>1. z \in - M .. M /\ z \in Nat
      OBVIOUS
    <3>2. z * z \in - (M * M) .. M * M
      BY <3>1, ProductWithin
    <3>3. z * z \in Nat
      BY <3>1
    <3> DEFINE b == M * M
               c == z * z
    <3> HIDE DEF b, c
    <3>4. c \in - b .. b /\ c \in Nat
      BY <3>2, <3>3 DEF b, c
    <3>5. c \in 0 .. b
      BY <3>4
    <3> QED BY <3>5 DEF b, c
  <2>2. M * M \in Nat
    OBVIOUS
  <2> QED BY <1>2, <2>1, <2>2
<1> HIDE DEF B, x, y
<1>10. /\ InRange(Window * M) /\ Window * M + (E + (U - 1)) < 2 ^ Precision * U
       /\ InRange(Window * B) /\ Window * B + (F + (V - 1)) < 2 ^ Precision * V
       /\ V = Ulp(Window * B)
  BY DEF HasRoom, B
<1> DEFINE top == Window * M
           top2 == Window * B
<1>11. /\ top = Window * M /\ InRange(top) /\ U = Ulp(top)
       /\ top + (E + (U - 1)) < 2 ^ Precision * U
       /\ top2 = Window * B /\ InRange(top2) /\ V = Ulp(top2)
       /\ top2 + (F + (V - 1)) < 2 ^ Precision * V
       /\ t + mid - old \in 0 .. top /\ q + x - y \in 0 .. top2
  BY <1>5, <1>6, <1>10
<1> HIDE DEF top, top2
<1>12. /\ Rounded(S + Rounded(mid - old)) \in Int
       /\ Rounded(S + Rounded(mid - old)) - (t + mid - old) \in - (E + (U - 1)) .. E + (U - 1)
  <2>1. Window >= 2
    BY <1>0
  <2> QED BY <1>0, <1>2, <1>7, <1>8, <1>11, <2>1, ExchangedWithin
<1>13. /\ Rounded(Q + Rounded(Rounded(x) - Rounded(y))) \in Int
       /\ Rounded(Q + Rounded(Rounded(x) - Rounded(y))) - (q + x - y)
            \in - (F + (V - 1)) .. F + (V - 1)
  BY <1>0, <1>7, <1>8, <1>9, <1>11, RoundedExchangedWithin
<1>14. Within(a, E + (U - 1), F + (V - 1))
  BY <1>5, <1>12, <1>13 DEF Within, u, r
<1> QED BY <1>4, <1>14 DEF a

-----------------------------------------------------------------------------
(* The room a tick has.                                                    *)

\* The mid of the k-th tick of the file.
MidAt(k) == file[k].bid + file[k].ask

\* What SumsHaveRoom asks of the k-th tick.
Room(k) == /\ MidAt(k) >= 0
           /\ HasRoom(Window * Largest(k), SumError(k))
           /\ HasRoom(Window * (Largest(k) * Largest(k)), SquaresError(k))

\* Every tick so far has it.
LEMMA RoomIs == SumsHaveRoom <=> Window >= 8 /\ \A k \in 1 .. next : Room(k)
BY DEF SumsHaveRoom, Room, MidAt

\* What is said of the ticks does not change while the file stays.
SameFile ==
  \A k : /\ Own(k)' = Own(k) /\ Largest(k)' = Largest(k)
         /\ SumError(k)' = SumError(k) /\ SquaresError(k)' = SquaresError(k)
         /\ Room(k)' <=> Room(k)

\* A step that keeps the file keeps it.
LEMMA FileKept ==
  ASSUME file' = file
  PROVE  SameFile
<1>1. \A k : Own(k)' = Own(k)
  BY DEF Own
<1>2. \A k : Largest(k)' = Largest(k)
  BY <1>1 DEF Largest
<1>3. \A k : SumError(k)' = SumError(k) /\ SquaresError(k)' = SquaresError(k)
  BY <1>1, <1>2 DEF SumError, SquaresError
<1>4. \A k : Room(k)' <=> Room(k)
  BY <1>2, <1>3 DEF Room, MidAt
<1> QED BY <1>1, <1>2, <1>3, <1>4 DEF SameFile

\* The ticks of a symbol up to one of them.
LEMMA OwnIs ==
  ASSUME NEW k \in Nat \ {0}
  PROVE  /\ Own(k) = Specified!TicksOf(file, file[k].symbol, k)
         /\ Own(k) \in SUBSET (1 .. k) /\ Own(k) \in SUBSET Nat /\ k \in Own(k)
         /\ IsFiniteSet(Own(k)) /\ Cardinality(Own(k)) \in Nat
<1>1. Own(k) = Specified!TicksOf(file, file[k].symbol, k)
  BY DEF Own, Specified!TicksOf
<1>2. Own(k) \in SUBSET (1 .. k) /\ Own(k) \in SUBSET Nat /\ IsFiniteSet(Own(k))
  BY <1>1, TicksOfIs
<1>3. k \in Own(k)
  BY DEF Own
<1>4. Cardinality(Own(k)) \in Nat
  BY <1>2, FS_CardinalityType
<1> QED BY <1>1, <1>2, <1>3, <1>4

\* The largest mid bounds the mids of the ticks of the symbol so far.
LEMMA LargestIs ==
  ASSUME NEW k \in Nat \ {0}, \A j \in 1 .. k : MidAt(j) \in Nat
  PROVE  /\ Largest(k) \in Nat /\ \A j \in Own(k) : MidAt(j) \in 0 .. Largest(k)
         /\ \E j \in Own(k) : Largest(k) = MidAt(j)
<1> DEFINE own == Own(k)
           g == [j \in own |-> MidAt(j)]
           mids == {MidAt(j) : j \in own}
<1>1. own \in SUBSET (1 .. k) /\ k \in own /\ IsFiniteSet(own)
  BY OwnIs
<1>2. Largest(k) = Max(mids)
  BY DEF Largest, MidAt
<1>3. \A j \in own : MidAt(j) \in Nat
  BY <1>1
<1> HIDE DEF own
<1>4. mids \in SUBSET Int /\ mids # {} /\ \A m \in mids : m \in Nat
  BY <1>1, <1>3
<1>5. IsFiniteSet(mids)
  <2>1. mids = {g[j] : j \in own}
    OBVIOUS
  <2> HIDE DEF g, mids
  <2>2. IsFiniteSet({g[j] : j \in own})
    BY <1>1, FiniteImage
  <2> QED BY <2>1, <2>2
<1>6. \A j \in own : MidAt(j) \in mids
  OBVIOUS
<1>10. \A m \in mids : \E j \in own : m = MidAt(j)
  OBVIOUS
<1> HIDE DEF mids, g
<1>7. Max(mids) \in mids /\ \A m \in mids : Max(mids) >= m
  BY <1>4, <1>5, Extremes
<1>8. Largest(k) \in Nat
  BY <1>2, <1>4, <1>7
<1>9. ASSUME NEW j \in own PROVE MidAt(j) \in 0 .. Largest(k)
  <2>1. MidAt(j) \in Nat /\ Largest(k) >= MidAt(j)
    BY <1>2, <1>3, <1>6, <1>7
  <2> QED BY <1>8, <2>1
<1>11. \E j \in own : Largest(k) = MidAt(j)
  BY <1>2, <1>7, <1>10
<1> QED BY <1>8, <1>9, <1>11 DEF own

\* It only grows.
LEMMA LargestGrows ==
  ASSUME NEW n \in Nat \ {0}, \A j \in 1 .. n : MidAt(j) \in Nat,
         NEW k \in 1 .. n, Own(k) \subseteq Own(n)
  PROVE  Largest(k) \in Nat /\ Largest(n) \in Nat /\ Largest(k) <= Largest(n)
<1>1. k \in Nat \ {0} /\ \A j \in 1 .. k : MidAt(j) \in Nat
  OBVIOUS
<1>2. PICK j \in Own(k) : Largest(k) = MidAt(j)
  BY <1>1, LargestIs
<1>3. MidAt(j) \in 0 .. Largest(n) /\ Largest(n) \in Nat
  BY <1>2, LargestIs
<1> QED BY <1>2, <1>3

\* The mids of the window of a slot are no larger, if they are those of the symbol.
LEMMA WindowUpTo ==
  ASSUME NEW s, NEW own \in SUBSET Nat, IsFiniteSet(own), LaidOut(file, s, own),
         NEW M \in Nat, \A j \in own : MidAt(j) \in 0 .. M
  PROVE  UpTo(s, M)
<1>1. ASSUME NEW i \in 0 .. Window - 1 PROVE s.mids[i] \in 0 .. M
  <2> DEFINE held == {j \in own : Specified!Number(own, j) % Window = i}
  <2>1. s.mids[i] = IF held = {} THEN 0 ELSE file[Max(held)].bid + file[Max(held)].ask
    BY DEF LaidOut
  <2>2. held \in SUBSET own
    OBVIOUS
  <2> HIDE DEF held
  <2>3. held # {} => Max(held) \in held
    <3>1. IsFiniteSet(held)
      BY <2>2, FS_Subset
    <3>2. held \in SUBSET Int
      BY <2>2
    <3> QED BY <3>1, <3>2, Extremes
  <2>4. held # {} => file[Max(held)].bid + file[Max(held)].ask \in 0 .. M
    <3>1. \A j \in own : file[j].bid + file[j].ask \in 0 .. M
      BY DEF MidAt
    <3> QED BY <2>2, <2>3, <3>1
  <2>5. 0 \in 0 .. M
    OBVIOUS
  <2> QED BY <2>1, <2>4, <2>5
<1> QED BY <1>1 DEF UpTo

-----------------------------------------------------------------------------
(* A tick.                                                                 *)

\* The sums of the slot of every long name are as far off as they may be.
SumsKept ==
  \A k \in Latest :
    file[k].symbol \notin ShortNames => Within(SlotOf(k), SumError(k), SquaresError(k))

\* The mids of the ticks of a file are numbers.
LEMMA MidsAre ==
  ASSUME BooksInv, NEW j \in 1 .. Len(ticks)
  PROVE  MidAt(j) \in Int
<1>1. ticks \in Seq(TickType) /\ TickOf(j)
  BY DEF BooksInv, LoaderInv, TickType
<1>2. ticks[j] \in TickType
  BY <1>1
<1> QED BY <1>1, <1>2 DEF TickOf, TickType, MidAt

\* Room after a tick is room before it, and for it.
LEMMA TickRoom ==
  ASSUME BooksInv, Tick, SumsHaveRoom'
  PROVE  /\ SumsHaveRoom /\ Window >= 8 /\ SameFile
         /\ At \in Nat \ {0} /\ At = next + 1 /\ next \in Nat /\ next' = next + 1
         /\ \A j \in 1 .. At : Room(j) /\ MidAt(j) \in Nat
<1>1. status = "replay" /\ next < Len(ticks) /\ next' = next + 1 /\ file' = file
  BY DEF Tick, loaderVars
<1>2. next \in Nat /\ At \in 1 .. Len(ticks) /\ Len(ticks) \in Nat /\ At = next + 1
  BY <1>1, BeforeTick DEF At
<1>3. SameFile
  BY <1>1, FileKept
<1>4. Window >= 8 /\ \A k \in 1 .. next + 1 : Room(k)'
  <2>1. (SumsHaveRoom <=> Window >= 8 /\ \A k \in 1 .. next : Room(k))'
    BY RoomIs, PTL
  <2> QED BY <1>1, <2>1
<1>5. \A k \in 1 .. next + 1 : Room(k)
  BY <1>3, <1>4 DEF SameFile
<1>6. SumsHaveRoom
  <2>1. \A k \in 1 .. next : Room(k)
    BY <1>2, <1>5
  <2> QED BY <1>4, <2>1, RoomIs
<1>7. ASSUME NEW j \in 1 .. At PROVE Room(j) /\ MidAt(j) \in Nat
  <2>1. Room(j) /\ j \in 1 .. Len(ticks)
    BY <1>2, <1>5
  <2>2. MidAt(j) \in Int
    BY <2>1, MidsAre
  <2> QED BY <2>1, <2>2 DEF Room
<1>8. At \in Nat \ {0}
  BY <1>2
<1> QED BY <1>1, <1>2, <1>3, <1>4, <1>6, <1>7, <1>8

\* A name that has been seen has a latest tick, and its slot is the one on_tick will use.
LEMMA EarlierTick ==
  ASSUME BooksInv, Tick, file[At].symbol \notin ShortNames,
         NEW own, own = Specified!TicksOf(file, file[At].symbol, next), own # {}
  PROVE  \E k \in Latest : /\ k \in 1 .. next /\ file[k].symbol = file[At].symbol
                           /\ Own(k) = own /\ SlotOf(k) = slot_[TheSlot]
<1>1. status = "replay" /\ next < Len(ticks)
  BY DEF Tick
<1>2. next \in Nat
  BY <1>1, BeforeTick
<1>3. own \in SUBSET (1 .. next) /\ own \in SUBSET Int /\ IsFiniteSet(own)
  <2>1. own \in SUBSET (1 .. next) /\ own \in SUBSET Nat /\ IsFiniteSet(own)
    BY <1>2, TicksOfIs
  <2>2. own \in SUBSET Int
    BY <2>1
  <2> QED BY <2>1, <2>2
<1> DEFINE k == Max(own)
<1>4. k \in own /\ \A j \in own : k >= j
  BY <1>3, Extremes
<1> HIDE DEF k
<1>5. \A j \in 1 .. next : j \in own <=> file[j].symbol = file[At].symbol
  BY DEF Specified!TicksOf
<1>6. k \in 1 .. next /\ file[k].symbol = file[At].symbol
  BY <1>3, <1>4, <1>5
<1>7. k \in Latest
  <2>1. ASSUME NEW j \in k + 1 .. next PROVE file[j].symbol # file[k].symbol
    <3>1. j \in 1 .. next /\ ~(k >= j)
      BY <1>2, <1>6
    <3> QED BY <1>4, <1>5, <1>6, <3>1
  <2> QED BY <1>6, <2>1 DEF Latest
<1>8. Own(k) = own
  <2>1. ASSUME NEW j \in own PROVE j \in 1 .. k /\ file[j].symbol = file[k].symbol
    BY <1>2, <1>3, <1>4, <1>5, <1>6
  <2>2. ASSUME NEW j \in 1 .. k, file[j].symbol = file[k].symbol PROVE j \in own
    <3>1. j \in 1 .. next
      BY <1>2, <1>6
    <3> QED BY <1>5, <1>6, <2>2, <3>1
  <2> QED BY <2>1, <2>2 DEF Own
<1>9. SlotOf(k) = slot_[TheSlot]
  <2>1. View = ticks[k].symbol
    BY <1>6, ViewsSeen
  <2> QED BY <2>1 DEF SlotOf, TheSlot
<1> QED BY <1>6, <1>7, <1>8, <1>9

\* A name that has not been seen gets an empty slot.
LEMMA FirstTick ==
  ASSUME BooksInv, Tick, file[At].symbol \notin ShortNames,
         Specified!TicksOf(file, file[At].symbol, next) = {}
  PROVE  slot_[TheSlot] = EmptySlot
<1>1. StrategyInv /\ SeenInv
  BY DEF BooksInv
<1>2. View # Unused
  <2>1. status = "replay" /\ next < Len(ticks)
    BY DEF Tick
  <2> QED BY <2>1, BeforeTick
<1>3. CASE Known(View) # {}
  <2>1. PICK i \in Slots : symbols_[i] = View
    BY <1>3 DEF Known
  <2>2. i \in Slots \ Free
    BY <1>2, <2>1 DEF Free
  <2>3. PICK j \in 1 .. next : symbols_[i] = ticks[j].symbol
    BY <1>1, <2>2 DEF SeenInv
  <2>4. file[j].symbol = file[At].symbol
    BY <2>1, <2>3, ViewsSeen
  <2>5. j \in Specified!TicksOf(file, file[At].symbol, next)
    BY <2>4 DEF Specified!TicksOf
  <2> QED BY <2>5
<1> QED BY <1>3, TickAppends

\* The sums of an empty slot are exact.
LEMMA EmptyWithin == Within(EmptySlot, 0, 0)
<1>1. EmptySlot.mids \in [0 .. Window - 1 -> Int] /\ EmptySlot.rolling_sum = 0 /\ EmptySlot.rolling_sq_sum = 0
  BY DEF EmptySlot
<1>2. /\ EmptySlot.rolling_sum = SumOver(EmptySlot.mids, 0 .. Window - 1)
      /\ EmptySlot.rolling_sq_sum = SumOver(SquaresOf(EmptySlot), 0 .. Window - 1)
  BY <1>1, EmptyExact, SumsExactIs
<1>3. 0 \in Int /\ 0 - 0 \in - 0 .. 0
  OBVIOUS
<1> QED BY <1>1, <1>2, <1>3 DEF Within

\* A larger bound holds, too.
LEMMA WithinMore ==
  ASSUME NEW s, NEW e \in Int, NEW f \in Int, Within(s, e, f), NEW g \in Int, NEW h \in Int,
         e <= g, f <= h
  PROVE  Within(s, g, h)
<1> DEFINE a == s.rolling_sum - SumOver(s.mids, 0 .. Window - 1)
           b == s.rolling_sq_sum - SumOver(SquaresOf(s), 0 .. Window - 1)
<1>1. a \in - e .. e /\ b \in - f .. f
  BY DEF Within
<1> HIDE DEF a, b
<1>2. a \in - g .. g /\ b \in - h .. h
  BY <1>1
<1> QED BY <1>2 DEF Within, a, b

\* Smaller numbers have smaller errors.
LEMMA ErrorMonotone ==
  ASSUME NEW c \in Nat, NEW x \in Nat, NEW y \in Nat, InRange(y), x <= y
  PROVE  /\ c * (Ulp(x) - 1) \in Int /\ c * (Ulp(y) - 1) \in Nat
         /\ c * (Ulp(x) - 1) <= c * (Ulp(y) - 1)
<1> DEFINE a == Ulp(x) - 1
           b == Ulp(y) - 1
<1>1. a \in Nat /\ b \in Nat /\ a <= b
  <2>1. Ulp(x) <= Ulp(y) /\ Ulp(x) \in Nat \ {0} /\ Ulp(y) \in Nat \ {0}
    BY UlpMonotone
  <2> QED BY <2>1
<1> HIDE DEF a, b
<1>2. c * a <= c * b
  BY <1>1, ProductMonotone
<1> QED BY <1>1, <1>2 DEF a, b

\* Before a tick the sums of the slot on_tick will use are as far off as the earlier ticks
\* of the symbol may have put them, in the units of the tick.
LEMMA BeforeTickWithin ==
  ASSUME BooksInv, Tick, SumsHaveRoom', SumsKept, file[At].symbol \notin ShortNames,
         NEW c, c = Cardinality(Specified!TicksOf(file, file[At].symbol, next)),
         NEW U, U = Ulp(Window * Largest(At)),
         NEW V, V = Ulp(Window * (Largest(At) * Largest(At)))
  PROVE  Within(slot_[TheSlot], c * (U - 1), c * (V - 1))
<1> DEFINE own == Specified!TicksOf(file, file[At].symbol, next)
           M == Largest(At)
<1>1. /\ At \in Nat \ {0} /\ next \in Nat /\ Room(At)
      /\ \A j \in 1 .. At : MidAt(j) \in Nat
  <2>1. /\ At \in Nat \ {0} /\ next \in Nat /\ \A j \in 1 .. At : Room(j) /\ MidAt(j) \in Nat
    BY TickRoom
  <2> DEFINE n == At
  <2>2. n \in Nat \ {0} /\ \A j \in 1 .. n : Room(j) /\ MidAt(j) \in Nat
    BY <2>1
  <2> HIDE DEF n
  <2>3. n \in 1 .. n
    BY <2>2
  <2>4. Room(n)
    BY <2>2, <2>3
  <2> QED BY <2>1, <2>4 DEF n
<1>2. own \in SUBSET (1 .. next) /\ IsFiniteSet(own) /\ c \in Nat
  <2>1. own \in SUBSET (1 .. next) /\ IsFiniteSet(own)
    BY <1>1, TicksOfIs
  <2> HIDE DEF own
  <2>2. Cardinality(own) \in Nat
    BY <2>1, FS_CardinalityType
  <2> QED BY <2>1, <2>2 DEF own
<1>3. M \in Nat
  BY <1>1, LargestIs
<1>4. Window \in Nat
  BY StrategyAssumption
<1>5. InRange(Window * M) /\ InRange(Window * (M * M)) /\ Window * M \in Nat /\ Window * (M * M) \in Nat
  <2>1. InRange(Window * M) /\ InRange(Window * (M * M))
    BY <1>1 DEF Room, HasRoom
  <2> HIDE DEF M
  <2> QED BY <1>3, <1>4, <2>1
<1>6. CASE own = {}
  <2>1. slot_[TheSlot] = EmptySlot
    BY <1>6, FirstTick
  <2>2. c = 0
    BY <1>6, FS_EmptySet
  <2>3. U \in Nat /\ V \in Nat
    <3>1. Ulp(Window * M) \in Nat \ {0} /\ Ulp(Window * (M * M)) \in Nat \ {0}
      BY <1>5, UlpOwn
    <3> QED BY <3>1
  <2>4. c * (U - 1) = 0 /\ c * (V - 1) = 0
    BY <2>2, <2>3
  <2> QED BY <2>1, <2>4, EmptyWithin
<1>7. CASE own # {}
  <2>1. PICK k \in Latest : /\ k \in 1 .. next /\ file[k].symbol = file[At].symbol
                            /\ Own(k) = own /\ SlotOf(k) = slot_[TheSlot]
    BY <1>7, EarlierTick
  <2>2. Within(slot_[TheSlot], SumError(k), SquaresError(k))
    BY <2>1 DEF SumsKept
  <2> DEFINE m == Largest(k)
             n == At
  <2>3. n \in Nat \ {0} /\ k \in 1 .. n /\ (\A j \in 1 .. n : MidAt(j) \in Nat) /\ Own(k) \subseteq Own(n)
    <3>1. At = next + 1
      BY DEF At
    <3>2. k \in 1 .. n
      BY <1>1, <2>1, <3>1
    <3>3. \A j \in 1 .. next : file[j].symbol = file[n].symbol => j \in Own(n)
      BY <1>1, <3>1 DEF Own
    <3>4. own \subseteq Own(n)
      BY <1>2, <3>3 DEF Specified!TicksOf
    <3> QED BY <1>1, <2>1, <3>2, <3>4
  <2>4. m \in Nat /\ m <= M
    <3> HIDE DEF n
    <3>1. Largest(k) \in Nat /\ Largest(k) <= Largest(n)
      BY <2>3, LargestGrows
    <3> QED BY <3>1 DEF n
  <2>5. /\ SumError(k) = c * (Ulp(Window * m) - 1)
        /\ SquaresError(k) = c * (Ulp(Window * (m * m)) - 1)
    BY <2>1 DEF SumError, SquaresError
  <2> HIDE DEF m, M, n, own
  <2>6. Window * m \in Nat /\ Window * (m * m) \in Nat
    BY <1>4, <2>4
  <2>7. Window * m <= Window * M
    BY <1>3, <1>4, <2>4, ProductMonotone
  <2>8. Window * (m * m) <= Window * (M * M)
    <3> DEFINE a == m * m
               b == M * M
    <3>1. a \in Nat /\ b \in Nat
      BY <1>3, <2>4
    <3>2. a <= b
      <4>1. m \in - M .. M
        BY <1>3, <2>4
      <4>2. a \in - b .. b
        BY <1>3, <4>1, ProductWithin
      <4> HIDE DEF a, b
      <4> QED BY <3>1, <4>2
    <3> HIDE DEF a, b
    <3>3. Window * a <= Window * b
      BY <1>4, <3>1, <3>2, ProductMonotone
    <3> QED BY <3>3 DEF a, b
  <2>9. /\ c * (Ulp(Window * m) - 1) \in Int /\ c * (U - 1) \in Nat
        /\ c * (Ulp(Window * m) - 1) <= c * (U - 1)
    <3> DEFINE x == Window * m
               y == Window * M
    <3>1. x \in Nat /\ y \in Nat /\ InRange(y) /\ x <= y /\ U = Ulp(y)
      BY <1>5, <2>6, <2>7 DEF M
    <3> HIDE DEF x, y
    <3>2. /\ c * (Ulp(x) - 1) \in Int /\ c * (Ulp(y) - 1) \in Nat
          /\ c * (Ulp(x) - 1) <= c * (Ulp(y) - 1)
      BY <1>2, <3>1, ErrorMonotone
    <3> QED BY <3>1, <3>2 DEF x
  <2>10. /\ c * (Ulp(Window * (m * m)) - 1) \in Int /\ c * (V - 1) \in Nat
         /\ c * (Ulp(Window * (m * m)) - 1) <= c * (V - 1)
    <3> DEFINE x == Window * (m * m)
               y == Window * (M * M)
    <3>1. x \in Nat /\ y \in Nat /\ InRange(y) /\ x <= y /\ V = Ulp(y)
      BY <1>5, <2>6, <2>8 DEF M
    <3> HIDE DEF x, y
    <3>2. /\ c * (Ulp(x) - 1) \in Int /\ c * (Ulp(y) - 1) \in Nat
          /\ c * (Ulp(x) - 1) <= c * (Ulp(y) - 1)
      BY <1>2, <3>1, ErrorMonotone
    <3> QED BY <3>1, <3>2 DEF x
  <2> DEFINE e == SumError(k)
             f == SquaresError(k)
             g == c * (U - 1)
             h == c * (V - 1)
  <2>11. Within(slot_[TheSlot], e, f) /\ e \in Int /\ f \in Int /\ g \in Int /\ h \in Int /\ e <= g /\ f <= h
    BY <2>2, <2>5, <2>9, <2>10
  <2> HIDE DEF e, f, g, h
  <2>12. Within(slot_[TheSlot], g, h)
    BY <2>11, WithinMore
  <2> QED BY <2>12 DEF g, h
<1> QED BY <1>6, <1>7

\* After it they are as far off as the tick may put them.
LEMMA AfterTickWithin ==
  ASSUME BooksInv, WindowsInv, Tick, SumsHaveRoom', SumsKept, file[At].symbol \notin ShortNames
  PROVE  /\ Within(slot_'[TheSlot], SumError(At), SquaresError(At))
         /\ UpTo(slot_'[TheSlot], Largest(At))
<1> DEFINE name == file[At].symbol
           own == Specified!TicksOf(file, name, next)
           c == Cardinality(own)
           M == Largest(At)
           U == Ulp(Window * M)
           V == Ulp(Window * (M * M))
           s == slot_[TheSlot]
           mid == TheMid
           n == next
           n1 == At
<1>1. n1 \in Nat \ {0} /\ n1 = n + 1 /\ n \in Nat /\ Window >= 8 /\ \A j \in 1 .. n1 : Room(j) /\ MidAt(j) \in Nat
  BY TickRoom
<1>2. own \in SUBSET (1 .. n) /\ own \in SUBSET Nat /\ IsFiniteSet(own)
  BY <1>1, TicksOfIs
<1>3. /\ LaidOut(file, s, own) /\ SlotInv(s) /\ slot_'[TheSlot] = Appended(s, mid)
      /\ mid = MidAt(n1)
  BY BeforeTickLaidOut, TickAppends DEF MidAt
<1>4. Within(s, c * (U - 1), c * (V - 1))
  BY BeforeTickWithin
<1>5. Own(n1) = own \cup {n1}
  <2>1. \A j \in 1 .. n1 : j \in 1 .. n \/ j = n1
    BY <1>1
  <2>2. n1 \in 1 .. n1 /\ 1 .. n \subseteq 1 .. n1
    BY <1>1
  <2> QED BY <2>1, <2>2 DEF Own, Specified!TicksOf
<1>6. /\ SumError(n1) = Cardinality(Own(n1)) * (U - 1)
      /\ SquaresError(n1) = Cardinality(Own(n1)) * (V - 1)
      /\ n1 \in 1 .. n1
  BY <1>1 DEF SumError, SquaresError
<1>7. Room(n1) /\ n1 \in Own(n1)
  BY <1>1, <1>5, <1>6
<1>8. M \in Nat /\ \A j \in Own(n1) : MidAt(j) \in 0 .. M
  BY <1>1, LargestIs
<1> HIDE DEF n1, n, own, M, s, mid
<1>9. c \in Nat /\ Cardinality(Own(n1)) = c + 1
  <2>1. c \in Nat
    BY <1>2, FS_CardinalityType
  <2>2. n1 \notin own
    BY <1>1, <1>2
  <2> QED BY <1>2, <1>5, <2>1, <2>2, FS_AddElement
<1> HIDE DEF c
<1>10. Window \in Nat
  BY StrategyAssumption
<1>11. U \in Nat \ {0} /\ V \in Nat \ {0}
  <2>1. InRange(Window * M) /\ InRange(Window * (M * M))
    BY <1>7 DEF Room, HasRoom, M, n1
  <2>2. Window * M \in Nat /\ Window * (M * M) \in Nat
    BY <1>8, <1>10
  <2> QED BY <2>1, <2>2, UlpOwn
<1> HIDE DEF U, V
<1> DEFINE E == c * (U - 1)
           F == c * (V - 1)
<1>12. E \in Nat /\ F \in Nat /\ SumError(n1) = E + (U - 1) /\ SquaresError(n1) = F + (V - 1)
  <2>1. \A x \in Nat \ {0} : c * (x - 1) \in Nat /\ (c + 1) * (x - 1) = c * (x - 1) + (x - 1)
    BY <1>9
  <2> QED BY <1>6, <1>9, <1>11, <2>1
<1> HIDE DEF E, F
<1>13. UpTo(s, M)
  <2>1. \A j \in own : MidAt(j) \in 0 .. M
    BY <1>5, <1>8
  <2> QED BY <1>2, <1>3, <1>8, <2>1, WindowUpTo
<1>14. mid \in 0 .. M
  BY <1>3, <1>7, <1>8
<1>15. HasRoom(Window * M, E + (U - 1)) /\ HasRoom(Window * (M * M), F + (V - 1))
  BY <1>7, <1>12 DEF Room, M, n1
<1>16. U = Ulp(Window * M) /\ V = Ulp(Window * (M * M)) /\ Within(s, E, F)
  BY <1>4 DEF U, V, E, F
<1>17. Within(Appended(s, mid), E + (U - 1), F + (V - 1)) /\ UpTo(Appended(s, mid), M)
  BY <1>1, <1>3, <1>8, <1>12, <1>13, <1>14, <1>15, <1>16, AppendedWithin
<1> QED BY <1>3, <1>12, <1>17 DEF n1, M

\* The latest ticks after a tick: it, and those of the other symbols.
LEMMA LatestNext ==
  ASSUME BooksInv, Tick, NEW k \in Latest', k # At
  PROVE  k \in Latest /\ k \in 1 .. next /\ file[At].symbol # file[k].symbol
<1>1. status = "replay" /\ next < Len(ticks) /\ next' = next + 1 /\ file' = file
  BY DEF Tick, loaderVars
<1>2. next \in Nat /\ At = next + 1
  BY <1>1, BeforeTick DEF At
<1>3. k \in 1 .. next + 1 /\ \A j \in k + 1 .. next + 1 : file[j].symbol # file[k].symbol
  BY <1>1 DEF Latest
<1>4. k \in 1 .. next
  BY <1>2, <1>3
<1>5. k + 1 .. next \subseteq k + 1 .. next + 1 /\ At \in k + 1 .. next + 1
  BY <1>2, <1>4
<1> QED BY <1>3, <1>4, <1>5 DEF Latest

\* So the sums of all the slots stay so.
LEMMA TickSumsKept ==
  ASSUME BooksInv, WindowsInv, Tick, SumsHaveRoom', SumsKept
  PROVE  SumsKept'
<1>1. /\ SameFile /\ At = next + 1 /\ next \in Nat /\ next' = next + 1
  BY TickRoom
<1>2. file' = file /\ UNCHANGED ticks /\ status = "replay" /\ next < Len(ticks)
  BY DEF Tick, loaderVars
<1>3. ASSUME NEW k \in Latest', file[k].symbol \notin ShortNames
      PROVE  Within(SlotOf(k)', SumError(k), SquaresError(k))
  <2>1. CASE k = At
    <3>1. StrategyInv' /\ TheSlot \in Slots /\ symbols_'[TheSlot] = View /\ View # Unused
      BY <1>2, TickSlots, BeforeTick
    <3>2. ticks[k].symbol = View
      BY <2>1 DEF View, At
    <3>3. SlotOf(k)' = slot_'[TheSlot]
      BY <1>2, <3>1, <3>2, SlotFoundNext
    <3>4. Within(slot_'[TheSlot], SumError(At), SquaresError(At))
      BY <1>3, <2>1, AfterTickWithin
    <3> QED BY <2>1, <3>3, <3>4
  <2>2. CASE k # At
    <3>1. k \in Latest /\ k \in 1 .. next /\ file[At].symbol # file[k].symbol
      BY <2>2, LatestNext
    <3>2. ticks[k].symbol # View
      <4>1. LoaderInv /\ k \in 1 .. Len(ticks) /\ At \in 1 .. Len(ticks) /\ View = ticks[At].symbol
        BY <1>2, <3>1, BeforeTick DEF BooksInv
      <4> QED BY <1>3, <3>1, <4>1, ViewsTellNames
    <3>3. SlotOf(k)' = SlotOf(k)
      BY <3>1, <3>2, OtherSlots
    <3> QED BY <1>3, <3>1, <3>3 DEF SumsKept
  <2> QED BY <2>1, <2>2
<1> QED BY <1>1, <1>2, <1>3 DEF SumsKept, SameFile

-----------------------------------------------------------------------------
(* The decisions.                                                          *)

\* What the squares and the variance of a slot may be off by.
MarginOf(E, F, top) ==
  Window * F + 2 * (Ulp(top * top) - 1) + (E + Ulp(top) - 1) * (2 * top + (E + Ulp(top) - 1))

\* A variance V and a square DD that are farther from the thresholds than that.
Decided(V, DD, margin) == V > margin /\ Abs(DD - 4 * V) > 5 * margin /\ Abs(4 * DD - V) > 5 * margin

\* The sums of a slot are off by at most E and F, and there is room for what that does to
\* the values of the decision.
Roomy(s, E, F, M) ==
  /\ SlotInv(s) /\ UpTo(s, M) /\ Within(s, E, F)
  /\ HasRoom(Window * M, E)
  /\ HasRoom((Window * M) * (Window * M), MarginOf(E, F, Window * M))

\* The values of the decision at mid are off the exact ones, D its distance, by so much.
ValuesWithin(s, mid, D, off, margin) ==
  /\ margin \in Nat /\ off \in Nat /\ off * off <= margin
  /\ D \in Int /\ VarianceOf(s) \in Nat
  /\ Diff(s, mid) \in Int /\ Diff(s, mid) - D \in - off .. off
  /\ DiffSq(s, mid) \in Int /\ DiffSq(s, mid) - D * D \in - margin .. margin
  /\ Variance(s) \in Int /\ Variance(s) - VarianceOf(s) \in - margin .. margin

\* The parts of a margin are within it.
LEMMA MarginParts ==
  ASSUME NEW e \in Nat, NEW u \in Nat \ {0}, NEW sq \in Nat, NEW oo \in Nat, oo <= sq,
         NEW B \in Nat, NEW b \in Int, NEW margin, margin = e + 2 * (u - 1) + sq, B + margin < b
  PROVE  margin \in Nat /\ oo <= margin /\ sq + u - 1 <= margin /\ B + sq < b
OBVIOUS

\* A range widened.
LEMMA Wider ==
  ASSUME NEW a \in Nat, NEW b \in Nat, a <= b, NEW z \in - a .. a
  PROVE  z \in - b .. b
OBVIOUS

\* The values the strategy decides with are off by no more than the margin.
LEMMA ValuesOff ==
  ASSUME NEW s, NEW M \in Nat, NEW E \in Nat, NEW F \in Nat, Roomy(s, E, F, M), NEW mid \in 0 .. M
  PROVE  ValuesWithin(s, mid, Window * mid - SumOver(s.mids, 0 .. Window - 1),
                      E + Ulp(Window * M) - 1, MarginOf(E, F, Window * M))
<1> DEFINE w == Window
           top == w * M
           B == top * top
           U == Ulp(top)
           UB == Ulp(B)
           off == E + U - 1
           margin == MarginOf(E, F, top)
           sq == off * (2 * top + off)
           e == w * F
           S == s.rolling_sum
           Q == s.rolling_sq_sum
           t == SumOver(s.mids, 0 .. w - 1)
           q == SumOver(SquaresOf(s), 0 .. w - 1)
           x == w * mid
           tt == t * t
           wq == w * q
           top2 == w * (M * M)
           D == x - t
           d == Diff(s, mid)
<1>1. w \in Nat /\ e \in Nat
  BY StrategyAssumption
<1>2. S \in Int /\ Q \in Int /\ S - t \in - E .. E /\ Q - q \in - F .. F
  BY DEF Roomy, Within
<1>3. t \in 0 .. top /\ q \in 0 .. top2 /\ tt <= wq
  <2>1. s.mids \in [0 .. Window - 1 -> Int] /\ UpTo(s, M)
    BY DEF Roomy, SlotInv
  <2> QED BY <2>1, SumsUpTo
<1>4. /\ InRange(top) /\ top + E < 2 ^ Precision * U /\ InRange(B) /\ B + margin < 2 ^ Precision * UB
      /\ margin = e + 2 * (UB - 1) + sq
  BY DEF Roomy, HasRoom, MarginOf
<1>5. /\ Diff(s, mid) = Rounded(x - S) /\ DiffSq(s, mid) = Rounded(d * d)
      /\ Variance(s) = Rounded(w * Q - Rounded(S * S)) /\ VarianceOf(s) = wq - tt
  BY DEF Diff, DiffSq, Variance, VarianceOf
<1> SUFFICES ValuesWithin(s, mid, D, off, margin)
  OBVIOUS
<1> HIDE DEF w, S, Q, t, q, d, margin, e
<1>6. top \in Nat /\ top2 \in Nat /\ x \in Nat /\ x <= top
  <2>1. w * mid <= w * M
    BY <1>1, ProductMonotone
  <2> QED BY <1>1, <2>1
<1>7. w * top2 = B
  BY <1>1
<1> HIDE DEF top, top2, x
<1>8. U \in Nat \ {0} /\ B \in Nat
  BY <1>4, <1>6, UlpOwn
<1> HIDE DEF B, U
<1>9. UB \in Nat \ {0}
  BY <1>4, <1>8, UlpOwn
<1>10. off \in Nat /\ E <= off
  BY <1>8
<1> HIDE DEF UB, off
<1>11. sq \in Nat /\ off * off \in Nat /\ off * off <= sq
  <2>1. 2 * top + off \in Nat /\ off <= 2 * top + off
    BY <1>6, <1>10
  <2> DEFINE c == 2 * top + off
  <2> HIDE DEF c
  <2>2. c \in Nat /\ off <= c
    BY <2>1 DEF c
  <2>3. off * off <= off * c /\ off * c \in Nat /\ off * off \in Nat
    BY <1>10, <2>2, ProductMonotone
  <2> QED BY <2>3 DEF c
<1> DEFINE b == 2 ^ Precision * UB
           oo == off * off
<1>12. b \in Int
  <2>1. 2 ^ Precision \in Nat
    BY Mantissas
  <2> QED BY <1>9, <2>1
<1>13. margin \in Nat /\ oo <= margin /\ sq + UB - 1 <= margin /\ B + sq < b
  <2> HIDE DEF b, oo, sq
  <2>1. oo \in Nat /\ oo <= sq /\ sq \in Nat
    BY <1>11 DEF oo
  <2>2. B + margin < b /\ margin = e + 2 * (UB - 1) + sq
    BY <1>4 DEF b
  <2> QED BY <1>1, <1>8, <1>9, <1>12, <2>1, <2>2, MarginParts
<1> HIDE DEF sq
<1>14. d \in Int /\ d - D \in - off .. off /\ D \in - top .. top
  <2>1. x \in 0 .. top /\ t \in 0 .. top
    BY <1>3, <1>6
  <2>2. Rounded(x - S) \in Int /\ Rounded(x - S) - (x - t) \in - (E + U - 1) .. E + U - 1
    BY <1>2, <1>4, <1>6, <2>1, DifferenceOff DEF U
  <2>3. x - t \in - top .. top
    BY <1>6, <2>1
  <2> QED BY <1>5, <2>2, <2>3 DEF d, off
<1> DEFINE f == sq + UB - 1
           r == Rounded(d * d)
           DD == D * D
           ss == Rounded(S * S)
<1>15. f \in Nat /\ f <= margin /\ DD \in Int
  <2>1. f \in Nat
    BY <1>9, <1>11
  <2> QED BY <1>13, <1>14, <2>1
<1>16. B = top * top /\ UB = Ulp(B) /\ sq = off * (2 * top + off) /\ InRange(B) /\ B + sq < 2 ^ Precision * UB
  BY <1>4, <1>13 DEF B, UB, sq
<1> HIDE DEF D
<1>17. r \in Int /\ r - DD \in - f .. f
  BY <1>6, <1>10, <1>14, <1>16, SquareOff
<1>18. ss \in Int /\ ss - tt \in - f .. f
  <2>1. S - t \in - off .. off
    <3> DEFINE z == S - t
    <3>1. z \in - E .. E
      BY <1>2
    <3> HIDE DEF z
    <3>2. z \in - off .. off
      BY <1>10, <3>1, Wider
    <3> QED BY <3>2 DEF z
  <2>2. t \in - top .. top
    BY <1>3, <1>6
  <2> QED BY <1>2, <1>6, <1>10, <1>16, <2>1, <2>2, SquareOff
<1>19. wq \in 0 .. B /\ tt \in 0 .. wq /\ w * Q \in Int /\ w * Q - wq \in - e .. e
  <2>1. q \in Nat /\ q \in Int /\ q <= top2 /\ top2 \in Int
    BY <1>3, <1>6
  <2>2. w * q <= w * top2
    BY <1>1, <2>1, ProductMonotone
  <2>3. wq \in Nat /\ wq <= B
    <3>1. w * q \in Nat
      BY <1>1, <2>1
    <3> QED BY <1>7, <2>2, <3>1
  <2>4. wq \in 0 .. B
    <3> HIDE DEF wq
    <3> QED BY <1>8, <2>3
  <2>5. t \in Nat
    BY <1>3, <1>6
  <2>6. tt \in Nat
    BY <2>5
  <2>7. tt \in 0 .. wq
    <3> HIDE DEF tt, wq
    <3> QED BY <1>3, <2>3, <2>6
  <2>8. w * Q - w * q = w * (Q - q) /\ w * Q \in Int
    BY <1>1, <1>2, <2>1
  <2>9. w * (Q - q) \in - (w * F) .. w * F
    <3> DEFINE z == Q - q
    <3>1. w \in - w .. w /\ z \in - F .. F
      BY <1>1, <1>2
    <3> HIDE DEF z
    <3>2. w * z \in - (w * F) .. w * F
      BY <1>1, <3>1, ProductWithin
    <3> QED BY <3>2 DEF z
  <2> QED BY <2>4, <2>7, <2>8, <2>9 DEF e
<1> DEFINE wQ == w * Q
<1> HIDE DEF ss, wQ, tt, wq, r, DD, b, oo
<1>20. Rounded(wQ - ss) \in Int /\ Rounded(wQ - ss) - (wq - tt) \in - margin .. margin
  <2>1. /\ wq \in 0 .. B /\ tt \in 0 .. wq /\ wQ \in Int /\ wQ - wq \in - e .. e
        /\ InRange(B) /\ B + margin < 2 ^ Precision * UB /\ margin = e + 2 * (UB - 1) + sq
    BY <1>4, <1>19 DEF wQ
  <2>2. ss - tt \in - (sq + UB - 1) .. sq + UB - 1
    BY <1>18
  <2>3. /\ B \in Nat /\ UB = Ulp(B) /\ UB \in Nat /\ sq \in Nat /\ e \in Nat /\ ss \in Int
        /\ margin \in Nat
    BY <1>1, <1>8, <1>9, <1>11, <1>13, <1>16, <1>18
  <2> HIDE DEF f
  <2>4. TermsOff(B, UB, sq, e, margin, wq, tt, wQ, ss)
    BY <2>1, <2>2, <2>3 DEF TermsOff
  <2> QED BY <2>4, VarianceOff
<1>21. wq - tt \in Nat
  BY <1>8, <1>19
<1>22. r \in Int /\ r - DD \in - margin .. margin
  <2> HIDE DEF f
  <2> DEFINE z == r - DD
  <2>1. z \in - f .. f
    BY <1>17
  <2> HIDE DEF z
  <2>2. z \in - margin .. margin
    BY <1>13, <1>15, <2>1, Wider
  <2> QED BY <1>17, <2>2 DEF z
<1>23. D \in Int
  BY <1>6, <1>14
<1>24. /\ VarianceOf(s) = wq - tt /\ Diff(s, mid) = d /\ DiffSq(s, mid) = r
       /\ Variance(s) = Rounded(wQ - ss)
  BY <1>5 DEF wq, tt, d, r, wQ, ss
<1>25. margin \in Nat /\ off \in Nat /\ off * off <= margin
  BY <1>10, <1>13 DEF oo
<1>26. r - D * D \in - margin .. margin
  BY <1>22 DEF DD
<1> QED BY <1>14, <1>20, <1>21, <1>22, <1>23, <1>24, <1>25, <1>26 DEF ValuesWithin

\* So a decided tick is answered as the rule does.
LEMMA RoundedAnswers ==
  ASSUME NEW s, NEW mid, NEW D, NEW off, NEW margin, ValuesWithin(s, mid, D, off, margin),
         Decided(VarianceOf(s), D * D, margin),
         NEW m, Specified!Deviation(m, mid) = D, Specified!Spread(m) = Window * VarianceOf(s)
  PROVE  Answers(m, mid, s)
<1> DEFINE d == Diff(s, mid)
           v == Variance(s)
           V == VarianceOf(s)
           dd == DiffSq(s, mid)
           DD == D * D
           oo == off * off
<1>1. /\ margin \in Nat /\ off \in Nat /\ oo <= margin /\ D \in Int /\ V \in Nat
      /\ d \in Int /\ d - D \in - off .. off /\ dd \in Int /\ dd - DD \in - margin .. margin
      /\ v \in Int /\ v - V \in - margin .. margin
  BY DEF ValuesWithin
<1>2. V > margin /\ Abs(DD - 4 * V) > 5 * margin /\ Abs(4 * DD - V) > 5 * margin
  BY DEF Decided
<1>3. /\ Far(s, mid) <=> dd >= 4 * v
      /\ Near(s, mid) <=> 4 * dd <= v
  BY DEF Far, Near
<1>4. DD \in Nat /\ oo \in Nat
  BY <1>1
<1>5. Window \in Nat \ {0}
  BY StrategyAssumption
<1>6. /\ Window * D * D >= 4 * (Window * V) <=> DD >= 4 * V
      /\ 4 * Window * D * D <= Window * V <=> 4 * DD <= V
      /\ Window * V = 0 <=> V = 0
  <2> HIDE DEF V
  <2> QED BY <1>1, <1>5, Multiplied
<1>7. /\ DD >= 4 * V => (d > 0 <=> D > 0) /\ (d < 0 <=> D < 0)
      /\ v > 0 /\ V > 0
      /\ dd >= 4 * v <=> DD >= 4 * V
      /\ 4 * dd <= v <=> 4 * DD <= V
  <2> HIDE DEF d, v, V, dd
  <2>1. /\ v > 0 /\ V > 0
        /\ dd >= 4 * v <=> DD >= 4 * V
        /\ 4 * dd <= v <=> 4 * DD <= V
    <3> HIDE DEF DD, oo
    <3>1. DD \in Int /\ V \in Int /\ dd \in Int /\ v \in Int /\ margin \in Nat
      BY <1>1, <1>4
    <3>2. /\ dd - DD \in - margin .. margin /\ v - V \in - margin .. margin
          /\ V > margin /\ Abs(DD - 4 * V) > 5 * margin /\ Abs(4 * DD - V) > 5 * margin
      BY <1>1, <1>2
    <3> QED BY <3>1, <3>2 DEF Abs
  <2>2. ASSUME DD >= 4 * V PROVE (d > 0 <=> D > 0) /\ (d < 0 <=> D < 0)
    <3>1. margin < DD
      <4> HIDE DEF DD, oo
      <4> QED BY <1>1, <1>2, <1>4, <2>2 DEF Abs
    <3>2. margin \in Int /\ D \in Int /\ d \in Int /\ off \in Nat
      BY <1>1
    <3> QED BY <1>1, <3>1, <3>2, SameSign
  <2> HIDE DEF DD, oo
  <2> QED BY <2>1, <2>2
<1>8. /\ Specified!Flat(Window * V) <=> V = 0
      /\ Specified!AboveEntry(D, Window * V) <=> D > 0 /\ DD >= 4 * V
      /\ Specified!BelowEntry(D, Window * V) <=> D < 0 /\ DD >= 4 * V
      /\ Specified!WithinExit(D, Window * V) <=> 4 * DD <= V
  BY <1>6 DEF Specified!Flat, Specified!AboveEntry, Specified!BelowEntry, Specified!WithinExit
<1>9. V = 0 <=> v <= 0
  <2> HIDE DEF V, v
  <2> QED BY <1>1, <1>7
<1>10. /\ D > 0 /\ DD >= 4 * V <=> d > 0 /\ dd >= 4 * v
       /\ D < 0 /\ DD >= 4 * V <=> d < 0 /\ dd >= 4 * v
       /\ 4 * DD <= V <=> 4 * dd <= v
  <2> HIDE DEF V, v, d, DD, dd
  <2> QED BY <1>7
<1>11. /\ Specified!Flat(Window * V) <=> v <= 0
       /\ Specified!AboveEntry(D, Window * V) <=> d > 0 /\ Far(s, mid)
       /\ Specified!BelowEntry(D, Window * V) <=> d < 0 /\ Far(s, mid)
       /\ Specified!WithinExit(D, Window * V) <=> Near(s, mid)
  <2> HIDE DEF V, v, d, DD, dd
  <2> QED BY <1>3, <1>8, <1>9, <1>10
<1> QED BY <1>1, <1>11 DEF Answers, V, d, v

\* The rule leaves a position whose mid is so near the mean, and enters none there.
LEMMA ExitFills ==
  ASSUME NEW m, NEW mid, NEW D \in Int, NEW V \in Nat,
         Specified!Deviation(m, mid) = D, Specified!Spread(m) = Window * V,
         V > 0, 4 * (D * D) < V, NEW p \in -1 .. 1
  PROVE  Specified!Filled(p, Specified!Signal(m, mid, p)) = 0
<1> DEFINE DD == D * D
<1>1. Window \in Nat \ {0} /\ DD \in Nat
  BY StrategyAssumption
<1>2. /\ Window * D * D >= 4 * (Window * V) <=> DD >= 4 * V
      /\ 4 * Window * D * D <= Window * V <=> 4 * DD <= V
      /\ Window * V = 0 <=> V = 0
  BY <1>1, Multiplied
<1>3. ~ (DD >= 4 * V) /\ 4 * DD <= V /\ V # 0
  <2>1. 4 * DD < V
    OBVIOUS
  <2> HIDE DEF DD
  <2> QED BY <1>1, <2>1
<1>4. /\ ~ Specified!Flat(Window * V) /\ ~ Specified!AboveEntry(D, Window * V)
      /\ ~ Specified!BelowEntry(D, Window * V) /\ Specified!WithinExit(D, Window * V)
  BY <1>2, <1>3 DEF Specified!Flat, Specified!AboveEntry, Specified!BelowEntry, Specified!WithinExit
<1>5. Specified!Signal(m, mid, p) = IF p = 0 THEN "NONE" ELSE IF p > 0 THEN "SELL" ELSE "BUY"
  <2> DEFINE S == Window * V
             flat == Specified!Flat(S)
             above == Specified!AboveEntry(D, S)
             below == Specified!BelowEntry(D, S)
             within == Specified!WithinExit(D, S)
             side == Specified!Signal(m, mid, p)
  <2>1. side = CASE flat -> "NONE"
                 [] ~flat /\ p = 0 /\ above -> "SELL"
                 [] ~flat /\ p = 0 /\ below -> "BUY"
                 [] ~flat /\ p > 0 /\ within -> "SELL"
                 [] ~flat /\ p < 0 /\ within -> "BUY"
                 [] OTHER -> "NONE"
    BY DEF Specified!Signal
  <2>2. ~flat /\ ~above /\ ~below /\ within
    BY <1>4
  <2> HIDE DEF flat, above, below, within, side
  <2>3. side = IF p = 0 THEN "NONE" ELSE IF p > 0 THEN "SELL" ELSE "BUY"
    BY <2>1, <2>2
  <2> QED BY <2>3 DEF side
<1> QED BY <1>5 DEF Specified!Filled

-----------------------------------------------------------------------------
(* The room a decision has.                                                *)

\* What DecisionsHaveRoom asks of the k-th tick.
DecisionRoom(k) == HasRoom((Window * Largest(k)) * (Window * Largest(k)), Margin(k))

\* Every tick so far has it.
LEMMA DecisionRoomIs == DecisionsHaveRoom <=> \A k \in 1 .. next : DecisionRoom(k)
BY DEF DecisionsHaveRoom, DecisionRoom

\* How close the decisions are does not change while the file stays.
SameDecisions ==
  \A k : /\ Undecided(k)' <=> Undecided(k)
         /\ ClearExit(k)' <=> ClearExit(k)
         /\ Settled(k)' <=> Settled(k)
         /\ DecisionRoom(k)' <=> DecisionRoom(k)

\* A step that keeps the file keeps it.
LEMMA DecisionsStay ==
  ASSUME file' = file
  PROVE  SameDecisions
<1>1. \A k : /\ Own(k)' = Own(k) /\ Largest(k)' = Largest(k)
             /\ SumError(k)' = SumError(k) /\ SquaresError(k)' = SquaresError(k)
  BY FileKept DEF SameFile
<1>2. \A k : Margin(k)' = Margin(k)
  BY <1>1 DEF Margin
<1>3. \A k : LastMids(k)' = LastMids(k)
  BY <1>1 DEF LastMids
<1>4. \A k : ExactDiff(k)' = ExactDiff(k) /\ ExactVariance(k)' = ExactVariance(k)
  BY <1>3 DEF ExactDiff, ExactVariance
<1>5. \A k : ExactDiffSq(k)' = ExactDiffSq(k)
  BY <1>4 DEF ExactDiffSq
<1>6. \A k : Undecided(k)' <=> Undecided(k)
  BY <1>1, <1>2, <1>4, <1>5 DEF Undecided
<1>7. \A k : ClearExit(k)' <=> ClearExit(k)
  BY <1>1, <1>4, <1>5, <1>6 DEF ClearExit
<1>8. \A k : Settled(k)' <=> Settled(k)
  BY <1>1, <1>6, <1>7 DEF Settled
<1>9. \A k : DecisionRoom(k)' <=> DecisionRoom(k)
  BY <1>1, <1>2 DEF DecisionRoom
<1> QED BY <1>6, <1>7, <1>8, <1>9 DEF SameDecisions

\* Room after a tick is room before it, and for it.
LEMMA TickDecisionRoom ==
  ASSUME BooksInv, Tick, DecisionsHaveRoom'
  PROVE  DecisionsHaveRoom /\ DecisionRoom(At)
<1>1. status = "replay" /\ next < Len(ticks) /\ next' = next + 1 /\ file' = file
  BY DEF Tick, loaderVars
<1>2. next \in Nat /\ At = next + 1
  BY <1>1, BeforeTick DEF At
<1>3. \A k \in 1 .. next + 1 : DecisionRoom(k)'
  <2>1. (DecisionsHaveRoom <=> \A k \in 1 .. next : DecisionRoom(k))'
    BY DecisionRoomIs, PTL
  <2> QED BY <1>1, <2>1
<1>4. \A k \in 1 .. next + 1 : DecisionRoom(k)
  BY <1>1, <1>3, DecisionsStay DEF SameDecisions
<1>5. \A k \in 1 .. next : DecisionRoom(k)
  BY <1>2, <1>4
<1>6. At \in 1 .. next + 1
  BY <1>2
<1> QED BY <1>4, <1>5, <1>6, DecisionRoomIs

\* The errors a tick with room may leave are numbers.
LEMMA ErrorsAre ==
  ASSUME NEW k \in Nat \ {0}, \A j \in 1 .. k : MidAt(j) \in Nat, Room(k)
  PROVE  /\ Largest(k) \in Nat /\ SumError(k) \in Nat /\ SquaresError(k) \in Nat
         /\ MidAt(k) \in 0 .. Largest(k)
<1> DEFINE M == Largest(k)
           c == Cardinality(Own(k))
           a == Window * M
           b == Window * (M * M)
<1>1. M \in Nat /\ MidAt(k) \in 0 .. M /\ c \in Nat
  <2>1. k \in Own(k) /\ c \in Nat
    BY OwnIs
  <2> HIDE DEF c
  <2> QED BY <2>1, LargestIs
<1>2. SumError(k) = c * (Ulp(a) - 1) /\ SquaresError(k) = c * (Ulp(b) - 1)
  BY DEF SumError, SquaresError
<1>3. InRange(a) /\ InRange(b)
  BY DEF Room, HasRoom
<1> HIDE DEF M, c
<1>4. a \in Nat /\ b \in Nat
  BY <1>1, StrategyAssumption
<1> HIDE DEF a, b
<1>5. Ulp(a) \in Nat \ {0} /\ Ulp(b) \in Nat \ {0}
  BY <1>3, <1>4, UlpOwn
<1>6. ASSUME NEW u \in Nat \ {0} PROVE c * (u - 1) \in Nat
  BY <1>1
<1> QED BY <1>1, <1>2, <1>5, <1>6 DEF M

\* What a full window and the slot after a tick say, and how far they are apart.
ReadsWindow ==
  LET s == slot_'[TheSlot]
      m == LastWindow(Own(At))
      D == ExactDiff(At)
  IN  /\ D \in Int /\ ExactVariance(At) \in Nat /\ ExactVariance(At) = VarianceOf(s)
      /\ Specified!Deviation(m, TheMid) = D
      /\ Specified!Spread(m) = Window * VarianceOf(s)
      /\ ValuesWithin(s, TheMid, D, SumError(At) + Ulp(Window * Largest(At)) - 1, Margin(At))

\* The sums of a tick with room are close enough for that.
LEMMA TickReads ==
  ASSUME BooksInv, WindowsInv, Tick, SumsHaveRoom', DecisionsHaveRoom', SumsKept,
         file[At].symbol \notin ShortNames, Cardinality(Own(At)) >= Window
  PROVE  ReadsWindow
<1> DEFINE k == At
           s == slot_'[TheSlot]
           mid == TheMid
           M == Largest(k)
           E == SumError(k)
           F == SquaresError(k)
           own == Own(k)
           m == LastWindow(own)
           t == SumOver(s.mids, 0 .. Window - 1)
           V == VarianceOf(s)
<1>1. k \in Nat \ {0} /\ (\A j \in 1 .. k : MidAt(j) \in Nat) /\ Room(k)
  <2>1. At \in Nat \ {0} /\ \A j \in 1 .. At : Room(j) /\ MidAt(j) \in Nat
    BY TickRoom
  <2>2. At \in 1 .. At
    BY <2>1
  <2> QED BY <2>1, <2>2
<1>2. mid = MidAt(k) /\ mid \in Int /\ SlotInv(s)
  BY TickAppends DEF MidAt
<1>3. Within(s, E, F) /\ UpTo(s, M)
  BY AfterTickWithin
<1>4. DecisionRoom(k)
  BY TickDecisionRoom
<1>5. LaidOut(file, s, Specified!TicksOf(file, file[k].symbol, k)) /\ Cardinality(own) >= Window
  BY AfterTickLaidOut
<1> HIDE DEF k, s, mid, own
<1>6. M \in Nat /\ E \in Nat /\ F \in Nat /\ MidAt(k) \in 0 .. M
  BY <1>1, ErrorsAre
<1>7. Margin(k) = MarginOf(E, F, Window * M)
  BY DEF Margin, MarginOf
<1>8. Roomy(s, E, F, M)
  BY <1>1, <1>2, <1>3, <1>4, <1>7 DEF Roomy, Room, DecisionRoom
<1>9. ValuesWithin(s, mid, Window * mid - t, E + Ulp(Window * M) - 1, MarginOf(E, F, Window * M))
  <2> HIDE DEF M, E, F
  <2>1. mid \in 0 .. M
    BY <1>2, <1>6
  <2> QED BY <1>6, <1>8, <2>1, ValuesOff
<1>10. own = Specified!TicksOf(file, file[k].symbol, k) /\ own \in SUBSET Nat /\ IsFiniteSet(own)
  BY <1>1, OwnIs DEF own
<1>11. \A i \in 0 .. Window - 1 : s.mids[i] \in Nat
  <2>1. \A i \in 0 .. Window - 1 : s.mids[i] \in 0 .. M
    BY <1>3 DEF UpTo
  <2> HIDE DEF M
  <2> QED BY <1>6, <2>1
<1>12. Specified!Deviation(m, mid) = Window * mid - t /\ Specified!Spread(m) = Window * V
  BY <1>2, <1>5, <1>10, <1>11, WindowRead
<1>13. LastMids(k) = m
  BY DEF LastMids, LastWindow, Specified!Mid, own
<1>14. ExactDiff(k) = Window * mid - t
  BY <1>2, <1>12, <1>13 DEF ExactDiff, MidAt
<1>15. V \in Nat /\ Window * mid - t \in Int
  BY <1>9 DEF ValuesWithin
<1>16. ExactVariance(k) = V
  <2>1. ExactVariance(k) = (Window * V) \div Window
    BY <1>12, <1>13 DEF ExactVariance
  <2> HIDE DEF V
  <2>2. Window \in Nat \ {0}
    BY StrategyAssumption
  <2>3. (Window * V) \div Window = V
    BY <1>15, <2>2
  <2> QED BY <2>1, <2>3
<1> QED BY <1>7, <1>9, <1>12, <1>14, <1>15, <1>16 DEF ReadsWindow, k, s, mid, own

-----------------------------------------------------------------------------
(* Decided ticks.                                                          *)

\* What a decided tick of a full window is not.
LEMMA DecidedIs ==
  ASSUME NEW k, ~Undecided(k), Cardinality(Own(k)) >= Window
  PROVE  /\ ExactVariance(k) \in Int /\ Margin(k) \in Int => ExactVariance(k) > Margin(k)
         /\ ExactDiffSq(k) \in Int /\ ExactVariance(k) \in Int /\ Margin(k) \in Int =>
              /\ Abs(ExactDiffSq(k) - 4 * ExactVariance(k)) > 5 * Margin(k)
              /\ Abs(4 * ExactDiffSq(k) - ExactVariance(k)) > 5 * Margin(k)
<1> DEFINE v == ExactVariance(k)
           d == ExactDiffSq(k)
           g == Margin(k)
<1>1. ~ (v <= g) /\ ~ (Abs(d - 4 * v) <= 5 * g) /\ ~ (Abs(4 * d - v) <= 5 * g)
  BY DEF Undecided
<1> HIDE DEF v, d, g
<1>2. v \in Int /\ g \in Int => v > g
  BY <1>1
<1>3. d \in Int /\ v \in Int /\ g \in Int => Abs(d - 4 * v) > 5 * g /\ Abs(4 * d - v) > 5 * g
  BY <1>1 DEF Abs
<1> QED BY <1>2, <1>3 DEF v, d, g

\* A decided tick is answered as the rule does.
LEMMA RoundedAnswered ==
  ASSUME BooksInv, WindowsInv, Tick, SumsHaveRoom', DecisionsHaveRoom', SumsKept,
         file[At].symbol \notin ShortNames, ~Undecided(At)
  PROVE  Answered
<1> DEFINE k == At
           s == slot_'[TheSlot]
           own == Own(k)
           m == LastWindow(own)
           D == ExactDiff(k)
           V == ExactVariance(k)
           g == Margin(k)
           off == SumError(k) + Ulp(Window * Largest(k)) - 1
<1>1. k \in Nat \ {0}
  BY TickRoom
<1>2. own = Specified!TicksOf(file, file[k].symbol, k)
  <2> HIDE DEF k
  <2> QED BY <1>1, OwnIs
<1>3. ASSUME Cardinality(own) >= Window PROVE Answers(m, TheMid, s)
  <2>1. ReadsWindow
    BY <1>3, TickReads
  <2>2. /\ D \in Int /\ V \in Nat /\ V = VarianceOf(s)
        /\ Specified!Deviation(m, TheMid) = D /\ Specified!Spread(m) = Window * VarianceOf(s)
        /\ ValuesWithin(s, TheMid, D, off, g)
    BY <2>1 DEF ReadsWindow
  <2>3. g \in Nat
    BY <2>2 DEF ValuesWithin
  <2>4. ExactDiffSq(k) = D * D /\ D * D \in Int
    BY <2>2 DEF ExactDiffSq
  <2>5. V \in Int /\ g \in Int
    BY <2>2, <2>3
  <2>6. V > g /\ Abs(ExactDiffSq(k) - 4 * V) > 5 * g /\ Abs(4 * ExactDiffSq(k) - V) > 5 * g
    BY <1>3, <2>4, <2>5, DecidedIs
  <2>7. Decided(VarianceOf(s), D * D, g)
    BY <2>2, <2>4, <2>6 DEF Decided
  <2> HIDE DEF D, g, off, s, m
  <2> QED BY <2>2, <2>7, RoundedAnswers
<1> QED BY <1>2, <1>3 DEF Answered

\* At a clear exit the rule leaves every position, and enters none.
LEMMA ClearExitFills ==
  ASSUME BooksInv, WindowsInv, Tick, SumsHaveRoom', DecisionsHaveRoom', SumsKept,
         file[At].symbol \notin ShortNames, ClearExit(At), NEW p \in -1 .. 1
  PROVE  Specified!Filled(p, Specified!SideAt(file, At, p)) = 0
<1> DEFINE k == At
           s == slot_'[TheSlot]
           own == Own(k)
           m == LastWindow(own)
           mid == TheMid
           D == ExactDiff(k)
           V == ExactVariance(k)
           g == Margin(k)
<1>1. k \in Nat \ {0}
  BY TickRoom
<1>2. own = Specified!TicksOf(file, file[k].symbol, k) /\ Cardinality(own) \in Nat
  <2> HIDE DEF k
  <2> QED BY <1>1, OwnIs
<1>3. Cardinality(own) >= Window /\ ~Undecided(k) /\ 4 * ExactDiffSq(k) < V
  BY DEF ClearExit
<1>4. mid = Specified!Mid(file[k])
  BY TickAppends DEF Specified!Mid
<1>5. /\ D \in Int /\ V \in Nat /\ V = VarianceOf(s)
      /\ Specified!Deviation(m, mid) = D /\ Specified!Spread(m) = Window * VarianceOf(s)
      /\ g \in Nat
  <2>1. ReadsWindow
    BY <1>3, TickReads
  <2> QED BY <2>1 DEF ReadsWindow, ValuesWithin
<1>6. V > 0
  <2>1. V \in Int /\ g \in Int
    BY <1>5
  <2>2. V > g
    BY <1>3, <2>1, DecidedIs
  <2> HIDE DEF V, g
  <2> QED BY <1>5, <2>1, <2>2
<1>7. 4 * (D * D) < V
  BY <1>3 DEF ExactDiffSq
<1>8. Specified!SideAt(file, k, p) = Specified!Signal(m, mid, p)
  <2>1. Specified!SideAt(file, k, p) =
          IF Cardinality(own) < Window THEN "NONE" ELSE Specified!Signal(m, mid, p)
    BY <1>2, <1>4, SpecifiedOperators DEF Specified!SideAt, LastWindow
  <2>2. ~ (Cardinality(own) < Window)
    <3>1. Window \in Nat
      BY StrategyAssumption
    <3> HIDE DEF own
    <3> QED BY <1>2, <1>3, <3>1
  <2> QED BY <2>1, <2>2
<1>9. Specified!Spread(m) = Window * V
  BY <1>5
<1> HIDE DEF k, m, mid, D, V
<1>10. Specified!Filled(p, Specified!Signal(m, mid, p)) = 0
  BY <1>5, <1>6, <1>7, <1>9, ExitFills
<1> QED BY <1>8, <1>10 DEF k

\* A tick that is settled without being a clear exit is decided, and the earlier ticks of
\* its symbol are settled.
LEMMA SettledAt ==
  ASSUME NEW k \in Nat \ {0}, Settled(k), ~ClearExit(k)
  PROVE  /\ ~Undecided(k)
         /\ \A i : Own(i) = Own(k) \ {k} => Settled(i)
<1> DEFINE exits == {j \in Own(k) : ClearExit(j)} \cup {0}
           healed == Max(exits)
<1>1. Own(k) \in SUBSET (1 .. k) /\ k \in Own(k)
  BY OwnIs
<1>2. exits \in SUBSET (0 .. k - 1) /\ exits # {}
  <2>1. ASSUME NEW j \in Own(k), ClearExit(j) PROVE j \in 0 .. k - 1
    <3>1. j \in 1 .. k /\ j # k
      BY <1>1, <2>1
    <3> QED BY <3>1
  <2>2. 0 \in 0 .. k - 1
    OBVIOUS
  <2> QED BY <2>1, <2>2
<1>3. healed \in 0 .. k - 1
  <2>1. IsFiniteSet(0 .. k - 1)
    BY FS_Interval
  <2> HIDE DEF exits
  <2>2. exits \in SUBSET Int
    BY <1>2
  <2>3. IsFiniteSet(exits)
    BY <1>2, <2>1, FS_Subset
  <2>4. healed \in exits
    BY <1>2, <2>2, <2>3, Extremes
  <2> HIDE DEF healed
  <2> QED BY <1>2, <2>4
<1>4. \A j \in Own(k) : j > healed => ~Undecided(j)
  BY DEF Settled
<1>5. ~Undecided(k)
  <2> HIDE DEF healed
  <2>1. k > healed
    BY <1>3
  <2> QED BY <1>1, <1>4, <2>1
<1>6. ASSUME NEW i, Own(i) = Own(k) \ {k} PROVE Settled(i)
  <2>1. {j \in Own(i) : ClearExit(j)} \cup {0} = exits
    BY <1>6
  <2>2. \A j \in Own(i) : j > healed => ~Undecided(j)
    BY <1>4, <1>6
  <2>3. Settled(i) <=> \A j \in Own(i) : j > Max({l \in Own(i) : ClearExit(l)} \cup {0}) => ~Undecided(j)
    BY DEF Settled
  <2> HIDE DEF exits
  <2> QED BY <2>1, <2>2, <2>3
<1> QED BY <1>5, <1>6

\* A symbol that is settled, or has had no tick, is where the specified strategy is.
SettledReached ==
  /\ \A n \in Symbols \ NamesIn(Traded) : Reached[n] = 0
  /\ \A n \in Symbols \ ShortNames :
       \A k \in Latest : file[k].symbol = n /\ Settled(k) => Net(n) = Reached[n]

\* The symbol of a tick is, after the tick, if it is settled then.
LEMMA TickSettles ==
  ASSUME BooksInv, WindowsInv, Tick, SumsHaveRoom', DecisionsHaveRoom', SumsKept, SettledReached,
         NEW n \in Symbols \ ShortNames, n = file[At].symbol, Settled(At)
  PROVE  Net(n)' = Reached'[n]
<1>1. file[At].symbol \notin ShortNames /\ At \in Nat \ {0}
  BY TickRoom
<1>2. CASE ClearExit(At)
  <2>1. Answered
    BY <1>1, <1>2, RoundedAnswered DEF ClearExit
  <2>2. ASSUME NEW p \in -1 .. 1 PROVE Specified!Filled(p, Specified!SideAt(file, At, p)) = 0
    BY <1>1, <1>2, ClearExitFills
  <2>3. Net(n)' = 0
    <3>1. PICK p : p = Net(n)
      OBVIOUS
    <3>2. p \in -1 .. 1 /\ Net(n)' = Specified!Filled(p, Specified!SideAt(file, At, p))
      BY <1>1, <2>1, <3>1, NetFilled
    <3> QED BY <2>2, <3>2
  <2>4. Reached'[n] = 0
    <3>1. PICK p : p = Reached[n]
      OBVIOUS
    <3>2. /\ Reached \in [Symbols -> -1 .. 1]
          /\ Reached' = [Reached EXCEPT ![n] = Specified!Filled(p, Specified!SideAt(file, At, p))]
      BY <3>1, ReachedNext
    <3>3. Specified!Filled(p, Specified!SideAt(file, At, p)) = 0
      BY <2>2, <3>1, <3>2
    <3> QED BY <3>2, <3>3
  <2> QED BY <2>3, <2>4
<1>3. CASE ~ClearExit(At)
  <2> DEFINE own == Specified!TicksOf(file, n, next)
  <2>1. ~Undecided(At) /\ \A i : Own(i) = Own(At) \ {At} => Settled(i)
    <3>1. PICK k \in Nat \ {0} : k = At
      BY <1>1
    <3> QED BY <1>3, <3>1, SettledAt
  <2>2. Answered
    BY <1>1, <2>1, RoundedAnswered
  <2>3. Net(n) = Reached[n]
    <3>1. CASE own # {}
      <4>1. PICK k \in Latest : file[k].symbol = n /\ Own(k) = own
        BY <1>1, <3>1, EarlierTick
      <4>2. own = Own(At) \ {At}
        <5>1. At = next + 1 /\ next \in Nat
          BY TickRoom
        <5>2. \A j : j \in 1 .. next <=> j \in 1 .. next + 1 /\ j # next + 1
          BY <5>1
        <5>3. \A j : j \in own <=> j \in 1 .. next /\ file[j].symbol = n
          BY DEF Specified!TicksOf
        <5>4. \A j : j \in Own(At) <=> j \in 1 .. At /\ file[j].symbol = n
          BY DEF Own
        <5> QED BY <5>1, <5>2, <5>3, <5>4
      <4> QED BY <2>1, <4>1, <4>2 DEF SettledReached
    <3>2. CASE own = {}
      <4>1. Net(n) = 0
        <5>1. slot_[TheSlot] = EmptySlot
          BY <1>1, <3>2, FirstTick
        <5>2. slot_[TheSlot].position = Net(n)
          BY <1>1, TickNet
        <5> QED BY <5>1, <5>2 DEF EmptySlot
      <4>2. n \notin NamesIn(Traded)
        <5>1. Continues(file, Traded, next) /\ Len(Traded) = next
          <6>1. /\ Len(Traded) = next /\ Continues(Traded', Traded, next)
                /\ Continues(Traded', file, next + 1) /\ next \in Nat
            BY TradedAppended
          <6>2. \A k \in 1 .. next : k \in 1 .. next + 1
            BY <6>1
          <6> QED BY <6>1, <6>2 DEF Continues
        <5>2. \A k \in 1 .. next : file[k].symbol # n
          BY <3>2 DEF Specified!TicksOf
        <5>3. DOMAIN Traded = 1 .. next
          <6>1. Traded \in Seq(Rows)
            BY TradedAppended, FileIs DEF BooksInv, Traded
          <6> QED BY <5>1, <6>1
        <5> QED BY <5>1, <5>2, <5>3 DEF NamesIn, Continues
      <4> QED BY <4>1, <4>2 DEF SettledReached
    <3> QED BY <3>1, <3>2
  <2> QED BY <1>1, <2>2, <2>3, NetStaysReached
<1> QED BY <1>2, <1>3

\* So are the others.
LEMMA TickReached ==
  ASSUME BooksInv, WindowsInv, Tick, SumsHaveRoom', DecisionsHaveRoom', SumsKept, SettledReached
  PROVE  SettledReached'
<1>1. file' = file
  BY DEF Tick, loaderVars
<1>2. ASSUME NEW n \in Symbols \ NamesIn(Traded)' PROVE Reached'[n] = 0
  <2>1. Traded' = Append(Traded, file[next + 1]) /\ Len(Traded) = next /\ Len(Traded') = next + 1
        /\ next \in Nat /\ Continues(Traded', Traded, next)
    BY TradedAppended
  <2>2. Traded \in Seq(Rows) /\ Traded' \in Seq(Rows)
    BY <1>1, TradedAppended, FileIs DEF BooksInv, Traded
  <2>3. DOMAIN Traded = 1 .. next /\ DOMAIN Traded' = 1 .. next + 1
    BY <2>1, <2>2
  <2>4. Traded'[next + 1] = file[next + 1] /\ next + 1 \in 1 .. next + 1
    BY <2>1, <2>2
  <2>5. \A k \in 1 .. next : k \in 1 .. next + 1
    BY <2>1
  <2>6. n # file[At].symbol /\ n \notin NamesIn(Traded)
    BY <2>1, <2>3, <2>4, <2>5 DEF NamesIn, Continues, At
  <2> QED BY <2>6, OtherNets DEF SettledReached
<1>3. ASSUME NEW n \in Symbols \ ShortNames, NEW k \in Latest', file[k].symbol = n, Settled(k)
      PROVE  Net(n)' = Reached'[n]
  <2>1. CASE k = At
    BY <1>3, <2>1, TickSettles
  <2>2. CASE k # At
    <3>1. k \in Latest /\ n # file[At].symbol
      BY <1>3, <2>2, LatestNext
    <3>2. Net(n) = Reached[n]
      BY <1>3, <3>1 DEF SettledReached
    <3> QED BY <3>1, <3>2, OtherNets
  <2> QED BY <2>1, <2>2
<1>4. \A k : Settled(k)' <=> Settled(k)
  BY <1>1, DecisionsStay DEF SameDecisions
<1> QED BY <1>1, <1>2, <1>3, <1>4 DEF SettledReached

-----------------------------------------------------------------------------
(* The invariant of the rounded prices.                                    *)

\* What the rounded part of the invariant says.
RoundedKept == SumsHaveRoom => SumsKept /\ (DecisionsHaveRoom => SettledReached)

\* The sums of a slot of integers are as far off as they may be.
LEMMA WithinIs ==
  ASSUME BooksInv, SumsHaveRoom, NEW k \in 1 .. next
  PROVE  /\ SlotOf(k).rolling_sum \in Int /\ SlotOf(k).rolling_sq_sum \in Int /\ SumsWithin(k)
           <=> Within(SlotOf(k), SumError(k), SquaresError(k))
<1> DEFINE s == SlotOf(k)
           squares == [j \in DOMAIN s.mids |-> s.mids[j] * s.mids[j]]
           E == SumError(k)
           F == SquaresError(k)
           w == 0 .. Window - 1
<1>1. /\ next \in 0 .. Len(ticks) /\ ticks \in Seq(TickType) /\ StrategyInv /\ SeenInv
  BY DEF BooksInv, EngineInv, LoaderInv, TickType
<1>2. k \in Nat \ {0} /\ 1 .. k \subseteq 1 .. next /\ 1 .. k \subseteq 1 .. Len(ticks)
  BY <1>1
<1>3. SlotInv(s)
  <2>1. Known(ticks[k].symbol) # {}
    BY <1>1 DEF SeenInv
  <2>2. Candidates(ticks[k].symbol) # {}
    BY <2>1 DEF Candidates
  <2>3. Lookup(ticks[k].symbol) \in Slots
    BY <2>2, LookupAnswers
  <2> QED BY <1>1, <2>3 DEF StrategyInv, SlotOf
<1>4. E \in Nat /\ F \in Nat
  <2>1. \A j \in 1 .. k : Room(j)
    BY <1>2, RoomIs
  <2>2. \A j \in 1 .. k : MidAt(j) \in Int
    BY <1>2, MidsAre
  <2>3. \A j \in 1 .. k : MidAt(j) \in Nat
    BY <2>1, <2>2 DEF Room
  <2>4. k \in 1 .. k
    BY <1>2
  <2> QED BY <1>2, <2>1, <2>3, <2>4, ErrorsAre
<1> DEFINE x == s.rolling_sum
           y == s.rolling_sq_sum
           t == SumOver(s.mids, w)
           q == SumOver(SquaresOf(s), w)
<1>5. t \in Int /\ q \in Int
  <2> DEFINE g == s.mids
             h == SquaresOf(s)
  <2>1. g \in [w -> Int]
    BY <1>3 DEF SlotInv
  <2>2. h \in [w -> Int]
    <3>1. h = [j \in w |-> g[j] * g[j]]
      BY <2>1 DEF SquaresOf
    <3> HIDE DEF g, h
    <3> QED BY <2>1, <3>1
  <2> HIDE DEF g, h
  <2>3. SumOver(g, w) \in Int /\ SumOver(h, w) \in Int
    <3>1. IsFiniteSet(w)
      BY StrategyAssumption, FS_Interval
    <3> HIDE DEF w
    <3>2. (\A j \in w : g[j] \in Int) /\ \A j \in w : h[j] \in Int
      BY <2>1, <2>2
    <3> QED BY <3>1, <3>2, SumType
  <2> QED BY <2>3 DEF g, h
<1>6. SumsWithin(k) <=> Abs(x - t) <= E /\ Abs(y - q) <= F
  <2>1. SumsWithin(k) <=> Abs(x - SumFunction(s.mids)) <= E /\ Abs(y - SumFunction(squares)) <= F
    BY DEF SumsWithin
  <2>2. squares = SquaresOf(s) /\ DOMAIN s.mids = w /\ DOMAIN squares = w
    BY <1>3 DEF SlotInv, SquaresOf
  <2> QED BY <2>1, <2>2, SpecifiedOperators
<1>7. Within(s, E, F) <=> x \in Int /\ y \in Int /\ x - t \in - E .. E /\ y - q \in - F .. F
  BY DEF Within
<1> HIDE DEF x, y, t, q, E, F
<1>8. x \in Int => (Abs(x - t) <= E <=> x - t \in - E .. E)
  BY <1>4, <1>5 DEF Abs
<1>9. y \in Int => (Abs(y - q) <= F <=> y - q \in - F .. F)
  BY <1>4, <1>5 DEF Abs
<1> QED BY <1>6, <1>7, <1>8, <1>9 DEF x, y, E, F

\* That is it.
LEMMA RoundedInvIs == BooksInv => (RoundedInv <=> RoundedKept)
<1> SUFFICES ASSUME BooksInv, SumsHaveRoom PROVE RoundedInv <=> RoundedKept
  BY DEF RoundedInv, RoundedKept
<1>1. \A k \in Latest : k \in 1 .. next /\ file[k].symbol \in Symbols
  <2> SUFFICES ASSUME NEW k \in Latest PROVE k \in 1 .. next /\ file[k].symbol \in Symbols
    OBVIOUS
  <2>1. k \in 1 .. next /\ next \in 0 .. Len(ticks) /\ ticks \in Seq(TickType)
        /\ file \in Seq(Rows) /\ Len(ticks) <= Len(file)
    BY FileIs DEF Latest, BooksInv, EngineInv, LoaderInv, TickType
  <2>2. k \in 1 .. Len(file)
    BY <2>1
  <2>3. file[k] \in Rows
    BY <2>1, <2>2
  <2> QED BY <2>1, <2>3 DEF Rows
<1>2. SumsKept <=> \A k \in Latest : file[k].symbol \notin ShortNames =>
                     /\ SlotOf(k).rolling_sum \in Int /\ SlotOf(k).rolling_sq_sum \in Int
                     /\ SumsWithin(k)
  BY <1>1, WithinIs DEF SumsKept
<1>3. SettledReached <=>
        /\ \A n \in Symbols \ NamesIn(Traded) : Reached[n] = 0
        /\ \A k \in Latest : file[k].symbol \notin ShortNames /\ Settled(k) =>
             Net(file[k].symbol) = Reached[file[k].symbol]
  BY <1>1 DEF SettledReached
<1> QED BY <1>2, <1>3 DEF RoundedInv, RoundedKept, Reached

\* A tick keeps the rounded part.
LEMMA TickRounded ==
  ASSUME BooksInv, WindowsInv, RoundedKept, Tick
  PROVE  RoundedKept'
<1>1. ASSUME SumsHaveRoom' PROVE SumsKept'
  BY <1>1, TickRoom, TickSumsKept DEF RoundedKept
<1>2. ASSUME SumsHaveRoom', DecisionsHaveRoom' PROVE SettledReached'
  <2>1. SumsKept /\ SettledReached
    BY <1>2, TickRoom, TickDecisionRoom DEF RoundedKept
  <2> QED BY <1>2, <2>1, TickReached
<1> QED BY <1>1, <1>2 DEF RoundedKept

\* A fill keeps it.
LEMMA FillRounded ==
  ASSUME BooksInv, RoundedKept, Fill
  PROVE  RoundedKept'
<1>1. UNCHANGED <<file, ticks, next, orders>>
  BY DEF Fill, loaderVars
<1>2. SumsHaveRoom' <=> SumsHaveRoom
  <2>1. (SumsHaveRoom <=> Window >= 8 /\ \A k \in 1 .. next : Room(k))'
    BY RoomIs, PTL
  <2> QED BY <1>1, <2>1, FileKept, RoomIs DEF SameFile
<1>3. DecisionsHaveRoom' <=> DecisionsHaveRoom
  <2>1. (DecisionsHaveRoom <=> \A k \in 1 .. next : DecisionRoom(k))'
    BY DecisionRoomIs, PTL
  <2> QED BY <1>1, <2>1, DecisionsStay, DecisionRoomIs DEF SameDecisions
<1>4. ASSUME SumsKept PROVE SumsKept'
  <2>1. Latest' = Latest
    BY <1>1 DEF Latest
  <2>2. ASSUME NEW k \in Latest, file[k].symbol \notin ShortNames
        PROVE  Within(SlotOf(k)', SumError(k), SquaresError(k))
    <3>1. Within(SlotOf(k), SumError(k), SquaresError(k))
      BY <1>4, <2>2 DEF SumsKept
    <3>2. SameWindow(SlotOf(k)', SlotOf(k))
      BY FillWindows DEF Latest
    <3> DEFINE s == SlotOf(k)
               z == SlotOf(k)'
    <3>3. Within(s, SumError(k), SquaresError(k)) /\ SameWindow(z, s)
      BY <3>1, <3>2
    <3> HIDE DEF s, z
    <3>4. Within(z, SumError(k), SquaresError(k))
      BY <3>3 DEF Within, SameWindow, SquaresOf
    <3> QED BY <3>4 DEF z
  <2>3. SameFile
    BY <1>1, FileKept
  <2> QED BY <1>1, <2>1, <2>2, <2>3 DEF SumsKept, SameFile
<1>5. ASSUME SettledReached PROVE SettledReached'
  <2>1. Latest' = Latest /\ Reached' = Reached /\ NamesIn(Traded)' = NamesIn(Traded)
    BY <1>1 DEF Latest, Reached, Traded, NamesIn
  <2>2. \A n : Net(n)' = Net(n)
    BY <1>1 DEF Net
  <2>3. \A k : Settled(k)' <=> Settled(k)
    BY <1>1, DecisionsStay DEF SameDecisions
  <2> QED BY <1>1, <1>5, <2>1, <2>2, <2>3 DEF SettledReached
<1> QED BY <1>2, <1>3, <1>4, <1>5 DEF RoundedKept

\* So does a step before the first tick.
LEMMA StartRounded ==
  ASSUME next = 0
  PROVE  RoundedKept
<1>1. Latest = {}
  BY DEF Latest
<1>2. Traded = <<>> /\ Reached = [s \in Symbols |-> 0]
  BY NothingReached
<1> QED BY <1>1, <1>2 DEF RoundedKept, SumsKept, SettledReached

\* So do the steps that change nothing of it.
LEMMA RestRounded ==
  ASSUME RoundedKept, UNCHANGED <<file, ticks, symbols_, slot_, next, orders>>
  PROVE  RoundedKept'
<1>1. SumsHaveRoom' <=> SumsHaveRoom
  <2>1. (SumsHaveRoom <=> Window >= 8 /\ \A k \in 1 .. next : Room(k))'
    BY RoomIs, PTL
  <2> QED BY <2>1, FileKept, RoomIs DEF SameFile
<1>2. DecisionsHaveRoom' <=> DecisionsHaveRoom
  <2>1. (DecisionsHaveRoom <=> \A k \in 1 .. next : DecisionRoom(k))'
    BY DecisionRoomIs, PTL
  <2> QED BY <2>1, DecisionsStay, DecisionRoomIs DEF SameDecisions
<1>3. Latest' = Latest /\ Reached' = Reached /\ NamesIn(Traded)' = NamesIn(Traded)
  BY DEF Latest, Reached, Traded, NamesIn
<1>4. ASSUME SumsKept PROVE SumsKept'
  <2>1. \A k : SlotOf(k)' = SlotOf(k)
    BY DEF SlotOf, Lookup, Candidates, Known, Free
  <2>2. SameFile
    BY FileKept
  <2> QED BY <1>3, <1>4, <2>1, <2>2 DEF SumsKept, SameFile
<1>5. ASSUME SettledReached PROVE SettledReached'
  <2>1. \A n : Net(n)' = Net(n)
    BY DEF Net
  <2>2. \A k : Settled(k)' <=> Settled(k)
    BY DecisionsStay DEF SameDecisions
  <2> QED BY <1>3, <1>5, <2>1, <2>2 DEF SettledReached
<1> QED BY <1>1, <1>2, <1>4, <1>5 DEF RoundedKept

-----------------------------------------------------------------------------
(* The whole invariant.                                                    *)

\* The whole invariant, at the start.
LEMMA ReplayInitially == Init => ReplayInv
<1> SUFFICES ASSUME Init PROVE ReplayInv
  OBVIOUS
<1>1. BooksInv
  BY BooksInitially
<1>2. next = 0 /\ status = "start"
  BY DEF Init
<1>3. WindowsInv
  BY <1>2 DEF WindowsInv
<1>4. ExactInv
  BY <1>2 DEF ExactInv, Shown
<1>5. RoundedInv
  BY <1>1, <1>2, StartRounded, RoundedInvIs
<1>6. PlacementInv
  <2>1. /\ DOMAIN ticks = {} /\ DOMAIN symbol_map = {} /\ Len(symbol_storage_) = 0
        /\ buffer.capacity = 0
    BY DEF Init, LoaderInit
  <2>2. LeftBehind = {}
    BY <2>1 DEF LeftBehind
  <2> QED BY <2>1, <2>2 DEF PlacementInv
<1> QED BY <1>1, <1>3, <1>4, <1>5, <1>6 DEF ReplayInv

\* Every step keeps it.
LEMMA ReplayStep == ReplayInv /\ [Next]_vars => ReplayInv'
<1> SUFFICES ASSUME BooksInv, PlacementInv, WindowsInv, ExactInv, RoundedKept, [Next]_vars
             PROVE  ReplayInv'
  BY RoundedInvIs DEF ReplayInv
<1>1. BooksInv'
  BY BooksStep
<1>2. WindowsInv' /\ ExactInv' /\ RoundedKept'
  <2>1. CASE LoadStep
    <3>1. next' = 0
      BY <2>1, LoadStepExact
    <3>2. (next = 0 => RoundedKept)'
      BY StartRounded, PTL
    <3> QED BY <2>1, <3>1, <3>2, RestKeepsWindows, LoadStepExact
  <2>2. CASE Tick
    BY <2>2, TickWindows, TickExact, TickRounded
  <2>3. CASE Fill
    BY <2>3, FillKeepsWindows, FillExact, FillRounded
  <2>4. CASE TickFails \/ Finish \/ Terminated \/ UNCHANGED vars
    <3>1. /\ UNCHANGED <<file, ticks, symbols_, slot_, next, orders>>
          /\ status' = status \/ status = "replay"
      BY <2>4 DEF TickFails, OnTickThrows, Finish, Terminated, vars, loaderVars, strategyVars,
                  engineVars
    <3> QED BY <3>1, RestKeepsWindows, RestExact, RestRounded
  <2> QED BY <2>1, <2>2, <2>3, <2>4 DEF Next
<1>3. RoundedInv'
  <2>1. (BooksInv => (RoundedInv <=> RoundedKept))'
    BY RoundedInvIs, PTL
  <2> QED BY <1>1, <1>2, <2>1
<1>4. PlacementInv'
  <2>1. CASE LoadStep
    BY <2>1, LoadPlaced DEF LoadStep, BooksInv
  <2>2. CASE Tick \/ TickFails \/ Fill \/ Finish \/ Terminated \/ UNCHANGED vars
    <3>1. /\ UNCHANGED <<file, ticks, symbol_storage_, buffer, symbol_map>>
          /\ status' # "rejected" => status # "rejected"
      BY <2>2 DEF Tick, TickFails, Fill, Finish, Terminated, vars, loaderVars
    <3> QED BY <3>1, UnloadedPlaced
  <2> QED BY <2>1, <2>2 DEF Next
<1> QED BY <1>1, <1>2, <1>3, <1>4 DEF ReplayInv

-----------------------------------------------------------------------------
(* The specified strategy.                                                 *)

\* A tick is a step of the specified strategy.
LEMMA TickIsTrade ==
  ASSUME LongNames, ReplayInv, Tick, Shown
  PROVE  Specified!Trade
<1>1. BooksInv /\ WindowsInv /\ ExactInv /\ LoaderInv
  BY DEF ReplayInv, BooksInv
<1>2. status = "replay" /\ UNCHANGED <<status, file>> /\ Shown' /\ Exact(file)
  BY DEF Tick, loaderVars, Shown
<1>3. /\ next \in Nat /\ next < Len(file) /\ next' = next + 1 /\ file' = file
      /\ Len(Traded') = next + 1 /\ Continues(Traded', file, next + 1)
      /\ Traded' = Append(Traded, file[next + 1]) /\ file[next + 1] \in Rows
  BY <1>1, TradedAppended
<1> DEFINE row == file[At]
           p == Reached[row.symbol]
<1>4. row.symbol \in Symbols \ ShortNames
  <2>1. At \in 1 .. Len(file)
    <3>1. file \in Seq(Rows) /\ Len(file) \in Nat
      BY <1>1, FileIs
    <3> QED BY <1>3, <3>1 DEF At
  <2>2. row.symbol \notin ShortNames
    BY <1>1, <2>1, NoShortName
  <2> QED BY <1>3, <2>2 DEF Rows, At
<1>5. NetsReached /\ \A i \in Slots : SumsExact(slot_[i])
  BY <1>1, ExactInvIs
<1>6. slot_[TheSlot].position = p
  BY <1>1, <1>4, <1>5, TickNet DEF NetsReached
<1>7. PICK side : Takes(side)
  <2>1. Answered
    BY <1>1, <1>2, <1>4, <1>5, ExactAnswered
  <2> QED BY <1>1, <1>4, <2>1, TickSide
<1>8. /\ side = Specified!SideAt(file, At, p) /\ side \in {"NONE", "BUY", "SELL"}
      /\ pending' = IF side = "NONE" THEN <<>> ELSE <<Order(ticks[At], side, 1)>>
  BY <1>6, <1>7 DEF Takes
<1>9. Specified!Emitted(Traded', next)
      = IF side = "NONE" THEN <<>> ELSE <<Specified!OrderFor(next, row, side)>>
  <2>1. /\ Specified!Positions(Traded')[next] = Reached
        /\ Specified!SideAt(Traded', At, p) = Specified!SideAt(file, At, p)
    BY <1>1, ReachedNext
  <2>2. Traded'[At] = row
    BY <1>3 DEF Continues, At
  <2>3. Len(Traded') = At /\ At - 1 = next
    BY <1>3 DEF At
  <2> HIDE DEF row
  <2>4. Specified!SideAt(Traded', Len(Traded'),
           Specified!Positions(Traded')[Len(Traded') - 1][Traded'[Len(Traded')].symbol]) = side
    BY <1>8, <2>1, <2>2, <2>3
  <2> HIDE DEF p
  <2> QED BY <2>2, <2>3, <2>4 DEF Specified!Emitted
<1>10. [k \in DOMAIN pending' |-> Emission(pending'[k])]
       = IF side = "NONE" THEN <<>> ELSE <<Specified!OrderFor(next, row, side)>>
  <2>1. CASE side = "NONE"
    <3>1. pending' = <<>>
      BY <1>8, <2>1
    <3> QED BY <2>1, <3>1
  <2>2. CASE side # "NONE"
    <3> DEFINE o == Order(ticks[At], side, 1)
               e == Specified!OrderFor(next, row, side)
    <3>1. TickOf(At)
      <4>1. At \in 1 .. Len(ticks)
        BY <1>1, BeforeTick DEF Tick
      <4> QED BY <1>1, <4>1 DEF LoaderInv
    <3>2. ticks[At].bid = row.bid /\ ticks[At].ask = row.ask
      BY <3>1 DEF TickOf
    <3>3. o.side = side /\ o.price = IF side = "SELL" THEN row.bid ELSE row.ask
      BY <3>2 DEF Order
    <3>4. Emission(o) = [tick_index |-> next, symbol |-> row.symbol, side |-> o.side, price |-> o.price]
      BY DEF Emission, At
    <3>5. e = [tick_index |-> next, symbol |-> row.symbol, side |-> side,
               price |-> IF side = "SELL" THEN row.bid ELSE row.ask]
      BY DEF Specified!OrderFor
    <3>6. pending' = <<o>>
      BY <1>8, <2>2
    <3> HIDE DEF o, e, row
    <3>7. Emission(o) = e
      BY <3>3, <3>4, <3>5
    <3>8. DOMAIN pending' = 1 .. 1 /\ pending'[1] = o
      BY <3>6
    <3>9. [k \in DOMAIN pending' |-> Emission(pending'[k])] = [k \in 1 .. 1 |-> e]
      BY <3>7, <3>8
    <3>10. [k \in 1 .. 1 |-> e] = <<e>>
      OBVIOUS
    <3> QED BY <2>2, <3>9, <3>10 DEF e, row
  <2> QED BY <2>1, <2>2
<1>11. orders' = orders \o Specified!Emitted(Traded', next)
  BY <1>9, <1>10 DEF Tick
<1> QED BY <1>2, <1>3, <1>11 DEF Specified!Trade

\* The end of the loading is the call, when the prices are short.
LEMMA LoadDoneIsCall ==
  ASSUME ReplayInv, LoadStep, ~Shown, Shown'
  PROVE  \E f \in {f \in Files : WellFormed(f) /\ Exact(f)} : Specified!Call(f)
<1>1. BooksInv /\ LoaderInv
  BY DEF ReplayInv, BooksInv
<1>2. next' = 0 /\ orders' = <<>> /\ status \in {"start", "loading"}
  BY <1>1, LoadStepExact
<1>3. status' = "replay" /\ Exact(file')
  BY <1>2 DEF Shown, LoadStep, Load, OpenFails, Open, LoadKnown, LoadNew, LoadDone, Converted
<1>4. status = "loading" /\ Len(ticks) = Len(file) /\ UNCHANGED file
  BY <1>2, <1>3 DEF LoadStep, Load, OpenFails, Open, LoadKnown, LoadNew, LoadDone, Converted,
                    loaderVars
<1>5. file \in Files /\ file \in Seq(Rows) /\ ticks \in Seq(TickType)
      /\ \A i \in 1 .. Len(ticks) : TickOf(i)
  BY <1>1, <1>4, FileIs DEF LoaderInv, TickType
<1>6. WellFormed(file)
  <2>1. ASSUME NEW i \in DOMAIN file PROVE file[i].bid # Malformed
    <3>1. i \in 1 .. Len(ticks)
      BY <1>4, <1>5
    <3>2. ticks[i] \in TickType /\ ticks[i].bid = file[i].bid
      BY <1>5, <3>1 DEF TickOf
    <3>3. file[i].bid \in Int
      BY <3>2 DEF TickType
    <3> QED BY <3>3, MemoryAssumption
  <2> QED BY <2>1 DEF WellFormed
<1>7. Traded' = <<>>
  <2>1. (next = 0 => Traded = <<>>)'
    BY NothingReached, PTL
  <2> QED BY <1>2, <2>1
<1>8. Specified!Call(file)
  BY <1>2, <1>3, <1>4, <1>7 DEF Specified!Call
<1> QED BY <1>3, <1>4, <1>5, <1>6, <1>8

\* The step of the specified strategy a step of the program is, if any.
LEMMA StepSpecified ==
  LongNames => (ReplayInv /\ [Next]_vars => [Specified!Next]_(Specified!seqVars))
<1> SUFFICES ASSUME LongNames, ReplayInv, [Next]_vars
             PROVE  Specified!Next \/ UNCHANGED Specified!seqVars
  OBVIOUS
<1>1. BooksInv
  BY DEF ReplayInv
<1>2. CASE LoadStep
  <2>1. status \in {"start", "loading"}
    BY <1>1, <1>2, LoadStepExact
  <2>2. ~Shown
    BY <2>1 DEF Shown
  <2>3. CASE Shown'
    BY <1>2, <2>2, <2>3, LoadDoneIsCall DEF Specified!Next
  <2>4. CASE ~Shown'
    BY <2>2, <2>4 DEF Specified!seqVars
  <2> QED BY <2>3, <2>4
<1>3. CASE Tick
  <2>1. CASE Shown
    BY <1>3, <2>1, TickIsTrade DEF Specified!Next
  <2>2. CASE ~Shown
    <3>1. UNCHANGED <<status, file>>
      BY <1>3 DEF Tick, loaderVars
    <3>2. ~Shown'
      BY <2>2, <3>1 DEF Shown
    <3> QED BY <2>2, <3>2 DEF Specified!seqVars
  <2> QED BY <2>1, <2>2
<1>4. CASE Finish
  <2>1. /\ status = "replay" /\ status' = "done" /\ next = Len(ticks)
        /\ UNCHANGED <<file, next, orders>>
    BY <1>4 DEF Finish, loaderVars, engineVars
  <2>2. Len(ticks) = Len(file)
    BY <1>1, <2>1 DEF BooksInv, LoaderInv
  <2>3. Shown' = Shown /\ Traded' = Traded
    BY <2>1 DEF Shown, Traded
  <2>4. CASE Shown
    BY <2>1, <2>2, <2>3, <2>4 DEF Specified!Next, Specified!Return
  <2>5. CASE ~Shown
    BY <2>3, <2>5 DEF Specified!seqVars
  <2> QED BY <2>4, <2>5
<1>5. CASE TickFails \/ Terminated \/ Fill \/ UNCHANGED vars
  <2>1. /\ UNCHANGED <<file, next, orders>>
        /\ status' = status \/ (status = "replay" /\ status' = "aborted")
    BY <1>5 DEF TickFails, Terminated, Fill, vars, loaderVars, engineVars
  <2>2. /\ Shown' = Shown /\ Traded' = Traded
        /\ (Shown /\ status # "done")' = (Shown /\ status # "done")
    BY <2>1 DEF Shown, Traded
  <2> QED BY <2>1, <2>2 DEF Specified!seqVars
<1> QED BY <1>2, <1>3, <1>4, <1>5 DEF Next

\* The map is one name per index of the vector.
LEMMA StorageMatches ==
  ASSUME BooksInv
  PROVE  MapMatchesStorage
<1> DEFINE len == Len(symbol_storage_)
           names == DOMAIN symbol_map
           f == [n \in names |-> symbol_map[n]]
<1>1. /\ symbol_storage_ \in Seq(Symbols)
      /\ \A n \in names : symbol_map[n] \in 1 .. len /\ symbol_storage_[symbol_map[n]] = n
      /\ \A i \in 1 .. len : symbol_storage_[i] \in names /\ symbol_map[symbol_storage_[i]] = i
  BY DEF BooksInv, LoaderInv, NamesInv
<1>2. len \in Nat /\ DOMAIN symbol_storage_ = 1 .. len
  BY <1>1
<1> HIDE DEF len, names
<1>3. IsInjective(symbol_storage_)
  BY <1>1, <1>2 DEF IsInjective
<1>4. /\ f \in [names -> 1 .. len] /\ (\A x, y \in names : f[x] = f[y] => x = y)
      /\ \A i \in 1 .. len : \E x \in names : f[x] = i
  BY <1>1
<1> HIDE DEF f
<1>5. Cardinality(names) = len
  BY <1>2, <1>4, Numbered
<1> QED BY <1>1, <1>3, <1>5 DEF MapMatchesStorage, names, len

-----------------------------------------------------------------------------
(* The theorems.                                                           *)

\* The invariant of the whole program: the loader's, the strategy's, the histogram's and
\* the engine's parts hold in every state of a replay.
THEOREM ReplayBooks == Spec => []BooksInv
BY BooksInitially, BooksStep, PTL DEF Spec

\* Every view leads to its name or was left behind by a growing vector, every slot in use
\* holds the window of its symbol, at its place in the ring, and where no operation is
\* rounded the sums are exact and the orders add up to the specified positions.
THEOREM ReplayInvariant == Spec => []ReplayInv
BY ReplayInitially, ReplayStep, PTL DEF Spec

\* The loader's map and vector name the same index for every symbol, and every name is
\* stored once.
THEOREM ReplayMapMatches == Spec => []MapMatchesStorage
<1>1. BooksInv => MapMatchesStorage
  BY StorageMatches
<1> QED BY <1>1, ReplayBooks, PTL

\* Views that nothing has moved since are equal exactly when the names are, short names
\* and buffers that grow included.
THEOREM ReplayInternedSinceGrown == Spec => []InternedSinceGrown
<1>1. ReplayInv => InternedSinceGrown
  <2> SUFFICES ASSUME ReplayInv, NEW i \in DOMAIN ticks, NEW j \in DOMAIN ticks,
                      Lasting(i), Lasting(j)
               PROVE  file[i].symbol = file[j].symbol <=> ticks[i].symbol = ticks[j].symbol
    BY DEF InternedSinceGrown
  <2> DEFINE a == symbol_map[file[i].symbol]
             b == symbol_map[file[j].symbol]
  <2>1. /\ LoaderInv /\ buffer.base \in Nat
        /\ ticks[i].symbol = ViewOf(symbol_storage_, buffer, a)
        /\ ticks[j].symbol = ViewOf(symbol_storage_, buffer, b)
    BY DEF ReplayInv, BooksInv, PlacementInv, LoaderInv
  <2>2. /\ a \in Nat /\ symbol_storage_[a] = file[i].symbol
        /\ b \in Nat /\ symbol_storage_[b] = file[j].symbol
    BY <2>1, TickNames
  <2>3. file[i].symbol = file[j].symbol => a = b
    OBVIOUS
  <2> HIDE DEF a, b
  <2>4. ViewOf(symbol_storage_, buffer, a) = ViewOf(symbol_storage_, buffer, b) => a = b
    <3> DEFINE x == buffer.base + a
               y == buffer.base + b
    <3>1. x = y => a = b
      BY <2>1, <2>2
    <3> HIDE DEF x, y
    <3>2. /\ ViewOf(symbol_storage_, buffer, a)
               = IF symbol_storage_[a] \in ShortNames THEN <<"buffer", x>> ELSE <<"heap", a>>
          /\ ViewOf(symbol_storage_, buffer, b)
               = IF symbol_storage_[b] \in ShortNames THEN <<"buffer", y>> ELSE <<"heap", b>>
      BY DEF ViewOf, x, y
    <3> QED BY <3>1, <3>2
  <2> QED BY <2>1, <2>2, <2>3, <2>4
<1> QED BY <1>1, ReplayInvariant, PTL

\* No position is ever larger than one unit, whatever is rounded.
THEOREM ReplayNeverPyramids == Spec => []NeverPyramids
<1>1. BooksInv => NeverPyramids
  BY DEF BooksInv, StrategyInv, SlotInv, NeverPyramids
<1> QED BY <1>1, ReplayBooks, PTL

\* The percentiles are told up to a factor of two, for every number of buckets and all
\* latencies.
THEOREM ReplayPercentiles == Spec => []PercentileBounds
<1>1. BooksInv => PercentileBounds
  BY PercentilesBounded DEF BooksInv
<1> QED BY <1>1, ReplayBooks, PTL

\* A file whose replay on_tick gives up has more names than the strategy has slots or, if
\* short ones are among them, more than a third as many: the views the growing vector has
\* left behind are no more than the cells of the buffers it had before.
THEOREM ReplaySupportsAllSymbols == Spec => []SupportsAllSymbols
<1>1. ReplayInv => SupportsAllSymbols
  <2> SUFFICES ASSUME ReplayInv, status = "aborted"
               PROVE  IF NamesIn(file) \cap ShortNames = {}
                        THEN Cardinality(NamesIn(file)) > MaxSymbols
                        ELSE 3 * (Cardinality(NamesIn(file)) - 1) > MaxSymbols
    BY DEF SupportsAllSymbols
  <2>1. /\ LoaderInv /\ StrategyInv /\ SeenInv /\ PlacementInv /\ BooksInv /\ file \in Seq(Rows)
        /\ next \in 0 .. Len(ticks) /\ next < Len(ticks) /\ Len(ticks) = Len(file)
        /\ Candidates(ticks[next + 1].symbol) = {}
    BY FileIs DEF ReplayInv, BooksInv, EngineInv, LoaderInv
  <2>2. /\ Len(file) \in Nat /\ DOMAIN file = 1 .. Len(file) /\ next + 1 \in 1 .. Len(file)
        /\ DOMAIN ticks = 1 .. Len(file) /\ Len(symbol_storage_) \in Nat
        /\ 1 .. next \subseteq 1 .. Len(file) /\ next \in Nat
    BY <2>1 DEF LoaderInv, NamesInv
  <2>3. MaxSymbols \in Nat \ {0} /\ Slots = 0 .. MaxSymbols - 1
    BY StrategyAssumption DEF Slots
  <2>4. Known(View) = {} /\ Free = {} /\ View = ticks[next + 1].symbol
    BY <2>1 DEF Candidates, View
  <2> DEFINE TickFor(i) == IF i \in Slots THEN CHOOSE k \in 1 .. next : symbols_[i] = ticks[k].symbol
                           ELSE next + 1
             all == 0 .. MaxSymbols
             f == [i \in all |-> ticks[TickFor(i)].symbol]
             x == [k \in 1 .. Len(symbol_storage_) |-> ViewOf(symbol_storage_, buffer, k)]
             held == {x[k] : k \in 1 .. Len(symbol_storage_)}
             names == NamesIn(file)
  <2>5. ASSUME NEW i \in Slots
        PROVE  TickFor(i) \in 1 .. next /\ ticks[TickFor(i)].symbol = symbols_[i]
    BY <2>1, <2>4 DEF SeenInv
  <2>6. ASSUME NEW i \in all PROVE TickFor(i) \in 1 .. Len(file)
    BY <2>2, <2>5
  <2>7. ASSUME NEW i \in all, NEW j \in all, ticks[TickFor(i)].symbol = ticks[TickFor(j)].symbol
        PROVE  i = j
    <3>1. ASSUME NEW a \in Slots, ticks[TickFor(a)].symbol = View PROVE FALSE
      BY <2>4, <2>5, <3>1 DEF Known
    <3>2. \A a \in all : a \notin Slots => a = MaxSymbols /\ ticks[TickFor(a)].symbol = View
      BY <2>3, <2>4
    <3>3. CASE i \in Slots /\ j \in Slots
      <4>1. symbols_[i] = symbols_[j]
        BY <2>5, <2>7, <3>3
      <4> QED BY <2>1, <2>4, <3>3, <4>1 DEF StrategyInv
    <3>4. CASE i \notin Slots /\ j \in Slots
      BY <2>7, <3>1, <3>2, <3>4
    <3>5. CASE i \in Slots /\ j \notin Slots
      BY <2>7, <3>1, <3>2, <3>5
    <3>6. CASE i \notin Slots /\ j \notin Slots
      BY <3>2, <3>6
    <3> QED BY <3>3, <3>4, <3>5, <3>6
  <2> HIDE DEF TickFor
  <2>8. \A i, j \in all : f[i] = f[j] => i = j
    BY <2>7
  <2>9. ASSUME NEW i \in DOMAIN ticks PROVE ticks[i].symbol \in LeftBehind \cup held
    <3>1. CASE Lasting(i)
      <4>1. /\ ticks[i].symbol = x[symbol_map[file[i].symbol]]
            /\ symbol_map[file[i].symbol] \in 1 .. Len(symbol_storage_)
        BY <2>1, <3>1, TickNames DEF PlacementInv
      <4> QED BY <4>1
    <3>2. CASE ~ Lasting(i)
      BY <3>2 DEF LeftBehind
    <3> QED BY <3>1, <3>2
  <2> HIDE DEF x
  <2>10. f \in [all -> LeftBehind \cup held]
    BY <2>2, <2>6, <2>9
  <2>11. IsFiniteSet(names)
    <3> DEFINE rows == DOMAIN file
               g == [i \in rows |-> file[i].symbol]
    <3>1. IsFiniteSet(rows)
      BY <2>2, FS_Interval
    <3>2. names = {g[i] : i \in rows}
      BY DEF NamesIn
    <3> HIDE DEF g, rows, names
    <3>3. IsFiniteSet({g[i] : i \in rows})
      BY <3>1, FiniteImage
    <3> QED BY <3>2, <3>3
  <2>12. IsFiniteSet(all) /\ Cardinality(all) = MaxSymbols + 1
    <3>1. 0 \in Int /\ MaxSymbols \in Int
      BY <2>3
    <3>2. IsFiniteSet(0 .. MaxSymbols)
          /\ Cardinality(0 .. MaxSymbols) = IF 0 > MaxSymbols THEN 0 ELSE MaxSymbols - 0 + 1
      BY <3>1, FS_Interval
    <3> QED BY <2>3, <3>2
  <2>13. IsFiniteSet(LeftBehind) /\ Cardinality(LeftBehind) \in Nat
    BY <2>1, ViewsFinite DEF LeftBehind
  <2>14. IsFiniteSet(held) /\ Cardinality(held) \in Nat /\ Cardinality(held) <= Len(symbol_storage_)
    BY <2>2, ImageBound
  <2>15. /\ Len(symbol_storage_) <= Cardinality(names) /\ Cardinality(names) \in Nat
    <3>1. Cardinality(DOMAIN symbol_map) = Len(symbol_storage_)
      BY <2>1, StorageMatches DEF MapMatchesStorage
    <3>2. DOMAIN symbol_map \subseteq names
      BY <2>1, <2>2 DEF PlacementInv, NamesIn
    <3> HIDE DEF names
    <3> QED BY <2>11, <3>1, <3>2, FS_Subset, FS_CardinalityType
  <2>16. NamesIn(file) \cap ShortNames = {} => LeftBehind = {}
    <3>1. \A i \in DOMAIN ticks : file[i].symbol \in NamesIn(file)
      BY <2>2 DEF NamesIn
    <3> QED BY <3>1 DEF LeftBehind, Lasting
  <2> HIDE DEF f, all, names, held
  <2>17. MaxSymbols + 1 <= Cardinality(LeftBehind) + Len(symbol_storage_)
    <3> DEFINE views == LeftBehind \cup held
    <3>1. f \in Injection(all, views)
      BY <2>8, <2>10 DEF Injection, IsInjective
    <3>2. /\ IsFiniteSet(views)
          /\ Cardinality(views)
               = Cardinality(LeftBehind) + Cardinality(held) - Cardinality(LeftBehind \cap held)
      BY <2>13, <2>14, FS_Union
    <3>3. Cardinality(LeftBehind \cap held) \in Nat
      <4>1. IsFiniteSet(LeftBehind \cap held)
        BY <2>13, FS_Subset
      <4> QED BY <4>1, FS_CardinalityType
    <3>4. Cardinality(all) <= Cardinality(views)
      <4> HIDE DEF views
      <4> QED BY <3>1, <3>2, FS_Injection
    <3> QED BY <2>2, <2>3, <2>12, <2>13, <2>14, <3>2, <3>3, <3>4
  <2>18. CASE LeftBehind = {}
    <3>1. Cardinality(LeftBehind) = 0
      BY <2>18, FS_EmptySet
    <3>2. Cardinality(names) > MaxSymbols /\ 3 * (Cardinality(names) - 1) > MaxSymbols
      BY <2>2, <2>3, <2>15, <2>17, <3>1
    <3> QED BY <3>2 DEF names
  <2>19. CASE LeftBehind # {}
    <3>1. Cardinality(LeftBehind) # 0
      BY <2>13, <2>19, FS_EmptySet
    <3>2. /\ Cardinality(LeftBehind) < buffer.capacity /\ buffer.capacity \in Nat
          /\ buffer.capacity <= 1 \/ buffer.capacity <= 2 * (Len(symbol_storage_) - 1)
      BY <2>1, <2>19 DEF PlacementInv, LoaderInv
    <3> DEFINE c == buffer.capacity
               b == Cardinality(LeftBehind)
               n == Len(symbol_storage_)
               m == Cardinality(names)
    <3>3. /\ b \in Nat /\ b # 0 /\ c \in Nat /\ b < c /\ (c <= 1 \/ c <= 2 * (n - 1))
          /\ n \in Nat /\ m \in Nat /\ n <= m /\ MaxSymbols \in Nat /\ MaxSymbols + 1 <= b + n
      BY <2>2, <2>3, <2>13, <2>15, <2>17, <3>1, <3>2
    <3> HIDE DEF b, c, n, m
    <3>4. 3 * (m - 1) > MaxSymbols
      BY <3>3
    <3> QED BY <2>16, <2>19, <3>4 DEF m, names
  <2> QED BY <2>18, <2>19
<1> QED BY <1>1, ReplayInvariant, PTL

\* The report: a latency for every tick, every order filled once, and positions that are
\* what the orders bought and sold, when the names are too long for a string's own buffer.
THEOREM ReplayReportConsistent ==
  ASSUME LongNames
  PROVE  Spec => []ReportConsistent
<1>1. BooksInv => ReportConsistent
  <2> SUFFICES ASSUME BooksInv, status = "done"
               PROVE  /\ count_ = Len(file)
                      /\ orders_generated = Len(orders) /\ fills_processed = orders_generated
                      /\ \A k \in DOMAIN ticks : SlotOf(k).position = Net(file[k].symbol)
    BY DEF ReportConsistent
  <2>1. /\ LoaderInv /\ StrategyInv /\ SeenInv /\ OrdersInv
        /\ ticks \in Seq(TickType) /\ Len(ticks) = Len(file)
        /\ pending = <<>> /\ next = Len(ticks) /\ count_ = next
    BY DEF BooksInv, EngineInv, LoaderInv, TickType
  <2>2. DOMAIN ticks = 1 .. Len(ticks) /\ Len(ticks) \in Nat
    BY <2>1
  <2>3. orders_generated = Len(orders) /\ fills_processed = orders_generated
    <3>1. Len(pending) = 0
      BY <2>1
    <3> QED BY <2>1, <3>1 DEF OrdersInv
  <2>4. ASSUME NEW k \in DOMAIN ticks PROVE SlotOf(k).position = Net(file[k].symbol)
    <3>1. k \in 1 .. next /\ k \in 1 .. Len(file) /\ k \in 1 .. Len(ticks)
      BY <2>1, <2>2
    <3>2. file[k].symbol \notin ShortNames
      BY <2>1, <3>1, NoShortName
    <3>3. SlotOf(k).position + Owed(ticks[k].symbol) = Net(file[k].symbol)
      BY <2>1, <3>1, <3>2 DEF OrdersInv
    <3>4. Owed(ticks[k].symbol) = 0
      BY <2>1 DEF Owed
    <3>5. SlotOf(k).position \in Int
      <4>1. PICK i \in Slots : symbols_[i] = ticks[k].symbol
        BY <2>1, <3>1 DEF SeenInv, Known
      <4>2. symbols_[i] # Unused
        BY <2>1, <3>1, <4>1, TicksUsed
      <4>3. SlotOf(k) = slot_[i]
        BY <2>1, <4>1, <4>2, SlotFound DEF SlotOf
      <4> QED BY <2>1, <4>3 DEF StrategyInv, SlotInv
    <3> QED BY <3>3, <3>4, <3>5
  <2> QED BY <2>1, <2>3, <2>4
<1> QED BY <1>1, ReplayBooks, PTL

\* Where no operation of the strategy is rounded, the program implements the specified one:
\* the same orders at the same ticks, for any window, any number of slots and all such
\* files whose names are too long for a string's own buffer.
THEOREM ReplayImplementsSpecified ==
  ASSUME LongNames
  PROVE  Spec => ImplementsSpecified
<1>1. Init => Specified!Init
  BY DEF Init, Specified!Init, Shown
<1>2. ReplayInv /\ [Next]_vars => [Specified!Next]_(Specified!seqVars)
  BY StepSpecified
<1> QED BY <1>1, <1>2, ReplayInvariant, PTL DEF Spec, ImplementsSpecified, Specified!Spec

\* Short prices leave no error in the sums, so the bound on the errors holds of them,
\* whatever the names are.
LEMMA ExactSumsBounded ==
  ASSUME ReplayInv, Exact(file)
  PROVE  RollingSumsBounded
<1> SUFFICES ASSUME NEW k \in Latest
             PROVE  LET s == SlotOf(k)
                        squares == [j \in DOMAIN s.mids |-> s.mids[j] * s.mids[j]]
                    IN  /\ Abs(s.rolling_sum - SumFunction(s.mids)) <= SumError(k)
                        /\ Abs(s.rolling_sq_sum - SumFunction(squares)) <= SquaresError(k)
  BY DEF RollingSumsBounded, SumsWithin
<1>1. BooksInv /\ ExactInv /\ LoaderInv /\ StrategyInv /\ SeenInv /\ EngineInv
  BY DEF ReplayInv, BooksInv
<1> DEFINE own == Own(k)
           mids == {file[j].bid + file[j].ask : j \in own}
           x == Largest(k)
           s == SlotOf(k)
           squares == [j \in DOMAIN s.mids |-> s.mids[j] * s.mids[j]]
<1>2. k \in 1 .. next /\ next \in 0 .. Len(ticks) /\ ticks \in Seq(TickType)
      /\ file \in Seq(Rows) /\ Len(ticks) <= Len(file)
  BY <1>1, FileIs DEF Latest, EngineInv, LoaderInv, TickType
<1>3. k \in Nat /\ k \in own /\ own \in SUBSET (1 .. k) /\ 1 .. k \subseteq 1 .. Len(file)
      /\ DOMAIN file = 1 .. Len(file) /\ 1 .. k \subseteq 1 .. Len(ticks)
  BY <1>2 DEF Own
<1>4. Shown
  BY <1>1, <1>2 DEF Shown, EngineInv
<1>5. SumsExact(s)
  <2>1. Known(ticks[k].symbol) # {}
    BY <1>1, <1>2 DEF SeenInv
  <2>2. Candidates(ticks[k].symbol) # {}
    BY <2>1 DEF Candidates
  <2>3. Lookup(ticks[k].symbol) \in Slots
    BY <2>2, LookupAnswers
  <2> QED BY <1>1, <1>4, <2>3, ExactInvIs DEF SlotOf
<1>6. IsFiniteSet(own) /\ Cardinality(own) \in Nat
  <2>1. IsFiniteSet(1 .. k)
    BY <1>3, FS_Interval
  <2> HIDE DEF own
  <2> QED BY <1>3, <2>1, FS_Subset, FS_CardinalityType
<1>7. x \in Int /\ Short(x)
  <2>1. ASSUME NEW j \in own
        PROVE  file[j].bid + file[j].ask \in Int /\ Short(file[j].bid + file[j].ask)
    <3>1. j \in 1 .. Len(ticks) /\ j \in DOMAIN file
      BY <1>3
    <3>2. TickOf(j) /\ ticks[j] \in TickType
      BY <1>1, <1>2, <3>1 DEF LoaderInv
    <3>3. file[j].bid + file[j].ask \in Int
      BY <3>2 DEF TickOf, TickType
    <3> QED BY <3>1, <3>3 DEF Exact
  <2> HIDE DEF own
  <2>2. mids \in SUBSET Int /\ mids # {}
    BY <1>3, <2>1
  <2>3. IsFiniteSet(mids)
    <3> DEFINE g == [j \in own |-> file[j].bid + file[j].ask]
    <3>1. mids = {g[j] : j \in own}
      OBVIOUS
    <3> HIDE DEF g, mids
    <3>2. IsFiniteSet({g[j] : j \in own})
      BY <1>6, FiniteImage
    <3> QED BY <3>1, <3>2
  <2>4. x = Max(mids)
    BY DEF Largest, own
  <2> HIDE DEF x
  <2>5. x \in mids
    <3> HIDE DEF mids
    <3>1. Max(mids) \in mids
      BY <2>2, <2>3, Extremes
    <3> QED BY <2>4, <3>1
  <2> QED BY <2>1, <2>5
<1> DEFINE a == Window * x
           b == Window * (x * x)
           L == 2 ^ Precision
<1>8. x \in Nat /\ Window \in Nat \ {0} /\ a * a < L
  BY <1>7, StrategyAssumption DEF Short
<1>9. a \in Nat /\ b \in Nat /\ a < L /\ b < L
  <2> HIDE DEF x
  <2>1. a \in Nat /\ b <= a * a /\ a * a \in Nat
    BY <1>8, SquareGrows
  <2>2. b \in Nat
    BY <1>8
  <2>3. L \in Nat
    BY Mantissas
  <2> HIDE DEF a, b, L
  <2>4. a <= a * a
    BY <1>8, <2>1, SquareGrows
  <2> DEFINE c == a * a
  <2>5. b <= c /\ a <= c /\ c < L /\ c \in Nat
    BY <1>8, <2>1, <2>4
  <2> HIDE DEF c
  <2> QED BY <2>1, <2>2, <2>3, <2>5
<1>10. Ulp(a) = 1 /\ Ulp(b) = 1
  <2> HIDE DEF a, b
  <2>1. Abs(a) = a /\ Abs(b) = b
    BY <1>9 DEF Abs
  <2> QED BY <1>9, <2>1, UlpExact DEF L
<1>11. SumError(k) = 0 /\ SquaresError(k) = 0
  <2>1. SumError(k) = Cardinality(own) * (Ulp(a) - 1) /\ SquaresError(k) = Cardinality(own) * (Ulp(b) - 1)
    BY DEF SumError, SquaresError
  <2> HIDE DEF own, a, b
  <2>2. Cardinality(own) * (1 - 1) = 0
    BY <1>6
  <2> QED BY <1>10, <2>1, <2>2
<1>12. s.rolling_sum = SumFunction(s.mids) /\ s.rolling_sq_sum = SumFunction(squares)
  BY <1>5 DEF SumsExact
<1>13. s.rolling_sum \in Int /\ s.rolling_sq_sum \in Int
  <2>1. Lookup(ticks[k].symbol) \in Slots
    <3>1. Known(ticks[k].symbol) # {}
      BY <1>1, <1>2 DEF SeenInv
    <3>2. Candidates(ticks[k].symbol) # {}
      BY <3>1 DEF Candidates
    <3> QED BY <3>2, LookupAnswers
  <2>2. SlotInv(s)
    BY <1>1, <2>1 DEF StrategyInv, SlotOf
  <2> HIDE DEF s
  <2> QED BY <1>5, <2>2, SumsSmall DEF SumsKnown
<1> HIDE DEF s, squares, own, x, mids, a, b, L
<1>14. /\ Abs(s.rolling_sum - SumFunction(s.mids)) <= SumError(k)
       /\ Abs(s.rolling_sq_sum - SumFunction(squares)) <= SquaresError(k)
  BY <1>11, <1>12, <1>13 DEF Abs
<1> QED BY <1>14 DEF s, squares

\* The rounding errors of the rolling sums, which are never computed afresh, grow by less
\* than a unit in the last place per tick of the symbol, for ever: in any file of prices that
\* are not negative, that leave room for the errors in the mantissa, and whose names are too
\* long for a string's own buffer; and there is no error at all in files of short prices,
\* whatever the names are.
THEOREM ReplaySumsBounded ==
  Spec => [](Exact(file) \/ (LongNames /\ SumsHaveRoom) => RollingSumsBounded)
<1>1. ASSUME ReplayInv, LongNames, SumsHaveRoom, NEW k \in Latest PROVE SumsWithin(k)
  <2>1. BooksInv /\ RoundedInv /\ LoaderInv
    BY <1>1 DEF ReplayInv, BooksInv
  <2>2. k \in 1 .. next /\ next \in 0 .. Len(ticks) /\ ticks \in Seq(TickType)
        /\ Len(ticks) <= Len(file) /\ file \in Seq(Rows)
    BY <1>1, <2>1, FileIs DEF Latest, BooksInv, EngineInv, LoaderInv, TickType
  <2>3. k \in 1 .. Len(file)
    BY <2>2
  <2>4. file[k].symbol \notin ShortNames
    BY <1>1, <2>1, <2>3, NoShortName
  <2> QED BY <1>1, <2>1, <2>4 DEF RoundedInv
<1>2. ReplayInv => (Exact(file) \/ (LongNames /\ SumsHaveRoom) => RollingSumsBounded)
  BY <1>1, ExactSumsBounded DEF RollingSumsBounded
<1> QED BY <1>2, ReplayInvariant, PTL

\* A tick that lies on a threshold, where rounding decides, is the only one at which the
\* program leaves the specified strategy, and it is back with it from the next clear exit of
\* the symbol on: in any file of prices that leave room for the errors of the sums and of the
\* values of the decisions, or that are short, and whose names are too long for a string's
\* own buffer.
THEOREM ReplayHeals ==
  ASSUME LongNames
  PROVE  Spec => [](Exact(file) \/ (SumsHaveRoom /\ DecisionsHaveRoom) => RoundingHeals)
<1>1. ReplayInv => (Exact(file) \/ (SumsHaveRoom /\ DecisionsHaveRoom) => RoundingHeals)
  <2> SUFFICES ASSUME ReplayInv, Exact(file) \/ (SumsHaveRoom /\ DecisionsHaveRoom),
                      status \in {"replay", "done"}, pending = <<>>, NEW k \in Latest, Settled(k)
               PROVE  SlotOf(k).position = Reached[file[k].symbol]
    BY DEF RoundingHeals, Reached
  <2>1. BooksInv /\ ExactInv /\ RoundedInv /\ LoaderInv /\ StrategyInv /\ SeenInv /\ EngineInv /\ OrdersInv
    BY DEF ReplayInv, BooksInv
  <2>2. k \in 1 .. next /\ next \in 0 .. Len(ticks) /\ ticks \in Seq(TickType)
        /\ file \in Seq(Rows) /\ Len(ticks) <= Len(file)
    BY <2>1, FileIs DEF Latest, EngineInv, LoaderInv, TickType
  <2>3. k \in 1 .. Len(file)
    BY <2>2
  <2>4. file[k].symbol \in Symbols \ ShortNames
    <3>1. file[k] \in Rows
      BY <2>2, <2>3
    <3>2. file[k].symbol \notin ShortNames
      BY <2>1, <2>3, NoShortName
    <3> QED BY <3>1, <3>2 DEF Rows
  <2>5. SlotOf(k).position + Owed(ticks[k].symbol) = Net(file[k].symbol)
    BY <2>1, <2>2, <2>4 DEF OrdersInv
  <2>6. Owed(ticks[k].symbol) = 0
    BY DEF Owed
  <2>7. Net(file[k].symbol) = Reached[file[k].symbol]
    <3>1. CASE Exact(file)
      BY <2>1, <2>4, <3>1, ExactInvIs DEF Shown, NetsReached
    <3>2. CASE SumsHaveRoom /\ DecisionsHaveRoom
      BY <2>1, <2>4, <3>2 DEF RoundedInv, Reached
    <3> QED BY <3>1, <3>2
  <2>8. SlotOf(k).position \in Int
    <3>1. Known(ticks[k].symbol) # {}
      BY <2>1, <2>2 DEF SeenInv
    <3>2. Candidates(ticks[k].symbol) # {}
      BY <3>1 DEF Candidates
    <3>3. Lookup(ticks[k].symbol) \in Slots
      BY <3>2, LookupAnswers
    <3> QED BY <2>1, <3>3 DEF StrategyInv, SlotInv, SlotOf
  <2> QED BY <2>5, <2>6, <2>7, <2>8
<1> QED BY <1>1, ReplayInvariant, PTL
=============================================================================
