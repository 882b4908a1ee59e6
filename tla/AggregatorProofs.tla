-------------------------- MODULE AggregatorProofs --------------------------
(***************************************************************************)
(* The parallel aggregator loses no update and counts every tick, for      *)
(* every number of threads, streams and symbols, as long as the partial    *)
(* tables have a row for every symbol; and it then implements the          *)
(* sequential reduction when no price is negative.                         *)
(***************************************************************************)
EXTENDS Aggregator, DataLemmas, SequenceTheorems

-----------------------------------------------------------------------------
(* The chunks.                                                             *)

\* Division by a positive number is monotone.
LEMMA DivMonotone ==
  ASSUME NEW m \in Nat \ {0}, NEW a \in Nat, NEW b \in Nat, a <= b
  PROVE  a \div m \in Nat /\ a \div m <= b \div m
<1> DEFINE p == a \div m
           q == b \div m
<1>1. /\ p \in Int /\ q \in Int
      /\ m * p <= a /\ a < m * p + m /\ m * q <= b /\ b < m * q + m
  OBVIOUS
<1> HIDE DEF p, q
<1>2. p >= 0
  <2>1. p < 0 => m * p + m <= 0
    BY <1>1
  <2> QED BY <1>1, <2>1
<1>3. p <= q
  <2>1. p > q => m * p >= m * q + m
    BY <1>1
  <2> QED BY <1>1, <2>1
<1> QED BY <1>2, <1>3 DEF p, q

\* The chunks follow each other from the first tick to the last.
LEMMA Chunks ==
  ASSUME NEW n \in Nat
  PROVE  /\ \A t \in 0 .. THREADS : Start(n, t) \in 0 .. n
         /\ \A t \in Workers : Start(n, t) <= Start(n, t + 1)
         /\ Start(n, 0) = 0 /\ Start(n, THREADS) = n
<1>1. THREADS \in Nat \ {0}
  BY ThreadsAssumption
<1>2. Start(n, THREADS) = n
  <2>1. (n * THREADS) \div THREADS = n
    BY <1>1
  <2> QED BY <2>1 DEF Start
<1>3. Start(n, 0) = 0
  <2>1. n * 0 = 0
    OBVIOUS
  <2>2. 0 \div THREADS = 0
    BY <1>1
  <2> QED BY <2>1, <2>2 DEF Start
<1>4. \A t \in 0 .. THREADS : Start(n, t) \in 0 .. n
  <2> SUFFICES ASSUME NEW t \in 0 .. THREADS PROVE Start(n, t) \in 0 .. n
    OBVIOUS
  <2>1. n * t \in Nat /\ n * THREADS \in Nat /\ n * t <= n * THREADS
    BY <1>1
  <2>2. (n * t) \div THREADS \in Nat /\ (n * t) \div THREADS <= (n * THREADS) \div THREADS
    BY <1>1, <2>1, DivMonotone
  <2> QED BY <1>2, <2>2 DEF Start
<1>5. \A t \in Workers : Start(n, t) <= Start(n, t + 1)
  <2> SUFFICES ASSUME NEW t \in Workers PROVE Start(n, t) <= Start(n, t + 1)
    OBVIOUS
  <2>1. t \in Nat
    BY <1>1 DEF Workers
  <2>2. n * t \in Nat /\ n * (t + 1) \in Nat /\ n * t <= n * (t + 1)
    BY <2>1
  <2> QED BY <1>1, <2>2, DivMonotone DEF Start
<1> QED BY <1>2, <1>3, <1>4, <1>5

\* Different workers and symbols have different rows, when a table has a row for every
\* symbol.
LEMMA RowsDistinct ==
  ASSUME NumSymbols <= TableSize,
         NEW t \in Workers, NEW u \in Workers, NEW s \in Symbols, NEW r \in Symbols,
         Address(t, s) = Address(u, r)
  PROVE  t = u /\ s = r
<1>1. /\ t \in Nat /\ u \in Nat /\ s \in Nat /\ r \in Nat /\ TableSize \in Nat \ {0}
      /\ s < TableSize /\ r < TableSize
  BY TableAssumption, ThreadsAssumption DEF Workers, Symbols
<1>2. t * TableSize + s = u * TableSize + r
  BY DEF Address
<1>3. ASSUME NEW a \in Nat, NEW b \in Nat, a < b
      PROVE  a * TableSize + TableSize <= b * TableSize
  <2>1. (a + 1) * TableSize <= b * TableSize
    BY <1>1, <1>3
  <2>2. (a + 1) * TableSize = a * TableSize + TableSize
    BY <1>1
  <2> QED BY <2>1, <2>2
<1>4. t * TableSize \in Nat /\ u * TableSize \in Nat
  BY <1>1
<1>5. ~ (t < u)
  BY <1>1, <1>2, <1>3, <1>4
<1>6. ~ (u < t)
  BY <1>1, <1>2, <1>3, <1>4
<1> QED BY <1>1, <1>2, <1>4, <1>5, <1>6

-----------------------------------------------------------------------------
(* Types.                                                                  *)

\* The input of a call is a sequence of ticks.
LEMMA InputType ==
  ASSUME TypeOK
  PROVE  ticks \in Seq(Tick) /\ Len(ticks) \in Nat
<1>1. <<>> \in Seq(Tick)
  OBVIOUS
<1>2. ticks \in Seq(Tick)
  BY <1>1, StreamsAssumption DEF TypeOK
<1> QED BY <1>2

\* The chunk of a worker lies within the input.
LEMMA ChunkOf ==
  ASSUME TypeOK, NEW t \in Workers
  PROVE  /\ Start(Len(ticks), t) \in Nat /\ Start(Len(ticks), t + 1) \in Nat
         /\ Start(Len(ticks), t) <= Start(Len(ticks), t + 1)
         /\ Start(Len(ticks), t + 1) <= Len(ticks) /\ Len(ticks) \in Nat
<1>1. Len(ticks) \in Nat
  BY InputType
<1>2. t + 1 \in 0 .. THREADS /\ t \in 0 .. THREADS
  BY ThreadsAssumption DEF Workers
<1>3. /\ Start(Len(ticks), t) \in 0 .. Len(ticks) /\ Start(Len(ticks), t + 1) \in 0 .. Len(ticks)
      /\ Start(Len(ticks), t) <= Start(Len(ticks), t + 1)
  BY <1>1, <1>2, Chunks
<1> QED BY <1>1, <1>3

\* The fields of a tick.
LEMMA TickType ==
  ASSUME NEW tick \in Tick
  PROVE  tick.symbol \in Symbols /\ tick.price \in Int /\ tick.qty \in Nat
         /\ tick.price <= Infinity
BY StreamsAssumption, TableAssumption DEF Tick, Symbols

\* Adding a tick to a row gives a row.
LEMMA AddedType ==
  ASSUME NEW r \in Row, NEW tick \in Tick
  PROVE  Added(r, tick) \in Row
<1>1. /\ r.count \in Nat /\ r.sum_price \in Int /\ r.min_price \in Int /\ r.max_price \in Int
      /\ r.sum_qty \in Nat
  BY DEF Row
<1>2. /\ r.count + 1 \in Nat /\ r.sum_price + tick.price \in Int /\ r.sum_qty + tick.qty \in Nat
  BY <1>1, TickType
<1> QED BY <1>1, <1>2, TickType DEF Added, Row

\* The seed is a row.
LEMMA SeedType == SeedRow \in Row
BY StreamsAssumption DEF SeedRow, Row

\* A worker that has read a row is at a tick of the input, and the row exists.
LEMMA TickAt ==
  ASSUME TypeOK, Progress, NEW t \in Workers,
         worker[t] = "write" \/ (worker[t] = "read" /\ pos[t] # Start(Len(ticks), t + 1))
  PROVE  /\ pos[t] + 1 \in 1 .. Len(ticks) /\ pos[t] < Start(Len(ticks), t + 1)
         /\ ticks[pos[t] + 1] \in Tick
         /\ RowOfTick(t) \in Addresses
<1>1. ticks \in Seq(Tick) /\ Len(ticks) \in Nat
  BY InputType
<1>2. t + 1 \in 0 .. THREADS /\ t \in 0 .. THREADS
  BY ThreadsAssumption DEF Workers
<1>3. /\ Start(Len(ticks), t) \in 0 .. Len(ticks) /\ Start(Len(ticks), t + 1) \in 0 .. Len(ticks)
      /\ pos[t] \in Start(Len(ticks), t) .. Start(Len(ticks), t + 1)
      /\ pos[t] # Start(Len(ticks), t + 1)
  BY <1>1, <1>2, Chunks DEF Progress
<1>4. pos[t] + 1 \in 1 .. Len(ticks) /\ pos[t] < Start(Len(ticks), t + 1)
  BY <1>1, <1>3
<1>5. ticks[pos[t] + 1] \in Tick
  BY <1>1, <1>4
<1>6. ticks[pos[t] + 1].symbol \in Symbols
  BY <1>5, TickType
<1> QED BY <1>4, <1>5, <1>6 DEF RowOfTick, Addresses

-----------------------------------------------------------------------------
(* The parts of the invariant, one lemma each.                             *)

\* The initial state is typed.
LEMMA InitTypes == Init => TypeOK
<1> SUFFICES ASSUME Init PROVE TypeOK
  OBVIOUS
<1>1. started \in 0 .. THREADS /\ runs \in 0 .. Runs
  BY ThreadsAssumption, RunsAssumption DEF Init
<1> QED BY <1>1, SeedType DEF Init, TypeOK

\* Every step keeps the variables within their types.
LEMMA KeepsTypes ==
  ASSUME TypeOK, Progress, [Next]_vars
  PROVE  TypeOK'
<1>1. CASE \E stream \in Streams : Run(stream)
  <2>1. PICK stream \in Streams : Run(stream)
    BY <1>1
  <2>2. \A t \in Workers : worker'[t] = "none"
    BY <2>1 DEF Run, Progress
  <2>3. runs' \in 0 .. Runs /\ started' \in 0 .. THREADS
    BY <2>1, RunsAssumption, ThreadsAssumption DEF Run, TypeOK
  <2> QED BY <2>1, <2>2, <2>3, SeedType DEF Run, TypeOK
<1>2. CASE StartWorker
  <2>1. started \in Workers /\ started + 1 \in 0 .. THREADS
    BY <1>2, ThreadsAssumption DEF StartWorker, TypeOK, Workers
  <2>2. /\ Start(Len(ticks), started) \in Nat /\ Len(ticks) \in Nat
        /\ Start(Len(ticks), started) <= Len(ticks)
    BY <2>1, ChunkOf
  <2>3. \A t \in Workers : worker'[t] # "none" => pos'[t] <= Len(ticks)
    BY <1>2, <2>1, <2>2 DEF StartWorker, TypeOK
  <2> QED BY <1>2, <2>1, <2>2, <2>3 DEF StartWorker, TypeOK
<1>3. CASE Join
  BY <1>3 DEF Join, TypeOK
<1>4. CASE Merge
  BY <1>4 DEF Merge, TypeOK
<1>5. CASE \E t \in Workers : ReadRow(t)
  <2>1. PICK t \in Workers : ReadRow(t)
    BY <1>5
  <2>2. RowOfTick(t) \in Addresses
    BY <2>1, TickAt DEF ReadRow
  <2>3. partials_[RowOfTick(t)] \in Row
    BY <2>2 DEF TypeOK
  <2> QED BY <2>1, <2>3 DEF ReadRow, TypeOK
<1>6. CASE \E t \in Workers : WriteRow(t)
  <2>1. PICK t \in Workers : WriteRow(t)
    BY <1>6
  <2>2. pos[t] + 1 \in 1 .. Len(ticks) /\ ticks[pos[t] + 1] \in Tick
    BY <2>1, TickAt DEF WriteRow
  <2>3. Added(row[t], ticks[pos[t] + 1]) \in Row
    BY <2>2, AddedType DEF TypeOK
  <2>4. \A u \in Workers : worker'[u] # "none" => pos'[u] <= Len(ticks)
    BY <2>1, <2>2 DEF WriteRow, TypeOK
  <2>5. pos' \in [Workers -> Nat]
    BY <2>1 DEF WriteRow, TypeOK
  <2> QED BY <2>1, <2>3, <2>4, <2>5 DEF WriteRow, TypeOK
<1>7. CASE \E t \in Workers : Exit(t)
  BY <1>7 DEF Exit, TypeOK
<1>8. CASE Terminated \/ UNCHANGED vars
  BY <1>8 DEF Terminated, vars, TypeOK
<1> QED BY <1>1, <1>2, <1>3, <1>4, <1>5, <1>6, <1>7, <1>8 DEF Next, Caller, Work

\* Every step keeps the caller and the workers where Progress says they are.
LEMMA KeepsProgress ==
  ASSUME TypeOK, Progress, [Next]_vars
  PROVE  Progress'
<1>0. /\ Workers \in SUBSET Nat /\ (\A t \in Workers : t < THREADS)
      /\ THREADS \in Nat \ {0} /\ started \in Nat
  BY ThreadsAssumption DEF Workers, TypeOK
<1>1. CASE \E stream \in Streams : Run(stream)
  <2>1. PICK stream \in Streams : Run(stream)
    BY <1>1
  <2>2. \A t \in Workers : worker'[t] = "none"
    BY <2>1 DEF Run, Progress
  <2> QED BY <1>0, <2>1, <2>2 DEF Run, Progress
<1>2. CASE StartWorker
  <2>1. started \in Workers /\ started + 1 \in 0 .. THREADS
    BY <1>2, ThreadsAssumption DEF StartWorker, TypeOK, Workers
  <2>2. /\ Start(Len(ticks), started) \in Nat /\ Start(Len(ticks), started + 1) \in Nat
        /\ Start(Len(ticks), started) <= Start(Len(ticks), started + 1)
    BY <2>1, ChunkOf
  <2>3. \A t \in Workers : worker'[t] # "none" =>
                              pos'[t] \in Start(Len(ticks), t) .. Start(Len(ticks), t + 1)
    BY <1>2, <2>1, <2>2 DEF StartWorker, Progress, TypeOK
  <2>4. \A t \in Workers : worker'[t] = "none" <=> t >= started + 1
    BY <1>0, <1>2, <2>1 DEF StartWorker, Progress, TypeOK
  <2>5. /\ \A t \in Workers : worker'[t] \in {"write", "exited"} => t # started
        /\ \A t \in Workers : t # started => worker'[t] = worker[t] /\ pos'[t] = pos[t]
    BY <1>2, <2>1 DEF StartWorker, TypeOK
  <2>6. /\ ticks' = ticks /\ started' = started + 1 /\ main = "start"
        /\ main' = IF started + 1 = THREADS THEN "join" ELSE "start"
    BY <1>2 DEF StartWorker
  <2>7. /\ main' = "start" => started' < THREADS
        /\ main' = "join" => \A t \in Workers : worker'[t] # "none"
        /\ main' \in {"join", "merge"} => started' = THREADS
    BY <1>0, <2>1, <2>4, <2>6
  <2>8. \A t \in Workers :
          /\ worker'[t] = "write" => pos'[t] # Start(Len(ticks), t + 1)
          /\ worker'[t] = "exited" => pos'[t] = Start(Len(ticks), t + 1)
    BY <2>5, <2>6 DEF Progress
  <2> QED BY <2>3, <2>4, <2>6, <2>7, <2>8 DEF Progress
<1>3. CASE Join
  BY <1>3 DEF Join, Progress
<1>4. CASE Merge
  BY <1>4 DEF Merge, Progress
<1>5. CASE \E t \in Workers : ReadRow(t) \/ Exit(t)
  BY <1>5 DEF ReadRow, Exit, Progress, TypeOK
<1>6. CASE \E t \in Workers : WriteRow(t)
  <2>1. PICK t \in Workers : WriteRow(t)
    BY <1>6
  <2>2. pos[t] < Start(Len(ticks), t + 1)
    BY <2>1, TickAt DEF WriteRow
  <2>3. /\ Start(Len(ticks), t) \in Nat /\ Start(Len(ticks), t + 1) \in Nat
    BY ChunkOf
  <2>4. pos'[t] \in Start(Len(ticks), t) .. Start(Len(ticks), t + 1)
    BY <2>1, <2>2, <2>3 DEF WriteRow, Progress, TypeOK
  <2>5. main \in {"start", "join"}
    BY <2>1 DEF WriteRow, Progress, TypeOK
  <2>6. /\ UNCHANGED <<main, started, ticks>>
        /\ worker'[t] = "read" /\ worker[t] = "write"
        /\ \A u \in Workers : u # t => worker'[u] = worker[u] /\ pos'[u] = pos[u]
    BY <2>1 DEF WriteRow, TypeOK
  <2> QED BY <2>4, <2>5, <2>6 DEF Progress
<1>8. CASE Terminated \/ UNCHANGED vars
  BY <1>8 DEF Terminated, vars, Progress
<1> QED BY <1>1, <1>2, <1>3, <1>4, <1>5, <1>6, <1>8 DEF Next, Caller, Work

\* With a row for every symbol, no worker writes a row another one has read.
LEMMA KeepsUpdates ==
  ASSUME NumSymbols <= TableSize, TypeOK, Progress, NoLostUpdate, [Next]_vars
  PROVE  NoLostUpdate'
<1>1. CASE \E stream \in Streams : Run(stream)
  BY <1>1 DEF Run, Progress, NoLostUpdate
<1>2. CASE StartWorker
  BY <1>2 DEF StartWorker, NoLostUpdate, TypeOK, RowOfTick
<1>3. CASE Join \/ Merge
  BY <1>3 DEF Join, Merge, NoLostUpdate, RowOfTick
<1>4. CASE \E t \in Workers : ReadRow(t) \/ Exit(t)
  BY <1>4 DEF ReadRow, Exit, NoLostUpdate, TypeOK, RowOfTick
<1>5. CASE \E t \in Workers : WriteRow(t)
  <2>1. PICK t \in Workers : WriteRow(t)
    BY <1>5
  <2>2. SUFFICES ASSUME NEW u \in Workers, worker'[u] = "write"
                 PROVE  row'[u] = partials_'[RowOfTick(u)']
    BY DEF NoLostUpdate
  <2>3. u # t /\ worker[u] = "write" /\ row'[u] = row[u] /\ RowOfTick(u)' = RowOfTick(u)
    BY <2>1, <2>2 DEF WriteRow, TypeOK, RowOfTick
  <2>4. row[u] = partials_[RowOfTick(u)]
    BY <2>3 DEF NoLostUpdate
  <2>5. /\ ticks[pos[u] + 1].symbol \in Symbols /\ ticks[pos[t] + 1].symbol \in Symbols
        /\ RowOfTick(u) \in Addresses
    BY <2>1, <2>3, TickAt, TickType DEF WriteRow
  <2>6. RowOfTick(u) # RowOfTick(t)
    BY <2>3, <2>5, RowsDistinct DEF RowOfTick
  <2>7. partials_'[RowOfTick(u)] = partials_[RowOfTick(u)]
    BY <2>1, <2>5, <2>6 DEF WriteRow, TypeOK
  <2> QED BY <2>3, <2>4, <2>7
<1>8. CASE Terminated \/ UNCHANGED vars
  BY <1>8 DEF Terminated, vars, NoLostUpdate, RowOfTick
<1> QED BY <1>1, <1>2, <1>3, <1>4, <1>5, <1>8 DEF Next, Caller, Work

-----------------------------------------------------------------------------
(* Rows over a part of a stream.                                           *)

PriceOf(stream) == [i \in DOMAIN stream |-> stream[i].price]
QtyOf(stream) == [i \in DOMAIN stream |-> stream[i].qty]

\* Prices and quantities are integers.
LEMMA TickValues ==
  ASSUME NEW stream \in Seq(Tick), NEW i \in DOMAIN stream
  PROVE  /\ PriceOf(stream)[i] = stream[i].price /\ PriceOf(stream)[i] \in Int
         /\ QtyOf(stream)[i] = stream[i].qty /\ QtyOf(stream)[i] \in Int
<1>1. stream[i] \in Tick
  OBVIOUS
<1>2. stream[i].price \in Int /\ stream[i].qty \in Int
  BY <1>1, TickType
<1> QED BY <1>2 DEF PriceOf, QtyOf

\* What a row over a part of a stream holds.
LEMMA RowIs ==
  ASSUME NEW stream \in Seq(Tick), NEW own \in SUBSET DOMAIN stream, IsFiniteSet(own)
  PROVE  RowOver(stream, own) =
           [count |-> Cardinality(own),
            sum_price |-> SumOver(PriceOf(stream), own),
            min_price |-> Min({Infinity} \cup {PriceOf(stream)[i] : i \in own}),
            max_price |-> Max({0} \cup {PriceOf(stream)[i] : i \in own}),
            sum_qty |-> SumOver(QtyOf(stream), own)]
<1> DEFINE price == [i \in own |-> stream[i].price]
           qty == [i \in own |-> stream[i].qty]
<1>1. \A i \in own : /\ PriceOf(stream)[i] = stream[i].price
                      /\ price[i] = PriceOf(stream)[i] /\ qty[i] = QtyOf(stream)[i]
  BY DEF PriceOf, QtyOf
<1>2. MapThenSumSet(LAMBDA i : stream[i].price, own) = SumOver(price, own)
  BY DEF SumOver, MapThenSumSet, MapThenFoldSet
<1>3. MapThenSumSet(LAMBDA i : stream[i].qty, own) = SumOver(qty, own)
  BY DEF SumOver, MapThenSumSet, MapThenFoldSet
<1>4. SumOver(price, own) = SumOver(PriceOf(stream), own)
  <2> HIDE DEF price
  <2> QED BY <1>1, SumSame
<1>5. SumOver(qty, own) = SumOver(QtyOf(stream), own)
  <2> HIDE DEF qty
  <2> QED BY <1>1, SumSame
<1>6. {stream[i].price : i \in own} = {PriceOf(stream)[i] : i \in own}
  BY <1>1
<1> QED BY <1>2, <1>3, <1>4, <1>5, <1>6 DEF RowOver

\* The row of no ticks is the seed.
LEMMA RowEmpty ==
  ASSUME NEW stream \in Seq(Tick)
  PROVE  RowOver(stream, {}) = SeedRow
<1>1. Min({Infinity} \cup {PriceOf(stream)[i] : i \in {}}) = Infinity
  BY StreamsAssumption DEF Min
<1>2. Max({0} \cup {PriceOf(stream)[i] : i \in {}}) = 0
  BY DEF Max
<1>3. IsFiniteSet({}) /\ Cardinality({}) = 0
  BY FS_EmptySet
<1>4. SumOver(PriceOf(stream), {}) = 0 /\ SumOver(QtyOf(stream), {}) = 0
  BY SumEmpty
<1>5. {} \in SUBSET DOMAIN stream
  OBVIOUS
<1> QED BY <1>1, <1>2, <1>3, <1>4, <1>5, RowIs DEF SeedRow

\* The prices of a part of a stream, with a number besides, are finitely many integers.
LEMMA PriceSet ==
  ASSUME NEW stream \in Seq(Tick), NEW own \in SUBSET DOMAIN stream, IsFiniteSet(own),
         NEW z \in Int
  PROVE  /\ {z} \cup {PriceOf(stream)[i] : i \in own} \in SUBSET Int
         /\ IsFiniteSet({z} \cup {PriceOf(stream)[i] : i \in own})
         /\ {z} \cup {PriceOf(stream)[i] : i \in own} # {}
<1> DEFINE f == PriceOf(stream)
           T == {f[i] : i \in own}
<1>1. \A i \in own : f[i] \in Int
  BY TickValues
<1> HIDE DEF f
<1>2. IsFiniteSet(T) /\ T \in SUBSET Int
  BY <1>1, FiniteImage
<1> HIDE DEF T
<1>3. IsFiniteSet(T \cup {z})
  BY <1>2, FS_AddElement
<1>4. T \cup {z} = {z} \cup T
  OBVIOUS
<1>5. {z} \cup T \in SUBSET Int /\ IsFiniteSet({z} \cup T) /\ {z} \cup T # {}
  BY <1>2, <1>3, <1>4
<1> QED BY <1>5 DEF T, f

\* One more tick changes a row as process_chunk does.
LEMMA RowMore ==
  ASSUME NEW stream \in Seq(Tick), NEW own \in SUBSET DOMAIN stream, IsFiniteSet(own),
         NEW x \in DOMAIN stream, x \notin own
  PROVE  RowOver(stream, own \cup {x}) = Added(RowOver(stream, own), stream[x])
<1> DEFINE f == PriceOf(stream)
           g == QtyOf(stream)
           more == own \cup {x}
           lows == {Infinity} \cup {f[i] : i \in own}
           highs == {0} \cup {f[i] : i \in own}
<1>1. (\A i \in own : f[i] \in Int /\ g[i] \in Int) /\ f[x] \in Int /\ g[x] \in Int
  BY TickValues
<1>2. f[x] = stream[x].price /\ g[x] = stream[x].qty
  BY TickValues
<1>3. more \in SUBSET DOMAIN stream /\ IsFiniteSet(more) /\ Cardinality(more) = Cardinality(own) + 1
  BY FS_AddElement
<1>4. /\ lows \in SUBSET Int /\ IsFiniteSet(lows) /\ lows # {}
      /\ highs \in SUBSET Int /\ IsFiniteSet(highs) /\ highs # {}
  <2>1. Infinity \in Int /\ 0 \in Int
    BY StreamsAssumption
  <2>2. lows \in SUBSET Int /\ IsFiniteSet(lows) /\ lows # {}
    BY <2>1, PriceSet
  <2>3. highs \in SUBSET Int /\ IsFiniteSet(highs) /\ highs # {}
    BY <2>1, PriceSet
  <2> QED BY <2>2, <2>3
<1>5. RowOver(stream, own) =
        [count |-> Cardinality(own), sum_price |-> SumOver(f, own), min_price |-> Min(lows),
         max_price |-> Max(highs), sum_qty |-> SumOver(g, own)]
  BY RowIs
<1>6. RowOver(stream, more) =
        [count |-> Cardinality(more), sum_price |-> SumOver(f, more),
         min_price |-> Min({Infinity} \cup {f[i] : i \in more}),
         max_price |-> Max({0} \cup {f[i] : i \in more}), sum_qty |-> SumOver(g, more)]
  BY <1>3, RowIs
<1> HIDE DEF f, g
<1>7. {Infinity} \cup {f[i] : i \in more} = lows \cup {f[x]}
  OBVIOUS
<1>8. {0} \cup {f[i] : i \in more} = highs \cup {f[x]}
  OBVIOUS
<1>9. SumOver(f, more) = SumOver(f, own) + f[x] /\ SumOver(g, more) = SumOver(g, own) + g[x]
  BY <1>1, SumAdd
<1> HIDE DEF more, lows, highs
<1>10. Min(lows \cup {f[x]}) = IF f[x] < Min(lows) THEN f[x] ELSE Min(lows)
  BY <1>1, <1>4, MinMore
<1>11. Max(highs \cup {f[x]}) = IF f[x] > Max(highs) THEN f[x] ELSE Max(highs)
  BY <1>1, <1>4, MaxMore
<1>12. RowOver(stream, more) = Added(RowOver(stream, own), stream[x])
  <2> DEFINE R == RowOver(stream, own)
  <2>1. RowOver(stream, more) =
          [count |-> Cardinality(own) + 1, sum_price |-> SumOver(f, own) + f[x],
           min_price |-> IF f[x] < Min(lows) THEN f[x] ELSE Min(lows),
           max_price |-> IF f[x] > Max(highs) THEN f[x] ELSE Max(highs),
           sum_qty |-> SumOver(g, own) + g[x]]
    BY <1>3, <1>6, <1>7, <1>8, <1>9, <1>10, <1>11
  <2>2. /\ R.count = Cardinality(own) /\ R.sum_price = SumOver(f, own)
        /\ R.min_price = Min(lows) /\ R.max_price = Max(highs) /\ R.sum_qty = SumOver(g, own)
    BY <1>5
  <2> HIDE DEF R
  <2>3. RowOver(stream, more) =
          [count |-> R.count + 1, sum_price |-> R.sum_price + stream[x].price,
           min_price |-> IF stream[x].price < R.min_price THEN stream[x].price ELSE R.min_price,
           max_price |-> IF stream[x].price > R.max_price THEN stream[x].price ELSE R.max_price,
           sum_qty |-> R.sum_qty + stream[x].qty]
    BY <1>2, <2>1, <2>2
  <2> QED BY <2>3 DEF Added, R
<1> QED BY <1>12 DEF more

\* The ticks of a symbol in a part of a stream, and what one more tick adds to them.
LEMMA OwnTicks ==
  ASSUME NEW stream \in Seq(Tick), NEW s, NEW from \in Nat, NEW to \in 0 .. Len(stream)
  PROVE  /\ Own(stream, s, from, to) \in SUBSET DOMAIN stream
         /\ IsFiniteSet(Own(stream, s, from, to))
<1>1. IsFiniteSet(from + 1 .. to)
  BY FS_Interval
<1>2. Own(stream, s, from, to) \subseteq from + 1 .. to
  BY DEF Own
<1>3. DOMAIN stream = 1 .. Len(stream) /\ Len(stream) \in Nat
  OBVIOUS
<1> QED BY <1>1, <1>2, <1>3, FS_Subset

\* One more tick joins the ticks of its symbol and of no other.
LEMMA OwnMore ==
  ASSUME NEW stream, NEW s, NEW from \in Nat, NEW p \in Nat, from <= p
  PROVE  /\ p + 1 \notin Own(stream, s, from, p)
         /\ stream[p + 1].symbol = s =>
              Own(stream, s, from, p + 1) = Own(stream, s, from, p) \cup {p + 1}
         /\ stream[p + 1].symbol # s => Own(stream, s, from, p + 1) = Own(stream, s, from, p)
<1>1. from + 1 .. p + 1 = (from + 1 .. p) \cup {p + 1} /\ p + 1 \notin from + 1 .. p
  OBVIOUS
<1> QED BY <1>1 DEF Own

\* With a row for every symbol, every step keeps the partial tables those of the ticks the
\* workers have gone through.
LEMMA KeepsTables ==
  ASSUME NumSymbols <= TableSize, TypeOK, Progress, NoLostUpdate, PartialTables, [Next]_vars
  PROVE  PartialTables'
<1>0. Workers \in SUBSET Nat /\ started \in Nat /\ \A t \in Workers : t < THREADS
  BY ThreadsAssumption DEF Workers, TypeOK
<1>1. CASE \E stream \in Streams : Run(stream)
  <2>1. PICK stream \in Streams : Run(stream)
    BY <1>1
  <2>2. SUFFICES ASSUME NEW t \in Workers, NEW s \in Symbols
                 PROVE  partials_'[Address(t, s)] =
                          RowOver(ticks', Own(ticks', s, Start(Len(ticks'), t), Reached(t)'))
    BY DEF PartialTables
  <2>3. ticks' = stream /\ stream \in Seq(Tick) /\ Len(stream) \in Nat
    BY <2>1, StreamsAssumption DEF Run
  <2>4. Reached(t)' = Start(Len(stream), t)
    BY <1>0, <2>1, <2>3 DEF Run, Reached
  <2>5. t \in 0 .. THREADS
    BY ThreadsAssumption DEF Workers
  <2>6. Start(Len(stream), t) \in Nat
    BY <2>3, <2>5, Chunks
  <2>7. Own(stream, s, Start(Len(stream), t), Start(Len(stream), t)) = {}
    BY <2>6 DEF Own
  <2>8. partials_'[Address(t, s)] = SeedRow
    BY <2>1 DEF Run, Addresses
  <2> QED BY <2>3, <2>4, <2>7, <2>8, RowEmpty
<1>2. CASE StartWorker
  <2>1. ASSUME NEW t \in Workers PROVE Reached(t)' = Reached(t)
    BY <1>0, <1>2 DEF StartWorker, Reached, TypeOK
  <2>2. main = "start" /\ UNCHANGED <<ticks, partials_>>
    BY <1>2 DEF StartWorker
  <2> QED BY <2>1, <2>2 DEF PartialTables
<1>3. CASE Join \/ Merge \/ \E t \in Workers : ReadRow(t) \/ Exit(t)
  BY <1>3 DEF Join, Merge, ReadRow, Exit, PartialTables, Reached
<1>4. CASE \E t \in Workers : WriteRow(t)
  <2>1. PICK t \in Workers : WriteRow(t)
    BY <1>4
  <2>2. /\ pos[t] + 1 \in 1 .. Len(ticks) /\ ticks[pos[t] + 1] \in Tick
        /\ RowOfTick(t) \in Addresses
    BY <2>1, TickAt DEF WriteRow
  <2>3. /\ worker[t] = "write" /\ UNCHANGED <<main, started, ticks>>
        /\ pos' = [pos EXCEPT ![t] = @ + 1]
        /\ partials_' = [partials_ EXCEPT ![RowOfTick(t)] = Added(row[t], ticks[pos[t] + 1])]
    BY <2>1 DEF WriteRow
  <2>4. t < started /\ main \in {"start", "join"}
    BY <1>0, <2>3 DEF Progress, TypeOK
  <2>5. row[t] = partials_[RowOfTick(t)]
    BY <2>3 DEF NoLostUpdate
  <2> DEFINE sym == ticks[pos[t] + 1].symbol
             from == Start(Len(ticks), t)
             old == Own(ticks, sym, from, pos[t])
  <2>6. sym \in Symbols /\ RowOfTick(t) = Address(t, sym)
    BY <2>2, TickType DEF RowOfTick
  <2>7. /\ from \in Nat /\ pos[t] \in Nat /\ from <= pos[t] /\ ticks \in Seq(Tick)
        /\ pos[t] \in 0 .. Len(ticks) /\ pos[t] + 1 \in DOMAIN ticks
    <3>1. pos[t] \in from .. Start(Len(ticks), t + 1) /\ pos[t] \in Nat
      BY <2>3 DEF Progress, TypeOK
    <3>2. ticks \in Seq(Tick) /\ Len(ticks) \in Nat
      BY InputType
    <3> QED BY <3>1, <3>2, <2>2, ChunkOf
  <2>a. ASSUME NEW r
        PROVE  /\ pos[t] + 1 \notin Own(ticks, r, from, pos[t])
               /\ sym = r => Own(ticks, r, from, pos[t] + 1) =
                               Own(ticks, r, from, pos[t]) \cup {pos[t] + 1}
               /\ sym # r => Own(ticks, r, from, pos[t] + 1) = Own(ticks, r, from, pos[t])
    <3>1. from \in Nat /\ pos[t] \in Nat /\ from <= pos[t]
      BY <2>7
    <3> HIDE DEF from
    <3> QED BY <3>1, OwnMore
  <2>8. /\ Reached(t) = pos[t] /\ Reached(t)' = pos[t] + 1
        /\ \A u \in Workers : u # t => Reached(u)' = Reached(u)
    BY <2>3, <2>4 DEF Reached, TypeOK
  <2>9. SUFFICES ASSUME NEW u \in Workers, NEW s \in Symbols
                 PROVE  partials_'[Address(u, s)] =
                          RowOver(ticks, Own(ticks, s, Start(Len(ticks), u), Reached(u)'))
    BY <2>3 DEF PartialTables
  <2>10. partials_[Address(u, s)] = RowOver(ticks, Own(ticks, s, Start(Len(ticks), u), Reached(u)))
    BY <2>4 DEF PartialTables
  <2>11. CASE u = t /\ s = sym
    <3>1. partials_'[Address(u, s)] = Added(partials_[Address(t, sym)], ticks[pos[t] + 1])
      BY <2>2, <2>3, <2>5, <2>6, <2>11 DEF TypeOK
    <3>2. partials_[Address(t, sym)] = RowOver(ticks, old)
      BY <2>8, <2>10, <2>11
    <3>3. old \in SUBSET DOMAIN ticks /\ IsFiniteSet(old)
      BY <2>7, OwnTicks
    <3>4. /\ pos[t] + 1 \notin old
          /\ Own(ticks, sym, from, pos[t] + 1) = old \cup {pos[t] + 1}
      BY <2>a
    <3> HIDE DEF old, from
    <3>5. RowOver(ticks, old \cup {pos[t] + 1}) = Added(RowOver(ticks, old), ticks[pos[t] + 1])
      BY <2>7, <3>3, <3>4, RowMore
    <3> QED BY <2>8, <2>11, <3>1, <3>2, <3>4, <3>5 DEF from
  <2>12. CASE u # t \/ s # sym
    <3>1. Address(u, s) # Address(t, sym)
      BY <2>6, <2>12, RowsDistinct
    <3>2. Address(u, s) \in Addresses
      BY DEF Addresses
    <3>3. partials_'[Address(u, s)] = partials_[Address(u, s)]
      BY <2>3, <2>6, <3>1, <3>2 DEF TypeOK
    <3>4. Own(ticks, s, Start(Len(ticks), u), Reached(u)') =
            Own(ticks, s, Start(Len(ticks), u), Reached(u))
      <4>1. CASE u # t
        BY <2>8, <4>1
      <4>2. CASE u = t /\ s # sym
        BY <2>8, <2>a, <4>2
      <4> QED BY <2>12, <4>1, <4>2
    <3> QED BY <2>10, <3>3, <3>4
  <2> QED BY <2>11, <2>12
<1>5. CASE Terminated \/ UNCHANGED vars
  BY <1>5 DEF Terminated, vars, PartialTables, Reached
<1> QED BY <1>1, <1>2, <1>3, <1>4, <1>5 DEF Next, Caller, Work

-----------------------------------------------------------------------------
(* The count of the ticks.                                                 *)

\* The counts of EveryTickCounted as sums of functions, in a state and in the next.
LEMMA CountedAreSums ==
  /\ TicksCounted = SumOver(Counts, Addresses)
  /\ TicksDone = SumOver(Gone, Going)
BY DEF TicksCounted, TicksDone, SumOver, SumFunctionOnSet, FoldFunctionOnSet, MapThenSumSet

\* The same in the next state.
LEMMA CountedAreSumsNext ==
  /\ TicksCounted' = SumOver(Counts', Addresses)
  /\ TicksDone' = SumOver(Gone', Going')
BY DEF TicksCounted, TicksDone, SumOver, SumFunctionOnSet, FoldFunctionOnSet, MapThenSumSet,
       MapThenFoldSet

\* There are finitely many rows and workers.
LEMMA FiniteTables ==
  IsFiniteSet(Addresses) /\ IsFiniteSet(Workers) /\ \A T \in SUBSET Workers : IsFiniteSet(T)
<1> DEFINE f == [p \in Workers \X Symbols |-> Address(p[1], p[2])]
<1>1. IsFiniteSet(Workers) /\ IsFiniteSet(Symbols)
  BY FS_Interval, ThreadsAssumption, TableAssumption DEF Workers, Symbols
<1>2. IsFiniteSet(Workers \X Symbols)
  BY <1>1, FS_Product
<1>3. Addresses \subseteq {f[p] : p \in Workers \X Symbols}
  <2> SUFFICES ASSUME NEW t \in Workers, NEW s \in Symbols
               PROVE  Address(t, s) \in {f[p] : p \in Workers \X Symbols}
    BY DEF Addresses
  <2>1. <<t, s>> \in Workers \X Symbols /\ f[<<t, s>>] = Address(t, s)
    OBVIOUS
  <2> HIDE DEF f
  <2> QED BY <2>1
<1> HIDE DEF f
<1>4. IsFiniteSet({f[p] : p \in Workers \X Symbols})
  BY <1>2, FiniteImage
<1> QED BY <1>1, <1>3, <1>4, FS_Subset

\* With a row for every symbol, every step keeps the count of the ticks.
LEMMA KeepsCounted ==
  ASSUME NumSymbols <= TableSize, TypeOK, Progress, NoLostUpdate, EveryTickCounted, [Next]_vars
  PROVE  EveryTickCounted'
<1>0. /\ TicksCounted = SumOver(Counts, Addresses) /\ TicksDone = SumOver(Gone, Going)
      /\ TicksCounted' = SumOver(Counts', Addresses) /\ TicksDone' = SumOver(Gone', Going')
  BY CountedAreSums, CountedAreSumsNext
<1>1. CASE \E stream \in Streams : Run(stream)
  <2>1. PICK stream \in Streams : Run(stream)
    BY <1>1
  <2>2. \A a \in Addresses : Counts'[a] = 0
    BY <2>1 DEF Run, Counts, SeedRow
  <2>3. Going' = {}
    BY <2>1 DEF Run, Going, Progress
  <2>4. TicksCounted' = 0
    <3> HIDE DEF Counts
    <3> QED BY <1>0, <2>2, FiniteTables, SumZero
  <2>5. TicksDone' = 0
    BY <1>0, <2>3, SumEmpty
  <2> QED BY <2>1, <2>4, <2>5 DEF Run, EveryTickCounted
<1>2. CASE StartWorker
  <2>1. started \in Workers
    BY <1>2, ThreadsAssumption DEF StartWorker, TypeOK, Workers
  <2>2. worker[started] = "none"
    BY <1>2, <2>1 DEF StartWorker, Progress, TypeOK
  <2>3. Going' = Going \cup {started} /\ started \notin Going
    BY <1>2, <2>1, <2>2 DEF StartWorker, Going, TypeOK
  <2>4. /\ \A t \in Going : Gone'[t] = Gone[t] /\ Gone'[t] \in Int
        /\ Gone'[started] = 0
    <3>1. \A t \in Workers : Start(Len(ticks), t) \in Nat /\ pos[t] \in Nat
      BY ChunkOf DEF TypeOK
    <3> QED BY <1>2, <2>1, <2>3, <3>1 DEF StartWorker, Gone, Going, TypeOK
  <2>5. Going \in SUBSET Workers
    BY DEF Going
  <2>6. IsFiniteSet(Going)
    BY <2>5, FiniteTables
  <2> DEFINE G == Gone'
  <2>7. SumOver(G, Going) = SumOver(Gone, Going) /\ SumOver(G, Going) \in Int
    <3> HIDE DEF G, Gone
    <3> QED BY <2>4, <2>6, SumSame, SumType DEF G
  <2>8. SumOver(G, Going \cup {started}) = SumOver(G, Going) + G[started]
    <3> HIDE DEF G
    <3> QED BY <2>3, <2>4, <2>6, SumAdd DEF G
  <2>9. TicksDone' = TicksDone
    BY <1>0, <2>3, <2>4, <2>7, <2>8
  <2>10. Counts' = Counts /\ main = "start" /\ main' \in {"start", "join"}
    BY <1>2 DEF StartWorker, Counts
  <2> QED BY <1>0, <2>9, <2>10 DEF EveryTickCounted
<1>3. CASE Join
  <2>1. Going = Workers /\ main = "join" /\ main' = "merge" /\ UNCHANGED <<partials_, ticks>>
    BY <1>3 DEF Join, Going
  <2>2. Len(ticks) \in Nat
    BY InputType
  <2> DEFINE prefix == [k \in 0 .. THREADS |-> Start(Len(ticks), k)]
  <2>3. THREADS \in Nat /\ Workers = 0 .. THREADS - 1
    BY ThreadsAssumption DEF Workers
  <2>4. \A t \in Workers : Gone[t] = prefix[t + 1] - prefix[t] /\ prefix[t] \in Int /\ prefix[t + 1] \in Int
    <3> SUFFICES ASSUME NEW t \in Workers
                 PROVE  Gone[t] = prefix[t + 1] - prefix[t] /\ prefix[t] \in Int /\ prefix[t + 1] \in Int
      OBVIOUS
    <3>1. pos[t] = Start(Len(ticks), t + 1)
      BY <1>3 DEF Join, Progress
    <3>2. t \in 0 .. THREADS /\ t + 1 \in 0 .. THREADS
      BY <2>3
    <3>3. Start(Len(ticks), t) \in Int /\ Start(Len(ticks), t + 1) \in Int
      BY ChunkOf
    <3> QED BY <2>1, <3>1, <3>2, <3>3 DEF Gone
  <2>5. prefix[0] = 0 /\ prefix[THREADS] = Len(ticks)
    BY <2>2, <2>3, Chunks
  <2>6. \A k \in 0 .. THREADS - 1 : Gone[k] \in Int /\ prefix[k + 1] = prefix[k] + Gone[k]
    <3> HIDE DEF prefix
    <3> QED BY <2>3, <2>4
  <2>7. SumOver(Gone, 0 .. THREADS - 1) = prefix[THREADS]
    <3> HIDE DEF prefix
    <3> QED BY <2>3, <2>5, <2>6, Telescope
  <2>8. TicksDone = Len(ticks)
    BY <1>0, <2>1, <2>3, <2>5, <2>7
  <2>9. Counts' = Counts
    BY <2>1 DEF Counts
  <2> QED BY <1>0, <2>1, <2>8, <2>9 DEF EveryTickCounted
<1>4. CASE Merge
  BY <1>4 DEF Merge, EveryTickCounted
<1>5. CASE \E t \in Workers : ReadRow(t) \/ Exit(t)
  <2>1. Going' = Going /\ UNCHANGED <<main, partials_, ticks, pos>>
    BY <1>5 DEF ReadRow, Exit, Going, TypeOK
  <2>2. Counts' = Counts /\ Gone' = Gone
    BY <2>1 DEF Counts, Gone
  <2> QED BY <1>0, <2>1, <2>2 DEF EveryTickCounted
<1>6. CASE \E t \in Workers : WriteRow(t)
  <2>1. PICK t \in Workers : WriteRow(t)
    BY <1>6
  <2>2. RowOfTick(t) \in Addresses
    BY <2>1, TickAt DEF WriteRow
  <2>3. /\ worker[t] = "write" /\ UNCHANGED <<main, started, ticks>>
        /\ pos' = [pos EXCEPT ![t] = @ + 1]
        /\ partials_' = [partials_ EXCEPT ![RowOfTick(t)] = Added(row[t], ticks[pos[t] + 1])]
        /\ worker' = [worker EXCEPT ![t] = "read"]
    BY <2>1 DEF WriteRow
  <2>4. main \in {"start", "join"}
    BY <2>3 DEF Progress, TypeOK
  <2>5. row[t] = partials_[RowOfTick(t)]
    BY <2>3 DEF NoLostUpdate
  <2>6. Going' = Going /\ t \in Going
    BY <2>3 DEF Going, TypeOK
  <2>7. /\ \A a \in Addresses : Counts[a] \in Int /\ (a # RowOfTick(t) => Counts'[a] = Counts[a])
        /\ Counts'[RowOfTick(t)] = Counts[RowOfTick(t)] + 1
    <3>1. \A a \in Addresses : partials_[a].count \in Nat
      BY DEF TypeOK, Row
    <3>2. Added(row[t], ticks[pos[t] + 1]).count = partials_[RowOfTick(t)].count + 1
      BY <2>5 DEF Added
    <3> QED BY <2>2, <2>3, <3>1, <3>2 DEF Counts, TypeOK
  <2>8. /\ \A u \in Going : Gone[u] \in Int /\ (u # t => Gone'[u] = Gone[u])
        /\ Gone'[t] = Gone[t] + 1
    <3>1. \A u \in Workers : Start(Len(ticks), u) \in Nat /\ pos[u] \in Nat
      BY ChunkOf DEF TypeOK
    <3> QED BY <2>3, <2>6, <3>1 DEF Gone, Going, TypeOK
  <2> DEFINE C == Counts'
             G == Gone'
             z == RowOfTick(t)
  <2> HIDE DEF C, G, z
  <2>9. Going \in SUBSET Workers
    BY DEF Going
  <2>10. IsFiniteSet(Going) /\ IsFiniteSet(Addresses)
    BY <2>9, FiniteTables
  <2>11. /\ \A a \in Addresses : Counts[a] \in Int /\ (a # z => C[a] = Counts[a])
         /\ C[z] = Counts[z] + 1 /\ z \in Addresses /\ C[z] \in Int /\ Counts[z] \in Int
    BY <2>2, <2>7 DEF C, z
  <2>12. /\ \A u \in Going : Gone[u] \in Int /\ (u # t => G[u] = Gone[u])
         /\ G[t] = Gone[t] + 1 /\ t \in Going /\ G[t] \in Int /\ Gone[t] \in Int
    BY <2>6, <2>8 DEF G
  <2>13. SumOver(C, Addresses) = SumOver(Counts, Addresses) + C[z] - Counts[z]
    BY <2>10, <2>11, SumExcept
  <2>14. SumOver(G, Going) = SumOver(Gone, Going) + G[t] - Gone[t]
    BY <2>10, <2>12, SumExcept
  <2>15. SumOver(Counts, Addresses) \in Int /\ SumOver(Gone, Going) \in Int
    BY <2>10, <2>11, <2>12, SumType
  <2>16. TicksCounted = TicksDone
    BY <2>4 DEF EveryTickCounted
  <2>17. TicksCounted' = SumOver(C, Addresses) /\ TicksDone' = SumOver(G, Going)
    BY <1>0, <2>6 DEF C, G
  <2>18. TicksCounted' = TicksDone'
    BY <1>0, <2>11, <2>12, <2>13, <2>14, <2>15, <2>16, <2>17
  <2> QED BY <2>3, <2>4, <2>18 DEF EveryTickCounted
<1>8. CASE Terminated \/ UNCHANGED vars
  <2>1. UNCHANGED vars
    BY <1>8 DEF Terminated
  <2>2. Counts' = Counts /\ Gone' = Gone /\ Going' = Going /\ UNCHANGED <<main, ticks>>
    BY <2>1 DEF vars, Counts, Gone, Going
  <2> QED BY <1>0, <2>2 DEF EveryTickCounted
<1> QED BY <1>1, <1>2, <1>3, <1>4, <1>5, <1>6, <1>8 DEF Next, Caller, Work

-----------------------------------------------------------------------------
(* The merge.                                                              *)

\* The ticks of a symbol that worker t goes through.
Share(s) == [t \in Workers |-> Own(ticks, s, Start(Len(ticks), t), Start(Len(ticks), t + 1))]
\* All the ticks of a symbol.
All(s) == Own(ticks, s, 0, Len(ticks))

\* The chunks of the workers divide the ticks of a symbol among them.
LEMMA SharesDivide ==
  ASSUME TypeOK, NEW s
  PROVE  /\ All(s) = UNION {Share(s)[t] : t \in Workers}
         /\ All(s) \in SUBSET DOMAIN ticks /\ IsFiniteSet(All(s))
         /\ \A t \in Workers : Share(s)[t] \in SUBSET All(s) /\ IsFiniteSet(Share(s)[t])
<1> DEFINE n == Len(ticks)
<1>1. ticks \in Seq(Tick) /\ n \in Nat
  BY InputType
<1>2. \A k \in 0 .. THREADS : Start(n, k) \in 0 .. n
  BY <1>1, Chunks
<1>3. Start(n, 0) = 0 /\ Start(n, THREADS) = n /\ THREADS \in Nat \ {0}
  BY <1>1, Chunks, ThreadsAssumption
<1> HIDE DEF n
<1>4. ASSUME NEW t \in Workers
      PROVE  /\ Share(s)[t] = Own(ticks, s, Start(n, t), Start(n, t + 1))
             /\ Share(s)[t] \in SUBSET All(s)
  <2>1. t \in 0 .. THREADS /\ t + 1 \in 0 .. THREADS
    BY <1>3 DEF Workers
  <2>2. Start(n, t) \in 0 .. n /\ Start(n, t + 1) \in 0 .. n
    BY <1>2, <2>1
  <2>3. Start(n, t) + 1 .. Start(n, t + 1) \subseteq 0 + 1 .. n
    BY <1>1, <2>2
  <2>4. Share(s)[t] = Own(ticks, s, Start(n, t), Start(n, t + 1))
    BY DEF Share, n
  <2>5. All(s) = Own(ticks, s, 0, n)
    BY DEF All, n
  <2> QED BY <2>3, <2>4, <2>5 DEF Own
<1>5. All(s) \in SUBSET DOMAIN ticks /\ IsFiniteSet(All(s))
  <2>1. 0 \in Nat /\ Len(ticks) \in 0 .. Len(ticks)
    BY <1>1 DEF n
  <2> QED BY <1>1, <2>1, OwnTicks DEF All
<1>6. ASSUME NEW i \in All(s)
      PROVE  \E t \in Workers : i \in Share(s)[t]
  <2> DEFINE T == {k \in 0 .. THREADS : i <= Start(n, k)}
  <2>1. i \in 1 .. n /\ ticks[i].symbol = s
    BY <1>1 DEF All, Own, n
  <2>2. THREADS \in T /\ T \in SUBSET Nat
    BY <1>1, <1>3, <2>1
  <2>3. PICK k \in T : \A j \in T : k <= j
    BY <2>2, LeastMember
  <2>4. k # 0
    BY <1>3, <2>1, <2>3
  <2>5. k \in 1 .. THREADS /\ k - 1 \in 0 .. THREADS /\ k - 1 \in Workers /\ i <= Start(n, k)
    BY <1>3, <2>3, <2>4 DEF Workers
  <2>6. k - 1 \notin T
    BY <2>3, <2>5
  <2>7. Start(n, k - 1) \in Nat /\ Start(n, k) \in Nat
    BY <1>2, <2>5
  <2>8. i \in Start(n, k - 1) + 1 .. Start(n, k)
    BY <2>1, <2>5, <2>6, <2>7
  <2>9. i \in Own(ticks, s, Start(n, k - 1), Start(n, k))
    BY <2>1, <2>8 DEF Own
  <2>10. (k - 1) + 1 = k
    BY <2>5
  <2> QED BY <1>4, <2>5, <2>9, <2>10
<1>7. All(s) = UNION {Share(s)[t] : t \in Workers}
  BY <1>4, <1>6
<1> QED BY <1>4, <1>5, <1>7, FS_Subset

\* A sum over the ticks of a symbol is the sum of its sums over the chunks.
LEMMA SharesSum ==
  ASSUME TypeOK, NEW s, NEW f, \A i \in DOMAIN ticks : f[i] \in Int
  PROVE  SumOver([t \in Workers |-> SumOver(f, Share(s)[t])], Workers) = SumOver(f, All(s))
<1> DEFINE n == Len(ticks)
           upto == [k \in 0 .. THREADS |-> Own(ticks, s, 0, Start(n, k))]
           prefix == [k \in 0 .. THREADS |-> SumOver(f, upto[k])]
           part == [t \in Workers |-> SumOver(f, Share(s)[t])]
<1>1. ticks \in Seq(Tick) /\ n \in Nat
  BY InputType
<1>2. THREADS \in Nat \ {0} /\ Workers = 0 .. THREADS - 1
  BY ThreadsAssumption DEF Workers
<1>3. /\ \A k \in 0 .. THREADS : Start(n, k) \in 0 .. n
      /\ \A t \in Workers : Start(n, t) <= Start(n, t + 1)
      /\ Start(n, 0) = 0 /\ Start(n, THREADS) = n
  BY <1>1, Chunks
<1>4. prefix[0] = 0
  <2>1. 0 + 1 .. 0 = {}
    OBVIOUS
  <2>2. upto[0] = {}
    BY <1>2, <1>3, <2>1 DEF Own
  <2>3. SumOver(f, upto[0]) = 0
    BY <2>2, SumEmpty
  <2> QED BY <1>2, <2>3
<1>5. prefix[THREADS] = SumOver(f, All(s))
  BY <1>2, <1>3 DEF All
<1>6. ASSUME NEW t \in Workers
      PROVE  part[t] \in Int /\ prefix[t + 1] = prefix[t] + part[t]
  <2>1. t \in 0 .. THREADS /\ t + 1 \in 0 .. THREADS
    BY <1>2
  <2>2. Start(n, t) \in 0 .. n /\ Start(n, t + 1) \in 0 .. n /\ Start(n, t) <= Start(n, t + 1)
    BY <1>3, <2>1
  <2> DEFINE a == Start(n, t)
             b == Start(n, t + 1)
             A == Own(ticks, s, 0, a)
             B == Own(ticks, s, a, b)
  <2>3. upto[t] = A /\ Share(s)[t] = B
    BY <2>1 DEF Share
  <2>4. upto[t + 1] = Own(ticks, s, 0, b)
    BY <2>1
  <2>5. /\ A \in SUBSET DOMAIN ticks /\ IsFiniteSet(A)
        /\ B \in SUBSET DOMAIN ticks /\ IsFiniteSet(B)
    <3> HIDE DEF n, a, b
    <3>1. a \in 0 .. Len(ticks) /\ b \in 0 .. Len(ticks) /\ a \in Nat
      BY <1>1, <2>2 DEF n, a, b
    <3> QED BY <1>1, <3>1, OwnTicks
  <2>6. Own(ticks, s, 0, b) = A \cup B /\ A \cap B = {}
    <3> HIDE DEF a, b
    <3>1. a \in Nat /\ b \in Nat /\ a <= b
      BY <1>1, <2>2 DEF a, b
    <3>2. (0 + 1 .. a) \cup (a + 1 .. b) = 0 + 1 .. b /\ (0 + 1 .. a) \cap (a + 1 .. b) = {}
      BY <3>1
    <3> QED BY <3>2 DEF Own
  <2> HIDE DEF A, B, a, b
  <2>7. SumOver(f, A \cup B) = SumOver(f, A) + SumOver(f, B)
    BY <2>5, <2>6, SumUnion
  <2>8. SumOver(f, B) \in Int
    BY <2>5, SumType
  <2>9. prefix[t] = SumOver(f, A) /\ part[t] = SumOver(f, B)
    BY <2>1, <2>3
  <2>10. prefix[t + 1] = SumOver(f, A \cup B)
    BY <2>1, <2>4, <2>6
  <2> QED BY <2>7, <2>8, <2>9, <2>10
<1>7. \A k \in 0 .. THREADS - 1 : part[k] \in Int /\ prefix[k + 1] = prefix[k] + part[k]
  BY <1>2, <1>6
<1> HIDE DEF prefix, part, upto
<1>8. SumOver(part, 0 .. THREADS - 1) = prefix[THREADS]
  BY <1>2, <1>4, <1>7, Telescope
<1> QED BY <1>2, <1>5, <1>8 DEF part

\* No price of the inputs is negative: what the merged maxima, which start from 0, need.
NonnegativePrices == \A stream \in Streams : \A i \in DOMAIN stream : stream[i].price >= 0

\* At the merge the partial row of a worker is the row of its share.
LEMMA RowOfShare ==
  ASSUME AggregatorInv, main = "merge", NEW s \in Symbols, NEW t \in Workers
  PROVE  /\ partials_[Address(t, s)].count = Cardinality(Share(s)[t])
         /\ partials_[Address(t, s)].sum_price = SumOver(PriceOf(ticks), Share(s)[t])
         /\ partials_[Address(t, s)].sum_qty = SumOver(QtyOf(ticks), Share(s)[t])
         /\ partials_[Address(t, s)].min_price =
              Min({Infinity} \cup {PriceOf(ticks)[i] : i \in Share(s)[t]})
         /\ partials_[Address(t, s)].max_price =
              Max({0} \cup {PriceOf(ticks)[i] : i \in Share(s)[t]})
<1>1. TypeOK /\ Progress /\ PartialTables
  BY DEF AggregatorInv
<1>2. t < started
  BY <1>1, ThreadsAssumption DEF Progress, Workers
<1>3. Reached(t) = Start(Len(ticks), t + 1)
  BY <1>1, <1>2 DEF Reached, Progress
<1>4. partials_[Address(t, s)] = RowOver(ticks, Own(ticks, s, Start(Len(ticks), t), Reached(t)))
  BY <1>1 DEF PartialTables
<1>5. partials_[Address(t, s)] = RowOver(ticks, Share(s)[t])
  BY <1>3, <1>4 DEF Share
<1>6. Share(s)[t] \in SUBSET All(s) /\ IsFiniteSet(Share(s)[t]) /\ All(s) \in SUBSET DOMAIN ticks
  BY <1>1, SharesDivide
<1>7. Share(s)[t] \in SUBSET DOMAIN ticks
  BY <1>6
<1>8. ticks \in Seq(Tick)
  BY <1>1, InputType
<1> DEFINE own == Share(s)[t]
           lows == {Infinity} \cup {PriceOf(ticks)[i] : i \in own}
           highs == {0} \cup {PriceOf(ticks)[i] : i \in own}
<1>9. partials_[Address(t, s)] =
        [count |-> Cardinality(own), sum_price |-> SumOver(PriceOf(ticks), own),
         min_price |-> Min(lows), max_price |-> Max(highs), sum_qty |-> SumOver(QtyOf(ticks), own)]
  BY <1>5, <1>6, <1>7, <1>8, RowIs
<1> HIDE DEF own, lows, highs
<1>10. /\ partials_[Address(t, s)].count = Cardinality(own)
       /\ partials_[Address(t, s)].sum_price = SumOver(PriceOf(ticks), own)
       /\ partials_[Address(t, s)].sum_qty = SumOver(QtyOf(ticks), own)
       /\ partials_[Address(t, s)].min_price = Min(lows)
       /\ partials_[Address(t, s)].max_price = Max(highs)
  BY <1>9
<1> QED BY <1>10 DEF own, lows, highs

\* The merged totals of a field are its sum over all the ticks of the symbol: the workers
\* without a tick of it, which the merge skips, would add nothing.
LEMMA TotalIs ==
  ASSUME TypeOK, NEW s, NEW f, \A i \in DOMAIN ticks : f[i] \in Int,
         NEW used, used = {t \in Workers : Share(s)[t] # {}},
         NEW column, \A t \in used : column[t] = SumOver(f, Share(s)[t])
  PROVE  SumOver(column, used) = SumOver(f, All(s))
<1> DEFINE part == [t \in Workers |-> SumOver(f, Share(s)[t])]
           rest == Workers \ used
<1>1. SumOver(part, Workers) = SumOver(f, All(s))
  BY SharesSum
<1>2. \A t \in Workers : part[t] \in Int
  <2> SUFFICES ASSUME NEW t \in Workers PROVE SumOver(f, Share(s)[t]) \in Int
    OBVIOUS
  <2>1. Share(s)[t] \in SUBSET DOMAIN ticks /\ IsFiniteSet(Share(s)[t])
    BY SharesDivide
  <2> QED BY <2>1, SumType
<1>3. \A t \in rest : part[t] = 0
  <2> SUFFICES ASSUME NEW t \in rest PROVE SumOver(f, Share(s)[t]) = 0
    OBVIOUS
  <2>1. Share(s)[t] = {}
    OBVIOUS
  <2> QED BY <2>1, SumEmpty
<1>4. /\ IsFiniteSet(used) /\ IsFiniteSet(rest) /\ used \cap rest = {}
      /\ Workers = used \cup rest
  BY FiniteTables
<1>5. \A t \in used : column[t] = part[t]
  OBVIOUS
<1> HIDE DEF part, rest
<1>6. SumOver(column, used) = SumOver(part, used)
  BY <1>4, <1>5, SumSame
<1>7. SumOver(part, rest) = 0
  BY <1>3, <1>4, SumZero
<1>8. SumOver(part, used \cup rest) = SumOver(part, used) + SumOver(part, rest)
  BY <1>2, <1>4, SumUnion
<1>9. SumOver(part, used) \in Int
  BY <1>2, <1>4, SumType
<1>10. SumOver(part, used \cup rest) = SumOver(part, used)
  BY <1>7, <1>8, <1>9
<1>11. SumOver(part, Workers) = SumOver(part, used)
  BY <1>4, <1>10
<1> QED BY <1>1, <1>6, <1>11

\* The row of a symbol in the sequential reduction, with sums over functions.
LEMMA RowOfIs ==
  ASSUME TypeOK, NEW s
  PROVE  /\ All(s) = {} => Sequential!RowOf(ticks, s) = EmptyRow
         /\ All(s) # {} => Sequential!RowOf(ticks, s) =
              [count |-> Cardinality(All(s)),
               sum_price |-> SumOver(PriceOf(ticks), All(s)),
               min_price |-> Min({PriceOf(ticks)[i] : i \in All(s)}),
               max_price |-> Max({PriceOf(ticks)[i] : i \in All(s)}),
               sum_qty |-> SumOver(QtyOf(ticks), All(s))]
<1> DEFINE own == Sequential!TicksOf(ticks, s)
           price == [i \in own |-> ticks[i].price]
           qty == [i \in own |-> ticks[i].qty]
<1>1. own = All(s)
  <2>1. ticks \in Seq(Tick)
    BY InputType
  <2>2. DOMAIN ticks = 0 + 1 .. Len(ticks)
    BY <2>1
  <2> QED BY <2>2 DEF Sequential!TicksOf, All, Own
<1>2. \A i \in own : price[i] = PriceOf(ticks)[i] /\ qty[i] = QtyOf(ticks)[i]
  BY DEF PriceOf, QtyOf, Sequential!TicksOf
<1>3. IsFiniteSet(own)
  BY <1>1, SharesDivide
<1>4. MapThenSumSet(LAMBDA i : ticks[i].price, own) = SumOver(PriceOf(ticks), own)
  <2>1. MapThenSumSet(LAMBDA i : ticks[i].price, own) = SumOver(price, own)
    BY DEF SumOver, MapThenSumSet, MapThenFoldSet
  <2>2. SumOver(price, own) = SumOver(PriceOf(ticks), own)
    <3> HIDE DEF price
    <3> QED BY <1>2, <1>3, SumSame
  <2> QED BY <2>1, <2>2
<1>5. MapThenSumSet(LAMBDA i : ticks[i].qty, own) = SumOver(QtyOf(ticks), own)
  <2>1. MapThenSumSet(LAMBDA i : ticks[i].qty, own) = SumOver(qty, own)
    BY DEF SumOver, MapThenSumSet, MapThenFoldSet
  <2>2. SumOver(qty, own) = SumOver(QtyOf(ticks), own)
    <3> HIDE DEF qty
    <3> QED BY <1>2, <1>3, SumSame
  <2> QED BY <2>1, <2>2
<1>6. {ticks[i].price : i \in own} = {PriceOf(ticks)[i] : i \in own}
  BY <1>2
<1>a. \A S : /\ Sequential!Min(S) = Min(S) /\ Sequential!Max(S) = Max(S)
            /\ Sequential!Cardinality(S) = Cardinality(S)
  BY DEF Sequential!Min, Min, Sequential!Max, Max, Sequential!Cardinality, Cardinality
<1>b. Sequential!MapThenSumSet(LAMBDA i : ticks[i].price, own) =
        MapThenSumSet(LAMBDA i : ticks[i].price, own)
  BY DEF Sequential!MapThenSumSet, MapThenSumSet, MapThenFoldSet, Sequential!MapThenFoldSet
<1>c. Sequential!MapThenSumSet(LAMBDA i : ticks[i].qty, own) =
        MapThenSumSet(LAMBDA i : ticks[i].qty, own)
  BY DEF Sequential!MapThenSumSet, MapThenSumSet, MapThenFoldSet, Sequential!MapThenFoldSet
<1>7. Sequential!RowOf(ticks, s) =
        IF own = {} THEN EmptyRow
        ELSE [count |-> Cardinality(own),
              sum_price |-> MapThenSumSet(LAMBDA i : ticks[i].price, own),
              min_price |-> Min({ticks[i].price : i \in own}),
              max_price |-> Max({ticks[i].price : i \in own}),
              sum_qty |-> MapThenSumSet(LAMBDA i : ticks[i].qty, own)]
  BY <1>a, <1>b, <1>c DEF Sequential!RowOf, Sequential!EmptyRow, EmptyRow
<1> HIDE DEF own
<1> QED BY <1>1, <1>4, <1>5, <1>6, <1>7

\* The merged row of a symbol is its row in the sequential reduction.
LEMMA MergedIs ==
  ASSUME AggregatorInv, NonnegativePrices, main = "merge", NEW s \in Symbols
  PROVE  Merged(s) = Sequential!RowOf(ticks, s)
<1> DEFINE used == {t \in Workers : Share(s)[t] # {}}
           own == All(s)
           f == PriceOf(ticks)
           g == QtyOf(ticks)
           counts == [t \in used |-> partials_[Address(t, s)].count]
           prices == [t \in used |-> partials_[Address(t, s)].sum_price]
           qtys == [t \in used |-> partials_[Address(t, s)].sum_qty]
           lows == [t \in used |-> partials_[Address(t, s)].min_price]
           highs == [t \in used |-> partials_[Address(t, s)].max_price]
           ones == [i \in DOMAIN ticks |-> 1]
<1>1. TypeOK
  BY DEF AggregatorInv
<1>2. /\ own = UNION {Share(s)[t] : t \in Workers} /\ own \in SUBSET DOMAIN ticks
      /\ IsFiniteSet(own)
      /\ \A t \in Workers : Share(s)[t] \in SUBSET own /\ IsFiniteSet(Share(s)[t])
  BY <1>1, SharesDivide
<1>3. used = {t \in Workers : partials_[Address(t, s)].count # 0}
  <2> SUFFICES ASSUME NEW t \in Workers
               PROVE  Share(s)[t] # {} <=> partials_[Address(t, s)].count # 0
    OBVIOUS
  <2>1. partials_[Address(t, s)].count = Cardinality(Share(s)[t])
    BY RowOfShare
  <2> QED BY <1>2, <2>1, FS_EmptySet
<1>4. own = UNION {Share(s)[t] : t \in used}
  BY <1>2
<1>5. ASSUME NEW t \in used
      PROVE  /\ counts[t] = SumOver(ones, Share(s)[t])
             /\ prices[t] = SumOver(f, Share(s)[t])
             /\ qtys[t] = SumOver(g, Share(s)[t])
             /\ lows[t] = Min({Infinity} \cup {f[i] : i \in Share(s)[t]})
             /\ highs[t] = Max({0} \cup {f[i] : i \in Share(s)[t]})
  <2>1. t \in Workers
    OBVIOUS
  <2>2. Cardinality(Share(s)[t]) = SumOver(ones, Share(s)[t])
    <3>1. IsFiniteSet(Share(s)[t]) /\ \A i \in Share(s)[t] : ones[i] = 1
      BY <1>2
    <3> HIDE DEF ones
    <3> QED BY <3>1, SumOfOnes
  <2> DEFINE lowest == {Infinity} \cup {f[i] : i \in Share(s)[t]}
             highest == {0} \cup {f[i] : i \in Share(s)[t]}
  <2>3. /\ partials_[Address(t, s)].count = Cardinality(Share(s)[t])
        /\ partials_[Address(t, s)].sum_price = SumOver(f, Share(s)[t])
        /\ partials_[Address(t, s)].sum_qty = SumOver(g, Share(s)[t])
        /\ partials_[Address(t, s)].min_price = Min(lowest)
        /\ partials_[Address(t, s)].max_price = Max(highest)
    BY <2>1, RowOfShare
  <2> HIDE DEF lowest, highest, f, g, ones
  <2>4. /\ counts[t] = SumOver(ones, Share(s)[t]) /\ prices[t] = SumOver(f, Share(s)[t])
        /\ qtys[t] = SumOver(g, Share(s)[t]) /\ lows[t] = Min(lowest) /\ highs[t] = Max(highest)
    BY <2>2, <2>3
  <2> QED BY <2>4 DEF lowest, highest
<1>6. \A i \in DOMAIN ticks : ones[i] \in Int /\ f[i] \in Int /\ g[i] \in Int
  <2>1. ticks \in Seq(Tick)
    BY <1>1, InputType
  <2> QED BY <2>1, TickValues
<1>7. \A i \in own : f[i] <= Infinity /\ f[i] >= 0
  <2> SUFFICES ASSUME NEW i \in own PROVE f[i] <= Infinity /\ f[i] >= 0
    OBVIOUS
  <2>1. ticks \in Seq(Tick) /\ i \in DOMAIN ticks
    BY <1>1, <1>2, InputType
  <2>2. f[i] = ticks[i].price /\ ticks[i] \in Tick
    BY <2>1, TickValues
  <2>3. ticks \in Streams
    BY <1>1, <2>1 DEF TypeOK
  <2> QED BY <2>1, <2>2, <2>3, TickType DEF NonnegativePrices
<1>8. Merged(s) =
        IF used = {} THEN EmptyRow
        ELSE [count |-> SumOver(counts, used), sum_price |-> SumOver(prices, used),
              min_price |-> Min({Infinity} \cup {lows[t] : t \in used}),
              max_price |-> Max({0} \cup {highs[t] : t \in used}),
              sum_qty |-> SumOver(qtys, used)]
  <2> DEFINE U == {t \in Workers : partials_[Address(t, s)].count # 0}
             Total(field) == MapThenSumSet(LAMBDA t : partials_[Address(t, s)][field], U)
             Fields(field) == {partials_[Address(t, s)][field] : t \in U}
  <2>1. Merged(s) = IF U = {} THEN EmptyRow
                    ELSE [count |-> Total("count"), sum_price |-> Total("sum_price"),
                          min_price |-> Min({Infinity} \cup Fields("min_price")),
                          max_price |-> Max({0} \cup Fields("max_price")),
                          sum_qty |-> Total("sum_qty")]
    BY DEF Merged
  <2>2. U = used
    BY <1>3
  <2>3. Total("count") = SumOver([t \in U |-> partials_[Address(t, s)].count], U)
    BY DEF SumOver, MapThenSumSet, MapThenFoldSet
  <2>4. Total("sum_price") = SumOver([t \in U |-> partials_[Address(t, s)].sum_price], U)
    BY DEF SumOver, MapThenSumSet, MapThenFoldSet
  <2>5. Total("sum_qty") = SumOver([t \in U |-> partials_[Address(t, s)].sum_qty], U)
    BY DEF SumOver, MapThenSumSet, MapThenFoldSet
  <2>6. Fields("min_price") = {lows[t] : t \in used}
    BY <2>2
  <2>7. Fields("max_price") = {highs[t] : t \in used}
    BY <2>2
  <2> HIDE DEF U, used
  <2> QED BY <2>1, <2>2, <2>3, <2>4, <2>5, <2>6, <2>7
<1>a. used = {t \in Workers : Share(s)[t] # {}}
  OBVIOUS
<1>b. /\ \A t \in used : counts[t] = SumOver(ones, Share(s)[t])
      /\ \A t \in used : prices[t] = SumOver(f, Share(s)[t])
      /\ \A t \in used : qtys[t] = SumOver(g, Share(s)[t])
      /\ \A t \in used : lows[t] = Min({Infinity} \cup {f[i] : i \in Share(s)[t]})
      /\ \A t \in used : highs[t] = Max({0} \cup {f[i] : i \in Share(s)[t]})
  BY <1>5
<1>c. own = All(s)
  OBVIOUS
<1> HIDE DEF used, own, counts, prices, qtys, lows, highs, f, g, ones
<1>9. SumOver(counts, used) = Cardinality(own)
  <2>1. (\A i \in DOMAIN ticks : ones[i] \in Int) /\ \A t \in used : counts[t] = SumOver(ones, Share(s)[t])
    BY <1>6, <1>b
  <2>2. SumOver(counts, used) = SumOver(ones, own)
    BY <1>1, <1>a, <1>c, <2>1, TotalIs
  <2>3. \A i \in own : ones[i] = 1
    BY <1>2 DEF ones
  <2>4. SumOver(ones, own) = Cardinality(own)
    BY <1>2, <2>3, SumOfOnes
  <2> QED BY <2>2, <2>4
<1>10. SumOver(prices, used) = SumOver(f, own)
  <2>1. (\A i \in DOMAIN ticks : f[i] \in Int) /\ \A t \in used : prices[t] = SumOver(f, Share(s)[t])
    BY <1>6, <1>b
  <2> QED BY <1>1, <1>a, <1>c, <2>1, TotalIs
<1>11. SumOver(qtys, used) = SumOver(g, own)
  <2>1. (\A i \in DOMAIN ticks : g[i] \in Int) /\ \A t \in used : qtys[t] = SumOver(g, Share(s)[t])
    BY <1>6, <1>b
  <2> QED BY <1>1, <1>a, <1>c, <2>1, TotalIs
<1>12. used = {} <=> own = {}
  BY <1>2, <1>4, <1>a
<1>13. ASSUME own # {}
       PROVE  /\ Min({Infinity} \cup {lows[t] : t \in used}) = Min({f[i] : i \in own})
              /\ Max({0} \cup {highs[t] : t \in used}) = Max({f[i] : i \in own})
  <2> DEFINE C == Share(s)
  <2>1. Divides(C, used, own) /\ IsFiniteSet(own) /\ own # {}
    BY <1>2, <1>4, <1>13 DEF Divides, Values
  <2>2. Infinity \in Int /\ \A i \in own : f[i] \in Int /\ f[i] <= Infinity
    BY <1>2, <1>6, <1>7, StreamsAssumption
  <2>3. \A i \in own : f[i] \in Int /\ f[i] >= 0
    BY <1>2, <1>6, <1>7
  <2>4. Minima(lows, used, C, f, Infinity)
    BY <1>b DEF Minima, Values
  <2>5. Maxima(highs, used, C, f, 0)
    BY <1>b DEF Maxima, Values
  <2> HIDE DEF C
  <2>6. Min({Infinity} \cup Values(lows, used)) = Min(Values(f, own))
    BY <2>1, <2>2, <2>4, MinOfParts
  <2>7. 0 \in Int
    OBVIOUS
  <2>8. Max({0} \cup Values(highs, used)) = Max(Values(f, own))
    BY <2>1, <2>3, <2>5, <2>7, MaxOfParts
  <2> QED BY <2>6, <2>8 DEF Values
<1>14. /\ own = {} => Sequential!RowOf(ticks, s) = EmptyRow
       /\ own # {} => Sequential!RowOf(ticks, s) =
            [count |-> Cardinality(own), sum_price |-> SumOver(f, own),
             min_price |-> Min({f[i] : i \in own}), max_price |-> Max({f[i] : i \in own}),
             sum_qty |-> SumOver(g, own)]
  BY <1>1, <1>c, RowOfIs DEF f, g
<1>15. CASE own = {}
  BY <1>8, <1>12, <1>14, <1>15
<1>16. CASE own # {}
  BY <1>8, <1>9, <1>10, <1>11, <1>12, <1>13, <1>14, <1>16
<1> QED BY <1>15, <1>16

-----------------------------------------------------------------------------
(* Results.                                                                *)

\* The variables keep within their types, no worker leaves its chunk or the input, for
\* every number of threads, streams and symbols, even more than a table has rows.
THEOREM AggregatorTypes == Spec => [](TypeOK /\ Progress)
<1>1. Init => TypeOK /\ Progress
  BY InitTypes DEF Init, Progress
<1>2. TypeOK /\ Progress /\ [Next]_vars => (TypeOK /\ Progress)'
  BY KeepsTypes, KeepsProgress
<1> QED BY <1>1, <1>2, PTL DEF Spec

\* No update of a partial row is lost, when a partial table has a row for every symbol.
THEOREM AggregatorNoLostUpdate ==
  ASSUME NumSymbols <= TableSize
  PROVE  Spec => []NoLostUpdate
<1>1. Init => NoLostUpdate
  BY DEF Init, NoLostUpdate
<1>2. TypeOK /\ Progress /\ NoLostUpdate /\ [Next]_vars => NoLostUpdate'
  BY KeepsUpdates
<1> QED BY <1>1, <1>2, AggregatorTypes, PTL DEF Spec

\* Every tick is counted once, when a partial table has a row for every symbol.
THEOREM AggregatorCountsEveryTick ==
  ASSUME NumSymbols <= TableSize
  PROVE  Spec => []EveryTickCounted
<1>1. Init => EveryTickCounted
  BY DEF Init, EveryTickCounted
<1>2. TypeOK /\ Progress /\ NoLostUpdate /\ EveryTickCounted /\ [Next]_vars => EveryTickCounted'
  BY KeepsCounted
<1> QED BY <1>1, <1>2, AggregatorTypes, AggregatorNoLostUpdate, PTL DEF Spec

\* The inductive invariant holds, when a partial table has a row for every symbol.
THEOREM AggregatorInvariant ==
  ASSUME NumSymbols <= TableSize
  PROVE  Spec => []AggregatorInv
<1>1. Init => PartialTables
  BY DEF Init, PartialTables
<1>2. TypeOK /\ Progress /\ NoLostUpdate /\ PartialTables /\ [Next]_vars => PartialTables'
  BY KeepsTables
<1>3. TypeOK /\ Progress /\ NoLostUpdate /\ PartialTables => AggregatorInv
  BY DEF AggregatorInv
<1> QED BY <1>1, <1>2, <1>3, AggregatorTypes, AggregatorNoLostUpdate, PTL DEF Spec

\* The parallel reduction implements the sequential one, for every number of threads and
\* every input, when a partial table has a row for every symbol and no price is negative.
THEOREM AggregatorImplementsReduction ==
  ASSUME NumSymbols <= TableSize, NonnegativePrices
  PROVE  Spec => ImplementsReduction
<1>1. Init => Sequential!Init
  BY DEF Init, Sequential!Init, Symbols
<1>2. AggregatorInv /\ [Next]_vars => [Sequential!Next]_Sequential!reductionVars
  <2> SUFFICES ASSUME AggregatorInv, [Next]_vars
               PROVE  Sequential!Next \/ UNCHANGED Sequential!reductionVars
    OBVIOUS
  <2>1. CASE \E stream \in Streams : Run(stream)
    BY <2>1 DEF Run, Sequential!Next, Sequential!Call
  <2>2. CASE Merge
    <3>1. out' = [s \in Symbols |-> Sequential!RowOf(ticks, s)]
      BY <2>2, MergedIs DEF Merge
    <3>2. out' = Sequential!Table(ticks)
      BY <3>1 DEF Sequential!Table, Symbols
    <3> QED BY <2>2, <3>2 DEF Merge, Sequential!Next, Sequential!Return
  <2>3. CASE StartWorker
    <3>1. main = "start" /\ main' # "idle" /\ UNCHANGED <<ticks, out>>
      BY <2>3 DEF StartWorker
    <3> QED BY <3>1 DEF Sequential!reductionVars
  <2>4. CASE Join
    BY <2>4 DEF Join, Sequential!reductionVars
  <2>5. CASE \E t \in Workers : Work(t)
    BY <2>5 DEF Work, ReadRow, WriteRow, Exit, Sequential!reductionVars
  <2>6. CASE Terminated \/ UNCHANGED vars
    BY <2>6 DEF Terminated, vars, Sequential!reductionVars
  <2> QED BY <2>1, <2>2, <2>3, <2>4, <2>5, <2>6 DEF Next, Caller
<1> QED BY <1>1, <1>2, AggregatorInvariant, PTL DEF Spec, ImplementsReduction, Sequential!Spec
=============================================================================
