----------------------------- MODULE Aggregator -----------------------------
(***************************************************************************)
(* FastAggregator of week-3/project/aggregator.cpp: run() resets one       *)
(* partial table per thread, starts the threads on consecutive chunks of   *)
(* the stream, joins them all and merges the partial tables.               *)
(*                                                                         *)
(* partials_ is one contiguous array of tables with TableSize rows (1024   *)
(* in the program); a row is addressed as the code addresses it, so a      *)
(* symbol id beyond the table reaches into the next one.  A thread adds a  *)
(* tick to its row by reading the row and writing it back, two steps       *)
(* another thread may come between.                                        *)
(***************************************************************************)
EXTENDS Integers, Sequences, FiniteSetsExt, Functions

CONSTANTS THREADS,     \* worker threads
          TableSize,   \* rows of a PartialTable
          NumSymbols,  \* argument of on_init
          Streams,     \* inputs of run()
          Infinity,    \* INT64_MAX: larger than every price
          Unspecified, \* what the caller's rows hold before the first call
          Runs         \* bound: calls of run()

ASSUME ThreadsAssumption == THREADS \in Nat \ {0}
ASSUME TableAssumption == TableSize \in Nat \ {0} /\ NumSymbols \in Nat \ {0}
Tick == [symbol : 0 .. NumSymbols - 1, price : -Infinity .. Infinity, qty : Nat \ {0}]

ASSUME StreamsAssumption == Infinity \in Nat /\ \A stream \in Streams : stream \in Seq(Tick)
ASSUME RunsAssumption == Runs \in Nat

Workers == 0 .. THREADS - 1
Symbols == 0 .. NumSymbols - 1

VARIABLES main,       \* run(): "idle", "start", "join", "merge"
          started,    \* workers started so far
          worker,     \* per worker: "none", "read", "write", "exited"
          pos,        \* per worker: the tick it is at (p - ticks)
          row,        \* per worker: the row it has read
          partials_,  \* the rows of all the tables, by address
          ticks,      \* the input of the latest call
          out,        \* the caller's rows
          runs        \* calls so far

vars == <<main, started, worker, pos, row, partials_, ticks, out, runs>>

\* Variant: all workers share one table.
AddressShared(t, s) == s

\* &partials_[t].agg[s]
Address(t, s) == t * TableSize + s
Addresses == {Address(t, s) : t \in Workers, s \in Symbols}

EmptyRow == [count |-> 0, sum_price |-> 0, min_price |-> 0, max_price |-> 0, sum_qty |-> 0]

SeedRow == [count |-> 0, sum_price |-> 0, sum_qty |-> 0,
            min_price |-> Infinity, max_price |-> 0]

\* Variant: equal chunks that forget the remainder.
StartEqual(n, t) == t * (n \div THREADS)

\* The chunk of worker t: ticks Start(t) .. Start(t + 1) - 1.
Start(n, t) == (n * t) \div THREADS

\* process_chunk's update of a row.
Added(r, tick) ==
  [count |-> r.count + 1, sum_price |-> r.sum_price + tick.price,
   sum_qty |-> r.sum_qty + tick.qty,
   min_price |-> IF tick.price < r.min_price THEN tick.price ELSE r.min_price,
   max_price |-> IF tick.price > r.max_price THEN tick.price ELSE r.max_price]

Init ==
  /\ main = "idle" /\ started = 0 /\ ticks = <<>> /\ runs = 0
  /\ worker = [t \in Workers |-> "none"]
  /\ pos = [t \in Workers |-> 0]
  /\ row = [t \in Workers |-> SeedRow]
  /\ partials_ = [a \in Addresses |-> SeedRow]
  /\ out = [s \in Symbols |-> Unspecified]

-----------------------------------------------------------------------------
(* run(), on the calling thread. *)

\* Variant: the partial tables keep what an earlier call left in them.
RunUnreset(stream) ==
  /\ main = "idle" /\ runs < Runs
  /\ runs' = runs + 1 /\ ticks' = stream
  /\ main' = "start" /\ started' = 0
  /\ UNCHANGED <<worker, pos, row, partials_, out>>

\* The call, with the reset of the partial tables.
Run(stream) ==
  /\ main = "idle" /\ runs < Runs
  /\ runs' = runs + 1 /\ ticks' = stream
  /\ partials_' = [a \in Addresses |-> SeedRow]
  /\ main' = "start" /\ started' = 0
  /\ UNCHANGED <<worker, pos, row, out>>

StartWorker ==
  /\ main = "start" /\ started < THREADS
  /\ started' = started + 1
  /\ worker' = [worker EXCEPT ![started] = "read"]
  /\ pos' = [pos EXCEPT ![started] = Start(Len(ticks), started)]
  /\ main' = IF started' = THREADS THEN "join" ELSE "start"
  /\ UNCHANGED <<row, partials_, ticks, out, runs>>

\* The destructors of the jthreads join all the workers.
Join == /\ main = "join" /\ \A t \in Workers : worker[t] = "exited"
        /\ main' = "merge"
        /\ worker' = [t \in Workers |-> "none"]
        /\ UNCHANGED <<started, pos, row, partials_, ticks, out, runs>>

\* The merged row of a symbol: rows without ticks are skipped, a symbol without ticks
\* gets zeros.
Merged(s) ==
  LET used == {t \in Workers : partials_[Address(t, s)].count # 0}
      Total(field) == MapThenSumSet(LAMBDA t : partials_[Address(t, s)][field], used)
      Values(field) == {partials_[Address(t, s)][field] : t \in used}
  IN  IF used = {} THEN EmptyRow
      ELSE [count |-> Total("count"), sum_price |-> Total("sum_price"),
            min_price |-> Min({Infinity} \cup Values("min_price")),
            max_price |-> Max({0} \cup Values("max_price")),
            sum_qty |-> Total("sum_qty")]

Merge == /\ main = "merge"
         /\ out' = [s \in Symbols |-> Merged(s)]
         /\ main' = "idle"
         /\ UNCHANGED <<started, worker, pos, row, partials_, ticks, runs>>

(* process_chunk, on worker t. *)

RowOfTick(t) == Address(t, ticks[pos[t] + 1].symbol)

ReadRow(t) == /\ worker[t] = "read" /\ pos[t] # Start(Len(ticks), t + 1)
              /\ row' = [row EXCEPT ![t] = partials_[RowOfTick(t)]]
              /\ worker' = [worker EXCEPT ![t] = "write"]
              /\ UNCHANGED <<main, started, pos, partials_, ticks, out, runs>>

WriteRow(t) == /\ worker[t] = "write"
               /\ partials_' = [partials_ EXCEPT ![RowOfTick(t)] =
                                  Added(row[t], ticks[pos[t] + 1])]
               /\ pos' = [pos EXCEPT ![t] = @ + 1]
               /\ worker' = [worker EXCEPT ![t] = "read"]
               /\ UNCHANGED <<main, started, row, ticks, out, runs>>

\* Variant: the loop tests its end after a tick, so that an empty chunk is never left.
ExitAfterTick(t) == /\ worker[t] = "read" /\ pos[t] = Start(Len(ticks), t + 1)
                    /\ pos[t] > Start(Len(ticks), t)
                    /\ worker' = [worker EXCEPT ![t] = "exited"]
                    /\ UNCHANGED <<main, started, pos, row, partials_, ticks, out, runs>>

Exit(t) == /\ worker[t] = "read" /\ pos[t] = Start(Len(ticks), t + 1)
           /\ worker' = [worker EXCEPT ![t] = "exited"]
           /\ UNCHANGED <<main, started, pos, row, partials_, ticks, out, runs>>

Terminated == main = "idle" /\ runs = Runs /\ UNCHANGED vars

-----------------------------------------------------------------------------
Caller == StartWorker \/ Join \/ Merge
Work(t) == ReadRow(t) \/ WriteRow(t) \/ Exit(t)

Next == \/ Caller \/ Terminated
        \/ \E t \in Workers : Work(t)
        \/ \E stream \in Streams : Run(stream)

Fairness == WF_vars(Caller) /\ \A t \in Workers : WF_vars(Work(t))

Spec == Init /\ [][Next]_vars /\ Fairness

-----------------------------------------------------------------------------
(* Properties. *)

Row == [count : Nat, sum_price : Int, min_price : Int, max_price : Int, sum_qty : Nat]

TypeOK ==
  /\ main \in {"idle", "start", "join", "merge"} /\ started \in 0 .. THREADS
  /\ worker \in [Workers -> {"none", "read", "write", "exited"}]
  /\ pos \in [Workers -> Nat]
  /\ \A t \in Workers : worker[t] # "none" => pos[t] <= Len(ticks)
  /\ row \in [Workers -> Row] /\ partials_ \in [Addresses -> Row]
  /\ ticks \in Streams \cup {<<>>} /\ runs \in 0 .. Runs

\* The parallel reduction implements the sequential one: the table run() returns is
\* the one of a single pass over the stream, whatever the number of threads, the chunks
\* and the interleaving, and an earlier call leaves nothing behind.
Sequential == INSTANCE Reduction WITH running <- main # "idle", input <- ticks
ImplementsReduction == Sequential!Spec

\* No update of a partial row is lost or raced on: between a worker's read of a row and
\* its write nobody else changes the row.
NoLostUpdate ==
  \A t \in Workers : worker[t] = "write" => row[t] = partials_[RowOfTick(t)]

\* Every tick is counted exactly once: while the workers run, the tables hold as many
\* ticks as the workers have gone through, and when they are merged, all of them.
Counts == [a \in Addresses |-> partials_[a].count]
Going == {t \in Workers : worker[t] # "none"}
Gone == [t \in Going |-> pos[t] - Start(Len(ticks), t)]

TicksCounted == SumFunctionOnSet(Counts, Addresses)
TicksDone == SumFunctionOnSet(Gone, Going)

EveryTickCounted ==
  /\ main \in {"start", "join"} => TicksCounted = TicksDone
  /\ main = "merge" => TicksCounted = Len(ticks)

(***************************************************************************)
(* The inductive invariant behind the properties above, in named parts.    *)
(***************************************************************************)
\* Where the caller and the workers are: the workers below `started' run while the caller
\* starts or joins them, each in its own chunk, and the caller merges when all of them
\* have gone through theirs.
Progress ==
  /\ main \in {"idle", "merge"} => \A t \in Workers : worker[t] = "none"
  /\ main = "start" => started < THREADS /\ \A t \in Workers : worker[t] = "none" <=> t >= started
  /\ main = "join" => \A t \in Workers : worker[t] # "none"
  /\ main \in {"join", "merge"} => started = THREADS
  /\ \A t \in Workers :
        /\ worker[t] # "none" => pos[t] \in Start(Len(ticks), t) .. Start(Len(ticks), t + 1)
        /\ worker[t] = "write" => pos[t] # Start(Len(ticks), t + 1)
        /\ worker[t] = "exited" \/ main = "merge" => pos[t] = Start(Len(ticks), t + 1)

\* The row of the ticks of a stream whose numbers are in own.
RowOver(stream, own) ==
  LET prices == {stream[i].price : i \in own}
  IN  [count |-> Cardinality(own),
       sum_price |-> MapThenSumSet(LAMBDA i : stream[i].price, own),
       min_price |-> Min({Infinity} \cup prices), max_price |-> Max({0} \cup prices),
       sum_qty |-> MapThenSumSet(LAMBDA i : stream[i].qty, own)]

\* The partial row of a worker and a symbol is the row of the part of its chunk that the
\* worker has gone through.
Reached(t) == IF t < started THEN pos[t] ELSE Start(Len(ticks), t)

Own(stream, s, from, to) == {i \in from + 1 .. to : stream[i].symbol = s}

PartialTables ==
  main # "idle" =>
    \A t \in Workers : \A s \in Symbols :
      partials_[Address(t, s)] = RowOver(ticks, Own(ticks, s, Start(Len(ticks), t), Reached(t)))

AggregatorInv == TypeOK /\ Progress /\ NoLostUpdate /\ PartialTables

\* A call of run() returns.
RunReturns == main = "start" ~> main = "idle"
=============================================================================
