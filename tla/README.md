# TLA+ models of the CSoT low-latency track projects

The repository holds four weekly C++ projects and the course notes around them.  Each
project is a small program whose author replaces a plain reference by something fast:
an address-keyed strategy with rolling sums (week 1), a cache simulator built of bit
masks (week 2), a parallel reduction (week 3), and a two-thread pipeline over a
lock-free ring (week 4).  What can go wrong is always the same question: does the fast
version still do what the plain one does?  So most of this project is refinement: an
abstract module says what a component promises, a detailed one follows the code, and
TLC shows on small instances, and TLAPS for much of it in general, that the second implements the first.

Paths below are relative to `src/`.

## 1. The system

| part | code | state | operations |
|---|---|---|---|
| SPSC ring | `week-4/project/pipeline.cpp:46-89` | `slots_`, `tail_`, `head_` | `try_push` (producer thread), `try_pop` (consumer thread), `reset` (never called) |
| Pipeline | `week-4/project/pipeline.cpp:99-238` | ring, per-symbol window/head/count/position, and in `run` the producer thread and `producer_done` | `on_init`, `run` |
| Sequential pipeline | `week-4/project/samples/pipeline.stub.cpp`, `data/gen_feed.py` | per-symbol window and position | `on_init`, `run`; `reference_orders` |
| Aggregator | `week-3/project/aggregator.cpp` | `partials_`: one table of 1024 rows per worker | `on_init`, `run` |
| Sequential reduction | `week-3/project/samples/aggregator.stub.cpp`, `data/gen_ticks.py` | the result table | `run`; `reference_table` |
| Cache simulator | `week-2/project/cache_sim.cpp`, a second copy in `samples/cache_sim.stub.cpp` | tags, valid and dirty masks and LRU matrix of every set of two levels | `on_init`, `run` |
| CSV loader | `week-1/project/src/csv_loader.cpp` | `symbol_storage_`, `symbol_map`, the ticks | `load` |
| Strategy | `week-1/project/strategies/reference_strategy.*` | slot table keyed by address; per slot window, sums, position | `on_tick`, `on_fill` |
| Replay engine, `main` | `week-1/project/src/` | two counters, the histogram | `run` |
| Latency histogram | `week-1/project/include/histogram.hpp` | 32 buckets, a count | `record`, `percentile` |
| Feed files | `week-4/project/data/gen_feed.py`, `harness/main.cpp` of weeks 2 to 4 | random walks, record buffer, the file, the loaded vector | `write_generated_feed`, `orders_json`; load, call of `run`, report |

Interactions.  Week 1 is sequential: `main` loads a file, the engine calls `on_tick` for
every tick, records how long it took, and fills each returned order through `on_fill`
before the next tick; loader and strategy share only addresses (a tick's symbol is a
view into the loader's strings).  Week 2 is a sequential loop.  In week 3 `run` forks
four threads that write disjoint tables and joins them.  In week 4 `run` starts a
producer thread that decodes into the ring while the calling thread consumes; the two
share the ring's indices and slots and the flag `producer_done`, nothing else.

What is hard here, and hardly reached by tests:

* the weak memory order between the two threads of week 4: which slot contents a load of
  an index entitles its thread to, and what seeing `producer_done` says about the ring;
* the reuse of objects: all `run` functions may be called again and keep state;
* two-step changes: a row that is read and written, a miss that changes the second level
  before the victim of the first is written back, a name that is stored and then mapped;
* boundaries: a full ring whose indices wrap, empty and uneven chunks, borrows between the
  bytes of the LRU matrix, traces shorter than a loop's tail, a z-score of exactly 2;
* rounding: sums that are updated for ever and never computed afresh, a variance that is the
  difference of two nearly equal numbers, prices that turn from integers into doubles and back;
* files that are incomplete, or change while they are read;
* references that outlive what they refer to (the views of the CSV loader).

`PROJECT.json` lists every such hazard at its line, with the properties that cover it.

## 2. Modules

| module | models | role |
|---|---|---|
| `BoundedFifo` | what the ring promises: a queue of at most `Capacity` items | abstract |
| `SpscRing` | `SpscRing<T, Capacity>`, one action per memory access | detailed, implements `BoundedFifo` |
| `DataLemmas` | lemmas on integers, remainders, finite sets and their sums, powers of two, least members | proofs |
| `SpscRingProofs` | the ring's invariant, its safety, and that it implements the queue | proofs |
| `ZScore` | the trading rule of `process_tick` for one symbol | pure operators |
| `OrderStream` | the order stream a tick history determines | pure reference |
| `SequentialPipeline` | `StubPipeline::run`: trade tick after tick | abstract |
| `Pipeline` | `FastPipeline`; EXTENDS `SpscRing` | detailed, implements `SequentialPipeline` |
| `PipelineProofs` | the pipeline's invariant, draining, orders against positions, the sequential pipeline, the harness's report; EXTENDS `Harness`, `SpscRingProofs`, `RoundingProofs` | proofs |
| `Rounding` | doubles with a short mantissa | pure operators |
| `RoundingProofs` | lemmas on it: what is exact, how far apart the doubles of a size are, how far off one or several roundings are | proofs |
| `Harness` | the report of the week-4 harness and of `gen_feed.py --orders`; EXTENDS `Pipeline`, `Rounding` | composition |
| `Reduction` | `StubAggregator::run` | abstract |
| `Aggregator` | `FastAggregator` | detailed, implements `Reduction` |
| `AggregatorProofs` | the aggregator's invariant, and that it implements the reduction | proofs |
| `LruList` | true LRU as a list of ways | abstract |
| `LruMatrix`, `LruSet` | `INIT_MAT`, `lru_touch`, `lru_victim`; one set over a sequence of uses | detailed, implements `LruList` |
| `CacheHierarchy` | a set is a list of lines in LRU order | abstract |
| `CacheSim` | `FastCacheSim`; EXTENDS `LruMatrix` | detailed, implements `CacheHierarchy` |
| `CacheSimProofs` | the matrix stays a total order, the zero-byte search finds its minimum, the matrix implements the list; the simulator's invariant, that no dirty line is lost and none written to memory needlessly, and that it implements the reference hierarchy | proofs |
| `CacheSimSample` | `run` of `samples/cache_sim.stub.cpp`; EXTENDS `CacheSim` | detailed |
| `CsvLoader`, `ReferenceStrategy`, `LatencyHistogram` | the parts of the week-1 program; the strategy EXTENDS `Rounding` | components |
| `Replay` | the week-1 program; EXTENDS the three | composition, implements `SequentialPipeline` where nothing is rounded |
| `ReplayProofs` | the invariant of the week-1 program, the specified strategy, errors of the sums and their effect, addresses and slots, positions, percentiles, report; EXTENDS `RoundingProofs` | proofs |
| `FeedFile` | a feed file between its generator and the harness | composition of two programs |
| `FeedFileProofs` | valid quotes, nothing stale, whole ticks | proofs |
| `MC*` | instances for TLC | |

Names of variables and actions are those of the code where it has one (`tail_`,
`partials_`, `lru_touch`, `get_symbol_index` as `Lookup`, ...).  Operators commented
`Variant` are plausible mistakes; no specification uses them.  The list `mutants` of
`PROJECT.json` puts each of them in the place of the operator below it, and the property
named there must then be violated.

### SpscRing: the memory model

The producer's and the consumer's code are straight lines of a few accesses, so the
interesting nondeterminism is in the memory.  An atomic variable is its modification
order, a sequence of messages; a message has the value stored and a view, the number of
plain slot accesses its thread had done when it stored it.  A load may return any message
not older than the last one the thread saw, so a thread may be arbitrarily behind.  An
acquire load joins the message's view to the thread's own, and a plain slot access is
ordered only after what is in the thread's view: `NoDataRace` says that nothing else
touches the slot, and a read that does race may return any of the racing writes.  That
the view counts accesses of one thread is enough because each side of the ring has one
thread.  The actions follow the lines of `try_push` (72 the call and own index, 73 the
test, 75 the slot, 76 the publication) and of `try_pop` (82, 83, 85, 86).

`ProducerSynchronises` and `ConsumerSynchronises` are the ordering that other means
establish between calls; `Pipeline` uses them for thread creation (line 195), the flag
(line 226) and the join (line 235), and `RingIntact` checks that it uses the ring in no
other way than `SpscRing` allows.  The theorems hold with any such synchronisation.
`Pipeline` EXTENDS the ring instead of instantiating it, so that the ring's theorems can be
cited in `PipelineProofs`; the ring's own specification is therefore called `RingSpec`, its variables `ringVars`.

### Pipeline and ZScore

One action per access of the ring, plus: `Run` (the call, with a new flag and a new
thread), `Finish` (the release store of the flag), `LoadDone` (its acquire load), `Join`.
`process_tick` is executed by one thread on its own state, so it is part of the action
`Trade`, together with the publication of the pop.  A mid is kept as bid + ask, and
comparisons with the z-score are multiplied out, so everything is an integer; the test
`stddev < EPSILON` is the test for a window without spread.

`OrderStream` defines the same orders by looking at the last `Window` ticks of a symbol in
the history; it has no ring buffer of mids, no head, and no count.  That `Pipeline`
implements `SequentialPipeline` thus checks the window handling as well as the threads.

The z-score of the program is computed in doubles, with a division and a square root, and
so is that of its reference; both add the 64 mids of a window in the order of the slots.
Exact integers do not show a window that has the right mids in the wrong slots, which might
round otherwise.  `WindowLayout` closes the gap: slot by slot, the window is the one the
reference has, so the two compute the same double.  (The judge's flags, `-march=x86-64-v2`,
have no fused multiply-add a compiler could use in one program and not in the other.)

`SequentialPipeline`, `Pipeline` and the code keep the windows and positions between two
calls of `run` on one object, and nothing resets them; the stub does the same.  The
"repeated runs" of PIPELINE_SPEC.md:144 therefore must be runs of objects of their own.

### Rounding and Harness

`Rounded` is rounding to nearest, ties to even, to a mantissa of `Precision` bits; values are integers in
the unit of the prices, so that a short mantissa and small prices show what 53 bits and
prices in the hundreds do.  In `Harness` a double is a multiple of `2^-FractionBits`.
The producer divides the wire price by `PRICE_SCALE`, the harness multiplies the order's
price by it and calls `llround`; `ReportMatchesReference` compares what the harness prints with what
`orders_json` prints, entry by entry.  A conversion that truncates
instead of rounding loses a unit.

### Aggregator

The tables are one array of rows, addressed as the compiler would (`t * TableSize +
symbol`); rows beyond the last table are taken to be ordinary private memory.  A
worker reads a row and writes it in two steps.  The merge is one action: at that point
the workers have been joined.

`AggregatorInv` adds to the types what the threads are doing (`Progress`: each worker in its own
chunk, and merging only when all have gone through theirs), `NoLostUpdate`, and `PartialTables`: a
partial row is the row (`RowOver`) of the ticks of its symbol in the part of the chunk its worker has
gone through.

### LruMatrix, CacheSim

A row of the matrix is the set of its columns.  `Flagged` computes
`(m - 0x01..01) & ~m & 0x80..80` byte by byte with the borrow each byte passes to the next.
An address is its block number.  One iteration of the loop of `run` is one action, `HitL1`
or `MissL1`; a miss is the composition of the probe of the second level (`Probed`), the
write-back of the dirty victim (`WrittenBack`) and the installation in the first
(`Installed`), in the order of the code.  The SIMD comparison of `find_way` is the set of
matching valid ways.  `NoDirtyLost` and `NoNeedlessWriteback` are the two sides of the count of write-backs:
a block stops being dirty only by one, and each uses up a line that a write made dirty.  `CacheInv` says of every set of both levels that its dirty ways are valid,
that no two valid ways have one tag, that its matrix is a strict total order in which every free way is
older than every used one, and that the counters balance.  The mapping to `CacheHierarchy` lists the
valid ways of a set (`Lines`), the last used first: they are the first `Cardinality(valid)` ways of the
order of the matrix, because the free ways come last.

### CsvLoader, ReferenceStrategy, Replay

A view is the address it points to.  The characters of a short string lie in the string
object, and with it in the vector's buffer; those of a long string in a block of their
own.  `push_back` on a full vector takes a buffer of twice the size anywhere but over the
old one (libstdc++ moves the strings).  `ShortNames` says which names are short.
`get_symbol_index` compares addresses, so its slots are keyed by address in the model.
That every name keeps one address (`Interned`) is true of long names only.  Of all names
`InternedSinceGrown` says what is left: a tick is `Lasting` if its name is long or was loaded since the
vector grew last, and addresses tell the names of lasting ticks apart.  The others are views that were `LeftBehind`,
at most as many as the earlier buffers had cells, and each may have taken a slot of the strategy.  So
`SupportsAllSymbols` promises a replay without exception for `MaxSymbols` long names, but with short ones among
them only for about a third as many names.

The model keeps every statement of `on_tick` that changes state, with comparisons
multiplied by `Window^2`, and rounds after every operation, in the order of the code.  A file
is `Exact` if its mids are not negative and so short that no operation is rounded (the square of
`Window` mids fits the mantissa): of these files
`ImplementsSpecified` demands the orders of the specified strategy.  Of the others it cannot
be demanded (section 5).  What holds for them:

* `RollingSumsBounded`: the errors of the rolling sums, which nothing ever removes, are less than a
  unit in the last place for every tick of the symbol.
* `RoundingHeals`: call a tick *undecided* if the exact values are closer to a threshold than
  these errors and those of the formulas allow to tell (`Margin`), and a *clear exit* a tick
  that is not and whose z-score is within the exit threshold.  After a clear exit the position of its symbol is
  the specified one until the next undecided tick.  A strategy with another threshold, such as `FarWrongEntry` of
  `samples/incorrect_strategy.cpp`, violates it.

`LatencyHistogram` keeps, as a history, the samples it was given, and `PercentileBounds`
compares with them what `percentile` would answer at any time: the samples below the bound it returns are enough,
those below half of it are not, up to the one sample that truncating the rank may cost.
`ReplayInv` has five parts.  `BooksInv` holds whatever the strategy computes: `LoaderInv` (`NamesInv`: map and vector are inverse to
each other; `TickOf`: what a tick is made of), `StrategyInv` (no address has two slots; `SlotInv`: head
and count fit), `HistogramInv` (the counts up to a bucket are the samples below its upper end), and the
engine's own: `EngineInv`, `PendingInv`, `SeenInv` and `OrdersInv`.  `PlacementInv`: the vector is more than half full, a
lasting view leads to the string the map names, and how many views were left behind.  `WindowsInv`: the ring of a slot has the
mids of the last ticks of its symbol, each in the place of its number (`LaidOut`), rounded or not.  `ExactInv`: of an exact
file, `rolling_sum` and `rolling_sq_sum` are the sums over the ring, and the orders of a symbol add up to the position
the specified strategy has reached.  `RoundedInv` is about files that leave room for the errors: the sums of every slot are as far off as
`SumError` and `SquaresError` of its symbol's latest tick say, and the orders of every symbol that is settled (no
undecided tick since its latest clear exit) add up to the specified position.  A malformed number throws after its row's name was stored, and
`status` becomes "rejected"; a full slot table throws, and it becomes "aborted".

### FeedFile

The writer and the harness are two programs that share a file and nothing else, so their steps
interleave freely.  A record is a few bytes, each marked with the record and its place in
it, so that a record torn apart or repeated shows.  `Generate` is one iteration of the loop of
`write_generated_feed`, with the tick it draws and the write of a full buffer.  The file
grows by pieces (`Write`), the writer may stop at any point, and may be run again, which
truncates the file.  The harness measures the file (`Measure`), reads it in pieces (`Read`) and
calls `run` on the vector, unless `create_pipeline` returns null.  The harness programs of weeks 2 and 3 do the same with other records.
`FeedInv` has the writer's part (`FileInv`: file, pending write and the used part of the buffer are
the bytes of the ticks made) and the harness's (`HarnessInv`: what it measured is whole records, and
as long as the writer was not started again it is still in the file).

## 3. Runs

| run | what it asks | instance |
|---|---|---|
| `spsc_ring` | race freedom, FIFO, capacity, honest failures, the invariant of the proofs, `BoundedFifo` | 2 slots, indices modulo 4, 2 items, 6 pushes |
| `pipeline` | `SequentialPipeline`, the invariant of the proofs, draining, orders against positions, layout of the windows, use of the ring, the printed report, termination | 2 slots, window 8, 2 calls, feeds of 0, 2, 8, 11 ticks, prices in hundredths, mantissas of 10 bits |
| `aggregator` | `Reduction`, the invariant of the proofs, lost updates, chunk cover, termination | 3 workers, 5 streams of 0 to 5 ticks, 2 calls |
| `lru_matrix` | total order, victim, `LruList` | the 8 ways of the program, all 40,320 matrices |
| `cache_sim` | `CacheHierarchy`, the invariant of the proofs, duplicates, write-backs neither lost nor needless | 2 ways, 2 and 4 sets, 4 blocks, warm restarts |
| `replay` | `SequentialPipeline` for the week-1 program, the invariant of the proofs, addresses and slots, rounding of the sums and its effect, positions, report, percentiles | window 8, 3 long and 2 short names, 2 places for a buffer, 2 slots, 21 files of up to 13 rows, 6 of them rounded (mantissas of 18 bits), 4 buckets, 3 latencies |
| `feed_file` | the invariant of the proofs, what the harness reads against what was generated, stale buffers, valid quotes | 5 ticks in chunks of 2, records of 2 bytes, 2 runs of the writer |
| `aggregator_negative`, `aggregator_wide`, `cache_sim_sample`, `replay_interned`, `replay_rounding` | disagreements of code and documents, see section 5 | as small as shows it |

Why the bounds are enough.  *Ring*: six pushes take the slots round three times and the
indices round once and a half; with two slots each thread can be a full ring behind.
The theorems remove the bounds.  *Pipeline*: the feeds fill windows, wrap them,
enter at a z-score of exactly 2, leave at exactly 0.5, go long and short, interleave two
symbols, and stay flat; a second call follows every first one, with whatever window and
position it left.  The ring is smaller than the feeds, so the producer does spin.
*Aggregator*: there are chunks of 0, 1 and 2 ticks, symbols in one, several or no chunk, and
a second call with smaller extremes than the first.  *LRU*: nothing is bounded but the
length of the history, and all reachable matrices are visited.  *Cache*: states
of the caches are not reset between calls, so the bound on a trace bounds the counters
only: every cache content reachable with these blocks is reached.  The blocks meet in one
first-level set and in two second-level sets; accesses with two counted write-backs occur.
*Replay*: the files vary what comes after an entry; one has more long names than slots, in two
short names move, once and twice, into a buffer that may lie where an earlier one was; one has a malformed row, and six have prices whose squares need more bits than the mantissa has, with the sums
off by some units at the end of the warm-up, an entry on the threshold, and a clear exit after it.
The latencies are zero, a power of two and one beyond the last bucket, every tick taking any of them
(`ReplayPercentiles` is for all of them).  *Feed file*: there are
two full buffers and a rest of one record over stale ones; the file may end inside a record; two runs
of the writer suffice for a file to shrink under its reader.

The passing run `replay` has long and short names.  The files that trade have long names: what depends on one address
per name (the specified orders, the report, the sums and the healing of positions) is not true otherwise, as
`replay_interned` shows, and its theorems say so.  The files with short names are there for the addresses and the slots of names
that move, and for an exception in the middle of loading; they end before a window is full.  Likewise `aggregator` has prices that are not negative and ids within the tables, and
`replay` promises the specified orders for exact files only; `replay_rounding` drops that condition.

**Fairness.**  `Pipeline` assumes that both threads keep running (weak fairness of each
thread) and that a load repeated for ever sees the latest store eventually (strong
fairness of loading the last message); C++ asks implementations for both, [intro.progress]
and [atomics.order].  Nothing forces a particular load to be fresh.  `Aggregator` assumes
weak fairness of the caller and of each worker.  No fairness is assumed for calls of `run`.
The other modules are sequential and have no liveness property.

Deadlock is checked in every run; modules whose program ends have an explicit action
(`Terminated`, `Full`) for having ended.

## 4. Proofs

Every theorem is proved by TLAPS for every value of the constants that the named assumptions
(`ASSUME` in the module that declares the constants) allow.  They say what the code takes for granted:
a positive capacity that divides the index range, positive numbers of ways, sets, threads,
buckets and slots, inputs of the right types.  A few theorems have a hypothesis of their own, named in
their statement; for these a run shows that it cannot be dropped:

| hypothesis | of | without it |
|---|---|---|
| `NumSymbols <= TableSize` | `AggregatorNoLostUpdate`, `AggregatorCountsEveryTick`, `AggregatorInvariant`, `AggregatorImplementsReduction` | run `aggregator_wide` |
| `NonnegativePrices` | `AggregatorImplementsReduction` | run `aggregator_negative` |
| `LongNames` (no name fits a string's own buffer) | `ReplayReportConsistent`, `ReplayImplementsSpecified`, `ReplayHeals`, `ReplaySumsBounded` if not `Exact(file)` | run `replay_interned` |
| `Exact(file)`, in the property itself | `ReplayImplementsSpecified` | run `replay_rounding` |
| `SumsHaveRoom` or `Exact(file)` | `ReplaySumsBounded`, `ReplayHeals` | see below |
| `DecisionsHaveRoom` or `Exact(file)` | `ReplayHeals` | see below |

`PipelineReport` has the hypothesis `ShortPrices`: prices that are not negative and three bits shorter than the mantissa (in the
program below 2^50), and a unit of the doubles in which the scale has two bits less.  It is sufficient, not necessary: some bits more are lost
by the division and the multiplication, and llround has to absorb that.

Nor are `SumsHaveRoom` and `DecisionsHaveRoom` necessary.  The bounds on the errors are in units of the last place of the largest
value there was, while an operation rounds to the last place of its own result.  So a result must not cross the next
power of two because of the errors: the largest exact value and the error together stay below it (`HasRoom`).  After n ticks of a symbol
the error of a sum is less than n units, one unit being a 2^(`Precision` - 1)-th of the value or less; with 53 bits and ten million ticks all
values have room that are farther than about a 10^8-th of themselves from the next power of two.  Besides, the
window has at least 8 mids, so that a single mid or square is rounded by much less than a sum, and prices are not negative.
All the rounded files of `replay` have both kinds of room, and among their ticks are undecided ones, clear exits, and settled ticks
whose sums are in error.

The form is the same throughout: the initial states satisfy an inductive invariant, one lemma per action
(or per variable the action disturbs) shows that it is kept, and the properties follow from it.  Each
inductive invariant is also an invariant of a run.

**Ring** (`SpscRingProofs`).  None of the safety properties is inductive: that a
slot may be written depends on what the producer has *seen* of the consumer, not on where
the consumer is.  `RingInv` has one part per kind of knowledge.  `IndexStores`: the i-th
message of an index has value i - 1 modulo `IndexMod` and publishes exactly i - 1 accesses.
`SlotAccesses`: the k-th access of a thread went to slot k - 1 modulo `Capacity`.
`ProducerView` and `ConsumerView`: a thread that has seen i messages is ordered after i - 1
accesses of the other, and keeps its distance from them.  `RingRaceFree`, `RingFifoOrder` and
`RingWithinCapacity` follow; the step that
matters is arithmetic: two positions less than `Capacity` apart are in different slots, and
wrapped indices at most `Capacity` apart are compared correctly.  `RingHonestFailures` is an
action property of the two failing steps.  `RingImplementsFifo`: the two release stores map to `Push` and
`Pop`, every other step to a stutter.

**Pipeline** (`PipelineProofs`).  `PipelineRingIntact` shows every step to be a step of the ring or
none, which brings `RingInv` into `PipelineInv`.  The rest is about the flag: `FlagStores` says that the message `TRUE`
carries the last position of `tail_`, `TicksInFlight` that the ring holds what was pushed and not yet
traded, `DoneSeen` that a consumer that saw the flag has seen that last position, so that an empty ring
means the end (`PipelineNothingLeftBehind`).  `PipelineOrdersConsistent` needs only that one tick changes the
position of one symbol by the order it emits.

`PipelineImplementsSequential` needs to know what the windows hold after any number of calls, so `WindowLayout` and
`PositionsReplayed` are parts of `PipelineInv` too.  A tick of a symbol has a number, how many ticks
of the symbol came before it, and belongs in the slot of that number modulo `Window`.  One more tick
changes no number but its own, and takes the slot at the head (`UpdatedLayout`).  The last `Window` ticks have
`Window` numbers in a row, hence each a slot of its own and every slot one of them (`LastInSlots`).
The sums over the slots and over those ticks are therefore equal term by term (`SameSignal`, from `SumReindexed` of
`DataLemmas`), and so is the decision (`SideOfLayout`).  Replaying a longer history begins as replaying the shorter
one did (`ReplayContinued`), so the replayed positions move as `state_` does (`KeepsPositions`), and `Trade`
emits what `Emitted` says.  `Run`, `Trade` and `Join` map to `Call`, `Trade` and `Return`, every other step to a stutter.

`PipelineReport` is about the harness.  During the first call the history is the part of the feed that was traded, and the
orders are what the reference emits for its ticks, joined (`FirstCall`, from `TradeIsSequential`); at its end that is what `FlattenSeq` makes
of the whole feed (`OrdersFlattened`).  `PriceKept` is the arithmetic: a quotient and a product
are each within half a unit in the last place (`RatioWithin`), which is at most two in 2^`Precision` of the number
(`UlpSize`), so that both errors together are less than half of what `Encoded` rounds to (`RoomForBoth`).

**Aggregator** (`AggregatorProofs`).  `Progress` holds for any number of symbols; from it
and `NumSymbols <= TableSize`, which makes addresses injective, follow `AggregatorNoLostUpdate` and
`PartialTables`.  For `AggregatorImplementsReduction` the abstract pass maps to the merge: the sums over
the chunks telescope to the sum over the stream (`Telescope`), because each chunk starts where the one
before ends; minimum and maximum of the stream are those of the parts (`MinOfParts`, `MaxOfParts`),
the seeds of empty parts included, for which the maximum needs prices that are not negative.

**LRU matrix and cache simulator** (`CacheSimProofs`).  `StrictOrder` is inductive as it
stands.  `VictimStaysOldest` follows the borrows of the word subtraction: rows below the
empty one are worth at least 1 and pass no borrow on, so the empty row is the lowest one flagged.
`CacheInv` is a statement about each set by itself, preserved by `Installed`, `Used` and by setting a
dirty bit; `CacheNoDuplicates` needs that a block is installed only where it was not found.
`CacheNoDirtyLost` counts: each of the fill and the write-back of a miss drops at most one dirty block,
and then counts one; the dirty victim of the first level is dirty in the second afterwards.
`CacheNoNeedlessWriteback` counts the dirty lines of both levels (`DirtyCount`): marking a way makes at most one of them
(`DirtyingMakes`), an installation one if it is dirty, less one if it replaces a dirty line (`InstallMakes`), and the
write-back moves the one that the first level is about to lose (`Thrifty`).

`MatrixImplementsList`: the rows of a strict total order have the sizes 0 to `WAYS` - 1, each once, so the
order it stands for lists every way once (`RankOrder`, `OrderUnique`), its last member is the oldest way, and
`lru_touch` moves a way to the front of it (`TouchMovesToFront`).  `CacheImplementsReference`: a hit moves a line
of the list of its set to the front (`HitLines`), setting the dirty bit changes that line only (`DirtyLines`), and
a fill puts a line at the front, dropping the last one exactly if the set is full (`InstallLines`).  This
needs that a partly filled set fills a free way, hence that free ways are the oldest (`ValidFirst`), and that a block is the tag
and the set it was found in (`SetAndTag`).  `ProbedLines` and `WrittenBackLines` lift this to a level, and
each of `Call`, `HitL1`, `MissL1` and `Return` maps to the step of the hierarchy of the same
outcome, with the same counts.

**Feed file** (`FeedFileProofs`).  `FeedQuotesValid`: the walks stay at or above their clamp, which exceeds half of any
spread.  `FeedNothingStale`: the bytes of a record sequence, one more record included (`PackedAppend`), stay what
`FileInv` says through the filling, the full and the last partial write of the reused buffer.
`FeedRunGetsWholeTicks`: since the measurement the file has only grown, or the writer was
started again; the bytes read are a prefix of those of all ticks, of a length that is whole records, hence
the bytes of the first ticks (`PackedPrefix`).

**Week 1** (`ReplayProofs`).  `ReplayInternedSinceGrown`: a lasting view is that of the string the map names now
(`PlacementInv`), and map and vector are inverse to each other (`ReplayMapMatches`), so equal views are of one string.  That
`PlacementInv` is kept is a question of the rows that make the vector grow: what they leave behind is at most the cells of the old
buffer, and with what was left behind before it is fewer than the new one, of twice the size, has (`GrownPlaced`).  `ReplayPercentiles`: the counts up to bucket i are
the samples below 2^(i+1) for all buckets but the last, which is what clamping spares.
`ReplayNeverPyramids` makes no assumption on rounding, window or prices: an order always leaves the flat
position or returns to it, and is filled before the next tick.  `ReplaySupportsAllSymbols`: when `on_tick` throws, the slots
and the refused tick have different views each.  Lasting views belong to different names, and there are fewer others than the
capacity of the vector, which is at most twice the names but one.  `ReplayReportConsistent`: the
position of a symbol plus what the pending order owes it is the net of its orders.

`ReplayImplementsSpecified` goes further, for files whose mids are short.  A number below `2^Precision` is its own rounding
(`RoundedExact`), and everything `on_tick` computes from short mids is one: a sum over the window, a sum of squares, and both
times `Window` (`SumsSmall`, `ValuesExact`).  So `SumsExact` is kept when the mid at the head of the ring
is exchanged for the new one (`AppendedExact`).  The ring is the window: its places are those of the last `Window` numbers
(`LaidOut`, `AppendedLaidOut`, as in the pipeline), and sums over places are sums over ticks
(`WindowSums`).  Then `Window` times the spread of the specified strategy is the variance, and both
compare the same numbers with the thresholds (`FullWindow`, `ExactAnswers`, `AnswersDecide`); a window that is not
full, or has no spread, decides nothing in both.  `LongNames` makes the slot of an address the slot
of a symbol.  What the strategy believes its position to be is what the orders bought and sold, since every order is filled before the
next tick; by induction along the replay it is the specified position (`TickNets`), so that `Tick`
emits what `Emitted` says (`TickIsTrade`), and the end of the loading maps to `Call` (`LoadDoneIsCall`).
`ReplaySumsBounded` and `ReplayHeals` are about files whose prices are rounded.  One append exchanges a mid in a sum with two
roundings, of the difference and of the sum, and its square with four.  All but the last are of numbers of at most an eighth of
the sum's bound, since a window has at least 8 mids, and their units are as much smaller; together they put the sum off by
less than one unit more (`RoundedExchangedWithin`, `AppendedWithin`).  Units only grow with the largest mid (`ErrorMonotone`), so
the bound before a tick is one in the unit after it (`BeforeTickWithin`).  `ValuesOff` follows the errors through the formulas: the
products of sums that are off, and their own roundings, stay within `Margin`.  A variance, and squares, farther than five margins from the
thresholds are on the same side of them computed as exactly, and the difference has the right sign where it decides
(`RoundedAnswers`), so that a decided tick does what the rule does (`RoundedAnswered`).  At a clear exit both leave any position,
whatever either had (`ClearExitFills`), which is why the specified position is reached again; a settled tick
that is no clear exit is decided, and the previous tick of the symbol was settled (`SettledAt`, `TickSettles`).

**Induction over data.**  The induction theorems of the library take an operator as a parameter, which
the installed provers cannot instantiate.  `DataLemmas` replaces them by facts about sets that can be
cited: a non-empty set of naturals has a least member, and a set of finite sets that contains the empty set and
is closed under adding an element contains all (`SetInduction`).  With these the sums of the
community modules (`MapThenSumSet`) get their equations, and the powers of two theirs, through the number of subsets of
a set.

Model-checked only:

* liveness (`RunReturns` of pipeline and aggregator), which the prover does not handle;
* `RollingSumsBounded` and `RoundingHeals` of files outside the hypotheses above.

## 5. Where code and documents disagree

* `aggregator_negative`: rows and merge seed the maximum with 0 (`aggregator.cpp:84,105,152`), while
  AGG_SPEC.md:37 makes prices signed and line 163 asks for `INT64_MIN`.
* `aggregator_wide`: tables of 1024 rows (`aggregator.cpp:21`), while AGG_SPEC.md:55 asks not to
  hardcode 1024.  In the trace there are tables of 2 rows and 3 symbols: the first worker's tick of symbol 2 goes into
  the row of symbol 0 of the second worker's table, and the merge counts it for both symbols.
* `cache_sim_sample`: in the sample copy both loops stand under `if (n > 16)`
  (`samples/cache_sim.stub.cpp:161`), so a trace of up to 16 accesses, such as the one
  `data/tiny.stats.json` describes, gives zeros.
* `replay_interned`: `csv_loader.cpp:64` takes views of strings in a growing vector, while
  STRATEGY_SPEC.md:94 asks for one stable address per name.  In the trace the rows are s4, s1, s4: s1 makes the
  vector grow, and s4's second tick gets an address in the new buffer.  (A name that moved takes another slot
  of the strategy, too; `SupportsAllSymbols` bounds how many.)
* `replay_rounding`: with rolling sums (`reference_strategy.cpp:38-43,70`) the orders of the week-1
  program are not those of the two passes, while STRATEGY_SPEC.md:290 allows rolling sums "as long
  as the emitted orders are identical".  The model shows it with small numbers; the program does it on
  the repository's own data: of `gen.py --rows 10000000` (seed 42), built with `-O3`, an order of SYM3
  comes at tick 6980683 by `spec_strategy.cpp` and at tick 6980687 by `reference_strategy.cpp`.

## 6. Not modelled

* Floating point beyond `Rounding`: the division and the square root of the two-pass z-score (weeks 1
  and 4, see `WindowLayout`), the decimal fractions of the prices of week 1, which are multiples of a unit in the model, the rounding of the sum `bid_px + ask_px` of a mid,
  the product in `percentile` (it equals the exact rank for all counts up to 2,000,000 tried).
* `reset()` of the ring (never called), thread pinning, prefetching, alignment, timing.
* The quantity of an order (always 1) in `Pipeline`; timestamps and quantities of a tick.
* What lies behind the last partial table when an id is too large.
* Overflow of sums and counters, which the specifications exclude.
* The checksums and the reports of weeks 2 and 3, the other generators, plots, build files, backups, notes.

## 7. Plan

Done: the modules and runs above, and the theorems of section 4.  Left:

1. `Replay`: that the bounds on the errors hold across a power of two, where the unit doubles; then `SumsHaveRoom` and
   `DecisionsHaveRoom` would only ask for prices that are not negative.
