-------------------------- MODULE LatencyHistogram --------------------------
(***************************************************************************)
(* LatencyHistogram of week-1/project/include/histogram.hpp: counts of     *)
(* latencies in buckets that double in width, and percentiles read from    *)
(* them.  A percentile q is given in thousandths.                          *)
(***************************************************************************)
EXTENDS Integers, FiniteSetsExt

CONSTANTS N,          \* buckets, 32 in the program
          Latencies,  \* latencies record() may be given, in ns
          Quantiles   \* q of percentile(), in thousandths

ASSUME HistogramAssumption ==
  N \in Nat \ {0} /\ Latencies \subseteq Nat /\ Quantiles \subseteq 0 .. 1000

VARIABLES buckets_, count_,
          samples     \* history: how often each latency was recorded

histogramVars == <<buckets_, count_, samples>>

HistogramInit == /\ buckets_ = [i \in 0 .. N - 1 |-> 0] /\ count_ = 0
                 /\ samples = [ns \in Latencies |-> 0]

\* Variant: a power of two goes to the bucket below.
BucketOfBelow(ns) == IF ns <= 1 THEN 0 ELSE Max({i \in 0 .. N - 1 : 2 ^ i < ns})

\* The position of the highest bit, clamped to the last bucket.
BucketOf(ns) == IF ns = 0 THEN 0 ELSE Max({i \in 0 .. N - 1 : 2 ^ i <= ns})

Record(ns) == /\ buckets_' = [buckets_ EXCEPT ![BucketOf(ns)] = @ + 1]
              /\ count_' = count_ + 1
              /\ samples' = [samples EXCEPT ![ns] = @ + 1]

\* The rank looked for, truncated but at least 1.
Target(q) == LET t == (count_ * q) \div 1000 IN IF t = 0 THEN 1 ELSE t

Cumulative(i) == MapThenSumSet(LAMBDA j : buckets_[j], 0 .. i)

Percentile(q) ==
  IF count_ = 0 THEN 0
  ELSE LET reached == {i \in 0 .. N - 1 : Cumulative(i) >= Target(q)}
       IN  2 ^ (IF reached = {} THEN N ELSE Min(reached) + 1)

-----------------------------------------------------------------------------
\* How many samples are shorter than a bound.
Below(bound) == MapThenSumSet(LAMBDA ns : samples[ns], {ns \in Latencies : ns < bound})

\* The inductive invariant: up to any bucket but the last, the counts are those of the
\* samples below the upper end of the bucket.
HistogramInv ==
  /\ buckets_ \in [0 .. N - 1 -> Nat] /\ count_ \in Nat /\ samples \in [Latencies -> Nat]
  /\ \A i \in 0 .. N - 2 : Cumulative(i) = Below(2 ^ (i + 1))

\* The q-th percentile is told up to a factor of two and up to one sample, which truncating
\* the rank may cost: with one sample more, those below the bound percentile(q) returns
\* were more than a share q of all, but those below half of it no more than that, unless
\* there are none.  The bound 2^N stands for the longer latencies clamped to the last
\* bucket, too.
PercentileBounds ==
  count_ > 0 =>
    \A q \in Quantiles :
       LET p == Percentile(q)
       IN  /\ p < 2 ^ N => Below(p) > 0 /\ 1000 * (Below(p) + 1) > count_ * q
           /\ p > 2 /\ Below(p \div 2) > 0 => 1000 * (Below(p \div 2) + 1) <= count_ * q
=============================================================================
