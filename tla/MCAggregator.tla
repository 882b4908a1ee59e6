---------------------------- MODULE MCAggregator ----------------------------
(***************************************************************************)
(* Aggregator on streams chosen so that chunks are empty or uneven, a      *)
(* symbol is spread over several chunks, missing from some or from all,    *)
(* its extremes fall in different chunks, and a later call follows one     *)
(* with larger extremes.                                                   *)
(***************************************************************************)
EXTENDS Aggregator

CONSTANTS NegativePrices   \* turns the prices negative

Signed(price) == IF NegativePrices THEN -price ELSE price

\* A stream from the symbols and prices of its ticks; the quantity is the tick's number.
Stream(symbols, prices) ==
  [i \in DOMAIN symbols |-> [symbol |-> symbols[i], price |-> Signed(prices[i]), qty |-> i]]

\* With a symbol too many, a stream whose first tick is of that symbol and goes to the first
\* worker.
MCStreams ==
  IF NumSymbols > TableSize THEN { Stream(<<2, 1>>, <<8, 3>>) }
  ELSE { <<>>,
         Stream(<<1>>, <<9>>),
         Stream(<<0, 0>>, <<2, 5>>),
         Stream(<<0, 1, 0, 1>>, <<3, 1, 3, 7>>),
         Stream(<<1, 1, 1, 1, 0>>, <<4, 2, 6, 4, 5>>) }
=============================================================================
