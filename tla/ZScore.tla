------------------------------- MODULE ZScore -------------------------------
(***************************************************************************)
(* The z-score trading rule of FastPipeline::process_tick in               *)
(* week-4/project/pipeline.cpp, for one symbol.  Prices are exact: a mid   *)
(* is kept as bid + ask (twice its value) and every comparison with a      *)
(* z-score is multiplied out, so that z >= 2.0 reads                       *)
(*   Deviation > 0 /\ Window * Deviation^2 >= 4 * Spread,                  *)
(* where Deviation is Window times the distance of the mid from the mean   *)
(* and Spread is Window^3 times the variance.  The rounding of `double' is *)
(* not modelled.                                                           *)
(***************************************************************************)
EXTENDS Integers, Functions

CONSTANT Window     \* WINDOW, 64 in the program: a power of two

ASSUME WindowAssumption == Window \in Nat \ {0}

Mid(tick) == tick.bid + tick.ask

Deviation(window, mid) == Window * mid - SumFunction(window)

Spread(window) ==
  LET total == SumFunction(window)
  IN  SumFunction([i \in DOMAIN window |-> (Window * window[i] - total) * (Window * window[i] - total)])

(* stddev < EPSILON: the smallest positive deviation of fixed-point prices  *)
(* is far above EPSILON, so the test singles out the constant window.       *)
Flat(spread) == spread = 0

AboveEntry(deviation, spread) == deviation > 0 /\ Window * deviation * deviation >= 4 * spread
BelowEntry(deviation, spread) == deviation < 0 /\ Window * deviation * deviation >= 4 * spread
WithinExit(deviation, spread) == 4 * Window * deviation * deviation <= spread

\* What a full window tells a symbol holding `position' to do at price `mid'.
Signal(window, mid, position) ==
  LET d == Deviation(window, mid)
      s == Spread(window)
  IN  CASE Flat(s) -> "NONE"
        [] ~Flat(s) /\ position = 0 /\ AboveEntry(d, s) -> "SELL"
        [] ~Flat(s) /\ position = 0 /\ BelowEntry(d, s) -> "BUY"
        [] ~Flat(s) /\ position > 0 /\ WithinExit(d, s) -> "SELL"
        [] ~Flat(s) /\ position < 0 /\ WithinExit(d, s) -> "BUY"
        [] OTHER -> "NONE"

\* The order is filled at once, in full.
Filled(position, side) ==
  IF side = "NONE" THEN position
  ELSE IF position # 0 THEN 0
  ELSE IF side = "SELL" THEN -1 ELSE 1

\* Variant: the two prices swapped.
OrderForSwapped(index, tick, side) ==
  [tick_index |-> index, symbol |-> tick.symbol, side |-> side,
   price |-> IF side = "SELL" THEN tick.ask ELSE tick.bid]

\* A sell is priced at the bid, a buy at the ask.
OrderFor(index, tick, side) ==
  [tick_index |-> index, symbol |-> tick.symbol, side |-> side,
   price |-> IF side = "SELL" THEN tick.bid ELSE tick.ask]
=============================================================================
