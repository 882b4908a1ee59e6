------------------------------- MODULE Harness ------------------------------
(***************************************************************************)
(* What the harness of week 4 (week-4/project/harness/main.cpp) prints of  *)
(* the first call of run(), beside what `gen_feed.py --orders' prints of   *)
(* the same feed.  Prices are integers on the wire, doubles in the ticks   *)
(* and orders of the pipeline, and integers again in the report.           *)
(*                                                                         *)
(* A double is an integer multiple of 2 ^ -FractionBits.  A tick's time is *)
(* its number; the checksum, a function of the orders printed, and the     *)
(* quantity, which is 1 in both, are left out.                             *)
(***************************************************************************)
EXTENDS Pipeline, Rounding, SequencesExt

CONSTANTS PriceScale,   \* PRICE_SCALE, 10000 in the program
          FractionBits  \* bound: the bits of a double behind the binary point

ASSUME HarnessAssumption == PriceScale \in Nat \ {0} /\ FractionBits \in Nat

\* A price as the producer decodes it: one division, rounded.
DecodedPrice(fp) == RoundedRatio(fp * 2 ^ FractionBits, PriceScale)

\* Variant: the product is converted to an integer without llround.
EncodedTruncated(price) == Rounded(price * PriceScale) \div 2 ^ FractionBits

\* llround(price * PRICE_SCALE), of prices that are not negative.
Encoded(price) == (2 * Rounded(price * PriceScale) + 2 ^ FractionBits) \div 2 ^ (FractionBits + 1)

Timestamp(i) == i + 1

\* One entry of the report.
Reported(order) ==
  [tick_index |-> order.tick_index,
   timestamp_ns |-> IF order.tick_index < Len(in) THEN Timestamp(order.tick_index) ELSE 0,
   symbol |-> order.symbol, side |-> order.side,
   price_fp |-> Encoded(DecodedPrice(order.price))]

Report == [n |-> Len(in), num_orders |-> Len(orders),
           orders |-> [k \in DOMAIN orders |-> Reported(orders[k])]]

\* orders_json: the orders of reference_orders, with the integers of the feed.
ReferenceOrder(order) ==
  [tick_index |-> order.tick_index, timestamp_ns |-> Timestamp(order.tick_index),
   symbol |-> order.symbol, side |-> order.side, price_fp |-> order.price]

ReferenceReport(feed) ==
  LET emitted == FlattenSeq([k \in DOMAIN feed |-> Sequential!Emitted(SubSeq(feed, 1, k), k - 1)])
  IN  [n |-> Len(feed), num_orders |-> Len(emitted),
       orders |-> [k \in DOMAIN emitted |-> ReferenceOrder(emitted[k])]]

-----------------------------------------------------------------------------
\* The two reports of a feed agree: orders that went through two threads, and prices that
\* went through a double and back, are printed as the reference prints them.
ReportMatchesReference ==
  consumer = "idle" /\ runs = 1 => Report = ReferenceReport(in)
=============================================================================
