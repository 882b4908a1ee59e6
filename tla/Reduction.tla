----------------------------- MODULE Reduction ------------------------------
(***************************************************************************)
(* What csot::Aggregator promises: run() returns, for every symbol id, the *)
(* count, sums and extremes of the ticks that carry it, and zeros for a    *)
(* symbol without ticks (week-3/project/samples/aggregator.stub.cpp and    *)
(* data/gen_ticks.py compute the same table in one pass).                  *)
(***************************************************************************)
EXTENDS Integers, Sequences, FiniteSetsExt

CONSTANTS Streams,    \* the inputs of run(): sequences of [symbol, price, qty]
          NumSymbols, \* argument of on_init
          Unspecified \* what the caller's rows hold before the first call

EmptyRow == [count |-> 0, sum_price |-> 0, min_price |-> 0, max_price |-> 0, sum_qty |-> 0]

TicksOf(stream, s) == {i \in DOMAIN stream : stream[i].symbol = s}

RowOf(stream, s) ==
  LET own == TicksOf(stream, s)
      prices == {stream[i].price : i \in own}
  IN  IF own = {} THEN EmptyRow
      ELSE [count |-> Cardinality(own),
            sum_price |-> MapThenSumSet(LAMBDA i : stream[i].price, own),
            min_price |-> Min(prices), max_price |-> Max(prices),
            sum_qty |-> MapThenSumSet(LAMBDA i : stream[i].qty, own)]

Table(stream) == [s \in 0 .. NumSymbols - 1 |-> RowOf(stream, s)]

VARIABLES running,    \* a call of run() is in progress
          input,      \* its ticks
          out         \* the caller's rows

reductionVars == <<running, input, out>>

Init == /\ running = FALSE /\ input = <<>>
        /\ out = [s \in 0 .. NumSymbols - 1 |-> Unspecified]

Call(stream) == /\ ~running
                /\ running' = TRUE /\ input' = stream
                /\ UNCHANGED out

Return == /\ running
          /\ running' = FALSE /\ out' = Table(input)
          /\ UNCHANGED input

Next == Return \/ \E stream \in Streams : Call(stream)

Spec == Init /\ [][Next]_reductionVars
=============================================================================
