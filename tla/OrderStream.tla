---------------------------- MODULE OrderStream -----------------------------
(***************************************************************************)
(* The order stream a tick history determines, as the sequential reference *)
(* defines it (week-4/project/samples/pipeline.stub.cpp and                *)
(* data/gen_feed.py), written without state: the window of a tick is made  *)
(* of the last Window mids of its symbol, and positions follow by          *)
(* recursion on the history.                                               *)
(***************************************************************************)
EXTENDS ZScore, Sequences, FiniteSets

CONSTANT Symbols

\* The ticks of symbol s among the first k, and how many of a set of ticks precede one.
TicksOf(history, s, k) == {j \in 1 .. k : history[j].symbol = s}
Number(own, j) == Cardinality({i \in own : i < j})

\* The last Window of them.
LastOf(own) == LET count == Cardinality(own) IN {j \in own : count - Number(own, j) <= Window}

\* What the k-th tick makes its symbol do, given the symbol's position before it.
SideAt(history, k, position) ==
  LET own == TicksOf(history, history[k].symbol, k)
      last == LastOf(own)
  IN  IF Cardinality(own) < Window THEN "NONE"
      ELSE Signal([j \in last |-> Mid(history[j])], Mid(history[k]), position)

\* The positions of all symbols after the first k ticks.
Positions(history) ==
  LET after[k \in 0 .. Len(history)] ==
        IF k = 0 THEN [s \in Symbols |-> 0]
        ELSE LET before == after[k - 1]
                 s == history[k].symbol
             IN  [before EXCEPT ![s] = Filled(@, SideAt(history, k, @))]
  IN  after

\* What the last tick of the history emits: an order or nothing.  `index' is its place
\* in the input of the current run.
Emitted(history, index) ==
  LET k == Len(history)
      tick == history[k]
      side == SideAt(history, k, Positions(history)[k - 1][tick.symbol])
  IN  IF side = "NONE" THEN <<>> ELSE <<OrderFor(index, tick, side)>>
=============================================================================
