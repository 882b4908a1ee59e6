------------------------------- MODULE Replay -------------------------------
(***************************************************************************)
(* The week-1 program (week-1/project/src/main.cpp): CsvLoader loads the   *)
(* ticks of a file, ReplayEngine::run gives them to ReferenceStrategy one  *)
(* by one, records the latency of every on_tick in the histogram and fills *)
(* each order it returns at once, at its own price, before the next tick.  *)
(* An exception of the loader or of the strategy ends the program.         *)
(***************************************************************************)
EXTENDS CsvLoader, ReferenceStrategy, LatencyHistogram, SequencesExt

VARIABLES next,             \* ticks given to on_tick
          pending,          \* the orders of the latest on_tick not yet filled
          orders,           \* history: all the orders, in order, as emitted
          orders_generated, \* the engine's counters
          fills_processed

engineVars == <<next, pending, orders, orders_generated, fills_processed>>
vars == <<status, loaderVars, strategyVars, histogramVars, engineVars>>

Init == /\ status = "start"
        /\ LoaderInit /\ StrategyInit /\ HistogramInit
        /\ next = 0 /\ pending = <<>> /\ orders = <<>>
        /\ orders_generated = 0 /\ fills_processed = 0

LoadStep == Load /\ UNCHANGED <<strategyVars, histogramVars, engineVars>>

\* The order stream as the judge sees it: the tick, the name, the side and the price.
Emission(o) == [tick_index |-> next, symbol |-> file[next + 1].symbol,
                side |-> o.side, price |-> o.price]

\* One tick: on_tick, timed.
Tick == /\ status = "replay" /\ pending = <<>> /\ next < Len(ticks)
        /\ OnTick(ticks[next + 1])
        /\ pending' = Returned(ticks[next + 1])
        /\ orders' = orders \o [k \in DOMAIN pending' |-> Emission(pending'[k])]
        /\ \E ns \in Latencies : Record(ns)
        /\ next' = next + 1
        /\ UNCHANGED <<status, loaderVars, orders_generated, fills_processed>>

\* on_tick throws: all the slots are used.
TickFails == /\ status = "replay" /\ pending = <<>> /\ next < Len(ticks)
             /\ OnTickThrows(ticks[next + 1])
             /\ status' = "aborted"
             /\ UNCHANGED <<loaderVars, histogramVars, engineVars>>

\* Variant: the fill of an order happens twice.
FillTwice == /\ pending # <<>>
             /\ OnFill([Head(pending) EXCEPT !.qty = 2 * @])
             /\ pending' = Tail(pending)
             /\ orders_generated' = orders_generated + 1
             /\ fills_processed' = fills_processed + 2
             /\ UNCHANGED <<status, loaderVars, histogramVars, next, orders>>

\* One order: counted, and filled.
Fill == /\ pending # <<>>
        /\ OnFill(Head(pending))
        /\ pending' = Tail(pending)
        /\ orders_generated' = orders_generated + 1
        /\ fills_processed' = fills_processed + 1
        /\ UNCHANGED <<status, loaderVars, histogramVars, next, orders>>

\* The report is printed and main returns.
Finish == /\ status = "replay" /\ pending = <<>> /\ next = Len(ticks)
          /\ status' = "done"
          /\ UNCHANGED <<loaderVars, strategyVars, histogramVars, engineVars>>

Terminated == status \in {"done", "rejected", "aborted"} /\ UNCHANGED vars

Next == LoadStep \/ Tick \/ TickFails \/ Finish \/ Terminated \/ Fill

Spec == Init /\ [][Next]_vars

-----------------------------------------------------------------------------
(* The specified strategy                                                  *)

WellFormed(f) == \A i \in DOMAIN f : f[i].bid # Malformed

\* Prices so short that no operation of the strategy is rounded: mids that are not negative,
\* and whose squares, with the factor of the variance, fit the mantissa.
Short(mid) == mid >= 0 /\ (Window * mid) * (Window * mid) < 2 ^ Precision
Exact(f) == \A i \in DOMAIN f : Short(f[i].bid + f[i].ask)

Traded == SubSeq(file, 1, next)
Shown == status \in {"replay", "done", "aborted"} /\ Exact(file)

Specified == INSTANCE SequentialPipeline WITH
               Feeds <- {f \in Files : WellFormed(f) /\ Exact(f)},
               running <- Shown /\ status # "done",
               input <- IF Shown THEN file ELSE <<>>,
               traded <- IF Shown THEN next ELSE 0,
               history <- IF Shown THEN Traded ELSE <<>>,
               orders <- IF Shown THEN orders ELSE <<>>

\* The program implements the specified strategy: the orders of a file are those of the
\* z-score rule applied, per symbol name, to the whole window of every tick, as long as
\* the prices are so short that their squares and sums are exact.
ImplementsSpecified == Specified!Spec

\* The same for every file: rolling sums may replace the two passes over the window
\* provided that the emitted orders are identical.
SameOrderStream ==
  orders = FlattenSeq([k \in 1 .. next |-> Specified!Emitted(SubSeq(file, 1, k), k - 1)])

-----------------------------------------------------------------------------
(* Rounding                                                                *)

Own(k) == {j \in 1 .. k : file[j].symbol = file[k].symbol}
SlotOf(k) == slot_[Lookup(ticks[k].symbol)]

\* The latest tick of every symbol.
Latest == {k \in 1 .. next : \A j \in k + 1 .. next : file[j].symbol # file[k].symbol}

\* The largest mid of the k-th tick's symbol so far.
Largest(k) == Max({file[j].bid + file[j].ask : j \in Own(k)})

\* What the sum, and the sum of squares, may be off after the k-th tick: less than a unit
\* in the last place for every tick of the symbol.
SumError(k) == Cardinality(Own(k)) * (Ulp(Window * Largest(k)) - 1)
SquaresError(k) == Cardinality(Own(k)) * (Ulp(Window * (Largest(k) * Largest(k))) - 1)

\* The sums of a slot are as far off those of its window as they may be after the k-th tick.
SumsWithin(k) ==
  LET s == SlotOf(k)
      squares == [j \in DOMAIN s.mids |-> s.mids[j] * s.mids[j]]
  IN  /\ Abs(s.rolling_sum - SumFunction(s.mids)) <= SumError(k)
      /\ Abs(s.rolling_sq_sum - SumFunction(squares)) <= SquaresError(k)

\* The rounding errors of the rolling sums, which are never computed afresh, grow no
\* faster than that; in particular the sums stay those of the window, through warm-up
\* and wrap-around, where nothing is rounded.
RollingSumsBounded == \A k \in Latest : SumsWithin(k)

\* What the squares and the variance the k-th tick is decided with may be off by.
Margin(k) ==
  LET top == Window * Largest(k)
      off == SumError(k) + Ulp(top) - 1
  IN  Window * SquaresError(k) + 2 * (Ulp(top * top) - 1) + off * (2 * top + off)

\* The exact values of diff and variance, of a full window.
LastMids(k) == LET last == Specified!LastOf(Own(k)) IN [j \in last |-> file[j].bid + file[j].ask]
ExactDiff(k) == Specified!Deviation(LastMids(k), file[k].bid + file[k].ask)
ExactDiffSq(k) == ExactDiff(k) * ExactDiff(k)
ExactVariance(k) == Specified!Spread(LastMids(k)) \div Window

\* The k-th tick is so close to a threshold that rounding may decide.
Undecided(k) ==
  /\ Cardinality(Own(k)) >= Window
  /\ \/ ExactVariance(k) <= Margin(k)
     \/ Abs(ExactDiffSq(k) - 4 * ExactVariance(k)) <= 5 * Margin(k)
     \/ Abs(4 * ExactDiffSq(k) - ExactVariance(k)) <= 5 * Margin(k)

\* A symbol holding a position leaves it at the k-th tick, whatever was rounded.
ClearExit(k) == /\ Cardinality(Own(k)) >= Window /\ ~Undecided(k)
                /\ 4 * ExactDiffSq(k) < ExactVariance(k)

\* No tick of the k-th tick's symbol was undecided since the latest clear exit.
Settled(k) ==
  LET healed == Max({j \in Own(k) : ClearExit(j)} \cup {0})
  IN  \A j \in Own(k) : j > healed => ~Undecided(j)

\* Rounding makes the program deviate only at a tick that lies on a threshold, and not for
\* ever, although the errors of the sums stay: from the next clear exit of the symbol on
\* its position is the specified one again, until the next such tick.
RoundingHeals ==
  status \in {"replay", "done"} /\ pending = <<>> =>
    LET positions == Specified!Positions(Traded)[next]
    IN  \A k \in Latest : Settled(k) => SlotOf(k).position = positions[file[k].symbol]

\* Values up to x that are off by an error are no farther apart than x is from the next.
HasRoom(x, error) == InRange(x) /\ x + error < 2 ^ Precision * Ulp(x)

\* The sums of every tick so far have room for their errors, and the window is so long
\* that a single mid or square is rounded by much less than a sum.
SumsHaveRoom ==
  /\ Window >= 8
  /\ \A k \in 1 .. next :
       /\ file[k].bid + file[k].ask >= 0
       /\ HasRoom(Window * Largest(k), SumError(k))
       /\ HasRoom(Window * (Largest(k) * Largest(k)), SquaresError(k))

\* So have the values it is decided with.
DecisionsHaveRoom ==
  \A k \in 1 .. next : LET top == Window * Largest(k) IN HasRoom(top * top, Margin(k))

-----------------------------------------------------------------------------
\* A well-formed file is replayed to its end if it has at most MaxSymbols names, none of
\* them short.  A short one may take a slot for every buffer it has been in, which makes
\* at most three slots for every name but the first.
SupportsAllSymbols ==
  status = "aborted" =>
    LET names == NamesIn(file)
    IN  IF names \cap ShortNames = {} THEN Cardinality(names) > MaxSymbols
        ELSE 3 * (Cardinality(names) - 1) > MaxSymbols

\* The report is consistent: a latency for every tick, every order emitted was filled
\* exactly once, and each symbol's position is what its orders bought and sold.
Net(name) == Cardinality({k \in DOMAIN orders : orders[k].symbol = name /\ orders[k].side = "BUY"})
           - Cardinality({k \in DOMAIN orders : orders[k].symbol = name /\ orders[k].side = "SELL"})

ReportConsistent ==
  status = "done" =>
    /\ count_ = Len(file)
    /\ orders_generated = Len(orders) /\ fills_processed = orders_generated
    /\ \A k \in DOMAIN ticks : SlotOf(k).position = Net(file[k].symbol)

-----------------------------------------------------------------------------
(* The inductive invariant                                                 *)

\* The order on_tick has just returned: one unit, for the symbol of the latest tick, away
\* from a flat position or back to it.
PendingInv ==
  pending # <<>> =>
    /\ next > 0
    /\ \E side \in {"BUY", "SELL"} : pending = <<Order(ticks[next], side, 1)>>
    /\ Head(pending).side = "BUY" => SlotOf(next).position \in {-1, 0}
    /\ Head(pending).side = "SELL" => SlotOf(next).position \in {0, 1}

\* The slots in use are those of the symbols seen so far.
SeenInv ==
  /\ \A k \in 1 .. next : Known(ticks[k].symbol) # {}
  /\ \A i \in Slots \ Free : \E k \in 1 .. next : symbols_[i] = ticks[k].symbol

\* What the pending order will do to the position of a view's slot.
Owed(view) == IF pending = <<>> \/ Head(pending).symbol # view THEN 0
              ELSE IF Head(pending).side = "BUY" THEN 1 ELSE -1

\* The orders are about symbols seen so far, and add up to the positions.
OrdersInv ==
  /\ orders \in Seq([tick_index : Nat, symbol : Symbols, side : {"BUY", "SELL"}, price : Int])
  /\ Len(orders) = orders_generated + Len(pending)
  /\ fills_processed = orders_generated /\ orders_generated \in Nat
  /\ \A k \in DOMAIN orders : \E j \in 1 .. next : orders[k].symbol = file[j].symbol
  /\ \A j \in 1 .. next :
       file[j].symbol \notin ShortNames =>
         SlotOf(j).position + Owed(ticks[j].symbol) = Net(file[j].symbol)

\* How far the engine is, and why it stopped.
EngineInv ==
  /\ next \in 0 .. Len(ticks) /\ count_ = next
  /\ status \notin {"replay", "done", "aborted"} => next = 0
  /\ status # "replay" => pending = <<>>
  /\ status = "done" => next = Len(ticks)
  /\ status = "aborted" => next < Len(ticks) /\ Candidates(ticks[next + 1].symbol) = {}

\* What holds whatever the strategy computes.
BooksInv == /\ LoaderInv /\ StrategyInv /\ HistogramInv
            /\ EngineInv /\ PendingInv /\ SeenInv /\ OrdersInv

\* A slot's window: the mids of the last Window of the ticks `own' of a file, each in the
\* slot of its number.
LaidOut(f, s, own) ==
  /\ s.head = Cardinality(own) % Window
  /\ s.count = IF Cardinality(own) < Window THEN Cardinality(own) ELSE Window
  /\ \A i \in 0 .. Window - 1 :
       LET held == {k \in own : Specified!Number(own, k) % Window = i}
       IN  s.mids[i] = IF held = {} THEN 0 ELSE f[Max(held)].bid + f[Max(held)].ask

\* The slot of a symbol is its window, rounded or not.
WindowsInv ==
  \A j \in 1 .. next :
    file[j].symbol \notin ShortNames =>
      LaidOut(file, SlotOf(j), Specified!TicksOf(file, file[j].symbol, next))

\* The sums of a window of short mids are exact.
SumsExact(s) ==
  LET squares == [j \in DOMAIN s.mids |-> s.mids[j] * s.mids[j]]
  IN  /\ \A j \in DOMAIN s.mids : Short(s.mids[j])
      /\ s.rolling_sum = SumFunction(s.mids) /\ s.rolling_sq_sum = SumFunction(squares)

\* Where no operation is rounded the sums are those of the windows, and the orders of every
\* symbol add up to the position the specified strategy has reached.
ExactInv ==
  Shown =>
    /\ \A i \in Slots : SumsExact(slot_[i])
    /\ LET positions == Specified!Positions(Traded)[next]
       IN  \A n \in Symbols \ ShortNames : Net(n) = positions[n]

\* Where there is room for the errors the sums are off by no more than they may be, and the
\* orders of a symbol that is settled, or has had no tick, add up to the specified position.
RoundedInv ==
  SumsHaveRoom =>
    /\ \A k \in Latest :
         file[k].symbol \notin ShortNames =>
           /\ SlotOf(k).rolling_sum \in Int /\ SlotOf(k).rolling_sq_sum \in Int
           /\ SumsWithin(k)
    /\ DecisionsHaveRoom =>
         LET positions == Specified!Positions(Traded)[next]
         IN  /\ \A n \in Symbols \ NamesIn(Traded) : positions[n] = 0
             /\ \A k \in Latest :
                  file[k].symbol \notin ShortNames /\ Settled(k) =>
                    Net(file[k].symbol) = positions[file[k].symbol]

ReplayInv == BooksInv /\ PlacementInv /\ WindowsInv /\ ExactInv /\ RoundedInv
=============================================================================
