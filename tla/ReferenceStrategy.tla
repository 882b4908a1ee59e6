-------------------------- MODULE ReferenceStrategy -------------------------
(***************************************************************************)
(* ReferenceStrategy of week-1/project/strategies: the z-score rule with   *)
(* the window's sum and sum of squares kept incrementally, per slot of a   *)
(* table that knows a symbol by the address its view points to.            *)
(*                                                                         *)
(* A mid is bid + ask, as in ZScore, and the comparisons of the code are   *)
(* multiplied by Window^2, a power of two.  The sums, squares and the      *)
(* variance are rounded after every operation, in the order of the code.   *)
(***************************************************************************)
EXTENDS Rounding, Functions

CONSTANTS Window,     \* 64 in the program
          MaxSymbols  \* symbols_.size(), 64 in the program

ASSUME StrategyAssumption == Window \in Nat \ {0} /\ MaxSymbols \in Nat \ {0}

VARIABLES symbols_,   \* per slot: the address it is used for
          slot_       \* per slot: mids, head, count, position and the rolling sums

strategyVars == <<symbols_, slot_>>

Slots == 0 .. MaxSymbols - 1

Unused == <<>>

EmptySlot == [mids |-> [i \in 0 .. Window - 1 |-> 0], head |-> 0, count |-> 0, position |-> 0,
              rolling_sum |-> 0, rolling_sq_sum |-> 0]

StrategyInit == /\ symbols_ = [i \in Slots |-> Unused]
                /\ slot_ = [i \in Slots |-> EmptySlot]

(* get_symbol_index *)

Known(view) == {i \in Slots : symbols_[i] = view}
Free == {i \in Slots : symbols_[i] = Unused}

\* Variant: the last slot is never given away.
CandidatesFewer(view) == IF Known(view) # {} THEN Known(view) ELSE Free \ {MaxSymbols - 1}

\* The slots it can answer with; none when it throws.
Candidates(view) == IF Known(view) # {} THEN Known(view) ELSE Free

Lookup(view) == Min(Candidates(view))
Registered(view) == [symbols_ EXCEPT ![Lookup(view)] = view]

(* on_tick *)

\* Variant: the old mid stays in the sums.
AppendedKeeping(s, mid) ==
  [s EXCEPT !.mids[s.head] = mid,
            !.rolling_sum = @ + mid, !.rolling_sq_sum = @ + mid * mid,
            !.head = (@ + 1) % Window, !.count = IF @ < Window THEN @ + 1 ELSE @]

\* The slot after one more mid.
Appended(s, mid) ==
  LET old == s.mids[s.head]
      squares == Rounded(Rounded(mid * mid) - Rounded(old * old))
  IN  [s EXCEPT !.mids[s.head] = mid,
                !.rolling_sum = Rounded(@ + Rounded(mid - old)),
                !.rolling_sq_sum = Rounded(@ + squares),
                !.head = (@ + 1) % Window,
                !.count = IF @ < Window THEN @ + 1 ELSE @]

\* diff, diff_sq and variance of the code.
Diff(s, mid) == Rounded(Window * mid - s.rolling_sum)
DiffSq(s, mid) == Rounded(Diff(s, mid) * Diff(s, mid))
Variance(s) == Rounded(Window * s.rolling_sq_sum - Rounded(s.rolling_sum * s.rolling_sum))

\* Variant: a z-score of exactly 2 is not enough.
FarStrict(s, mid) == DiffSq(s, mid) > 4 * Variance(s)

\* WrongEntryStrategy, the sample that must be told from a correct one: an entry takes a
\* z-score of 2.5.
FarWrongEntry(s, mid) == 4 * DiffSq(s, mid) >= 25 * Variance(s)

Far(s, mid) == DiffSq(s, mid) >= 4 * Variance(s)
Near(s, mid) == 4 * DiffSq(s, mid) <= Variance(s)

Order(t, side, qty) ==
  [side |-> side, symbol |-> t.symbol, qty |-> qty,
   price |-> IF side = "SELL" THEN t.bid ELSE t.ask]

\* The orders on_tick returns for the slot after the append: none or one.
Decision(s, t) ==
  LET mid == t.bid + t.ask
      sell == \/ s.position = 0 /\ Diff(s, mid) > 0 /\ Far(s, mid)
              \/ s.position > 0 /\ Near(s, mid)
      buy == \/ s.position = 0 /\ Diff(s, mid) < 0 /\ Far(s, mid)
             \/ s.position < 0 /\ Near(s, mid)
      qty == IF s.position = 0 THEN 1 ELSE IF s.position > 0 THEN s.position ELSE -s.position
  IN  CASE s.count < Window \/ Variance(s) <= 0 -> <<>>
        [] s.count = Window /\ Variance(s) > 0 /\ sell -> <<Order(t, "SELL", qty)>>
        [] s.count = Window /\ Variance(s) > 0 /\ buy -> <<Order(t, "BUY", qty)>>
        [] OTHER -> <<>>

\* on_tick, and the orders it returns.
OnTick(t) ==
  /\ Candidates(t.symbol) # {}
  /\ symbols_' = Registered(t.symbol)
  /\ slot_' = [slot_ EXCEPT ![Lookup(t.symbol)] = Appended(@, t.bid + t.ask)]

Returned(t) == Decision(slot_'[Lookup(t.symbol)], t)

\* on_tick throws: all the slots are used.
OnTickThrows(t) == Candidates(t.symbol) = {} /\ UNCHANGED strategyVars

\* Variant: the sides exchanged.
OnFillReversed(o) ==
  /\ symbols_' = Registered(o.symbol)
  /\ slot_' = [slot_ EXCEPT ![Lookup(o.symbol)].position =
                 IF o.side = "BUY" THEN @ - o.qty ELSE @ + o.qty]

\* on_fill.
OnFill(o) ==
  /\ symbols_' = Registered(o.symbol)
  /\ slot_' = [slot_ EXCEPT ![Lookup(o.symbol)].position =
                 IF o.side = "BUY" THEN @ + o.qty ELSE @ - o.qty]

-----------------------------------------------------------------------------
(* The inductive invariant                                                 *)

\* The slot's place in its window.
SlotInv(s) == /\ DOMAIN s = DOMAIN EmptySlot
              /\ s.mids \in [0 .. Window - 1 -> Int]
              /\ s.head \in 0 .. Window - 1 /\ s.count \in 0 .. Window
              /\ s.count < Window => s.head = s.count
              /\ s.position \in -1 .. 1

\* No address has two slots, and a slot nobody uses is as on_init left it.
StrategyInv ==
  /\ DOMAIN symbols_ = Slots /\ DOMAIN slot_ = Slots
  /\ \A i \in Slots : SlotInv(slot_[i])
  /\ \A i \in Free : slot_[i] = EmptySlot
  /\ \A i, j \in Slots \ Free : symbols_[i] = symbols_[j] => i = j

-----------------------------------------------------------------------------
\* The strategy never pyramids: at most one unit long or short.
NeverPyramids == \A i \in Slots : slot_[i].position \in -1 .. 1
=============================================================================
