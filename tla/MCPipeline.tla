----------------------------- MODULE MCPipeline -----------------------------
(***************************************************************************)
(* Pipeline with a window of 8 and a ring of two slots.  Feed Trading      *)
(* enters symbol s1 at a z-score of exactly 2 and leaves it at exactly     *)
(* 0.5; feed Falling, traded after it, enters on the other side and leaves *)
(* again; feed Flat fills a window without spread.  The scale of the       *)
(* prices is 100, of which the mantissa of 10 bits has no exact fractions. *)
(***************************************************************************)
EXTENDS Harness

CONSTANTS s1, s2

Tick(s, level) == [symbol |-> s, bid |-> 10 + level, ask |-> 11 + level]

Trading == << Tick(s1, 0), Tick(s1, 3), Tick(s2, 9), Tick(s1, 3), Tick(s1, 3), Tick(s1, 3),
              Tick(s1, 3), Tick(s1, 3), Tick(s1, 6), Tick(s2, 1), Tick(s1, 4) >>
Falling == << Tick(s1, 0), Tick(s1, 3) >>
Flat8 == [i \in 1 .. 8 |-> Tick(s2, 5)]

MCMaxPushes == Runs * MaxTicks
MCSymbols == {s1, s2}
MCFeeds == {Trading, Falling, Flat8, <<>>}
=============================================================================
