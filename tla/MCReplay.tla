------------------------------ MODULE MCReplay ------------------------------
(***************************************************************************)
(* Replay with a window of 8: two symbols whose rows are interleaved, an   *)
(* entry at a z-score of exactly 2, and pairs of levels after it;           *)
(* files whose names move, or are more than the slots, a malformed one and *)
(* an empty one.                                                           *)
(***************************************************************************)
EXTENDS Replay

CONSTANTS s1, s2, s3, s4, s5

At(s, level) == [symbol |-> s, bid |-> 10 + level, ask |-> 11 + level]

\* The same levels further apart and higher up, where squares need more than 18 bits.
High(t) == [t EXCEPT !.bid = 335 + 10 * (@ - 10), !.ask = 336 + 10 * (@ - 11)]

Prefix == << At(s1, 0), At(s1, 3), At(s2, 9), At(s1, 3), At(s1, 3), At(s1, 3),
             At(s1, 3), At(s1, 3), At(s1, 6) >>

MCSymbols == {s1, s2, s3, s4, s5}
MCShortNames == {s4, s5}

Rounded18 ==
  { [k \in DOMAIN f |-> High(f[k])] :
      f \in { Prefix \o << At(s1, v), At(s1, w), At(s1, 9) >> : v \in {0, 3, 6}, w \in {3, 4} } }

\* More names than slots; short ones before and after the vector grows.
MCNames == { <<s1, s2, s3>>, <<s4, s1, s4, s1>>, <<s4, s1, s5, s4, s5>> }

MCFiles ==
  Rounded18 \cup
  { Prefix \o << At(s2, 1), At(s1, v), At(s1, w), At(s1, 9 - v) >> : v \in {0, 1, 3, 4, 6}, w \in {0, 3} }
  \cup { [k \in DOMAIN f |-> At(f[k], 1)] : f \in MCNames }
  \cup { <<>>, << At(s4, 1), [At(s5, 1) EXCEPT !.bid = Malformed] >> }
=============================================================================
