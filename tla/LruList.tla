------------------------------ MODULE LruList -------------------------------
(***************************************************************************)
(* True LRU replacement, which lru_touch and lru_victim of                 *)
(* week-2/project/cache_sim.cpp encode in a matrix: the ways of a set from *)
(* the most to the least recently used one.                                *)
(***************************************************************************)
EXTENDS SequencesExt

CONSTANT W           \* ways of a set

VARIABLE order       \* the ways, the most recently used one first

Init == order = [i \in 1 .. W |-> W - i]

\* The i-th most recently used way is used.
Touch(i) == order' = <<order[i]>> \o RemoveAt(order, i)

Next == \E i \in 1 .. W : Touch(i)

Spec == Init /\ [][Next]_order
=============================================================================
