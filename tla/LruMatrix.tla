----------------------------- MODULE LruMatrix ------------------------------
(***************************************************************************)
(* The bit-matrix LRU of week-2/project/cache_sim.cpp.  A set keeps one    *)
(* W x W matrix in a machine word, a byte per row: the bit of row i and    *)
(* column j says that way i was used more recently than way j.  A row is   *)
(* modelled as the set of its columns.                                     *)
(***************************************************************************)
EXTENDS Integers, FiniteSetsExt

CONSTANT W           \* ways of a set and bits of a row: 8 in the program

ASSUME WaysAssumption == W \in Nat \ {0}

Ways == 0 .. W - 1

\* Way 0 starts as the least, way W - 1 as the most recently used one.
INIT_MAT == [i \in Ways |-> {j \in Ways : j < i}]

\* Variants: the roles of row and column exchanged; the column cleared before the row is set.
lru_touch_oldest(m, way) == [i \in Ways |-> IF i = way THEN {} ELSE m[i] \cup {way}]
lru_touch_swapped(m, way) == [i \in Ways |-> IF i = way THEN Ways ELSE m[i] \ {way}]

\* Set row `way', then clear column `way'.
lru_touch(m, way) == [i \in Ways |-> (IF i = way THEN Ways ELSE m[i]) \ {way}]

(* The zero-byte search on the word: 1 is subtracted from every byte at once, so a     *)
(* byte may borrow from the next one, and the bytes whose top bit becomes set without  *)
(* having been set are flagged.  The lowest flagged byte is the answer.                *)
RowValue(row) == MapThenSumSet(LAMBDA j : 2 ^ j, row)

Borrow(m) ==
  LET into[i \in Ways] == IF i = 0 THEN 0
                          ELSE IF RowValue(m[i - 1]) < 1 + into[i - 1] THEN 1 ELSE 0
  IN  into

Flagged(m) ==
  LET into == Borrow(m)
  IN  {i \in Ways : /\ W - 1 \notin m[i]
                    /\ (RowValue(m[i]) - 1 - into[i]) % 2 ^ W >= 2 ^ (W - 1)}

\* Variant: the highest flagged byte.
lru_victim_high(m, valid) == IF valid # Ways THEN Min(Ways \ valid) ELSE Max(Flagged(m))

\* The lowest invalid way, or else the way whose row is empty.
lru_victim(m, valid) == IF valid # Ways THEN Min(Ways \ valid) ELSE Min(Flagged(m))

\* A matrix that is a strict total order: exactly one row is empty and no two ways are
\* equally old.
TotalOrder(m) ==
  /\ m \in [Ways -> SUBSET Ways]
  /\ \A i, j \in Ways : j \in m[i] <=> i # j /\ i \notin m[j]
  /\ \A i, j \in Ways : j \in m[i] => m[j] \subseteq m[i]

\* The ways from the most to the least recently used one, read off the matrix: the more
\* ways it beats, the more recent it is.
Order(m) == [i \in 1 .. W |-> CHOOSE w \in Ways : Cardinality(m[w]) = W - i]
=============================================================================
