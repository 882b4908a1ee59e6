------------------------------- MODULE LruSet -------------------------------
(***************************************************************************)
(* One set's replacement state over a sequence of uses: the matrix of      *)
(* LruMatrix implements the list of LruList.                               *)
(***************************************************************************)
EXTENDS LruMatrix

VARIABLE lru         \* the matrix

LruInit == lru = INIT_MAT

LruTouch(w) == lru' = lru_touch(lru, w)

LruNext == \E w \in Ways : LruTouch(w)

LruSpec == LruInit /\ [][LruNext]_lru

-----------------------------------------------------------------------------
\* The matrix never stops being a strict total order of the ways, so that exactly one
\* row is empty and no two ways are equally old.
StrictOrder == TotalOrder(lru)

\* In a full set the zero-byte search, borrows between the bytes included, finds the
\* least recently used way; in a set with free ways it finds a free one.
VictimIsOldest ==
  /\ lru_victim(lru, Ways) = Order(lru)[W]
  /\ \A w \in Ways : lru_victim(lru, Ways \ {w}) = w

\* The matrix implements true LRU: read as an order, it changes as the list does.
List == INSTANCE LruList WITH order <- Order(lru)
ImplementsList == List!Spec
=============================================================================
