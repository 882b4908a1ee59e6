----------------------------- MODULE MCSpscRing -----------------------------
(* SpscRing on a ring small enough for its indices to wrap around.         *)
EXTENDS SpscRing

CONSTANTS a, b

MCItems == {a, b}
=============================================================================
