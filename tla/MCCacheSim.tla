----------------------------- MODULE MCCacheSim -----------------------------
(* CacheSim with two ways a set; the blocks meet in one set of the first     *)
(* level and in two sets of the second.                                      *)
EXTENDS CacheSim

MCBlocks == {0, 4, 8, 2}
=============================================================================
