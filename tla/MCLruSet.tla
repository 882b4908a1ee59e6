------------------------------ MODULE MCLruSet ------------------------------
(* LruSet with the 8 ways of the program.                                  *)
EXTENDS LruSet
=============================================================================
