----------------------------- MODULE MCFeedFile -----------------------------
(***************************************************************************)
(* FeedFile with five ticks in chunks of two: two full buffers, and a rest *)
(* that lies over a stale record and beside another.                       *)
(***************************************************************************)
EXTENDS FeedFile

MCSteps == {-2, 2}
=============================================================================
