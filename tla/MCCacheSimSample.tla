-------------------------- MODULE MCCacheSimSample --------------------------
(* CacheSimSample with traces of up to two accesses and a tail of one.       *)
EXTENDS CacheSimSample

MCBlocks == {0, 4}
=============================================================================
