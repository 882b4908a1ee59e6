--------------------------- MODULE CacheSimSample ---------------------------
(***************************************************************************)
(* The second copy of FastCacheSim, in week-2/project/samples/             *)
(* cache_sim.stub.cpp.  Its state and the handling of an access are those  *)
(* of CacheSim; run() splits the trace into all but the last 16 accesses   *)
(* and the last 16, and both loops stand under the test that there are     *)
(* more than 16 of them.                                                   *)
(***************************************************************************)
EXTENDS CacheSim

CONSTANT TailLength  \* 16 in the program

VARIABLE n           \* accesses of the trace given to the latest run()

sampleVars == <<vars, n>>

SampleInit == Init /\ n = 0

SampleCall(length) == Call /\ n' = length

\* The next access, in whichever of the two loops.
SampleAccess(b, wr) == /\ n > TailLength /\ st.reads + st.writes < n
                       /\ HitL1(b, wr) \/ MissL1(b, wr)
                       /\ UNCHANGED n

SampleReturn == /\ n <= TailLength \/ st.reads + st.writes = n
                /\ Return
                /\ UNCHANGED n

SampleNext == \/ SampleReturn
              \/ \E length \in 0 .. MaxTrace : SampleCall(length)
              \/ \E b \in Blocks, wr \in BOOLEAN : SampleAccess(b, wr)

SampleSpec == SampleInit /\ [][SampleNext]_sampleVars

-----------------------------------------------------------------------------
\* The returned counters account for the whole trace: reads are the accesses with
\* is_write == 0 and writes those with is_write == 1, whatever the trace's length.
WholeTraceCounted == ~running => st.reads + st.writes = n
=============================================================================
