--------------------------- MODULE CacheHierarchy ---------------------------
(***************************************************************************)
(* What csot::CacheSim promises: the counters of a two-level write-back,   *)
(* write-allocate cache with true LRU replacement.  It is the cache that   *)
(* run() of week-2/project/cache_sim.cpp simulates, without ways, tags or  *)
(* bit masks: a set is the list of its lines, the most recently used one   *)
(* first.                                                                  *)
(***************************************************************************)
EXTENDS Integers, SequencesExt

CONSTANTS W,          \* lines of a set
          L1S, L2S,   \* sets of the two levels
          Blocks,     \* block addresses
          MaxTrace    \* bound: accesses of one call of run()

VARIABLES running,    \* a call of run() is in progress
          l1, l2,     \* per set: the lines, [block, dirty]
          st          \* the counters of the latest call

hierarchyVars == <<running, l1, l2, st>>

NoStats == [reads |-> 0, writes |-> 0, l1_hits |-> 0, l1_misses |-> 0,
            l2_hits |-> 0, l2_misses |-> 0, dirty_writebacks |-> 0]

Line(b, dirty) == [block |-> b, dirty |-> dirty]
Holds(lines, b) == \E i \in DOMAIN lines : lines[i].block = b

\* The line of block b becomes the most recently used one; wr makes it dirty.
Used(lines, b, wr) ==
  LET i == CHOOSE i \in DOMAIN lines : lines[i].block = b
  IN  <<Line(b, wr \/ lines[i].dirty)>> \o RemoveAt(lines, i)

MadeDirty(lines, b) ==
  [i \in DOMAIN lines |-> Line(lines[i].block, lines[i].dirty \/ lines[i].block = b)]

\* A new line takes the place of the least recently used one of a full set.
Victims(lines) == IF Len(lines) < W THEN {} ELSE {Last(lines)}
DirtyVictims(lines) == {l \in Victims(lines) : l.dirty}
Filled(lines, line) == <<line>> \o (IF Len(lines) < W THEN lines ELSE Front(lines))

\* The dirty lines that leave a level when it is given block b.
Lost(level, n, b) ==
  IF Holds(level[b % n], b) THEN 0 ELSE Cardinality(DirtyVictims(level[b % n]))

Init == /\ running = FALSE /\ st = NoStats
        /\ l1 = [s \in 0 .. L1S - 1 |-> <<>>]
        /\ l2 = [s \in 0 .. L2S - 1 |-> <<>>]

Call == ~running /\ running' = TRUE /\ st' = NoStats /\ UNCHANGED <<l1, l2>>

Return == running /\ running' = FALSE /\ UNCHANGED <<l1, l2, st>>

Number(P) == IF P THEN 1 ELSE 0

\* An access counted, with what the caches did.
Counted(wr, hit1, hit2, writebacks) ==
  [reads |-> st.reads + Number(~wr), writes |-> st.writes + Number(wr),
   l1_hits |-> st.l1_hits + Number(hit1), l1_misses |-> st.l1_misses + Number(~hit1),
   l2_hits |-> st.l2_hits + Number(~hit1 /\ hit2),
   l2_misses |-> st.l2_misses + Number(~hit1 /\ ~hit2),
   dirty_writebacks |-> st.dirty_writebacks + writebacks]

MayAccess == running /\ st.reads + st.writes < MaxTrace

Hit(b, wr) ==
  /\ MayAccess /\ Holds(l1[b % L1S], b)
  /\ l1' = [l1 EXCEPT ![b % L1S] = Used(@, b, wr)]
  /\ st' = Counted(wr, TRUE, FALSE, 0)
  /\ UNCHANGED <<running, l2>>

\* The second level probed for block b, and filled with a clean line if it has none.
Probed(b) ==
  [l2 EXCEPT ![b % L2S] = IF Holds(@, b) THEN Used(@, b, FALSE) ELSE Filled(@, Line(b, FALSE))]

\* A dirty line of the first level that goes back to the second: it becomes dirty there
\* where it is, or else enters as the most recently used one.
WrittenBack(sets, line) ==
  [sets EXCEPT ![line.block % L2S] =
     IF Holds(@, line.block) THEN MadeDirty(@, line.block) ELSE Filled(@, line)]

\* The second level is probed; then the first is filled, its dirty victim going to the
\* second.
Miss(b, wr) ==
  LET hit == Holds(l2[b % L2S], b)
  IN  /\ MayAccess /\ ~Holds(l1[b % L1S], b)
      /\ l1' = [l1 EXCEPT ![b % L1S] = Filled(@, Line(b, wr))]
      /\ \/ /\ DirtyVictims(l1[b % L1S]) = {}
            /\ l2' = Probed(b)
            /\ st' = Counted(wr, FALSE, hit, Lost(l2, L2S, b))
         \/ \E victim \in DirtyVictims(l1[b % L1S]) :
              /\ l2' = WrittenBack(Probed(b), victim)
              /\ st' = Counted(wr, FALSE, hit,
                         Lost(l2, L2S, b) + Lost(Probed(b), L2S, victim.block))
      /\ UNCHANGED running

Next == \/ Call \/ Return
        \/ \E b \in Blocks, wr \in BOOLEAN : Hit(b, wr) \/ Miss(b, wr)

Spec == Init /\ [][Next]_hierarchyVars
=============================================================================
