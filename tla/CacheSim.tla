------------------------------ MODULE CacheSim ------------------------------
(***************************************************************************)
(* FastCacheSim of week-2/project/cache_sim.cpp: two levels of sets, each  *)
(* with a row of tags, valid and dirty masks and the matrix of LruMatrix.  *)
(* An address is modelled by its block, address >> 6; the block's set is   *)
(* its low bits, its tag the remaining ones.  run() may be called again on *)
(* a warm cache; one iteration of its loop is one action.                  *)
(***************************************************************************)
EXTENDS LruMatrix, Sequences

CONSTANTS L1S, L2S,   \* sets of the two levels: 64 and 512 in the program
          Blocks,     \* block addresses
          MaxTrace    \* bound: accesses of one call of run()

ASSUME GeometryAssumption == L1S \in Nat \ {0} /\ L2S \in Nat \ {0}
ASSUME BlocksAssumption == Blocks \subseteq Nat
ASSUME TraceAssumption == MaxTrace \in Nat

VARIABLES running,    \* run() is executing
          l1, l2,     \* the sets of the two levels
          st          \* the counters of the latest call

vars == <<running, l1, l2, st>>

EmptySet == [tags |-> [w \in Ways |-> 0], valid |-> {}, dirty |-> {}, lru |-> INIT_MAT]

NoStats == [reads |-> 0, writes |-> 0, l1_hits |-> 0, l1_misses |-> 0,
            l2_hits |-> 0, l2_misses |-> 0, dirty_writebacks |-> 0]

\* on_init
Init == /\ running = FALSE /\ st = NoStats
        /\ l1 = [s \in 0 .. L1S - 1 |-> EmptySet]
        /\ l2 = [s \in 0 .. L2S - 1 |-> EmptySet]

Matching(set, tag) == {w \in set.valid : set.tags[w] = tag}

\* Variant: the upper half of the ways is not looked at.
find_way_half(set, tag) == LET hits == {w \in Matching(set, tag) : 2 * w < W}
                           IN  IF hits = {} THEN -1 ELSE Min(hits)

\* The lowest valid way with this tag, or -1.
find_way(set, tag) == IF Matching(set, tag) = {} THEN -1 ELSE Min(Matching(set, tag))

Victim(set) == lru_victim(set.lru, set.valid)
DirtyVictim(set) == Victim(set) \in set.valid \cap set.dirty

Touched(set, way) == [set EXCEPT !.lru = lru_touch(@, way)]

\* A way that is hit, by a write if wr.
Used(set, way, wr) == [Touched(set, way) EXCEPT !.dirty = IF wr THEN @ \cup {way} ELSE @]

\* Variant: the line is installed clean whatever it holds.
InstalledClean(set, way, tag, dirty) ==
  Touched([set EXCEPT !.tags[way] = tag, !.valid = @ \cup {way}, !.dirty = @ \ {way}], way)

\* Variant: a clean line inherits the dirty bit of the one it replaces.
InstalledInheriting(set, way, tag, dirty) ==
  Touched([set EXCEPT !.tags[way] = tag, !.valid = @ \cup {way},
                      !.dirty = IF dirty THEN @ \cup {way} ELSE @], way)

Installed(set, way, tag, dirty) ==
  Touched([set EXCEPT !.tags[way] = tag, !.valid = @ \cup {way},
                      !.dirty = IF dirty THEN @ \cup {way} ELSE @ \ {way}], way)

-----------------------------------------------------------------------------
Call == ~running /\ running' = TRUE /\ st' = NoStats /\ UNCHANGED <<l1, l2>>

\* The trace is exhausted.
Return == running /\ running' = FALSE /\ UNCHANGED <<l1, l2, st>>

\* The next record of the trace.
MayAccess == running /\ st.reads + st.writes < MaxTrace

Number(P) == IF P THEN 1 ELSE 0

Counted(wr, hit1, hit2, writebacks) ==
  [reads |-> st.reads + Number(~wr), writes |-> st.writes + Number(wr),
   l1_hits |-> st.l1_hits + Number(hit1), l1_misses |-> st.l1_misses + Number(~hit1),
   l2_hits |-> st.l2_hits + Number(~hit1 /\ hit2),
   l2_misses |-> st.l2_misses + Number(~hit1 /\ ~hit2),
   dirty_writebacks |-> st.dirty_writebacks + writebacks]

\* The first level has the block.
HitL1(b, wr) ==
  LET s1 == b % L1S
      w1 == find_way(l1[s1], b \div L1S)
  IN  /\ MayAccess /\ w1 >= 0
      /\ l1' = [l1 EXCEPT ![s1] = Used(@, w1, wr)]
      /\ st' = Counted(wr, TRUE, FALSE, 0)
      /\ UNCHANGED <<running, l2>>

\* The second level after it was probed for block b, and the dirty lines that cost.
Probed(b) ==
  LET s2 == b % L2S
      t2 == b \div L2S
      w2 == find_way(l2[s2], t2)
  IN  IF w2 >= 0
      THEN [sets |-> [l2 EXCEPT ![s2] = Touched(@, w2)], hit |-> TRUE, writebacks |-> 0]
      ELSE [sets |-> [l2 EXCEPT ![s2] = Installed(@, Victim(@), t2, FALSE)],
            hit |-> FALSE, writebacks |-> Number(DirtyVictim(l2[s2]))]

\* Variant: a resident line that is written back becomes the most recently used one.
WrittenBackTouched(sets, bv) ==
  LET s2v == bv % L2S
      t2v == bv \div L2S
      wv == find_way(sets[s2v], t2v)
  IN  IF wv >= 0
      THEN [sets |-> [sets EXCEPT ![s2v] = Used(@, wv, TRUE)],
            writebacks |-> 0]
      ELSE [sets |-> [sets EXCEPT ![s2v] = Installed(@, Victim(@), t2v, TRUE)],
            writebacks |-> Number(DirtyVictim(sets[s2v]))]

\* The second level after the dirty line of block bv was written back to it: a resident
\* line becomes dirty and keeps its age, any other is installed dirty.
WrittenBack(sets, bv) ==
  LET s2v == bv % L2S
      t2v == bv \div L2S
      wv == find_way(sets[s2v], t2v)
  IN  IF wv >= 0
      THEN [sets |-> [sets EXCEPT ![s2v].dirty = @ \cup {wv}], writebacks |-> 0]
      ELSE [sets |-> [sets EXCEPT ![s2v] = Installed(@, Victim(@), t2v, TRUE)],
            writebacks |-> Number(DirtyVictim(sets[s2v]))]

\* The first level does not have it.
MissL1(b, wr) ==
  LET s1 == b % L1S
      v1 == Victim(l1[s1])
      probed == Probed(b)
      back == IF DirtyVictim(l1[s1])
              THEN WrittenBack(probed.sets, l1[s1].tags[v1] * L1S + s1)
              ELSE [sets |-> probed.sets, writebacks |-> 0]
  IN  /\ MayAccess /\ find_way(l1[s1], b \div L1S) < 0
      /\ l2' = back.sets
      /\ l1' = [l1 EXCEPT ![s1] = Installed(@, v1, b \div L1S, wr)]
      /\ st' = Counted(wr, FALSE, probed.hit, probed.writebacks + back.writebacks)
      /\ UNCHANGED running

Next == \/ Call \/ Return
        \/ \E b \in Blocks, wr \in BOOLEAN : HitL1(b, wr) \/ MissL1(b, wr)

Spec == Init /\ [][Next]_vars

-----------------------------------------------------------------------------
(* Properties. *)

\* The block of way w of set s in a level of n sets.
BlockOf(set, w, s, n) == set.tags[w] * n + s

BlocksIn(level, n, mask) ==
  UNION {{BlockOf(level[s], w, s, n) : w \in level[s][mask]} : s \in DOMAIN level}

\* No set holds a block twice, so the lowest hit of find_way is the only one.
NoDuplicates ==
  \A level \in {l1, l2} : \A s \in DOMAIN level :
     \A v, w \in level[s].valid : level[s].tags[v] = level[s].tags[w] => v = w

\* The identities of CACHE_SPEC.md section 7: every access probes the first level once,
\* and the second exactly when it misses there.
CountersBalance ==
  /\ st.reads + st.writes = st.l1_hits + st.l1_misses
  /\ st.l1_misses = st.l2_hits + st.l2_misses

\* The inductive invariant of the proofs: besides the types, every set has its dirty lines
\* among its valid ones, no tag twice, and a strict total order of its ways, so that a full
\* set has a victim, with the free ways below the used ones; the counters balance.
SetInv(set) ==
  /\ set \in [tags : [Ways -> Nat], valid : SUBSET Ways, dirty : SUBSET Ways,
              lru : [Ways -> SUBSET Ways]]
  /\ set.dirty \subseteq set.valid
  /\ \A v, w \in set.valid : set.tags[v] = set.tags[w] => v = w
  /\ TotalOrder(set.lru)
  /\ \A v \in set.valid : \A u \in Ways \ set.valid : u \in set.lru[v]

LevelInv(level, n) == /\ DOMAIN level = 0 .. n - 1
                      /\ level = [s \in DOMAIN level |-> level[s]]
                      /\ \A s \in DOMAIN level : SetInv(level[s])

CacheInv ==
  /\ running \in BOOLEAN
  /\ st \in [reads : Nat, writes : Nat, l1_hits : Nat, l1_misses : Nat,
             l2_hits : Nat, l2_misses : Nat, dirty_writebacks : Nat]
  /\ LevelInv(l1, L1S) /\ LevelInv(l2, L2S)
  /\ CountersBalance

\* Written data is never dropped: every block that stops being dirty in both levels was
\* written to memory by that very access, and counted in dirty_writebacks.
DirtyBlocks == BlocksIn(l1, L1S, "dirty") \cup BlocksIn(l2, L2S, "dirty")

NoDirtyLost ==
  [][running /\ running' =>
       Cardinality(DirtyBlocks \ DirtyBlocks') <= st'.dirty_writebacks - st.dirty_writebacks]_vars

\* Nor is memory written without cause: a write makes at most one line dirty, a read and
\* the moves between the levels none, and every counted write-back uses one up.
DirtyCount == Cardinality(BlocksIn(l1, L1S, "dirty")) + Cardinality(BlocksIn(l2, L2S, "dirty"))

NoNeedlessWriteback ==
  [][running /\ running' =>
       DirtyCount' + st'.dirty_writebacks - st.dirty_writebacks
         <= DirtyCount + st'.writes - st.writes]_vars

\* The bit masks, matrices and tags implement the reference hierarchy of lines in LRU
\* order, with the same seven counters after every access.  The free ways are the oldest
\* ones, so the lines of a set are its first ways.
LineOf(set, w, s, n) == [block |-> BlockOf(set, w, s, n), dirty |-> w \in set.dirty]

LinesOf(set, s, n) ==
  [i \in 1 .. Cardinality(set.valid) |-> LineOf(set, Order(set.lru)[i], s, n)]

Lines(level, n) == [s \in DOMAIN level |-> LinesOf(level[s], s, n)]

Reference == INSTANCE CacheHierarchy WITH
               l1 <- Lines(l1, L1S), l2 <- Lines(l2, L2S)
ImplementsReference == Reference!Spec
=============================================================================
