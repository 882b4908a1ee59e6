--------------------------- MODULE FeedFileProofs ---------------------------
(***************************************************************************)
(* What holds of a feed file for every number of ticks and records, chunk  *)
(* and record size, step and spread FeedAssumption allows: the writer's    *)
(* ticks are valid quotes, the file holds each once and in order, and a    *)
(* harness that calls run() gives it whole ticks.                          *)
(***************************************************************************)
EXTENDS FeedFile, DataLemmas, SequenceTheorems

-----------------------------------------------------------------------------
(* The quotes.                                                             *)

\* QuotesValid is not inductive: the next tick depends on the walks, which stay at or
\* above their clamp.
WalksClamped == mid \in [Symbols -> {price \in Int : price >= MinMid}]

QuotesInv == /\ WalksClamped
             /\ made \in Seq(TickType)
             /\ QuotesValid

\* What clamping is for.
LEMMA ClampedBounds ==
  ASSUME NEW price \in Int
  PROVE  Clamped(price) \in Int /\ Clamped(price) >= MinMid
BY FeedAssumption DEF Clamped, FeedAssumption

\* The bid lies half a spread below a walk that is larger than that; the ask, a whole
\* spread above the bid.
LEMMA QuoteAroundWalk ==
  ASSUME NEW price \in Int, price >= MinMid, NEW spread \in Spreads
  PROVE  /\ price - spread \div 2 \in Int
         /\ 0 < price - spread \div 2
         /\ price - spread \div 2 < price - spread \div 2 + spread
<1>1. spread \in Nat \ {0} /\ MinMid > spread \div 2
  BY FeedAssumption DEF FeedAssumption
<1>2. spread \div 2 \in Int
  BY <1>1
<1> QED
  BY <1>1, <1>2, FeedAssumption DEF FeedAssumption

\* A file without ticks, and walks that have not begun.
LEMMA FirstWalksClamped ==
  ASSUME NEW walks \in FirstMids
  PROVE  walks \in [Symbols -> {price \in Int : price >= MinMid}]
<1>1. \A s \in Symbols : walks[s] \in {price \in Int : price >= MinMid}
  BY FeedAssumption DEF FeedAssumption, FirstMids
<1> QED
  BY <1>1 DEF FirstMids

\* The first walks are clamped, and no tick has been made.
LEMMA QuotesInit == Init => QuotesInv
<1> SUFFICES ASSUME Init PROVE QuotesInv
  OBVIOUS
<1>1. WalksClamped
  BY FirstWalksClamped DEF Init, WalksClamped
<1> QED
  BY <1>1 DEF Init, QuotesInv, QuotesValid

\* A round moves the walks without leaving the clamp, so its tick has a valid quote.
LEMMA QuotesStep == QuotesInv /\ [Next]_vars => QuotesInv'
<1> SUFFICES ASSUME QuotesInv, [Next]_vars
             PROVE  QuotesInv'
  OBVIOUS
<1> USE DEF QuotesInv, WalksClamped
<1>1. ASSUME NEW s \in Symbols, NEW step \in Steps, NEW spread \in Spreads,
             Generate(s, step, spread)
      PROVE  QuotesInv'
  <2> DEFINE price == Clamped(mid[s] + step)
             tick == [timestamp |-> Len(made) + 1, symbol |-> s,
                      bid |-> price - spread \div 2,
                      ask |-> price - spread \div 2 + spread]
  <2>1. price \in Int /\ price >= MinMid
    <3>1. mid[s] + step \in Int
      BY FeedAssumption DEF FeedAssumption
    <3> QED
      BY <3>1, ClampedBounds
  <2>2. mid' = [mid EXCEPT ![s] = price]
    BY <1>1 DEF Generate
  <2>3. WalksClamped'
    BY <2>1, <2>2
  <2>4. mid'[s] = price
    BY <2>2
  <2>5. made' = Append(made, tick)
    BY <1>1, <2>4 DEF Generate
  <2>6. /\ price - spread \div 2 \in Int
        /\ 0 < price - spread \div 2
        /\ price - spread \div 2 < price - spread \div 2 + spread
    <3> HIDE DEF price
    <3> QED
      BY <2>1, QuoteAroundWalk
  <2>7. spread \in Int
    BY FeedAssumption DEF FeedAssumption
  <2>8. tick \in TickType
    <3> HIDE DEF price
    <3> QED
      BY <2>6, <2>7 DEF TickType
  <2>9. 0 < tick.bid /\ tick.bid < tick.ask
    BY <2>6
  <2> HIDE DEF tick
  <2>10. made' \in Seq(TickType)
    BY <2>5, <2>8
  <2>11. QuotesValid'
    <3> SUFFICES ASSUME NEW i \in DOMAIN made'
                 PROVE  0 < made'[i].bid /\ made'[i].bid < made'[i].ask
      BY DEF QuotesValid
    <3>1. CASE i = Len(made) + 1
      BY <3>1, <2>5, <2>8, <2>9 DEF TickType
    <3>2. CASE i # Len(made) + 1
      <4>1. i \in DOMAIN made /\ made'[i] = made[i]
        BY <3>2, <2>5, <2>8
      <4> QED
        BY <4>1 DEF QuotesValid
    <3> QED
      BY <3>1, <3>2
  <2> QED
    BY <2>3, <2>10, <2>11
<1>2. CASE Restart
  <2>1. WalksClamped'
    BY <1>2, FirstWalksClamped DEF Restart
  <2>2. made' = <<>>
    BY <1>2 DEF Restart
  <2> QED
    BY <2>1, <2>2 DEF QuotesValid
<1>3. CASE UNCHANGED <<mid, made>>
  BY <1>3 DEF QuotesValid
<1>4. \/ UNCHANGED <<mid, made>>
      \/ Restart
      \/ \E s \in Symbols, step \in Steps, spread \in Spreads : Generate(s, step, spread)
  BY DEF Next, Writer, Harness, FlushRest, Close, Write, Stop, OpenFails, Measure, Read,
         ShortRead, CreateFails, CallRun, Ended, vars, writerVars
<1> QED
  BY <1>1, <1>2, <1>3, <1>4

\* Walks, ticks and quotes stay what QuotesInv says.
LEMMA QuotesInvariant == Spec => []QuotesInv
<1> QED
  BY QuotesInit, QuotesStep, PTL DEF Spec

\* Every tick the writer of gen_feed.py makes has 0 < bid < ask, however long its walks.
THEOREM FeedQuotesValid == Spec => []QuotesValid
<1>1. QuotesInv => QuotesValid
  BY DEF QuotesInv
<1> QED
  BY <1>1, QuotesInvariant, PTL

-----------------------------------------------------------------------------
(* Records and bytes.                                                      *)

Records == TickType \cup {Zero}

\* Quotient and remainder are the only numbers that make a multiple and a rest.
LEMMA QuotientUnique ==
  ASSUME NEW m \in Nat \ {0}, NEW k \in Int, NEW r \in 0 .. m - 1, NEW a \in Int,
         a = m * k + r
  PROVE  a % m = r /\ a \div m = k
<1>1. a % m = r
  BY ModUnique
<1> DEFINE q == a \div m
<1>2. a = m * q + r /\ q \in Int
  <2>1. a = m * (a \div m) + (a % m) /\ a \div m \in Int
    BY Division
  <2> QED BY <1>1, <2>1
<1> HIDE DEF q
<1>3. m * (q - k) = 0 /\ q - k \in Int /\ -m < 0 /\ 0 < m
  BY <1>2
<1> DEFINE d == q - k
<1>4. d = 0
  <2>1. d \in Int /\ m * d = 0
    BY <1>3
  <2> HIDE DEF d
  <2>2. CASE d > 0
    <3>1. m * d >= m
      BY <2>1, <2>2
    <3> QED BY <2>1, <3>1
  <2>3. CASE d < 0
    <3>1. m * d <= -m
      BY <2>1, <2>3
    <3> QED BY <2>1, <3>1
  <2> QED BY <2>1, <2>2, <2>3
<1> QED BY <1>1, <1>2, <1>4 DEF q

\* The bytes of n records: the p-th byte is one of record (p - 1) \div RecordSize + 1.
LEMMA ByteOf ==
  ASSUME NEW n \in Nat, NEW p \in 1 .. n * RecordSize
  PROVE  /\ (p - 1) \div RecordSize + 1 \in 1 .. n
         /\ (p - 1) % RecordSize \in 0 .. RecordSize - 1
<1> DEFINE m == RecordSize
           a == p - 1
           q == a \div m
           r == a % m
<1>1. m \in Nat \ {0} /\ n * m \in Nat /\ a \in Nat /\ a < n * m /\ a \in Int
  BY FeedAssumption
<1> HIDE DEF m, a
<1>2. a = m * q + r /\ r \in 0 .. m - 1 /\ q \in Int
  BY <1>1, Division
<1>3. q \in Nat
  BY <1>1
<1> HIDE DEF q, r
<1>4. q < n
  <2>1. SUFFICES ASSUME q - n \in Nat PROVE FALSE
    BY <1>3
  <2> DEFINE d == q - n
  <2>2. q = n + d /\ d \in Nat
    BY <1>3, <2>1
  <2> HIDE DEF d
  <2>3. m * q = n * m + m * d /\ m * d \in Nat
    BY <1>1, <2>2
  <2>4. m * q <= a
    BY <1>1, <1>2
  <2> QED BY <1>1, <2>3, <2>4
<1>5. q + 1 \in 1 .. n
  BY <1>3, <1>4
<1> QED BY <1>2, <1>5 DEF q, r, a, m

\* Packed records are a sequence of bytes, RecordSize for every record.
LEMMA PackedIs ==
  ASSUME NEW s \in Seq(Records)
  PROVE  /\ Packed(s) \in Seq(Byte) /\ Len(Packed(s)) = Len(s) * RecordSize
         /\ \A p \in 1 .. Len(s) * RecordSize :
              Packed(s)[p] = <<s[(p - 1) \div RecordSize + 1], (p - 1) % RecordSize>>
<1> DEFINE n == Len(s) * RecordSize
<1>1. Len(s) \in Nat /\ n \in Nat
  BY FeedAssumption
<1>2. \A p \in 1 .. n : <<s[(p - 1) \div RecordSize + 1], (p - 1) % RecordSize>> \in Byte
  <2> SUFFICES ASSUME NEW p \in 1 .. n
               PROVE  <<s[(p - 1) \div RecordSize + 1], (p - 1) % RecordSize>> \in Byte
    OBVIOUS
  <2> DEFINE i == (p - 1) \div RecordSize + 1
             r == (p - 1) % RecordSize
  <2>1. i \in 1 .. Len(s) /\ r \in 0 .. RecordSize - 1
    BY <1>1, ByteOf
  <2> HIDE DEF i, r
  <2>2. s[i] \in Records
    BY <2>1, ElementOfSeq
  <2>3. <<s[i], r>> \in Byte
    BY <2>1, <2>2 DEF Byte, Records
  <2> QED BY <2>3 DEF i, r
<1>3. Packed(s) = [p \in 1 .. n |-> <<s[(p - 1) \div RecordSize + 1], (p - 1) % RecordSize>>]
  BY DEF Packed
<1>4. Packed(s) \in [1 .. n -> Byte]
  BY <1>2, <1>3
<1> HIDE DEF n
<1>5. Packed(s) \in Seq(Byte) /\ Len(Packed(s)) = n
  BY <1>1, <1>4, SeqDef
<1> QED BY <1>3, <1>5 DEF n

\* Two packed sequences agree where their records do.
LEMMA PackedAgrees ==
  ASSUME NEW s \in Seq(Records), NEW t \in Seq(Records), NEW n \in Nat,
         n <= Len(s), n <= Len(t), \A i \in 1 .. n : s[i] = t[i],
         NEW p \in 1 .. n * RecordSize
  PROVE  Packed(s)[p] = Packed(t)[p]
<1> DEFINE i == (p - 1) \div RecordSize + 1
<1>1. i \in 1 .. n
  BY ByteOf
<1>2. Len(s) \in Nat /\ Len(t) \in Nat /\ RecordSize \in Nat
  BY FeedAssumption
<1>3. n * RecordSize <= Len(s) * RecordSize /\ n * RecordSize <= Len(t) * RecordSize
      /\ n * RecordSize \in Int /\ Len(s) * RecordSize \in Int /\ Len(t) * RecordSize \in Int
  BY <1>2
<1>4. p \in 1 .. Len(s) * RecordSize /\ p \in 1 .. Len(t) * RecordSize
  BY <1>3
<1>5. Packed(s)[p] = <<s[i], (p - 1) % RecordSize>>
  BY <1>4, PackedIs
<1>6. Packed(t)[p] = <<t[i], (p - 1) % RecordSize>>
  BY <1>4, PackedIs
<1> QED BY <1>1, <1>5, <1>6

\* One more record is RecordSize more bytes at the end.
LEMMA PackedAppend ==
  ASSUME NEW s \in Seq(Records), NEW x \in Records
  PROVE  Packed(Append(s, x)) = Packed(s) \o Packed(<<x>>)
<1> DEFINE t == Append(s, x)
           R == RecordSize
           n == Len(s) * R
           u == Packed(s) \o Packed(<<x>>)
           one == <<x>>
<1>1. t \in Seq(Records) /\ Len(t) = Len(s) + 1 /\ t[Len(s) + 1] = x
      /\ \A i \in 1 .. Len(s) : t[i] = s[i]
  BY AppendProperties
<1>2. one \in Seq(Records) /\ Len(one) = 1 /\ one[1] = x
  OBVIOUS
<1>3. R \in Nat \ {0} /\ Len(s) \in Nat /\ n \in Nat /\ (Len(s) + 1) * R = n + R /\ 1 * R = R
  BY FeedAssumption
<1> HIDE DEF t
<1>4. Packed(t) \in Seq(Byte) /\ Len(Packed(t)) = n + R
      /\ \A p \in 1 .. n + R : Packed(t)[p] = <<t[(p - 1) \div R + 1], (p - 1) % R>>
  BY <1>1, <1>3, PackedIs
<1>5. Packed(s) \in Seq(Byte) /\ Len(Packed(s)) = n
  BY PackedIs
<1> HIDE DEF one
<1>6. Packed(one) \in Seq(Byte) /\ Len(Packed(one)) = R
      /\ \A p \in 1 .. R : Packed(one)[p] = <<one[(p - 1) \div R + 1], (p - 1) % R>>
  BY <1>2, <1>3, PackedIs
<1>7. /\ u \in Seq(Byte) /\ Len(u) = n + R
      /\ \A p \in 1 .. n + R : u[p] = IF p <= n THEN Packed(s)[p] ELSE Packed(one)[p - n]
  <2> DEFINE a == Packed(s)
             b == Packed(one)
  <2>1. a \in Seq(Byte) /\ b \in Seq(Byte) /\ Len(a) = n /\ Len(b) = R /\ u = a \o b
    BY <1>5, <1>6 DEF one
  <2> HIDE DEF a, b, u, n
  <2>2. /\ a \o b \in Seq(Byte) /\ Len(a \o b) = Len(a) + Len(b)
        /\ \A i \in 1 .. Len(a) + Len(b) :
             (a \o b)[i] = IF i <= Len(a) THEN a[i] ELSE b[i - Len(a)]
    BY <2>1, ConcatProperties
  <2>3. /\ u \in Seq(Byte) /\ Len(u) = n + R
        /\ \A p \in 1 .. n + R : u[p] = IF p <= n THEN a[p] ELSE b[p - n]
    BY <2>1, <2>2
  <2> QED BY <2>3 DEF a, b
<1> HIDE DEF u
<1>8. ASSUME NEW p \in 1 .. n + R PROVE Packed(t)[p] = u[p]
  <2>1. CASE p <= n
    <3>1. p \in 1 .. Len(s) * R
      BY <1>3, <2>1
    <3>2. Len(s) <= Len(s) /\ Len(s) <= Len(t)
      BY <1>1, <1>3
    <3>3. \A i \in 1 .. Len(s) : s[i] = t[i]
      BY <1>1
    <3>4. Packed(s)[p] = Packed(t)[p]
      BY <1>1, <1>3, <3>1, <3>2, <3>3, PackedAgrees
    <3> QED BY <1>7, <2>1, <3>4
  <2>2. CASE p > n
    <3> DEFINE a == p - 1
               c == (p - n) - 1
    <3>1. c \in 0 .. R - 1 /\ a \in Int /\ p - n \in 1 .. R /\ c \in Int
          /\ a = n + c /\ ~(p <= n)
      BY <1>3, <2>2
    <3>2. a = R * Len(s) + c /\ c = R * 0 + c
      BY <1>3, <3>1
    <3>3. Packed(t)[p] = <<t[a \div R + 1], a % R>>
      BY <1>4
    <3>4. Packed(one)[p - n] = <<one[c \div R + 1], c % R>>
      BY <1>6, <3>1
    <3> HIDE DEF a, c, R
    <3>5. a % R = c /\ a \div R = Len(s)
      <4> DEFINE k == Len(s)
      <4>1. R \in Nat \ {0} /\ k \in Int /\ c \in 0 .. R - 1 /\ a \in Int /\ a = R * k + c
        BY <1>3, <3>1, <3>2
      <4> HIDE DEF k
      <4>2. a % R = c /\ a \div R = k
        BY <4>1, QuotientUnique
      <4> QED BY <4>2 DEF k
    <3>6. c % R = c /\ c \div R = 0
      <4> DEFINE k == 0
      <4>1. R \in Nat \ {0} /\ k \in Int /\ c \in 0 .. R - 1 /\ c \in Int /\ c = R * k + c
        BY <1>3, <3>1, <3>2
      <4> HIDE DEF k
      <4>2. c % R = c /\ c \div R = k
        BY <4>1, QuotientUnique
      <4> QED BY <4>2 DEF k
    <3>7. Packed(t)[p] = <<x, c>>
      BY <1>1, <3>3, <3>5
    <3>8. Packed(one)[p - n] = <<x, c>>
      BY <1>2, <3>4, <3>6
    <3> QED BY <1>7, <3>1, <3>7, <3>8 DEF R
  <2> QED BY <1>3, <2>1, <2>2
<1>9. Packed(t) = u
  BY <1>4, <1>7, <1>8, SeqEqual
<1> QED BY <1>9 DEF t, u, one

\* The bytes of the first n records are the beginning of the bytes of all.
LEMMA PackedPrefix ==
  ASSUME NEW s \in Seq(Records), NEW n \in 0 .. Len(s)
  PROVE  SubSeq(Packed(s), 1, n * RecordSize) = Packed(SubSeq(s, 1, n))
<1> DEFINE t == SubSeq(s, 1, n)
           all == Packed(s)
           m == n * RecordSize
           u == SubSeq(all, 1, m)
<1>1. Len(s) \in Nat /\ n \in Nat /\ n <= Len(s) /\ RecordSize \in Nat /\ m \in Nat
      /\ m <= Len(s) * RecordSize /\ Len(s) * RecordSize \in Nat
  BY FeedAssumption
<1>2. t \in Seq(Records) /\ Len(t) = n /\ \A i \in 1 .. n : t[i] = s[i]
  <2>1. \A i \in 1 .. n : s[i] \in Records
    BY <1>1, ElementOfSeq
  <2>2. /\ t \in Seq(Records) /\ Len(t) = (IF 1 <= n THEN n - 1 + 1 ELSE 0)
        /\ \A i \in 1 .. n - 1 + 1 : t[i] = s[1 + i - 1]
    BY <1>1, <2>1, SubSeqProperties
  <2> HIDE DEF t
  <2> QED BY <1>1, <2>2
<1> HIDE DEF t
<1>3. all \in Seq(Byte) /\ Len(all) = Len(s) * RecordSize
  BY PackedIs
<1> HIDE DEF all
<1>4. u \in Seq(Byte) /\ Len(u) = m /\ \A p \in 1 .. m : u[p] = all[p]
  <2> HIDE DEF m
  <2>1. \A i \in 1 .. m : all[i] \in Byte
    BY <1>1, <1>3, ElementOfSeq
  <2>2. /\ u \in Seq(Byte) /\ Len(u) = (IF 1 <= m THEN m - 1 + 1 ELSE 0)
        /\ \A i \in 1 .. m - 1 + 1 : u[i] = all[1 + i - 1]
    BY <1>1, <2>1, SubSeqProperties
  <2> HIDE DEF u
  <2> QED BY <1>1, <2>2
<1>5. Packed(t) \in Seq(Byte) /\ Len(Packed(t)) = m
  BY <1>2, PackedIs
<1>6. \A p \in 1 .. m : u[p] = Packed(t)[p]
  <2> SUFFICES ASSUME NEW p \in 1 .. m PROVE u[p] = Packed(t)[p]
    OBVIOUS
  <2>1. n <= Len(s) /\ n <= Len(t) /\ p \in 1 .. n * RecordSize /\ n \in Nat
    BY <1>1, <1>2
  <2>2. \A i \in 1 .. n : s[i] = t[i]
    BY <1>2
  <2>3. Packed(s)[p] = Packed(t)[p]
    BY <1>2, <2>1, <2>2, PackedAgrees
  <2> QED BY <1>4, <2>3 DEF all
<1> HIDE DEF u, m
<1>7. u = Packed(t)
  BY <1>4, <1>5, <1>6, SeqEqual
<1> QED BY <1>7 DEF u, t, all, m

\* No records, no bytes.
LEMMA PackedNothing == Packed(<<>>) = <<>>
<1>1. <<>> \in Seq(Records) /\ Len(<<>>) = 0 /\ 0 * RecordSize = 0
  BY FeedAssumption
<1>2. Packed(<<>>) \in Seq(Byte) /\ Len(Packed(<<>>)) = 0
  BY <1>1, PackedIs
<1> QED BY <1>2, EmptySeq

\* The part of the buffer in use.
InUse(b, n) == SubSeq(b, 1, n)

\* It is a sequence of records; with one more record it is one longer.
LEMMA InUseIs ==
  ASSUME NEW b \in [1 .. Chunk -> Records], NEW n \in 0 .. Chunk
  PROVE  /\ InUse(b, n) \in Seq(Records) /\ Len(InUse(b, n)) = n
         /\ \A i \in 1 .. n : InUse(b, n)[i] = b[i]
<1>1. n \in Nat /\ n <= Chunk /\ Chunk \in Nat
  BY FeedAssumption
<1>2. \A i \in 1 .. n : b[i] \in Records
  BY <1>1
<1>3. /\ SubSeq(b, 1, n) \in Seq(Records)
      /\ Len(SubSeq(b, 1, n)) = (IF 1 <= n THEN n - 1 + 1 ELSE 0)
      /\ \A i \in 1 .. n - 1 + 1 : SubSeq(b, 1, n)[i] = b[1 + i - 1]
  BY <1>1, <1>2, SubSeqProperties
<1> QED BY <1>1, <1>3 DEF InUse

\* Nothing of a buffer is in use at first.
LEMMA InUseNone == \A b : InUse(b, 0) = <<>>
<1>1. \A b : SubSeq(b, 1, 0) = <<>>
  BY SubSeqEmpty
<1> QED BY <1>1 DEF InUse

\* Packing a record at its end makes the part in use one record longer, whatever stale
\* record was there.
LEMMA InUseMore ==
  ASSUME NEW b \in [1 .. Chunk -> Records], NEW n \in 0 .. Chunk - 1, NEW x \in Records
  PROVE  InUse([b EXCEPT ![n + 1] = x], n + 1) = Append(InUse(b, n), x)
<1> DEFINE c == [b EXCEPT ![n + 1] = x]
           s == InUse(b, n)
           t == InUse(c, n + 1)
<1>1. n \in Nat /\ Chunk \in Nat /\ n \in 0 .. Chunk /\ n + 1 \in 0 .. Chunk
      /\ n + 1 \in 1 .. Chunk
  BY FeedAssumption
<1>2. c \in [1 .. Chunk -> Records] /\ c[n + 1] = x /\ \A i \in 1 .. n : c[i] = b[i]
  BY <1>1
<1> HIDE DEF c
<1>3. s \in Seq(Records) /\ Len(s) = n /\ \A i \in 1 .. n : s[i] = b[i]
  BY <1>1, InUseIs
<1>4. t \in Seq(Records) /\ Len(t) = n + 1 /\ \A i \in 1 .. n + 1 : t[i] = c[i]
  BY <1>1, <1>2, InUseIs
<1> HIDE DEF s, t
<1>5. /\ Append(s, x) \in Seq(Records) /\ Len(Append(s, x)) = Len(s) + 1
      /\ \A i \in 1 .. Len(s) : Append(s, x)[i] = s[i]
      /\ Append(s, x)[Len(s) + 1] = x
  BY <1>3, AppendProperties
<1>6. \A i \in 1 .. n + 1 : t[i] = Append(s, x)[i]
  <2> SUFFICES ASSUME NEW i \in 1 .. n + 1 PROVE t[i] = Append(s, x)[i]
    OBVIOUS
  <2>1. CASE i = n + 1
    BY <1>1, <1>2, <1>3, <1>4, <1>5, <2>1
  <2>2. CASE i # n + 1
    <3>1. i \in 1 .. n
      BY <1>1, <2>2
    <3> QED BY <1>2, <1>3, <1>4, <1>5, <3>1
  <2> QED BY <2>1, <2>2
<1>7. t = Append(s, x)
  <2>1. Len(t) = Len(Append(s, x)) /\ \A i \in 1 .. Len(t) : t[i] = Append(s, x)[i]
    BY <1>3, <1>4, <1>5, <1>6
  <2> QED BY <1>4, <1>5, <2>1, SeqEqual
<1> QED BY <1>7 DEF t, s, c

-----------------------------------------------------------------------------
(* The writer.                                                             *)

\* What FileInv says of the bytes, with the part of the buffer in use by its name.
LEMMA FileBytes ==
  ASSUME FileInv
  PROVE  /\ disk \in Seq(Byte) /\ outgoing \in Seq(Byte)
         /\ made \in Seq(Records)
         /\ InUse(buf, off) \in Seq(Records)
         /\ Packed(InUse(buf, off)) \in Seq(Byte)
         /\ (disk \o outgoing) \o Packed(InUse(buf, off)) = Packed(made)
<1>1. off \in 0 .. Chunk /\ buf \in [1 .. Chunk -> Records]
  BY FeedAssumption DEF FileInv, Records
<1>2. InUse(buf, off) \in Seq(Records)
  BY <1>1, InUseIs
<1>3. made \in Seq(Records)
  <2>1. TickType \subseteq Records /\ made \in Seq(TickType)
    BY DEF FileInv, Records
  <2> QED BY <2>1, SeqMonotonic
<1>4. Packed(InUse(buf, off)) \in Seq(Byte)
  BY <1>2, PackedIs
<1> QED BY <1>2, <1>3, <1>4 DEF FileInv, NothingStale, InUse

\* A new tick goes to the end of what is in use, or out with the whole full buffer.
LEMMA GenerateKeeps ==
  ASSUME FileInv, made' \in Seq(TickType),
         NEW s \in Symbols, NEW step \in Steps, NEW spread \in Spreads,
         Generate(s, step, spread)
  PROVE  FileInv'
<1> DEFINE used == InUse(buf, off)
           P == Packed(used)
<1>1. PICK tick : /\ made' = Append(made, tick) /\ Pack(tick)
                  /\ outgoing = <<>> /\ disk' = disk /\ runs' = runs
  BY DEF Generate
<1>2. /\ disk \in Seq(Byte) /\ made \in Seq(Records) /\ used \in Seq(Records)
      /\ P \in Seq(Byte) /\ (disk \o outgoing) \o P = Packed(made)
  BY FileBytes
<1>3. made \in Seq(TickType) /\ runs \in Nat
      /\ buf \in [1 .. Chunk -> Records] /\ off \in 0 .. Chunk - 1 /\ Chunk \in Nat \ {0}
  BY FeedAssumption DEF FileInv, Records
<1>4. tick \in TickType /\ tick \in Records
  <2>1. Len(made') = Len(made) + 1 /\ made'[Len(made) + 1] = tick /\ Len(made) \in Nat
    BY <1>1, <1>3
  <2>2. Len(made) + 1 \in 1 .. Len(made')
    BY <2>1
  <2> QED BY <2>1, <2>2, ElementOfSeq DEF Records
<1> DEFINE one == <<tick>>
<1>5. one \in Seq(Records)
  BY <1>4
<1>6. Packed(Append(used, tick)) = P \o Packed(one)
  BY <1>2, <1>4, PackedAppend
<1>7. Packed(made') = Packed(made) \o Packed(one)
  BY <1>1, <1>2, <1>4, PackedAppend
<1>8. Packed(one) \in Seq(Byte)
  BY <1>5, PackedIs
<1>9. InUse(buf', off + 1) = Append(used, tick)
  <2>1. buf' = [buf EXCEPT ![off + 1] = tick]
    BY <1>1 DEF Pack
  <2> QED BY <1>3, <1>4, <2>1, InUseMore
<1>10. buf' \in [1 .. Chunk -> Records]
  BY <1>1, <1>3, <1>4 DEF Pack
<1>11. disk \o Packed(Append(used, tick)) = Packed(made')
  <2>1. disk \o outgoing = disk
    BY <1>1, <1>2, ConcatEmptySeq
  <2>2. disk \o P = Packed(made)
    BY <1>2, <2>1
  <2> HIDE DEF P, one, used
  <2>3. (disk \o P) \o Packed(one) = disk \o (P \o Packed(one))
    <3>1. \A x, y, z \in Seq(Byte) : (x \o y) \o z = x \o (y \o z)
      BY ConcatAssociative
    <3>2. disk \in Seq(Byte) /\ P \in Seq(Byte) /\ Packed(one) \in Seq(Byte)
      BY <1>2, <1>8
    <3> QED BY <3>1, <3>2, Zenon
  <2> QED BY <1>6, <1>7, <2>2, <2>3
<1> DEFINE B == Packed(Append(used, tick))
<1>12. B \in Seq(Byte)
  <2>1. Append(used, tick) \in Seq(Records)
    BY <1>2, <1>4, AppendProperties
  <2> QED BY <2>1, PackedIs
<1> HIDE DEF used, P, one, B
<1>13. CASE off + 1 < Chunk
  <2>1. off' = off + 1 /\ outgoing' = <<>>
    BY <1>1, <1>13 DEF Pack
  <2>2. off' \in 0 .. Chunk - 1
    BY <1>3, <1>13, <2>1
  <2>3. disk' \o outgoing' = disk
    BY <1>1, <1>2, <2>1, ConcatEmptySeq
  <2>4. Packed(SubSeq(buf', 1, off')) = B
    BY <1>9, <2>1 DEF InUse, B
  <2>5. NothingStale'
    BY <1>11, <2>3, <2>4 DEF NothingStale, B
  <2>6. outgoing' \in Seq(Byte)
    BY <2>1
  <2> QED BY <1>1, <1>2, <1>3, <1>10, <2>2, <2>5, <2>6 DEF FileInv, Records
<1>14. CASE ~(off + 1 < Chunk)
  <2>1. off' = 0 /\ outgoing' = Packed(buf') /\ off + 1 = Chunk
    BY <1>1, <1>3, <1>14 DEF Pack
  <2>2. SubSeq(buf', 1, Chunk) = buf'
    <3>1. buf' \in Seq(Records) /\ Len(buf') = Chunk
      BY <1>3, <1>10, SeqDef
    <3> QED BY <3>1, SubSeqFull
  <2>3. outgoing' = B
    BY <1>9, <2>1, <2>2 DEF InUse, B
  <2>4. SubSeq(buf', 1, off') = <<>>
    <3>1. InUse(buf', 0) = <<>>
      BY InUseNone
    <3> QED BY <2>1, <3>1 DEF InUse
  <2>5. disk' \o outgoing' = Packed(made')
    BY <1>1, <1>11, <2>3 DEF B
  <2>6. Packed(made') \in Seq(Byte)
    <3>1. made' \in Seq(Records)
      BY <1>1, <1>2, <1>4, AppendProperties
    <3> QED BY <3>1, PackedIs
  <2>7. (disk' \o outgoing') \o Packed(SubSeq(buf', 1, off')) = Packed(made')
    <3>1. Packed(SubSeq(buf', 1, off')) = <<>>
      BY <2>4, PackedNothing
    <3> QED BY <2>5, <2>6, <3>1, ConcatEmptySeq
  <2>8. off' \in 0 .. Chunk - 1
    BY <1>3, <2>1
  <2> QED BY <1>1, <1>2, <1>3, <1>10, <1>12, <2>3, <2>7, <2>8
          DEF FileInv, NothingStale, Records
<1> QED BY <1>13, <1>14

\* The rest of the buffer becomes the last write.
LEMMA FlushKeeps ==
  ASSUME FileInv, FlushRest
  PROVE  FileInv'
<1> DEFINE P == Packed(InUse(buf, off))
<1>1. /\ outgoing = <<>> /\ off' = 0 /\ outgoing' = P
      /\ UNCHANGED <<made, buf, disk, runs>>
  BY DEF FlushRest, InUse
<1>2. disk \in Seq(Byte) /\ P \in Seq(Byte) /\ (disk \o outgoing) \o P = Packed(made)
  BY FileBytes
<1>3. disk \o P = Packed(made)
  BY <1>1, <1>2, ConcatEmptySeq
<1>4. Packed(SubSeq(buf', 1, off')) = <<>>
  <2>1. InUse(buf', 0) = <<>>
    BY InUseNone
  <2> QED BY <1>1, <2>1, PackedNothing DEF InUse
<1>5. disk \o P \in Seq(Byte)
  BY <1>2, ConcatProperties
<1> HIDE DEF P
<1>6. (disk' \o outgoing') \o Packed(SubSeq(buf', 1, off')) = Packed(made')
  BY <1>1, <1>3, <1>4, <1>5, ConcatEmptySeq
<1>7. off' \in 0 .. Chunk - 1
  BY <1>1, FeedAssumption
<1> QED BY <1>1, <1>2, <1>6, <1>7 DEF FileInv, NothingStale

\* The system takes the beginning of what it is given; the file grows by that.
LEMMA WriteKeeps ==
  ASSUME FileInv, Write
  PROVE  FileInv'
<1>1. PICK n \in 1 .. Len(outgoing) :
           /\ disk' = disk \o SubSeq(outgoing, 1, n)
           /\ outgoing' = SubSeq(outgoing, n + 1, Len(outgoing))
  BY DEF Write
<1>2. UNCHANGED <<made, buf, off, runs>>
  BY DEF Write
<1> DEFINE a == SubSeq(outgoing, 1, n)
           b == SubSeq(outgoing, n + 1, Len(outgoing))
<1>3. disk \in Seq(Byte) /\ outgoing \in Seq(Byte) /\ Len(outgoing) \in Nat /\ n \in Int
  BY FileBytes
<1>4. a \in Seq(Byte) /\ b \in Seq(Byte)
  <2>1. \A i \in 1 .. n : outgoing[i] \in Byte
    BY <1>3
  <2>2. \A i \in n + 1 .. Len(outgoing) : outgoing[i] \in Byte
    BY <1>3
  <2>3. a \in Seq(Byte)
    BY <1>3, <2>1, SubSeqProperties
  <2>4. b \in Seq(Byte)
    <3>1. n + 1 \in Int /\ Len(outgoing) \in Int
      BY <1>3
    <3> QED BY <2>2, <3>1, SubSeqProperties
  <2> QED BY <2>3, <2>4
<1>5. a \o b = outgoing
  <2>1. 1 \in 1 .. Len(outgoing) + 1 /\ n \in 1 - 1 .. Len(outgoing)
        /\ Len(outgoing) \in n .. Len(outgoing)
    BY <1>3
  <2>2. a \o b = SubSeq(outgoing, 1, Len(outgoing))
    BY <1>3, <2>1, ConcatAdjacentSubSeq
  <2> QED BY <1>3, <2>2, SubSeqFull
<1>6. disk' = disk \o a /\ outgoing' = b
  BY <1>1
<1> HIDE DEF a, b
<1>7. disk' \o outgoing' = disk \o outgoing
  <2>1. (disk \o a) \o b = disk \o (a \o b)
    <3>1. \A x, y, z \in Seq(Byte) : (x \o y) \o z = x \o (y \o z)
      BY ConcatAssociative
    <3>2. disk \in Seq(Byte) /\ a \in Seq(Byte) /\ b \in Seq(Byte)
      BY <1>3, <1>4
    <3> QED BY <3>1, <3>2, Zenon
  <2> QED BY <1>5, <1>6, <2>1
<1>8. disk' \in Seq(Byte)
  BY <1>3, <1>4, <1>6, ConcatProperties
<1>9. NothingStale'
  BY <1>2, <1>7 DEF FileInv, NothingStale
<1> QED BY <1>2, <1>4, <1>6, <1>8, <1>9 DEF FileInv

\* A writer at the beginning has made, kept and written nothing.
LEMMA FreshKeeps ==
  ASSUME made = <<>>, buf = ZeroBuffer, off = 0, disk = <<>>, outgoing = <<>>, runs \in Nat
  PROVE  FileInv
<1>1. SubSeq(buf, 1, off) = <<>>
  <2>1. off \in Int /\ off < 1
    OBVIOUS
  <2> QED BY <2>1, SubSeqEmpty
<1>2. buf \in [1 .. Chunk -> TickType \cup {Zero}] /\ off \in 0 .. Chunk - 1
  BY FeedAssumption DEF ZeroBuffer
<1>3. disk \in Seq(Byte) /\ outgoing \in Seq(Byte) /\ made \in Seq(TickType)
  OBVIOUS
<1>4. (disk \o outgoing) \o Packed(SubSeq(buf, 1, off)) = Packed(made)
  BY <1>1, <1>3, PackedNothing, ConcatEmptySeq
<1> QED BY <1>2, <1>3, <1>4 DEF FileInv, NothingStale

-----------------------------------------------------------------------------
(* The harness.                                                            *)

\* A beginning of a sequence is the same beginning of what it is continued to.
LEMMA PrefixOfConcat ==
  ASSUME NEW S, NEW s \in Seq(S), NEW t \in Seq(S), NEW n \in 0 .. Len(s)
  PROVE  SubSeq(s \o t, 1, n) = SubSeq(s, 1, n)
<1>1. CASE n = 0
  <2>1. n \in Int /\ n < 1
    BY <1>1
  <2>2. \A u : SubSeq(u, 1, n) = <<>>
    BY <2>1, SubSeqEmpty
  <2> QED BY <2>2
<1>2. CASE n # 0
  <2>1. Len(s) \in Nat /\ 1 \in 1 .. Len(s) /\ n \in 1 .. Len(s)
    BY <1>2
  <2> QED BY <2>1, SubSeqOfConcat1
<1> QED BY <1>1, <1>2

\* What the harness relies on: the file of the run it measured only grows.
LEMMA GrowingFile ==
  ASSUME HarnessInv, UNCHANGED readerVars, runs' = runs, disk \in Seq(Byte),
         NEW more \in Seq(Byte), disk' = disk \o more
  PROVE  HarnessInv'
<1>1. disk' \in Seq(Byte) /\ Len(disk') = Len(disk) + Len(more)
      /\ Len(disk) \in Nat /\ Len(more) \in Nat
  BY ConcatProperties
<1>2. ASSUME reader \in {"reading", "running"}, opened = runs
      PROVE  bytes <= Len(disk') /\ feed = SubSeq(disk', 1, Len(feed))
  <2>1. /\ bytes \in Nat /\ Len(feed) <= bytes /\ bytes <= Len(disk) /\ feed \in Seq(Byte)
        /\ feed = SubSeq(disk, 1, Len(feed))
    BY <1>2 DEF HarnessInv
  <2>2. Len(feed) \in 0 .. Len(disk)
    BY <1>1, <2>1
  <2>3. SubSeq(disk \o more, 1, Len(feed)) = SubSeq(disk, 1, Len(feed))
    BY <2>2, PrefixOfConcat
  <2> QED BY <1>1, <2>1, <2>3
<1> QED BY <1>2 DEF HarnessInv, readerVars

\* A further piece of the file is read.
LEMMA ReadKeeps ==
  ASSUME HarnessInv, disk \in Seq(Byte), Read
  PROVE  HarnessInv'
<1>1. PICK last \in Len(feed) + 1 .. bytes :
           last <= Len(disk) /\ feed' = feed \o SubSeq(disk, Len(feed) + 1, last)
  BY DEF Read
<1>2. /\ reader = "reading" /\ UNCHANGED <<reader, opened, bytes, runs, disk>>
  BY DEF Read, writerVars
<1>3. /\ feed \in Seq(Byte) /\ Len(feed) \in Nat /\ bytes \in Nat /\ bytes % RecordSize = 0
      /\ opened \in 0 .. runs /\ Len(disk) \in Nat
      /\ opened = runs => bytes <= Len(disk) /\ feed = SubSeq(disk, 1, Len(feed))
  BY <1>2 DEF HarnessInv
<1> DEFINE piece == SubSeq(disk, Len(feed) + 1, last)
<1>4. piece \in Seq(Byte) /\ Len(piece) = last - Len(feed)
  <2>1. Len(feed) + 1 \in Int /\ last \in Int /\ Len(feed) + 1 <= last
    BY <1>1, <1>3
  <2>2. \A i \in Len(feed) + 1 .. last : disk[i] \in Byte
    BY <1>1, <1>3
  <2>3. piece \in Seq(Byte)
        /\ Len(piece) = (IF Len(feed) + 1 <= last THEN last - (Len(feed) + 1) + 1 ELSE 0)
    BY <2>1, <2>2, SubSeqProperties
  <2> HIDE DEF piece
  <2> QED BY <1>3, <2>1, <2>3
<1>5. feed' = feed \o piece
  BY <1>1
<1>6. opened = runs => feed' = SubSeq(disk, 1, last)
  <2> SUFFICES ASSUME opened = runs PROVE feed' = SubSeq(disk, 1, last)
    OBVIOUS
  <2>1. 1 \in 1 .. Len(disk) + 1 /\ Len(feed) \in 1 - 1 .. Len(disk)
        /\ last \in Len(feed) .. Len(disk)
    BY <1>1, <1>3
  <2>2. SubSeq(disk, 1, Len(feed)) \o piece = SubSeq(disk, 1, last)
    BY <2>1, ConcatAdjacentSubSeq
  <2> QED BY <1>3, <1>5, <2>2
<1> HIDE DEF piece
<1>7. feed' \in Seq(Byte) /\ Len(feed') = last /\ last <= bytes
  <2>1. feed' \in Seq(Byte) /\ Len(feed') = Len(feed) + Len(piece)
    BY <1>3, <1>4, <1>5, ConcatProperties
  <2> QED BY <1>1, <1>3, <1>4, <2>1
<1> QED BY <1>2, <1>3, <1>6, <1>7 DEF HarnessInv

\* The size is measured: the harness goes on only with whole records.
LEMMA MeasureKeeps ==
  ASSUME HarnessInv, disk \in Seq(Byte), runs \in Nat, Measure
  PROVE  HarnessInv'
<1>1. /\ reader = "idle" /\ bytes' = Len(disk) /\ opened' = runs /\ feed = <<>>
      /\ reader' = (IF WholeRecords(bytes') THEN "reading" ELSE "failed")
      /\ UNCHANGED <<feed, runs, disk>>
  BY DEF Measure, HarnessInv, writerVars
<1>2. Len(disk) \in Nat /\ Len(feed') = 0 /\ feed' \in Seq(Byte)
  BY <1>1
<1>3. feed' = SubSeq(disk', 1, Len(feed'))
  <2>1. Len(feed') \in Int /\ Len(feed') < 1
    BY <1>2
  <2>2. \A u : SubSeq(u, 1, 0) = <<>>
    BY SubSeqEmpty
  <2> QED BY <1>1, <1>2, <2>2
<1>4. reader' = "reading" => bytes' % RecordSize = 0
  BY <1>1 DEF WholeRecords
<1>5. reader' \in {"reading", "failed"}
  BY <1>1
<1> QED BY <1>1, <1>2, <1>3, <1>4, <1>5 DEF HarnessInv

-----------------------------------------------------------------------------
(* The theorems.                                                           *)

\* Nothing is generated, written or read yet.
LEMMA FeedInit == Init => FeedInv
<1> SUFFICES ASSUME Init PROVE FeedInv
  OBVIOUS
<1>1. FileInv
  BY FreshKeeps DEF Init
<1>2. HarnessInv
  BY DEF Init, HarnessInv
<1> QED BY <1>1, <1>2 DEF FeedInv

\* Every step of the two programs keeps FeedInv.
LEMMA FeedStep == QuotesInv' /\ FeedInv /\ [Next]_vars => FeedInv'
<1> SUFFICES ASSUME QuotesInv', FeedInv, [Next]_vars PROVE FeedInv'
  OBVIOUS
<1>1. FileInv /\ HarnessInv /\ disk \in Seq(Byte) /\ runs \in Nat
  BY DEF FeedInv, FileInv
<1>2. ASSUME UNCHANGED <<disk, runs, readerVars>> PROVE HarnessInv'
  BY <1>1, <1>2 DEF HarnessInv, readerVars
<1>3. ASSUME UNCHANGED <<made, buf, off, disk, outgoing, runs>> PROVE FileInv'
  BY <1>1, <1>3 DEF FileInv, NothingStale
<1>4. ASSUME NEW s \in Symbols, NEW step \in Steps, NEW spread \in Spreads,
             Generate(s, step, spread)
      PROVE  FeedInv'
  <2>1. made' \in Seq(TickType)
    BY DEF QuotesInv
  <2>2. FileInv'
    BY <1>1, <1>4, <2>1, GenerateKeeps
  <2> QED BY <1>2, <1>4, <2>2 DEF Generate, FeedInv
<1>5. CASE FlushRest
  <2>1. FileInv'
    BY <1>1, <1>5, FlushKeeps
  <2> QED BY <1>2, <1>5, <2>1 DEF FlushRest, FeedInv
<1>6. CASE Write
  <2>1. FileInv'
    BY <1>1, <1>6, WriteKeeps
  <2>2. PICK n \in 1 .. Len(outgoing) : disk' = disk \o SubSeq(outgoing, 1, n)
    BY <1>6 DEF Write
  <2>3. SubSeq(outgoing, 1, n) \in Seq(Byte)
    <3>1. outgoing \in Seq(Byte) /\ n \in Int /\ 1 \in Int
      BY <1>1 DEF FileInv
    <3>2. \A i \in 1 .. n : outgoing[i] \in Byte
      BY <3>1
    <3> QED BY <3>1, <3>2, SubSeqProperties
  <2>4. UNCHANGED readerVars /\ runs' = runs
    BY <1>6 DEF Write
  <2>5. HarnessInv'
    BY <1>1, <2>2, <2>3, <2>4, GrowingFile
  <2> QED BY <2>1, <2>5 DEF FeedInv
<1>7. CASE Close \/ Stop
  BY <1>2, <1>3, <1>7 DEF Close, Stop, FeedInv
<1>8. CASE Restart
  <2>1. /\ made' = <<>> /\ buf' = ZeroBuffer /\ off' = 0 /\ disk' = <<>> /\ outgoing' = <<>>
        /\ runs' = runs + 1 /\ UNCHANGED readerVars
    BY <1>8 DEF Restart
  <2>2. FileInv'
    <3>1. SubSeq(buf', 1, off') = <<>>
      <4>1. InUse(buf', 0) = <<>>
        BY InUseNone
      <4> QED BY <2>1, <4>1 DEF InUse
    <3>2. buf' \in [1 .. Chunk -> TickType \cup {Zero}] /\ off' \in 0 .. Chunk - 1
      BY <2>1, FeedAssumption DEF ZeroBuffer
    <3>3. disk' \in Seq(Byte) /\ outgoing' \in Seq(Byte) /\ made' \in Seq(TickType)
      BY <2>1
    <3>4. (disk' \o outgoing') \o Packed(SubSeq(buf', 1, off')) = Packed(made')
      BY <2>1, <3>1, <3>3, PackedNothing, ConcatEmptySeq
    <3>5. runs' \in Nat
      BY <1>1, <2>1
    <3> QED BY <3>2, <3>3, <3>4, <3>5 DEF FileInv, NothingStale
  <2>3. opened' \in 0 .. runs' /\ opened' # runs'
    BY <1>1, <2>1 DEF HarnessInv, readerVars
  <2>4. HarnessInv'
    BY <1>1, <2>1, <2>3 DEF HarnessInv, readerVars
  <2> QED BY <2>2, <2>4 DEF FeedInv
<1>9. CASE Read
  <2>1. HarnessInv'
    BY <1>1, <1>9, ReadKeeps
  <2> QED BY <1>3, <1>9, <2>1 DEF Read, FeedInv, writerVars
<1>10. CASE Measure
  <2>1. HarnessInv'
    BY <1>1, <1>10, MeasureKeeps
  <2> QED BY <1>3, <1>10, <2>1 DEF Measure, FeedInv, writerVars
<1>11. CASE OpenFails \/ ShortRead \/ CreateFails \/ CallRun
  <2>1. UNCHANGED <<opened, bytes, feed, writerVars>>
    BY <1>11 DEF OpenFails, ShortRead, CreateFails, CallRun
  <2>2. \/ reader' = "failed"
        \/ reader = "reading" /\ reader' = "running" /\ Len(feed) = bytes
    BY <1>11 DEF OpenFails, ShortRead, CreateFails, CallRun
  <2>3. HarnessInv'
    BY <1>1, <2>1, <2>2 DEF HarnessInv, writerVars
  <2> QED BY <1>3, <2>1, <2>3 DEF FeedInv, writerVars
<1>12. CASE UNCHANGED vars
  BY <1>2, <1>3, <1>12 DEF vars, writerVars, FeedInv
<1> QED
  BY <1>4, <1>5, <1>6, <1>7, <1>8, <1>9, <1>10, <1>11, <1>12
     DEF Next, Writer, Harness, Ended

\* The inductive invariant of the two programs and the file between them.
THEOREM FeedInvariant == Spec => []FeedInv
<1> QED BY FeedInit, FeedStep, QuotesInvariant, PTL DEF Spec

\* No stale record: file, pending write and used part of the buffer are the ticks made.
THEOREM FeedNothingStale == Spec => []NothingStale
<1>1. FeedInv => NothingStale
  BY DEF FeedInv, FileInv
<1> QED BY <1>1, FeedInvariant, PTL

\* Whenever the harness starts and wherever a write fails, run() gets the first n ticks
\* generated, whole, unless the writer was started again in between.
THEOREM FeedRunGetsWholeTicks == Spec => []RunGetsWholeTicks
<1>1. ASSUME FeedInv PROVE RunGetsWholeTicks
  <2> DEFINE n == bytes \div RecordSize
             rest == outgoing \o Packed(InUse(buf, off))
             all == Packed(made)
  <2>1. SUFFICES ASSUME reader = "running", opened = runs
                 PROVE  n <= Len(made) /\ feed = Packed(SubSeq(made, 1, n))
    BY DEF RunGetsWholeTicks
  <2>2. /\ bytes \in Nat /\ bytes % RecordSize = 0 /\ Len(feed) = bytes
        /\ bytes <= Len(disk) /\ feed = SubSeq(disk, 1, bytes)
    BY <1>1, <2>1 DEF FeedInv, HarnessInv
  <2>3. /\ disk \in Seq(Byte) /\ outgoing \in Seq(Byte) /\ made \in Seq(Records)
        /\ Packed(InUse(buf, off)) \in Seq(Byte)
        /\ (disk \o outgoing) \o Packed(InUse(buf, off)) = all
    BY <1>1, FileBytes DEF FeedInv
  <2>4. rest \in Seq(Byte) /\ disk \o rest = all
    <3>1. \A x, y, z \in Seq(Byte) : (x \o y) \o z = x \o (y \o z) /\ y \o z \in Seq(Byte)
      BY ConcatAssociative, ConcatProperties
    <3> QED BY <2>3, <3>1, Zenon
  <2> HIDE DEF rest
  <2>5. Len(all) = Len(made) * RecordSize /\ Len(made) \in Nat /\ all \in Seq(Byte)
    BY <2>3, PackedIs
  <2>6. bytes <= Len(all)
    <3>1. \A x, y \in Seq(Byte) : Len(x \o y) = Len(x) + Len(y)
      BY ConcatProperties
    <3>2. \A x \in Seq(Byte) : Len(x) \in Nat
      BY LenProperties
    <3>3. Len(disk \o rest) = Len(disk) + Len(rest) /\ Len(rest) \in Nat /\ Len(disk) \in Nat
      BY <2>3, <2>4, <3>1, <3>2, Zenon
    <3>4. Len(all) = Len(disk) + Len(rest)
      BY <2>4, <3>3
    <3> QED BY <2>2, <3>3, <3>4
  <2>7. n \in Nat /\ bytes = n * RecordSize /\ RecordSize \in Nat \ {0}
    <3>1. RecordSize \in Nat \ {0} /\ bytes \in Int
      BY <2>2, FeedAssumption
    <3>2. bytes = RecordSize * (bytes \div RecordSize) + (bytes % RecordSize)
      BY <3>1, Division
    <3>3. n \in Nat
      BY <2>2, <3>1
    <3> HIDE DEF n
    <3>4. bytes = RecordSize * n + 0
      BY <2>2, <3>2 DEF n
    <3> QED BY <3>1, <3>3, <3>4
  <2> HIDE DEF n
  <2>8. n <= Len(made)
    <3> DEFINE d == n - Len(made) - 1
    <3>1. SUFFICES ASSUME d \in Nat PROVE FALSE
      BY <2>5, <2>7
    <3>2. n = Len(made) + 1 + d
      BY <2>5, <2>7
    <3> HIDE DEF d
    <3>3. n * RecordSize = Len(made) * RecordSize + RecordSize + d * RecordSize
          /\ d * RecordSize \in Nat /\ Len(made) * RecordSize \in Nat
      BY <2>5, <2>7, <3>1, <3>2
    <3> QED BY <2>5, <2>6, <2>7, <3>3
  <2>9. SubSeq(all, 1, bytes) = SubSeq(disk, 1, bytes)
    <3>1. bytes \in 0 .. Len(disk)
      BY <2>2
    <3>2. SubSeq(disk \o rest, 1, bytes) = SubSeq(disk, 1, bytes)
      BY <2>3, <2>4, <3>1, PrefixOfConcat
    <3> QED BY <2>4, <3>2
  <2>10. SubSeq(all, 1, n * RecordSize) = Packed(SubSeq(made, 1, n))
    <3>1. n \in 0 .. Len(made)
      BY <2>5, <2>7, <2>8
    <3> QED BY <2>3, <3>1, PackedPrefix
  <2> QED BY <2>2, <2>7, <2>8, <2>9, <2>10
<1> QED BY <1>1, FeedInvariant, PTL
=============================================================================
