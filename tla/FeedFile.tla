------------------------------ MODULE FeedFile ------------------------------
(***************************************************************************)
(* A feed file between its writer and its reader: write_generated_feed of  *)
(* week-4/project/data/gen_feed.py packs ticks into a buffer of Chunk      *)
(* records, writes the buffer whenever it is full and reuses it; the       *)
(* harness (week-4/project/harness/main.cpp, which loads a feed as those   *)
(* of weeks 2 and 3 load their inputs) measures the file, reads it into a  *)
(* vector of records and calls run().                                      *)
(*                                                                         *)
(* Nothing but the file connects the two programs.  The harness may be     *)
(* started while the file is being written, after a write failed half way, *)
(* or while the writer is run again.  A tick's time is its number.         *)
(***************************************************************************)
EXTENDS Integers, Sequences

CONSTANTS Symbols, Accesses,  \* the ids drawn from, and the ticks of a file
          Chunk,              \* _STREAM_CHUNK, in records
          RecordSize,         \* REC.size, in bytes
          StartMids, MinMid,  \* where a walk may start, and what it is clamped to
          Steps, Spreads,     \* what rng.randint may return
          Zero,               \* a record of zero bytes
          MaxRuns             \* bound: runs of the writer

ASSUME FeedAssumption ==
  /\ Chunk \in Nat \ {0} /\ RecordSize \in Nat \ {0} /\ Accesses \in Nat
  /\ MinMid \in Int /\ StartMids \subseteq {price \in Int : price >= MinMid}
  /\ Spreads \subseteq Nat \ {0} /\ Steps \subseteq Int
  /\ \A spread \in Spreads : MinMid > spread \div 2

VARIABLES writer,   \* "generating" or "stopped"
          runs,     \* times the writer was started
          mid,      \* the walks
          made,     \* history: the ticks of this run of the writer
          buf, off, \* the buffer, and the records in it not yet written
          outgoing, \* bytes f.write was given and the file does not have yet
          disk,     \* the bytes of the file
          reader,   \* "idle", "reading", "running", "failed"
          opened,   \* history: the run of the writer that was measured
          bytes,    \* the measured size
          feed      \* the bytes read into the vector

writerVars == <<writer, runs, mid, made, buf, off, outgoing, disk>>
readerVars == <<reader, opened, bytes, feed>>
vars == <<writerVars, readerVars>>

\* The bytes of records one after the other.
Packed(records) ==
  [p \in 1 .. Len(records) * RecordSize |->
     <<records[(p - 1) \div RecordSize + 1], (p - 1) % RecordSize>>]

-----------------------------------------------------------------------------
(* The writer *)

FirstMids == [Symbols -> StartMids]
ZeroBuffer == [k \in 1 .. Chunk |-> Zero]

\* Variant: the walk is not clamped.
Unclamped(price) == price

Clamped(price) == IF price < MinMid THEN MinMid ELSE price

\* The tick is packed at off; a full buffer is written.
Pack(tick) ==
  /\ buf' = [buf EXCEPT ![off + 1] = tick]
  /\ IF off + 1 < Chunk THEN off' = off + 1 /\ UNCHANGED outgoing
                        ELSE off' = 0 /\ outgoing' = Packed(buf')

\* One iteration: the next tick of a symbol, stamped later than the one before.
Generate(s, step, spread) ==
  /\ writer = "generating" /\ outgoing = <<>> /\ Len(made) < Accesses
  /\ mid' = [mid EXCEPT ![s] = Clamped(@ + step)]
  /\ LET bid == mid'[s] - spread \div 2
         tick == [timestamp |-> Len(made) + 1, symbol |-> s, bid |-> bid, ask |-> bid + spread]
     IN  made' = Append(made, tick) /\ Pack(tick)
  /\ UNCHANGED <<writer, runs, disk, readerVars>>

\* Variant: the last write is the whole buffer.
FlushAll == /\ writer = "generating" /\ outgoing = <<>> /\ Len(made) = Accesses /\ off > 0
            /\ off' = 0 /\ outgoing' = Packed(buf)
            /\ UNCHANGED <<writer, runs, mid, made, buf, disk, readerVars>>

\* After the loop: the records still in the buffer.
FlushRest == /\ writer = "generating" /\ outgoing = <<>> /\ Len(made) = Accesses /\ off > 0
             /\ off' = 0 /\ outgoing' = Packed(SubSeq(buf, 1, off))
             /\ UNCHANGED <<writer, runs, mid, made, buf, disk, readerVars>>

Close == /\ writer = "generating" /\ outgoing = <<>> /\ Len(made) = Accesses /\ off = 0
         /\ writer' = "stopped"
         /\ UNCHANGED <<runs, mid, made, buf, off, outgoing, disk, readerVars>>

\* The system takes any part of what it is given to write.
Write == /\ writer = "generating"
         /\ \E taken \in 1 .. Len(outgoing) :
              /\ disk' = disk \o SubSeq(outgoing, 1, taken)
              /\ outgoing' = SubSeq(outgoing, taken + 1, Len(outgoing))
         /\ UNCHANGED <<writer, runs, mid, made, buf, off, readerVars>>

\* A write fails, or the script is interrupted.
Stop == /\ writer = "generating" /\ writer' = "stopped"
        /\ UNCHANGED <<runs, mid, made, buf, off, outgoing, disk, readerVars>>

\* The writer is run again on the same file, which is truncated.
Restart == /\ writer = "stopped" /\ runs < MaxRuns
           /\ runs' = runs + 1 /\ writer' = "generating"
           /\ mid' \in FirstMids /\ made' = <<>>
           /\ buf' = ZeroBuffer /\ off' = 0
           /\ outgoing' = <<>> /\ disk' = <<>>
           /\ UNCHANGED readerVars

Writer == \/ FlushRest \/ Close \/ Write \/ Stop \/ Restart
          \/ \E s \in Symbols, step \in Steps, spread \in Spreads : Generate(s, step, spread)

-----------------------------------------------------------------------------
(* The harness *)

OpenFails == /\ reader = "idle" /\ reader' = "failed"
             /\ UNCHANGED <<opened, bytes, feed, writerVars>>

\* Variant: any size will do.
AnySize(size) == TRUE

WholeRecords(size) == size % RecordSize = 0

\* tellg at the end of the file.
Measure == /\ reader = "idle"
           /\ bytes' = Len(disk) /\ opened' = runs
           /\ reader' = IF WholeRecords(bytes') THEN "reading" ELSE "failed"
           /\ UNCHANGED <<feed, writerVars>>

\* read() may be served piece by piece, and fails at the end of the file.
Read == /\ reader = "reading"
        /\ \E last \in Len(feed) + 1 .. bytes :
             /\ last <= Len(disk)
             /\ feed' = feed \o SubSeq(disk, Len(feed) + 1, last)
        /\ UNCHANGED <<reader, opened, bytes, writerVars>>

ShortRead == /\ reader = "reading" /\ Len(feed) < bytes /\ Len(disk) <= Len(feed)
             /\ reader' = "failed"
             /\ UNCHANGED <<opened, bytes, feed, writerVars>>

\* create_pipeline returns a null pointer.
CreateFails == /\ reader = "reading" /\ Len(feed) = bytes
               /\ reader' = "failed"
               /\ UNCHANGED <<opened, bytes, feed, writerVars>>

\* run(feed.data(), feed.size(), out.data())
CallRun == /\ reader = "reading" /\ Len(feed) = bytes
           /\ reader' = "running"
           /\ UNCHANGED <<opened, bytes, feed, writerVars>>

Harness == OpenFails \/ Measure \/ Read \/ ShortRead \/ CreateFails \/ CallRun

Init == /\ runs = 1 /\ writer = "generating"
        /\ mid \in FirstMids /\ made = <<>>
        /\ buf = ZeroBuffer /\ off = 0
        /\ outgoing = <<>> /\ disk = <<>>
        /\ reader = "idle" /\ opened = 0 /\ bytes = 0 /\ feed = <<>>

Ended == /\ writer = "stopped" /\ runs = MaxRuns /\ reader \in {"running", "failed"}
         /\ UNCHANGED vars

Next == Writer \/ Harness \/ Ended

Spec == Init /\ [][Next]_vars

-----------------------------------------------------------------------------
(* Properties *)

\* The file, what is on its way to it and the part of the buffer in use are together all
\* the ticks generated, each once, in order: a reused buffer never leaks a record of an
\* earlier chunk into the file.
NothingStale == disk \o outgoing \o Packed(SubSeq(buf, 1, off)) = Packed(made)

\* Whenever the harness is started and wherever a write failed, run() gets whole records,
\* the first n generated, as many as the vector was made for; unless the writer was
\* started again between the measurement and the end of the read.
RunGetsWholeTicks ==
  reader = "running" /\ opened = runs =>
    LET n == bytes \div RecordSize
    IN  n <= Len(made) /\ feed = Packed(SubSeq(made, 1, n))

TickType == [timestamp : Nat, symbol : Symbols, bid : Int, ask : Int]
Byte == (TickType \cup {Zero}) \X (0 .. RecordSize - 1)

\* The inductive invariant of the proofs.  The writer's part: nothing is stale.
FileInv ==
  /\ made \in Seq(TickType)
  /\ buf \in [1 .. Chunk -> TickType \cup {Zero}] /\ off \in 0 .. Chunk - 1
  /\ disk \in Seq(Byte) /\ outgoing \in Seq(Byte)
  /\ runs \in Nat
  /\ NothingStale

\* The harness's part: what it has measured is whole records; and unless the writer was
\* started again since, all of it is still in the file, which only grows, and what was
\* read is its beginning.
HarnessInv ==
  /\ feed \in Seq(Byte) /\ opened \in 0 .. runs
  /\ reader = "idle" => feed = <<>>
  /\ reader \in {"reading", "running"} =>
       /\ bytes \in Nat /\ bytes % RecordSize = 0 /\ Len(feed) <= bytes
       /\ opened = runs => bytes <= Len(disk) /\ feed = SubSeq(disk, 1, Len(feed))
  /\ reader = "running" => Len(feed) = bytes

FeedInv == FileInv /\ HarnessInv

\* The random walks never cross: every tick has 0 < bid < ask, as the trading rule of the
\* pipeline and the non-negative prices of the reduction take for granted.
QuotesValid == \A i \in DOMAIN made : 0 < made[i].bid /\ made[i].bid < made[i].ask
=============================================================================
