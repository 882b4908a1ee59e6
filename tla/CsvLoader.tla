----------------------------- MODULE CsvLoader ------------------------------
(***************************************************************************)
(* CsvLoader::load of week-1/project/src/csv_loader.cpp, which turns the   *)
(* rows of a file into ticks whose symbol is a view of a string kept in    *)
(* symbol_storage_, a std::vector<std::string>.                            *)
(*                                                                         *)
(* A view is modelled by the address it points to.  A short name is kept   *)
(* inside its std::string, so it lies in the vector's buffer and moves     *)
(* when push_back reallocates the buffer; a longer name has a heap block   *)
(* of its own, which stays where it is when the string is moved.  A new    *)
(* buffer lies anywhere the current one does not, over freed ones too.     *)
(***************************************************************************)
EXTENDS Integers, Sequences, Functions, FiniteSets

CONSTANTS Symbols,    \* the names in the files
          Files,      \* sequences of rows [symbol, bid, ask]
          Malformed,  \* the bid of a row std::stoull, stod or stoul throws on
          ShortNames, \* the symbols short enough for the string's own buffer
          Bases       \* bound: where a buffer may lie

Rows == [symbol : Symbols, bid : Int \cup {Malformed}, ask : Int]

ASSUME FilesAssumption == \A f \in Files : f \in Seq(Rows)

ASSUME MemoryAssumption == Malformed \notin Int /\ Bases \subseteq Nat

VARIABLES status,          \* "start", "loading", "replay", "done", "rejected", "aborted"
          file,            \* the rows
          ticks,           \* the loaded ticks: one per row read
          symbol_storage_, \* the names in the vector
          buffer,          \* the vector's buffer: [base, capacity]
          symbol_map       \* name |-> index in symbol_storage_

loaderVars == <<file, ticks, symbol_storage_, buffer, symbol_map>>

LoaderInit == /\ file = <<>> /\ ticks = <<>> /\ symbol_storage_ = <<>>
              /\ buffer = [base |-> 0, capacity |-> 0]
              /\ symbol_map = <<>>

\* data() of the string at an index of the vector: a cell of the buffer, or the block
\* allocated for that string.
ViewOf(names, buf, idx) ==
  IF names[idx] \in ShortNames THEN <<"buffer", buf.base + idx>> ELSE <<"heap", idx>>

Cells(buf) == buf.base .. buf.base + buf.capacity - 1

\* The buffers push_back may leave: the same one while it has room, or else one of twice
\* the capacity.
Grown ==
  IF Len(symbol_storage_) < buffer.capacity THEN {buffer}
  ELSE LET wanted == IF buffer.capacity = 0 THEN 1 ELSE 2 * buffer.capacity
       IN  {new \in [base : Bases, capacity : {wanted}] :
              Cells(new) \cap Cells(buffer) = {}}

\* A file that cannot be opened, and one that can.
OpenFails == status = "start" /\ status' = "rejected" /\ UNCHANGED loaderVars

Open(f) == /\ status = "start" /\ status' = "loading" /\ file' = f
           /\ UNCHANGED <<ticks, symbol_storage_, buffer, symbol_map>>

\* The next row.
Row == file[Len(ticks) + 1]

\* The tick of the row, whose symbol is the string at an index of the vector; or the
\* exception of a malformed number, which leaves main.
Converted(names, buf, idx) ==
  \/ /\ Row.bid # Malformed
     /\ ticks' = Append(ticks, [symbol |-> ViewOf(names, buf, idx),
                               bid |-> Row.bid, ask |-> Row.ask])
     /\ UNCHANGED status
  \/ /\ Row.bid = Malformed
     /\ status' = "rejected"
     /\ UNCHANGED ticks

\* A row of a symbol the map knows.
LoadKnown == /\ status = "loading" /\ Len(ticks) < Len(file)
             /\ Row.symbol \in DOMAIN symbol_map
             /\ Converted(symbol_storage_, buffer, symbol_map[Row.symbol])
             /\ UNCHANGED <<file, symbol_storage_, buffer, symbol_map>>

\* Variant: the view is taken before push_back moves the strings.
LoadNewEarly == /\ status = "loading" /\ Len(ticks) < Len(file)
                /\ Row.symbol \notin DOMAIN symbol_map
                /\ symbol_storage_' = Append(symbol_storage_, Row.symbol)
                /\ buffer' \in Grown
                /\ symbol_map' = [n \in DOMAIN symbol_map \cup {Row.symbol} |->
                                    IF n = Row.symbol THEN Len(symbol_storage_') ELSE symbol_map[n]]
                /\ Converted(symbol_storage_', buffer, Len(symbol_storage_'))
                /\ UNCHANGED file

\* Variant: the name is not entered in the map.
LoadNewUnmapped ==
  /\ status = "loading" /\ Len(ticks) < Len(file)
  /\ Row.symbol \notin DOMAIN symbol_map
  /\ symbol_storage_' = Append(symbol_storage_, Row.symbol)
  /\ buffer' \in Grown
  /\ Converted(symbol_storage_', buffer', Len(symbol_storage_'))
  /\ UNCHANGED <<file, symbol_map>>

\* A row of a new symbol, whose name is pushed back before the numbers are converted.
LoadNew == /\ status = "loading" /\ Len(ticks) < Len(file)
           /\ Row.symbol \notin DOMAIN symbol_map
           /\ symbol_storage_' = Append(symbol_storage_, Row.symbol)
           /\ buffer' \in Grown
           /\ symbol_map' = [n \in DOMAIN symbol_map \cup {Row.symbol} |->
                               IF n = Row.symbol THEN Len(symbol_storage_') ELSE symbol_map[n]]
           /\ Converted(symbol_storage_', buffer', Len(symbol_storage_'))
           /\ UNCHANGED file

LoadDone == /\ status = "loading" /\ Len(ticks) = Len(file)
            /\ status' = "replay"
            /\ UNCHANGED loaderVars

Load == \/ OpenFails \/ LoadKnown \/ LoadNew \/ LoadDone
        \/ \E f \in Files : Open(f)

-----------------------------------------------------------------------------
(* The inductive invariant                                                 *)

Views == {"heap", "buffer"} \X Nat

\* The map and the vector are inverse to each other, in every state.
NamesInv ==
  /\ symbol_storage_ \in Seq(Symbols)
  /\ \A n \in DOMAIN symbol_map : /\ symbol_map[n] \in 1 .. Len(symbol_storage_)
                                 /\ symbol_storage_[symbol_map[n]] = n
  /\ \A i \in 1 .. Len(symbol_storage_) : /\ symbol_storage_[i] \in DOMAIN symbol_map
                                         /\ symbol_map[symbol_storage_[i]] = i

\* A tick is its row, with the view of the name instead of the name: for a long name the
\* block the map leads to.
TickOf(i) ==
  /\ ticks[i].symbol \in Views
  /\ ticks[i].bid = file[i].bid /\ ticks[i].ask = file[i].ask
  /\ file[i].symbol \in DOMAIN symbol_map
  /\ IF file[i].symbol \in ShortNames
       THEN ticks[i].symbol[1] = "buffer"
       ELSE ticks[i].symbol = <<"heap", symbol_map[file[i].symbol]>>

\* What the loader keeps true: rows are read in order, each into its tick.
LoaderInv ==
  /\ file \in Files \cup {<<>>} /\ buffer \in [base : Nat, capacity : Nat]
  /\ NamesInv
  /\ ticks \in Seq([symbol : Views, bid : Int, ask : Int]) /\ Len(ticks) <= Len(file)
  /\ \A i \in 1 .. Len(ticks) : TickOf(i)
  /\ status = "start" => ticks = <<>>
  /\ status \in {"loading", "replay", "done", "aborted"} => file \in Files
  /\ status \in {"replay", "done", "aborted"} => Len(ticks) = Len(file)

-----------------------------------------------------------------------------
(* Addresses                                                               *)

NamesIn(f) == {f[i].symbol : i \in DOMAIN f}

\* The i-th tick was loaded since the vector's buffer grew last: by then there were more
\* names than half of the buffer holds.
SinceGrown(i) == \E j \in 1 .. i : symbol_map[file[j].symbol] > buffer.capacity \div 2

\* Nothing has moved the name of the i-th tick since it was loaded.
Lasting(i) == file[i].symbol \notin ShortNames \/ SinceGrown(i)

\* The views of names that were moved away from there.
LeftBehind == {ticks[i].symbol : i \in {k \in DOMAIN ticks : ~ Lasting(k)}}

\* The vector is more than half full, of names that have ticks.  A lasting view leads to the
\* string the map names; of the others there are at most as many as the earlier buffers,
\* of 1, 2, 4, ... cells, had cells.
PlacementInv ==
  /\ Len(symbol_storage_) <= buffer.capacity
  /\ buffer.capacity <= 1 \/ buffer.capacity <= 2 * (Len(symbol_storage_) - 1)
  /\ status # "rejected" => DOMAIN symbol_map \subseteq {file[i].symbol : i \in DOMAIN ticks}
  /\ \A i \in DOMAIN ticks :
       Lasting(i) => ticks[i].symbol = ViewOf(symbol_storage_, buffer, symbol_map[file[i].symbol])
  /\ LeftBehind = {} \/ Cardinality(LeftBehind) < buffer.capacity

-----------------------------------------------------------------------------
\* Every distinct name keeps one stable address for the whole replay, and no two names
\* share one: views are equal exactly when the names are.
Interned ==
  \A i, j \in DOMAIN ticks :
     (file[i].symbol = file[j].symbol) <=> (ticks[i].symbol = ticks[j].symbol)

\* What is true of it: addresses tell the names apart among all ticks but those of short
\* names that were loaded before the vector grew last.
InternedSinceGrown ==
  \A i, j \in DOMAIN ticks :
     Lasting(i) /\ Lasting(j) =>
       ((file[i].symbol = file[j].symbol) <=> (ticks[i].symbol = ticks[j].symbol))

\* The map and the vector agree: every name is stored once, where the map says.
MapMatchesStorage ==
  /\ IsInjective(symbol_storage_)
  /\ Cardinality(DOMAIN symbol_map) = Len(symbol_storage_)
  /\ \A n \in DOMAIN symbol_map : symbol_storage_[symbol_map[n]] = n
=============================================================================
