------------------------- MODULE SequentialPipeline -------------------------
(***************************************************************************)
(* What csot::Pipeline promises: run() decodes and trades the ticks of its *)
(* input one by one, in stream order, and returns when none is left.  This *)
(* is the single-threaded run() of week-4/project/samples/                 *)
(* pipeline.stub.cpp, whose order stream every pipeline must reproduce.    *)
(***************************************************************************)
EXTENDS OrderStream

CONSTANT Feeds       \* the inputs run() may be called with: sequences of ticks

VARIABLES running,   \* a call of run() is in progress
          input,     \* in[0 .. n - 1] of the latest call
          traded,    \* ticks of it already traded
          history,   \* ticks traded since on_init, over all the calls
          orders     \* out[0 .. num_orders - 1] of the latest call

seqVars == <<running, input, traded, history, orders>>

Init == /\ running = FALSE /\ input = <<>> /\ traded = 0
        /\ history = <<>> /\ orders = <<>>

Call(feed) == /\ ~running
              /\ running' = TRUE
              /\ input' = feed /\ traded' = 0 /\ orders' = <<>>
              /\ UNCHANGED history

Trade == /\ running /\ traded < Len(input)
         /\ traded' = traded + 1
         /\ history' = Append(history, input[traded + 1])
         /\ orders' = orders \o Emitted(history', traded)
         /\ UNCHANGED <<running, input>>

Return == /\ running /\ traded = Len(input)
          /\ running' = FALSE
          /\ UNCHANGED <<input, traded, history, orders>>

Next == Trade \/ Return \/ \E feed \in Feeds : Call(feed)

Spec == Init /\ [][Next]_seqVars
=============================================================================
