---------------------------- MODULE BoundedFifo -----------------------------
(***************************************************************************)
(* What a single-producer single-consumer ring buffer promises, with no    *)
(* memory, no indices and no threads: a queue of at most Capacity items    *)
(* that delivers every item once, in the order it was accepted.            *)
(***************************************************************************)
EXTENDS Naturals, Sequences

CONSTANTS Items,      \* what can be pushed
          NoItem,     \* content of the receiver's variable before the first pop
          Capacity    \* number of slots

VARIABLES queue,      \* items accepted and not yet delivered
          received    \* the item most recently delivered

fifoVars == <<queue, received>>

Init == queue = <<>> /\ received = NoItem

Push(item) == /\ Len(queue) < Capacity
              /\ queue' = Append(queue, item)
              /\ UNCHANGED received

Pop == /\ queue # <<>>
       /\ received' = Head(queue)
       /\ queue' = Tail(queue)

Next == Pop \/ \E item \in Items : Push(item)

Spec == Init /\ [][Next]_fifoVars
=============================================================================
