------------------------------ MODULE SpscRing ------------------------------
(***************************************************************************)
(* SpscRing<T, Capacity> of week-4/project/pipeline.cpp: a lock-free ring  *)
(* with one producer and one consumer thread.  Nothing orders the two      *)
(* threads but the acquire loads and release stores of tail_ and head_, so *)
(* the C++ memory order is modelled, not an interleaving of instant reads: *)
(*                                                                         *)
(*  - tail_ and head_ are modification orders: the sequence of messages    *)
(*    stored so far, a message holding the index value and the writer's    *)
(*    view, the number of its plain slot accesses the store publishes;     *)
(*  - a thread's load of the other thread's index may return any message   *)
(*    not older than the last one it saw (coherence), however stale; the   *)
(*    acquire order adds the message's view to the thread's own;           *)
(*  - slots_ is plain memory, logged access by access.  A read not ordered *)
(*    after a conflicting write may return what any of the racing writes,  *)
(*    or the last ordered one, stored.                                     *)
(*                                                                         *)
(* An index is a machine word: it is stored modulo IndexMod (2^64 in the   *)
(* program).  reset() is left out: nothing calls it.                       *)
(***************************************************************************)
EXTENDS Integers, Sequences

CONSTANTS Items,       \* what try_push is given
          NoItem,      \* content of a slot nothing was written to
          Capacity,    \* template argument Capacity
          IndexMod,    \* number of values of the index type
          MaxPushes    \* bound: calls of try_push that succeed

ASSUME CapacityAssumption == Capacity \in Nat \ {0}
ASSUME IndexAssumption == IndexMod \in Nat /\ Capacity < IndexMod /\ IndexMod % Capacity = 0
ASSUME BoundAssumption == MaxPushes \in Nat
ASSUME NoItemAssumption == NoItem \notin Items

VARIABLES tail_,       \* modification order of tail_, written by the producer
          head_,       \* modification order of head_, written by the consumer
          slotWrites,  \* the producer's plain writes to slots_, in program order
          slotReads,   \* the consumer's plain reads of slots_, in program order
          prod,        \* the producer's locals in try_push, and its view
          cons,        \* the consumer's locals in try_pop, and its view
          pushed,      \* history: items try_push returned true for
          popped       \* history: items try_pop returned true with

ringVars == <<tail_, head_, slotWrites, slotReads, prod, cons, pushed, popped>>

Index == 0 .. IndexMod - 1
Message == [val : Index, view : Nat]
Access == [slot : 0 .. Capacity - 1, item : Items]

ProducerLocals == [pc : {"idle", "check", "write", "publish"}, t : Index,
                   item : Items \cup {NoItem}, seen : Nat, acquired : Nat]
ConsumerLocals == [pc : {"idle", "check", "read", "publish"}, h : Index,
                   out : Items \cup {NoItem}, seen : Nat, acquired : Nat]

RingTypeOK ==
  /\ tail_ \in Seq(Message) /\ head_ \in Seq(Message)
  /\ slotWrites \in Seq(Access) /\ slotReads \in Seq(0 .. Capacity - 1)
  /\ prod \in ProducerLocals /\ cons \in ConsumerLocals
  /\ pushed \in Seq(Items) /\ popped \in Seq(Items)

-----------------------------------------------------------------------------
(* Memory.                                                                 *)

\* A load by the thread that writes the variable: its own last store.
OwnValue(order) == order[Len(order)].val

\* The messages a load may return to a thread that has seen message `seen'.
Readable(order, seen) == seen .. Len(order)

\* Variant: the index stored relaxed.
ReleaseRelaxed(order, val, view) == Append(order, [val |-> val, view |-> 0])

\* A release store: the message carries what its thread did before it.
Release(order, val, view) == Append(order, [val |-> val, view |-> view])

\* Variant: the other thread's index loaded relaxed.
AcquireRelaxed(thread, order, i) == [thread EXCEPT !.seen = i]

\* An acquire load of message i: coherence moves `seen', the message's view joins
\* what the thread is ordered after.
Acquire(thread, order, i) ==
  [thread EXCEPT !.seen = i,
                 !.acquired = IF order[i].view > @ THEN order[i].view ELSE @]

\* index & MASK; Capacity is a power of two.
SlotOf(index) == index % Capacity

WritesTo(slot) == {k \in DOMAIN slotWrites : slotWrites[k].slot = slot}
ReadsOf(slot) == {k \in DOMAIN slotReads : slotReads[k] = slot}

\* The writes to a slot that happen before the consumer's next step.
OrderedWritesTo(slot) == {k \in WritesTo(slot) : k <= cons.acquired}

\* What a plain read of the slot can return to the consumer.
SlotValues(slot) ==
  {slotWrites[k].item : k \in {w \in WritesTo(slot) :
                                 \A o \in OrderedWritesTo(slot) : o <= w}}
    \cup {NoItem : o \in {n \in {0} : OrderedWritesTo(slot) = {}}}

-----------------------------------------------------------------------------
RingInit ==
  /\ tail_ = <<[val |-> 0, view |-> 0]>>
  /\ head_ = <<[val |-> 0, view |-> 0]>>
  /\ slotWrites = <<>> /\ slotReads = <<>>
  /\ prod = [pc |-> "idle", t |-> 0, item |-> NoItem, seen |-> 1, acquired |-> 0]
  /\ cons = [pc |-> "idle", h |-> 0, out |-> NoItem, seen |-> 1, acquired |-> 0]
  /\ pushed = <<>> /\ popped = <<>>

(* try_push, producer only.                                                *)

\* The call, with the relaxed load of the producer's own index.
PushCall(item) ==
  /\ prod.pc = "idle"
  /\ Len(pushed) < MaxPushes
  /\ prod' = [prod EXCEPT !.pc = "check", !.t = OwnValue(tail_), !.item = item]
  /\ UNCHANGED <<tail_, head_, slotWrites, slotReads, cons, pushed, popped>>

\* Variants: a slot too many, and a slot kept free.
IsFullLate(t, h) == (t - h) % IndexMod = Capacity + 1
IsFullEarly(t, h) == (t - h) % IndexMod >= Capacity - 1

\* t - head == Capacity in unsigned arithmetic.
IsFull(t, h) == (t - h) % IndexMod = Capacity

\* The acquire load of head_ finds the ring full: try_push returns false.
PushFull(i) ==
  /\ prod.pc = "check"
  /\ i \in Readable(head_, prod.seen)
  /\ IsFull(prod.t, head_[i].val)
  /\ prod' = [Acquire(prod, head_, i) EXCEPT !.pc = "idle"]
  /\ UNCHANGED <<tail_, head_, slotWrites, slotReads, cons, pushed, popped>>

\* The acquire load of head_ finds room.
PushRoom(i) ==
  /\ prod.pc = "check"
  /\ i \in Readable(head_, prod.seen)
  /\ ~IsFull(prod.t, head_[i].val)
  /\ prod' = [Acquire(prod, head_, i) EXCEPT !.pc = "write"]
  /\ UNCHANGED <<tail_, head_, slotWrites, slotReads, cons, pushed, popped>>

PushWrite ==
  /\ prod.pc = "write"
  /\ slotWrites' = Append(slotWrites, [slot |-> SlotOf(prod.t), item |-> prod.item])
  /\ prod' = [prod EXCEPT !.pc = "publish"]
  /\ UNCHANGED <<tail_, head_, slotReads, cons, pushed, popped>>

\* The release store of t + 1: try_push returns true.
PushPublish ==
  /\ prod.pc = "publish"
  /\ tail_' = Release(tail_, (prod.t + 1) % IndexMod, Len(slotWrites))
  /\ pushed' = Append(pushed, prod.item)
  /\ prod' = [prod EXCEPT !.pc = "idle"]
  /\ UNCHANGED <<head_, slotWrites, slotReads, cons, popped>>

(* try_pop, consumer only.                                                 *)

\* The call, with the relaxed load of the consumer's own index.
PopCall ==
  /\ cons.pc = "idle"
  /\ cons' = [cons EXCEPT !.pc = "check", !.h = OwnValue(head_)]
  /\ UNCHANGED <<tail_, head_, slotWrites, slotReads, prod, pushed, popped>>

\* The acquire load of tail_ finds the ring empty: try_pop returns false.
PopEmpty(i) ==
  /\ cons.pc = "check"
  /\ i \in Readable(tail_, cons.seen)
  /\ cons.h = tail_[i].val
  /\ cons' = [Acquire(cons, tail_, i) EXCEPT !.pc = "idle"]
  /\ UNCHANGED <<tail_, head_, slotWrites, slotReads, prod, pushed, popped>>

\* The acquire load of tail_ finds an item.
PopAvailable(i) ==
  /\ cons.pc = "check"
  /\ i \in Readable(tail_, cons.seen)
  /\ cons.h # tail_[i].val
  /\ cons' = [Acquire(cons, tail_, i) EXCEPT !.pc = "read"]
  /\ UNCHANGED <<tail_, head_, slotWrites, slotReads, prod, pushed, popped>>

PopRead ==
  /\ cons.pc = "read"
  /\ \E value \in SlotValues(SlotOf(cons.h)) :
        cons' = [cons EXCEPT !.pc = "publish", !.out = value]
  /\ slotReads' = Append(slotReads, SlotOf(cons.h))
  /\ UNCHANGED <<tail_, head_, slotWrites, prod, pushed, popped>>

\* Variant: head_ is stored back without the increment.
PopPublishSame ==
  /\ cons.pc = "publish"
  /\ head_' = Release(head_, cons.h, Len(slotReads))
  /\ popped' = Append(popped, cons.out)
  /\ cons' = [cons EXCEPT !.pc = "idle"]
  /\ UNCHANGED <<tail_, slotWrites, slotReads, prod, pushed>>

\* The release store of h + 1: try_pop returns true.
PopPublish ==
  /\ cons.pc = "publish"
  /\ head_' = Release(head_, (cons.h + 1) % IndexMod, Len(slotReads))
  /\ popped' = Append(popped, cons.out)
  /\ cons' = [cons EXCEPT !.pc = "idle"]
  /\ UNCHANGED <<tail_, slotWrites, slotReads, prod, pushed>>

(* Between two calls a thread may synchronise with the other one by other    *)
(* means (starting the producer thread, the producer_done flag and join() in *)
(* FastPipeline::run), which orders it after the other's stores up to the    *)
(* i-th.                                                                     *)
ProducerSynchronises(i) ==
  /\ prod.pc = "idle"
  /\ i \in Readable(head_, prod.seen)
  /\ prod' = Acquire(prod, head_, i)
  /\ UNCHANGED <<tail_, head_, slotWrites, slotReads, cons, pushed, popped>>

ConsumerSynchronises(i) ==
  /\ cons.pc = "idle"
  /\ i \in Readable(tail_, cons.seen)
  /\ cons' = Acquire(cons, tail_, i)
  /\ UNCHANGED <<tail_, head_, slotWrites, slotReads, prod, pushed, popped>>

-----------------------------------------------------------------------------
Producer == \/ \E item \in Items : PushCall(item)
            \/ \E i \in DOMAIN head_ : PushFull(i) \/ PushRoom(i) \/ ProducerSynchronises(i)
            \/ PushWrite
            \/ PushPublish

Consumer == \/ PopCall
            \/ \E i \in DOMAIN tail_ : PopEmpty(i) \/ PopAvailable(i) \/ ConsumerSynchronises(i)
            \/ PopRead
            \/ PopPublish

RingNext == Producer \/ Consumer

RingSpec == RingInit /\ [][RingNext]_ringVars

-----------------------------------------------------------------------------
(* Properties.                                                             *)

\* No data race on slots_: the slot a thread is about to access has no access by the
\* other thread that is not ordered before by an acquired release store.  This is
\* what the acquire/release pairs and the full and empty tests of try_push and
\* try_pop are for.
NoDataRace ==
  /\ prod.pc = "write" => \A k \in ReadsOf(SlotOf(prod.t)) : k <= prod.acquired
  /\ cons.pc = "read" => \A k \in WritesTo(SlotOf(cons.h)) : k <= cons.acquired

\* The items try_pop delivered are the first items try_push accepted, in that order:
\* none lost, duplicated, reordered or read before it was written.
FifoOrder == /\ Len(popped) <= Len(pushed)
             /\ \A k \in 1 .. Len(popped) : popped[k] = pushed[k]

\* At most Capacity items are in the ring, the one being written included.
WithinCapacity == Len(slotWrites) - Len(popped) <= Capacity

\* A failing call is justified by what its thread can know: try_push returns false only
\* when all Capacity slots are occupied by items whose removal the producer has not
\* seen, and try_pop only when every push the consumer has seen was delivered.
HonestFailures ==
  [][/\ (prod.pc = "check" /\ prod'.pc = "idle") =>
           Len(pushed) - (prod'.seen - 1) = Capacity
     /\ (cons.pc = "check" /\ cons'.pc = "idle") =>
           cons'.seen - 1 = Len(popped)]_ringVars

\* The ring implements the bounded FIFO queue: a push takes effect at the release store
\* of tail_, a pop at the release store of head_, and nothing else has an effect.
Fifo == INSTANCE BoundedFifo WITH
          queue <- SubSeq(pushed, Len(popped) + 1, Len(pushed)),
          received <- IF popped = <<>> THEN NoItem ELSE popped[Len(popped)]

ImplementsFifo == Fifo!Spec

(***************************************************************************)
(* The inductive invariant behind the safety properties, in named parts.   *)
(***************************************************************************)
\* What the stores of both indices hold: message i is the i-th store, its value is the
\* number of earlier operations, and its view covers exactly their slot accesses.
IndexStores ==
  /\ Len(tail_) = Len(pushed) + 1
  /\ Len(head_) = Len(popped) + 1
  /\ \A i \in 1 .. Len(tail_) : tail_[i] = [val |-> (i - 1) % IndexMod, view |-> i - 1]
  /\ \A i \in 1 .. Len(head_) : head_[i] = [val |-> (i - 1) % IndexMod, view |-> i - 1]

\* The slot accesses: the k-th one goes to slot k - 1 modulo Capacity, and there is one
\* per completed operation plus the one of an operation about to publish.
SlotAccesses ==
  /\ Len(slotWrites) = IF prod.pc = "publish" THEN Len(pushed) + 1 ELSE Len(pushed)
  /\ Len(slotReads) = IF cons.pc = "publish" THEN Len(popped) + 1 ELSE Len(popped)
  /\ \A k \in 1 .. Len(slotWrites) : slotWrites[k].slot = (k - 1) % Capacity
  /\ \A k \in 1 .. Len(slotReads) : slotReads[k] = (k - 1) % Capacity
  /\ \A k \in 1 .. Len(pushed) : slotWrites[k].item = pushed[k]

\* What the producer knows: it is ordered after the reads of every pop it has seen, and
\* never further than Capacity items ahead of them.
ProducerView ==
  /\ prod.seen \in 1 .. Len(head_)
  /\ prod.acquired = prod.seen - 1
  /\ Len(pushed) - prod.acquired <= Capacity
  /\ prod.pc # "idle" => prod.t = Len(pushed) % IndexMod /\ prod.item \in Items
  /\ prod.pc \in {"write", "publish"} => Len(pushed) - prod.acquired < Capacity
  /\ prod.pc = "publish" => slotWrites[Len(slotWrites)].item = prod.item

\* What the consumer knows: it is ordered after the writes of every push it has seen,
\* and never pops past them.
ConsumerView ==
  /\ cons.seen \in 1 .. Len(tail_)
  /\ cons.acquired = cons.seen - 1
  /\ Len(popped) <= cons.acquired
  /\ cons.pc # "idle" => cons.h = Len(popped) % IndexMod
  /\ cons.pc \in {"read", "publish"} => Len(popped) < cons.acquired
  /\ cons.pc = "publish" => cons.out = pushed[Len(popped) + 1]

RingInv == RingTypeOK /\ IndexStores /\ SlotAccesses /\ ProducerView /\ ConsumerView /\ FifoOrder
=============================================================================
