--------------------------- MODULE SpscRingProofs ---------------------------
(***************************************************************************)
(* The ring never races, delivers in order and implements the bounded FIFO *)
(* queue, for every capacity, every index width that the capacity divides, *)
(* every set of items and any number of pushes.                            *)
(***************************************************************************)
EXTENDS SpscRing, DataLemmas, SequenceTheorems

-----------------------------------------------------------------------------
(* Index arithmetic in the ring's terms.                                   *)

\* The slot of a wrapped index is the slot of the operation's number.
LEMMA SlotOfIndex ==
  ASSUME NEW n \in Nat
  PROVE  SlotOf(n % IndexMod) = n % Capacity
<1>1. IndexMod \in Nat \ {0} /\ Capacity \in Nat \ {0} /\ IndexMod % Capacity = 0
  BY CapacityAssumption, IndexAssumption
<1>2. (n % IndexMod) % Capacity = n % Capacity
  BY <1>1, RemainderOfWrapped
<1> QED BY <1>2 DEF SlotOf

\* Two operations less than Capacity apart use different slots.
LEMMA SlotsDistinct ==
  ASSUME NEW m \in Nat, NEW n \in Nat, n < m, m - n < Capacity
  PROVE  m % Capacity # n % Capacity
BY CapacityAssumption, DistinctRemainders

\* The full test on wrapped indices compares the true numbers of operations.
LEMMA FullTest ==
  ASSUME NEW t \in Nat, NEW h \in Nat, h <= t, t - h <= Capacity
  PROVE  IsFull(t % IndexMod, h % IndexMod) <=> t - h = Capacity
<1>1. IndexMod \in Nat \ {0} /\ t - h < IndexMod
  BY CapacityAssumption, IndexAssumption
<1>2. ((t % IndexMod) - (h % IndexMod)) % IndexMod = t - h
  BY <1>1, WrappedDifference
<1> QED BY <1>2 DEF IsFull

\* So does the empty test.
LEMMA EmptyTest ==
  ASSUME NEW t \in Nat, NEW h \in Nat, h <= t, t - h <= Capacity
  PROVE  (h % IndexMod = t % IndexMod) <=> (h = t)
<1>1. IndexMod \in Nat \ {0} /\ t - h < IndexMod
  BY CapacityAssumption, IndexAssumption
<1>2. CASE h < t
  BY <1>1, <1>2, DistinctRemainders
<1>3. CASE h = t
  BY <1>3
<1> QED BY <1>2, <1>3

-----------------------------------------------------------------------------
(* What the invariant says of the slots about to be accessed.              *)

\* The two threads are never more than Capacity operations apart.
LEMMA Distances ==
  ASSUME RingInv
  PROVE  /\ Len(pushed) \in Nat /\ Len(popped) \in Nat
         /\ prod.acquired \in Nat /\ cons.acquired \in Nat
         /\ prod.acquired <= Len(popped) /\ Len(popped) <= cons.acquired
         /\ cons.acquired <= Len(pushed) /\ Len(pushed) - prod.acquired <= Capacity
         /\ Len(slotWrites) <= prod.acquired + Capacity
         /\ Len(slotReads) <= cons.acquired
<1>1. /\ Len(pushed) \in Nat /\ Len(popped) \in Nat
      /\ prod.acquired \in Nat /\ cons.acquired \in Nat
      /\ Len(slotWrites) \in Nat /\ Len(slotReads) \in Nat
  BY DEF RingInv, RingTypeOK, ProducerLocals, ConsumerLocals
<1>2. prod.acquired <= Len(popped) /\ cons.acquired <= Len(pushed)
  BY <1>1 DEF RingInv, IndexStores, ProducerView, ConsumerView
<1>3. Len(popped) <= cons.acquired /\ Len(pushed) - prod.acquired <= Capacity
  BY DEF RingInv, ProducerView, ConsumerView
<1>4. Len(slotWrites) <= prod.acquired + Capacity
  <2>1. CASE prod.pc = "publish"
    <3>1. Len(slotWrites) = Len(pushed) + 1 /\ Len(pushed) - prod.acquired < Capacity
      BY <2>1 DEF RingInv, SlotAccesses, ProducerView
    <3> QED BY <1>1, <3>1, CapacityAssumption
  <2>2. CASE prod.pc # "publish"
    <3>1. Len(slotWrites) = Len(pushed)
      BY <2>2 DEF RingInv, SlotAccesses
    <3> QED BY <1>1, <1>3, <3>1, CapacityAssumption
  <2> QED BY <2>1, <2>2
<1>5. Len(slotReads) <= cons.acquired
  <2>1. CASE cons.pc = "publish"
    <3>1. Len(slotReads) = Len(popped) + 1 /\ Len(popped) < cons.acquired
      BY <2>1 DEF RingInv, SlotAccesses, ConsumerView
    <3> QED BY <1>1, <3>1
  <2>2. CASE cons.pc # "publish"
    <3>1. Len(slotReads) = Len(popped)
      BY <2>2 DEF RingInv, SlotAccesses
    <3> QED BY <1>1, <1>3, <3>1
  <2> QED BY <2>1, <2>2
<1> QED BY <1>1, <1>2, <1>3, <1>4, <1>5

\* The consumer reads a slot only after every write to it is ordered before.
LEMMA ReadOrdered ==
  ASSUME RingInv, cons.pc = "read"
  PROVE  \A k \in WritesTo(SlotOf(cons.h)) : k <= Len(popped) + 1
<1> DEFINE h == Len(popped)
<1>1. SlotOf(cons.h) = h % Capacity
  BY SlotOfIndex DEF RingInv, ConsumerView, RingTypeOK
<1>2. ASSUME NEW k \in 1 .. Len(slotWrites), slotWrites[k].slot = h % Capacity
      PROVE  k <= h + 1
  <2>1. slotWrites[k].slot = (k - 1) % Capacity
    BY DEF RingInv, SlotAccesses
  <2>2. k - 1 \in Nat /\ h \in Nat /\ k - 1 - h < Capacity
    BY Distances, CapacityAssumption DEF RingInv, RingTypeOK
  <2>3. SUFFICES ASSUME k > h + 1 PROVE FALSE
    BY <2>2
  <2>4. h < k - 1
    BY <2>2, <2>3
  <2> QED BY <1>2, <2>1, <2>2, <2>4, SlotsDistinct
<1>3. DOMAIN slotWrites = 1 .. Len(slotWrites)
  BY DEF RingInv, RingTypeOK
<1> HIDE DEF h
<1>4. \A k \in WritesTo(SlotOf(cons.h)) : k <= h + 1
  BY <1>1, <1>2, <1>3 DEF WritesTo
<1> QED BY <1>4 DEF h

\* The producer writes a slot only after every read of it is ordered before.
LEMMA WriteOrdered ==
  ASSUME RingInv, prod.pc = "write"
  PROVE  \A k \in ReadsOf(SlotOf(prod.t)) : k <= prod.acquired
<1> DEFINE t == Len(pushed)
<1>1. SlotOf(prod.t) = t % Capacity
  BY SlotOfIndex DEF RingInv, ProducerView, RingTypeOK
<1>2. ASSUME NEW k \in 1 .. Len(slotReads), slotReads[k] = t % Capacity
      PROVE  k <= prod.acquired
  <2>1. slotReads[k] = (k - 1) % Capacity
    BY DEF RingInv, SlotAccesses
  <2>2. k - 1 \in Nat /\ t \in Nat /\ k <= t /\ t - prod.acquired < Capacity /\ prod.acquired \in Nat
    BY Distances DEF RingInv, RingTypeOK, ProducerLocals, ConsumerLocals, ProducerView
  <2>3. SUFFICES ASSUME k > prod.acquired PROVE FALSE
    BY <2>2
  <2>4. k - 1 < t /\ t - (k - 1) < Capacity
    BY <2>2, <2>3, CapacityAssumption
  <2> QED BY <1>2, <2>1, <2>2, <2>4, SlotsDistinct
<1>3. DOMAIN slotReads = 1 .. Len(slotReads)
  BY DEF RingInv, RingTypeOK
<1> HIDE DEF t
<1> QED BY <1>1, <1>2, <1>3 DEF ReadsOf

\* What the consumer's plain read returns: the item of the push it is popping, no other.
LEMMA ReadsPushedItem ==
  ASSUME RingInv, cons.pc = "read"
  PROVE  /\ SlotValues(SlotOf(cons.h)) = {pushed[Len(popped) + 1]}
         /\ Len(popped) + 1 \in 1 .. Len(pushed)
<1> DEFINE h == Len(popped)
           s == SlotOf(cons.h)
<1>1. s = h % Capacity
  BY SlotOfIndex DEF RingInv, ConsumerView, RingTypeOK
<1>2. h \in Nat /\ h + 1 <= cons.acquired /\ h + 1 \in 1 .. Len(pushed)
  BY Distances DEF RingInv, ConsumerView
<1>3. h + 1 \in WritesTo(s) /\ slotWrites[h + 1].item = pushed[h + 1]
  <2>1. Len(pushed) <= Len(slotWrites) /\ Len(slotWrites) \in Nat
    BY Distances DEF RingInv, SlotAccesses, RingTypeOK
  <2>2. h + 1 \in 1 .. Len(slotWrites) /\ h + 1 - 1 = h
    BY <1>2, <2>1, Distances
  <2>3. slotWrites[h + 1].slot = h % Capacity
    BY <2>2 DEF RingInv, SlotAccesses
  <2>4. slotWrites[h + 1].item = pushed[h + 1]
    BY <1>2 DEF RingInv, SlotAccesses
  <2>5. DOMAIN slotWrites = 1 .. Len(slotWrites)
    BY DEF RingInv, RingTypeOK
  <2> HIDE DEF h, s
  <2> QED BY <1>1, <2>2, <2>3, <2>4, <2>5 DEF WritesTo
<1>4. h + 1 \in OrderedWritesTo(s)
  BY <1>2, <1>3 DEF OrderedWritesTo
<1>5. \A k \in WritesTo(s) : k \in Nat /\ k <= h + 1
  <2>1. \A k \in WritesTo(s) : k <= h + 1
    BY ReadOrdered
  <2>2. DOMAIN slotWrites = 1 .. Len(slotWrites) /\ Len(slotWrites) \in Nat
    BY DEF RingInv, RingTypeOK
  <2>3. \A k \in WritesTo(s) : k \in Nat
    BY <2>2 DEF WritesTo
  <2> QED BY <2>1, <2>3
<1>6. {w \in WritesTo(s) : \A o \in OrderedWritesTo(s) : o <= w} = {h + 1}
  BY <1>2, <1>3, <1>4, <1>5 DEF OrderedWritesTo
<1> HIDE DEF s, h
<1>7. SlotValues(s) = {slotWrites[h + 1].item}
  BY <1>4, <1>6 DEF SlotValues
<1> QED BY <1>2, <1>3, <1>7 DEF s, h

-----------------------------------------------------------------------------
(* RingInv is inductive: one lemma per thread, one step per action.        *)

\* The invariant holds initially.
LEMMA InitInv == RingInit => RingInv
<1> SUFFICES ASSUME RingInit PROVE RingInv
  OBVIOUS
<1>1. 0 \in 0 .. IndexMod - 1 /\ 0 % IndexMod = 0
  BY CapacityAssumption, IndexAssumption, ModSmall
<1>2. RingTypeOK
  BY <1>1 DEF RingInit, RingTypeOK, Message, Index, Access, ProducerLocals, ConsumerLocals
<1>3. IndexStores
  BY <1>1 DEF RingInit, IndexStores
<1>4. SlotAccesses /\ ProducerView /\ ConsumerView /\ FifoOrder
  BY CapacityAssumption DEF RingInit, SlotAccesses, ProducerView, ConsumerView, FifoOrder
<1> QED BY <1>2, <1>3, <1>4 DEF RingInv

\* What every acquire load does to the thread that makes it: it moves on to message i
\* and is ordered after the i - 1 operations published by then.
LEMMA AcquireProducer ==
  ASSUME RingInv, NEW i \in Readable(head_, prod.seen)
  PROVE  /\ i \in Nat /\ i \in 1 .. Len(head_) /\ i >= prod.seen /\ i - 1 <= Len(popped)
         /\ i - 1 \in Nat /\ prod.seen \in Nat /\ prod.acquired = prod.seen - 1
         /\ head_[i].val = (i - 1) % IndexMod
         /\ Acquire(prod, head_, i) = [prod EXCEPT !.seen = i, !.acquired = i - 1]
<1>1. /\ prod.seen \in 1 .. Len(head_) /\ prod.acquired = prod.seen - 1
      /\ Len(head_) = Len(popped) + 1 /\ Len(popped) \in Nat
  BY DEF RingInv, RingTypeOK, ProducerView, IndexStores
<1>2. i \in 1 .. Len(head_) /\ i >= prod.seen /\ i - 1 <= Len(popped)
  BY <1>1 DEF Readable
<1>3. head_[i].val = (i - 1) % IndexMod /\ head_[i].view = i - 1
  BY <1>2 DEF RingInv, IndexStores
<1>4. prod \in ProducerLocals
  BY DEF RingInv, RingTypeOK
<1>5. (IF head_[i].view > prod.acquired THEN head_[i].view ELSE prod.acquired) = i - 1
  BY <1>1, <1>2, <1>3
<1>6. Acquire(prod, head_, i) = [prod EXCEPT !.seen = i, !.acquired = i - 1]
  BY <1>4, <1>5 DEF Acquire, ProducerLocals
<1>7. i \in Nat /\ i - 1 \in Nat /\ prod.seen \in Nat
  BY <1>1, <1>2
<1> QED BY <1>1, <1>2, <1>3, <1>6, <1>7

\* What an acquire load of tail_ tells the consumer.
LEMMA AcquireConsumer ==
  ASSUME RingInv, NEW i \in Readable(tail_, cons.seen)
  PROVE  /\ i \in Nat /\ i \in 1 .. Len(tail_) /\ i >= cons.seen /\ i - 1 <= Len(pushed)
         /\ i - 1 \in Nat /\ cons.seen \in Nat /\ cons.acquired = cons.seen - 1
         /\ tail_[i].val = (i - 1) % IndexMod
         /\ Acquire(cons, tail_, i) = [cons EXCEPT !.seen = i, !.acquired = i - 1]
<1>1. /\ cons.seen \in 1 .. Len(tail_) /\ cons.acquired = cons.seen - 1
      /\ Len(tail_) = Len(pushed) + 1 /\ Len(pushed) \in Nat
  BY DEF RingInv, RingTypeOK, ConsumerView, IndexStores
<1>2. i \in 1 .. Len(tail_) /\ i >= cons.seen /\ i - 1 <= Len(pushed)
  BY <1>1 DEF Readable
<1>3. tail_[i].val = (i - 1) % IndexMod /\ tail_[i].view = i - 1
  BY <1>2 DEF RingInv, IndexStores
<1>4. cons \in ConsumerLocals
  BY DEF RingInv, RingTypeOK
<1>5. (IF tail_[i].view > cons.acquired THEN tail_[i].view ELSE cons.acquired) = i - 1
  BY <1>1, <1>2, <1>3
<1>6. Acquire(cons, tail_, i) = [cons EXCEPT !.seen = i, !.acquired = i - 1]
  BY <1>4, <1>5 DEF Acquire, ConsumerLocals
<1>7. i \in Nat /\ i - 1 \in Nat /\ cons.seen \in Nat
  BY <1>1, <1>2
<1> QED BY <1>1, <1>2, <1>3, <1>6, <1>7

\* A thread's relaxed load of its own index returns its number of operations.
LEMMA OwnIndex ==
  ASSUME RingInv
  PROVE  /\ OwnValue(tail_) = Len(pushed) % IndexMod /\ OwnValue(tail_) \in Index
         /\ OwnValue(head_) = Len(popped) % IndexMod /\ OwnValue(head_) \in Index
<1>1. /\ Len(tail_) = Len(pushed) + 1 /\ Len(pushed) \in Nat
      /\ Len(head_) = Len(popped) + 1 /\ Len(popped) \in Nat
  BY DEF RingInv, RingTypeOK, IndexStores
<1>2. /\ Len(tail_) \in 1 .. Len(tail_) /\ Len(tail_) - 1 = Len(pushed)
      /\ Len(head_) \in 1 .. Len(head_) /\ Len(head_) - 1 = Len(popped)
  BY <1>1
<1>3. /\ tail_[Len(tail_)].val = Len(pushed) % IndexMod
      /\ head_[Len(head_)].val = Len(popped) % IndexMod
  BY <1>2 DEF RingInv, IndexStores
<1>4. tail_ \in Seq(Message) /\ head_ \in Seq(Message)
  BY DEF RingInv, RingTypeOK
<1>5. tail_[Len(tail_)] \in Message /\ head_[Len(head_)] \in Message
  BY <1>2, <1>4
<1> QED BY <1>3, <1>5 DEF OwnValue, Message

-----------------------------------------------------------------------------
(* RingInv is inductive: one lemma per thread, one step per action.        *)

\* The steps of the producer keep the invariant.
LEMMA ProducerInv ==
  ASSUME RingInv, Producer
  PROVE  RingInv'
<1>1. /\ RingTypeOK /\ IndexStores /\ SlotAccesses /\ ProducerView /\ ConsumerView /\ FifoOrder
      /\ prod \in ProducerLocals
  BY DEF RingInv, RingTypeOK
<1>2. ASSUME NEW item \in Items, PushCall(item) PROVE RingInv'
  <2>1. /\ prod.pc = "idle"
        /\ prod' = [prod EXCEPT !.pc = "check", !.t = OwnValue(tail_), !.item = item]
        /\ UNCHANGED <<tail_, head_, slotWrites, slotReads, cons, pushed, popped>>
    BY <1>2 DEF PushCall
  <2>2. /\ prod' \in ProducerLocals /\ prod'.pc = "check"
        /\ prod'.t = Len(pushed) % IndexMod /\ prod'.item \in Items
        /\ prod'.seen = prod.seen /\ prod'.acquired = prod.acquired
    BY <1>1, <2>1, OwnIndex DEF ProducerLocals
  <2>3. RingTypeOK' /\ IndexStores' /\ ConsumerView' /\ FifoOrder'
    BY <1>1, <2>1, <2>2 DEF RingTypeOK, IndexStores, ConsumerView, FifoOrder
  <2>4. SlotAccesses'
    BY <1>1, <2>1, <2>2 DEF SlotAccesses
  <2>5. ProducerView'
    BY <1>1, <2>1, <2>2 DEF ProducerView
  <2> QED BY <2>3, <2>4, <2>5 DEF RingInv
<1>3. ASSUME NEW i \in DOMAIN head_, PushFull(i) \/ ProducerSynchronises(i) PROVE RingInv'
  <2>1. /\ prod.pc \in {"check", "idle"} /\ i \in Readable(head_, prod.seen)
        /\ prod' = [Acquire(prod, head_, i) EXCEPT !.pc = "idle"]
        /\ UNCHANGED <<tail_, head_, slotWrites, slotReads, cons, pushed, popped>>
    BY <1>1, <1>3 DEF PushFull, ProducerSynchronises, Acquire, ProducerLocals
  <2>2. /\ i \in Nat /\ i \in 1 .. Len(head_) /\ prod.acquired \in Nat
        /\ i - 1 \in Nat /\ i - 1 >= prod.acquired
        /\ Acquire(prod, head_, i) = [prod EXCEPT !.seen = i, !.acquired = i - 1]
    <3>1. i \in Readable(head_, prod.seen)
      BY <2>1
    <3>2. /\ i \in Nat /\ i \in 1 .. Len(head_) /\ i >= prod.seen /\ i - 1 <= Len(popped)
          /\ i - 1 \in Nat /\ prod.seen \in Nat /\ prod.acquired = prod.seen - 1
          /\ head_[i].val = (i - 1) % IndexMod
          /\ Acquire(prod, head_, i) = [prod EXCEPT !.seen = i, !.acquired = i - 1]
      BY <3>1, AcquireProducer
    <3>3. prod.acquired \in Nat
      BY Distances
    <3> QED BY <3>2, <3>3
  <2>3. /\ prod' \in ProducerLocals /\ prod'.pc = "idle"
        /\ prod'.seen = i /\ prod'.acquired = i - 1
    BY <1>1, <2>1, <2>2 DEF ProducerLocals
  <2>4. RingTypeOK' /\ IndexStores' /\ ConsumerView' /\ FifoOrder'
    BY <1>1, <2>1, <2>3 DEF RingTypeOK, IndexStores, ConsumerView, FifoOrder
  <2>5. SlotAccesses'
    BY <1>1, <2>1, <2>3 DEF SlotAccesses
  <2>6. Len(pushed) - (i - 1) <= Capacity
    BY <2>2, Distances, CapacityAssumption
  <2>7. ProducerView'
    BY <1>1, <2>1, <2>2, <2>3, <2>6 DEF ProducerView
  <2> QED BY <2>4, <2>5, <2>7 DEF RingInv
<1>4. ASSUME NEW i \in DOMAIN head_, PushRoom(i) PROVE RingInv'
  <2>1. /\ prod.pc = "check" /\ i \in Readable(head_, prod.seen)
        /\ ~IsFull(prod.t, head_[i].val)
        /\ prod' = [Acquire(prod, head_, i) EXCEPT !.pc = "write"]
        /\ UNCHANGED <<tail_, head_, slotWrites, slotReads, cons, pushed, popped>>
    BY <1>4 DEF PushRoom
  <2>2. /\ i \in Nat /\ i \in 1 .. Len(head_) /\ prod.acquired \in Nat
        /\ i - 1 \in Nat /\ i - 1 >= prod.acquired
        /\ i - 1 <= Len(popped) /\ head_[i].val = (i - 1) % IndexMod
        /\ Acquire(prod, head_, i) = [prod EXCEPT !.seen = i, !.acquired = i - 1]
    <3>1. i \in Readable(head_, prod.seen)
      BY <2>1
    <3>2. /\ i \in Nat /\ i \in 1 .. Len(head_) /\ i >= prod.seen /\ i - 1 <= Len(popped)
          /\ i - 1 \in Nat /\ prod.seen \in Nat /\ prod.acquired = prod.seen - 1
          /\ head_[i].val = (i - 1) % IndexMod
          /\ Acquire(prod, head_, i) = [prod EXCEPT !.seen = i, !.acquired = i - 1]
      BY <3>1, AcquireProducer
    <3>3. prod.acquired \in Nat
      BY Distances
    <3> QED BY <3>2, <3>3
  <2>3. /\ prod' \in ProducerLocals /\ prod'.pc = "write" /\ prod'.t = prod.t
        /\ prod'.item = prod.item /\ prod'.seen = i /\ prod'.acquired = i - 1
    BY <1>1, <2>1, <2>2 DEF ProducerLocals
  <2>4. prod.t = Len(pushed) % IndexMod /\ prod.item \in Items
    BY <1>1, <2>1 DEF ProducerView
  <2>5. /\ Len(pushed) \in Nat /\ i - 1 \in Nat /\ i - 1 <= Len(pushed)
        /\ Len(pushed) - (i - 1) <= Capacity
    <3>1. i - 1 \in Nat /\ i - 1 <= Len(popped) /\ i - 1 >= prod.acquired
      BY <2>2
    <3> QED BY <3>1, Distances, CapacityAssumption
  <2>6. Len(pushed) - (i - 1) # Capacity
    BY <2>1, <2>2, <2>4, <2>5, FullTest
  <2>7. Len(pushed) - (i - 1) < Capacity
    BY <2>5, <2>6, CapacityAssumption
  <2>8. RingTypeOK' /\ IndexStores' /\ ConsumerView' /\ FifoOrder'
    BY <1>1, <2>1, <2>3 DEF RingTypeOK, IndexStores, ConsumerView, FifoOrder
  <2>9. SlotAccesses'
    BY <1>1, <2>1, <2>3 DEF SlotAccesses
  <2>10. ProducerView'
    BY <2>1, <2>2, <2>3, <2>4, <2>5, <2>7 DEF ProducerView
  <2> QED BY <2>8, <2>9, <2>10 DEF RingInv
<1>5. CASE PushWrite
  <2> DEFINE n == Len(pushed)
             w == [slot |-> n % Capacity, item |-> prod.item]
  <2>1. /\ prod.pc = "write"
        /\ slotWrites' = Append(slotWrites, [slot |-> SlotOf(prod.t), item |-> prod.item])
        /\ prod' = [prod EXCEPT !.pc = "publish"]
        /\ UNCHANGED <<tail_, head_, slotReads, cons, pushed, popped>>
    BY <1>5 DEF PushWrite
  <2>2. /\ n \in Nat /\ Len(slotWrites) = n /\ prod.item \in Items
        /\ prod.t = n % IndexMod /\ n - prod.acquired < Capacity
    BY <1>1, <2>1 DEF SlotAccesses, ProducerView, RingTypeOK
  <2>3. n % Capacity \in 0 .. Capacity - 1
    <3>1. n \in Nat
      BY <2>2
    <3> QED BY <3>1, CapacityAssumption, ModRange
  <2>4. slotWrites' = Append(slotWrites, w)
    BY <2>1, <2>2, SlotOfIndex
  <2>5. w \in Access /\ w.slot = n % Capacity /\ w.item = prod.item
    BY <2>2, <2>3 DEF Access
  <2> HIDE DEF w
  <2>6. slotWrites \in Seq(Access)
    BY <1>1 DEF RingTypeOK
  <2>7. /\ slotWrites' \in Seq(Access)
        /\ Len(slotWrites') = n + 1 /\ slotWrites'[n + 1] = w
        /\ \A k \in 1 .. n : slotWrites'[k] = slotWrites[k]
    BY <2>2, <2>4, <2>5, <2>6
  <2>8. /\ prod' \in ProducerLocals /\ prod'.pc = "publish" /\ prod'.t = prod.t
        /\ prod'.item = prod.item /\ prod'.seen = prod.seen /\ prod'.acquired = prod.acquired
    BY <1>1, <2>1 DEF ProducerLocals
  <2>9. RingTypeOK' /\ IndexStores' /\ ConsumerView' /\ FifoOrder'
    BY <1>1, <2>1, <2>7, <2>8 DEF RingTypeOK, IndexStores, ConsumerView, FifoOrder
  <2>10. \A k \in 1 .. n + 1 : slotWrites'[k].slot = (k - 1) % Capacity
    BY <1>1, <2>2, <2>5, <2>7 DEF SlotAccesses
  <2>11. \A k \in 1 .. n : slotWrites'[k].item = pushed[k]
    BY <1>1, <2>7 DEF SlotAccesses
  <2>12. SlotAccesses'
    BY <1>1, <2>1, <2>7, <2>8, <2>10, <2>11 DEF SlotAccesses
  <2>13. ProducerView'
    BY <1>1, <2>1, <2>2, <2>5, <2>7, <2>8 DEF ProducerView
  <2> QED BY <2>9, <2>12, <2>13 DEF RingInv
<1>6. CASE PushPublish
  <2> DEFINE n == Len(pushed)
             m == [val |-> (n + 1) % IndexMod, view |-> n + 1]
  <2>1. /\ prod.pc = "publish"
        /\ tail_' = Append(tail_, [val |-> (prod.t + 1) % IndexMod, view |-> Len(slotWrites)])
        /\ pushed' = Append(pushed, prod.item) /\ prod' = [prod EXCEPT !.pc = "idle"]
        /\ UNCHANGED <<head_, slotWrites, slotReads, cons, popped>>
    BY <1>6 DEF PushPublish, Release
  <2>2. /\ n \in Nat /\ Len(slotWrites) = n + 1 /\ prod.item \in Items
        /\ prod.t = n % IndexMod /\ slotWrites[n + 1].item = prod.item
        /\ Len(tail_) = n + 1 /\ n - prod.acquired < Capacity /\ prod.acquired \in Nat
    BY <1>1, <2>1 DEF SlotAccesses, ProducerView, IndexStores, RingTypeOK, ProducerLocals
  <2>3. IndexMod \in Nat \ {0}
    BY CapacityAssumption, IndexAssumption
  <2>4. (n + 1) % IndexMod \in Index
    <3>1. n + 1 \in Nat
      BY <2>2
    <3> QED BY <3>1, <2>3, ModRange DEF Index
  <2>5. (prod.t + 1) % IndexMod = (n + 1) % IndexMod
    BY <2>2, <2>3, WrappedSuccessor
  <2>6. tail_' = Append(tail_, m)
    BY <2>1, <2>2, <2>5
  <2>7. m \in Message
    BY <2>2, <2>4 DEF Message
  <2> HIDE DEF m
  <2>8. tail_ \in Seq(Message) /\ pushed \in Seq(Items)
    BY <1>1 DEF RingTypeOK
  <2>9. /\ tail_' \in Seq(Message) /\ Len(tail_') = n + 2 /\ tail_'[n + 2] = m
        /\ \A k \in 1 .. n + 1 : tail_'[k] = tail_[k]
    BY <2>2, <2>6, <2>7, <2>8
  <2>10. /\ pushed' \in Seq(Items) /\ Len(pushed') = n + 1 /\ pushed'[n + 1] = prod.item
         /\ \A k \in 1 .. n : pushed'[k] = pushed[k]
    BY <2>1, <2>2, <2>8
  <2>11. /\ prod' \in ProducerLocals /\ prod'.pc = "idle"
         /\ prod'.seen = prod.seen /\ prod'.acquired = prod.acquired
    BY <1>1, <2>1 DEF ProducerLocals
  <2>12. RingTypeOK'
    BY <1>1, <2>1, <2>9, <2>10, <2>11 DEF RingTypeOK
  <2>13. IndexStores'
    <3>1. \A k \in 1 .. n + 1 : tail_'[k] = [val |-> (k - 1) % IndexMod, view |-> k - 1]
      BY <1>1, <2>2, <2>9 DEF IndexStores
    <3>2. tail_'[n + 2] = [val |-> (n + 2 - 1) % IndexMod, view |-> n + 2 - 1]
      BY <2>2, <2>9 DEF m
    <3>3. \A k \in 1 .. n + 2 : tail_'[k] = [val |-> (k - 1) % IndexMod, view |-> k - 1]
      BY <2>2, <3>1, <3>2
    <3> QED BY <1>1, <2>1, <2>2, <2>9, <2>10, <3>3 DEF IndexStores
  <2>14. SlotAccesses'
    <3>1. \A k \in 1 .. n + 1 : slotWrites[k].item = pushed'[k]
      BY <1>1, <2>2, <2>10 DEF SlotAccesses
    <3> QED BY <1>1, <2>1, <2>2, <2>10, <2>11, <3>1 DEF SlotAccesses
  <2>15. ProducerView'
    BY <1>1, <2>1, <2>2, <2>10, <2>11, CapacityAssumption DEF ProducerView
  <2>16. ConsumerView'
    <3>1. cons.seen \in 1 .. Len(tail_')
      BY <1>1, <2>2, <2>9 DEF ConsumerView
    <3>2. cons.pc = "publish" => Len(popped) + 1 \in 1 .. n
      BY <1>1, Distances DEF ConsumerView
    <3> QED BY <1>1, <2>1, <2>10, <3>1, <3>2 DEF ConsumerView
  <2>17. FifoOrder'
    BY <1>1, <2>1, <2>2, <2>10, Distances DEF FifoOrder
  <2> QED BY <2>12, <2>13, <2>14, <2>15, <2>16, <2>17 DEF RingInv
<1> QED BY <1>2, <1>3, <1>4, <1>5, <1>6 DEF Producer

\* The steps of the consumer keep the invariant.
LEMMA ConsumerInv ==
  ASSUME RingInv, Consumer
  PROVE  RingInv'
<1>1. /\ RingTypeOK /\ IndexStores /\ SlotAccesses /\ ProducerView /\ ConsumerView /\ FifoOrder
      /\ cons \in ConsumerLocals
  BY DEF RingInv, RingTypeOK
<1>2. CASE PopCall
  <2>1. /\ cons.pc = "idle"
        /\ cons' = [cons EXCEPT !.pc = "check", !.h = OwnValue(head_)]
        /\ UNCHANGED <<tail_, head_, slotWrites, slotReads, prod, pushed, popped>>
    BY <1>2 DEF PopCall
  <2>2. /\ cons' \in ConsumerLocals /\ cons'.pc = "check"
        /\ cons'.h = Len(popped) % IndexMod
        /\ cons'.seen = cons.seen /\ cons'.acquired = cons.acquired
    BY <1>1, <2>1, OwnIndex DEF ConsumerLocals
  <2>3. RingTypeOK' /\ IndexStores' /\ ProducerView' /\ FifoOrder'
    BY <1>1, <2>1, <2>2 DEF RingTypeOK, IndexStores, ProducerView, FifoOrder
  <2>4. SlotAccesses'
    BY <1>1, <2>1, <2>2 DEF SlotAccesses
  <2>5. ConsumerView'
    BY <1>1, <2>1, <2>2 DEF ConsumerView
  <2> QED BY <2>3, <2>4, <2>5 DEF RingInv
<1>3. ASSUME NEW i \in DOMAIN tail_, PopEmpty(i) \/ ConsumerSynchronises(i) PROVE RingInv'
  <2>1. /\ cons.pc \in {"check", "idle"} /\ i \in Readable(tail_, cons.seen)
        /\ cons' = [Acquire(cons, tail_, i) EXCEPT !.pc = "idle"]
        /\ UNCHANGED <<tail_, head_, slotWrites, slotReads, prod, pushed, popped>>
    BY <1>1, <1>3 DEF PopEmpty, ConsumerSynchronises, Acquire, ConsumerLocals
  <2>2. /\ i \in Nat /\ i \in 1 .. Len(tail_) /\ i - 1 \in Nat /\ i - 1 <= Len(pushed)
        /\ cons.acquired \in Nat /\ i - 1 >= cons.acquired
        /\ tail_[i].val = (i - 1) % IndexMod
        /\ Acquire(cons, tail_, i) = [cons EXCEPT !.seen = i, !.acquired = i - 1]
    <3>1. i \in Readable(tail_, cons.seen)
      BY <2>1
    <3>2. /\ i \in Nat /\ i \in 1 .. Len(tail_) /\ i >= cons.seen /\ i - 1 <= Len(pushed)
          /\ i - 1 \in Nat /\ cons.seen \in Nat /\ cons.acquired = cons.seen - 1
          /\ tail_[i].val = (i - 1) % IndexMod
          /\ Acquire(cons, tail_, i) = [cons EXCEPT !.seen = i, !.acquired = i - 1]
      BY <3>1, AcquireConsumer
    <3>3. cons.acquired \in Nat
      BY Distances
    <3> QED BY <3>2, <3>3
  <2>3. /\ cons' \in ConsumerLocals /\ cons'.pc = "idle"
        /\ cons'.seen = i /\ cons'.acquired = i - 1
    BY <1>1, <2>1, <2>2 DEF ConsumerLocals
  <2>4. RingTypeOK' /\ IndexStores' /\ ProducerView' /\ FifoOrder'
    BY <1>1, <2>1, <2>3 DEF RingTypeOK, IndexStores, ProducerView, FifoOrder
  <2>5. SlotAccesses'
    BY <1>1, <2>1, <2>3 DEF SlotAccesses
  <2>6. Len(popped) <= i - 1
    BY <2>2, Distances
  <2>7. ConsumerView'
    BY <1>1, <2>1, <2>2, <2>3, <2>6 DEF ConsumerView
  <2> QED BY <2>4, <2>5, <2>7 DEF RingInv
<1>4. ASSUME NEW i \in DOMAIN tail_, PopAvailable(i) PROVE RingInv'
  <2>1. /\ cons.pc = "check" /\ i \in Readable(tail_, cons.seen) /\ cons.h # tail_[i].val
        /\ cons' = [Acquire(cons, tail_, i) EXCEPT !.pc = "read"]
        /\ UNCHANGED <<tail_, head_, slotWrites, slotReads, prod, pushed, popped>>
    BY <1>4 DEF PopAvailable
  <2>2. /\ i \in Nat /\ i \in 1 .. Len(tail_) /\ i - 1 \in Nat /\ i - 1 <= Len(pushed)
        /\ cons.acquired \in Nat /\ i - 1 >= cons.acquired
        /\ tail_[i].val = (i - 1) % IndexMod
        /\ Acquire(cons, tail_, i) = [cons EXCEPT !.seen = i, !.acquired = i - 1]
    <3>1. i \in Readable(tail_, cons.seen)
      BY <2>1
    <3>2. /\ i \in Nat /\ i \in 1 .. Len(tail_) /\ i >= cons.seen /\ i - 1 <= Len(pushed)
          /\ i - 1 \in Nat /\ cons.seen \in Nat /\ cons.acquired = cons.seen - 1
          /\ tail_[i].val = (i - 1) % IndexMod
          /\ Acquire(cons, tail_, i) = [cons EXCEPT !.seen = i, !.acquired = i - 1]
      BY <3>1, AcquireConsumer
    <3>3. cons.acquired \in Nat
      BY Distances
    <3> QED BY <3>2, <3>3
  <2>3. /\ cons' \in ConsumerLocals /\ cons'.pc = "read" /\ cons'.h = cons.h
        /\ cons'.seen = i /\ cons'.acquired = i - 1
    BY <1>1, <2>1, <2>2 DEF ConsumerLocals
  <2>4. cons.h = Len(popped) % IndexMod
    BY <1>1, <2>1 DEF ConsumerView
  <2>5. /\ Len(popped) \in Nat /\ Len(popped) <= i - 1 
        /\ Len(popped) # i - 1
    <3>1. Len(popped) \in Nat /\ Len(popped) <= i - 1
      BY <2>2, Distances
    <3> QED BY <2>1, <2>2, <2>4, <3>1
  <2>6. Len(popped) < i - 1
    BY <2>2, <2>5
  <2>7. RingTypeOK' /\ IndexStores' /\ ProducerView' /\ FifoOrder'
    BY <1>1, <2>1, <2>3 DEF RingTypeOK, IndexStores, ProducerView, FifoOrder
  <2>8. SlotAccesses'
    BY <1>1, <2>1, <2>3 DEF SlotAccesses
  <2>9. ConsumerView'
    BY <2>1, <2>2, <2>3, <2>4, <2>5, <2>6 DEF ConsumerView
  <2> QED BY <2>7, <2>8, <2>9 DEF RingInv
<1>5. CASE PopRead
  <2> DEFINE n == Len(popped)
             s == n % Capacity
  <2>1. /\ cons.pc = "read"
        /\ slotReads' = Append(slotReads, SlotOf(cons.h))
        /\ UNCHANGED <<tail_, head_, slotWrites, prod, pushed, popped>>
    BY <1>5 DEF PopRead
  <2>2. /\ n \in Nat /\ Len(slotReads) = n /\ n < cons.acquired /\ cons.h = n % IndexMod
        /\ SlotOf(cons.h) = s
    <3>1. /\ n \in Nat /\ Len(slotReads) = n /\ n < cons.acquired /\ cons.h = n % IndexMod
      BY <1>1, <2>1 DEF SlotAccesses, ConsumerView, RingTypeOK
    <3> QED BY <3>1, SlotOfIndex
  <2>3. s \in 0 .. Capacity - 1
    <3>1. n \in Nat
      BY <2>2
    <3> QED BY <3>1, CapacityAssumption, ModRange
  <2> HIDE DEF s
  <2>4. n + 1 \in 1 .. Len(pushed) /\ pushed[n + 1] \in Items
    <3>1. n + 1 \in 1 .. Len(pushed)
      BY <2>1, ReadsPushedItem
    <3>2. pushed \in Seq(Items)
      BY <1>1 DEF RingTypeOK
    <3> QED BY <3>1, <3>2
  <2>5. cons' = [cons EXCEPT !.pc = "publish", !.out = pushed[n + 1]]
    <3>1. PICK value \in SlotValues(SlotOf(cons.h)) :
             cons' = [cons EXCEPT !.pc = "publish", !.out = value]
      BY <1>5 DEF PopRead
    <3>2. SlotValues(SlotOf(cons.h)) = {pushed[n + 1]}
      BY <2>1, ReadsPushedItem
    <3> QED BY <3>1, <3>2
  <2>6. /\ cons' \in ConsumerLocals /\ cons'.pc = "publish" /\ cons'.h = cons.h
        /\ cons'.out = pushed[n + 1]
        /\ cons'.seen = cons.seen /\ cons'.acquired = cons.acquired
    BY <1>1, <2>4, <2>5 DEF ConsumerLocals
  <2>7. slotReads \in Seq(0 .. Capacity - 1)
    BY <1>1 DEF RingTypeOK
  <2>8. /\ slotReads' \in Seq(0 .. Capacity - 1)
        /\ Len(slotReads') = n + 1 /\ slotReads'[n + 1] = s
        /\ \A k \in 1 .. n : slotReads'[k] = slotReads[k]
    BY <2>1, <2>2, <2>3, <2>7
  <2>9. RingTypeOK' /\ IndexStores' /\ ProducerView' /\ FifoOrder'
    BY <1>1, <2>1, <2>6, <2>8 DEF RingTypeOK, IndexStores, ProducerView, FifoOrder
  <2>10. \A k \in 1 .. n + 1 : slotReads'[k] = (k - 1) % Capacity
    BY <1>1, <2>2, <2>8 DEF SlotAccesses, s
  <2>11. SlotAccesses'
    BY <1>1, <2>1, <2>6, <2>8, <2>10 DEF SlotAccesses
  <2>12. ConsumerView'
    BY <1>1, <2>1, <2>2, <2>6 DEF ConsumerView
  <2> QED BY <2>9, <2>11, <2>12 DEF RingInv
<1>6. CASE PopPublish
  <2> DEFINE n == Len(popped)
             m == [val |-> (n + 1) % IndexMod, view |-> n + 1]
  <2>1. /\ cons.pc = "publish"
        /\ head_' = Append(head_, [val |-> (cons.h + 1) % IndexMod, view |-> Len(slotReads)])
        /\ popped' = Append(popped, cons.out) /\ cons' = [cons EXCEPT !.pc = "idle"]
        /\ UNCHANGED <<tail_, slotWrites, slotReads, prod, pushed>>
    BY <1>6 DEF PopPublish, Release
  <2>2. /\ n \in Nat /\ Len(slotReads) = n + 1 /\ cons.out = pushed[n + 1]
        /\ cons.h = n % IndexMod /\ Len(head_) = n + 1
        /\ n < cons.acquired /\ cons.acquired \in Nat
    BY <1>1, <2>1 DEF SlotAccesses, ConsumerView, IndexStores, RingTypeOK, ConsumerLocals
  <2>3. n + 1 \in 1 .. Len(pushed) /\ Len(pushed) \in Nat /\ n + 1 <= cons.acquired
    BY <2>2, Distances
  <2>4. pushed \in Seq(Items) /\ popped \in Seq(Items) /\ head_ \in Seq(Message)
    BY <1>1 DEF RingTypeOK
  <2>5. cons.out \in Items
    BY <2>2, <2>3, <2>4
  <2>6. IndexMod \in Nat \ {0}
    BY CapacityAssumption, IndexAssumption
  <2>7. (n + 1) % IndexMod \in Index
    <3>1. n + 1 \in Nat
      BY <2>2
    <3> QED BY <3>1, <2>6, ModRange DEF Index
  <2>8. (cons.h + 1) % IndexMod = (n + 1) % IndexMod
    BY <2>2, <2>6, WrappedSuccessor
  <2>9. head_' = Append(head_, m)
    BY <2>1, <2>2, <2>8
  <2>10. m \in Message
    BY <2>2, <2>7 DEF Message
  <2> HIDE DEF m
  <2>11. /\ head_' \in Seq(Message) /\ Len(head_') = n + 2 /\ head_'[n + 2] = m
         /\ \A k \in 1 .. n + 1 : head_'[k] = head_[k]
    BY <2>2, <2>4, <2>9, <2>10
  <2>12. /\ popped' \in Seq(Items) /\ Len(popped') = n + 1 /\ popped'[n + 1] = cons.out
         /\ \A k \in 1 .. n : popped'[k] = popped[k]
    BY <2>1, <2>2, <2>4, <2>5
  <2>13. /\ cons' \in ConsumerLocals /\ cons'.pc = "idle"
         /\ cons'.seen = cons.seen /\ cons'.acquired = cons.acquired
    BY <1>1, <2>1 DEF ConsumerLocals
  <2>14. RingTypeOK'
    BY <1>1, <2>1, <2>11, <2>12, <2>13 DEF RingTypeOK
  <2>15. IndexStores'
    <3>1. \A k \in 1 .. n + 1 : head_'[k] = [val |-> (k - 1) % IndexMod, view |-> k - 1]
      BY <1>1, <2>2, <2>11 DEF IndexStores
    <3>2. head_'[n + 2] = [val |-> (n + 2 - 1) % IndexMod, view |-> n + 2 - 1]
      BY <2>2, <2>11 DEF m
    <3>3. \A k \in 1 .. n + 2 : head_'[k] = [val |-> (k - 1) % IndexMod, view |-> k - 1]
      BY <2>2, <3>1, <3>2
    <3> QED BY <1>1, <2>1, <2>2, <2>11, <2>12, <3>3 DEF IndexStores
  <2>16. SlotAccesses'
    BY <1>1, <2>1, <2>2, <2>12, <2>13 DEF SlotAccesses
  <2>17. ConsumerView'
    BY <1>1, <2>1, <2>2, <2>3, <2>12, <2>13 DEF ConsumerView
  <2>18. ProducerView'
    <3>1. prod.seen \in 1 .. Len(head_')
      BY <1>1, <2>2, <2>11 DEF ProducerView
    <3> QED BY <1>1, <2>1, <3>1 DEF ProducerView
  <2>19. FifoOrder'
    BY <1>1, <2>1, <2>2, <2>3, <2>12 DEF FifoOrder
  <2> QED BY <2>14, <2>15, <2>16, <2>17, <2>18, <2>19 DEF RingInv
<1> QED BY <1>2, <1>3, <1>4, <1>5, <1>6 DEF Consumer

\* Every step of the ring, and every step that leaves it alone, preserves the invariant.
LEMMA RingStepInv ==
  ASSUME RingInv, [RingNext]_ringVars
  PROVE  RingInv'
<1>1. CASE RingNext
  BY <1>1, ProducerInv, ConsumerInv DEF RingNext
<1>2. CASE UNCHANGED ringVars
  BY <1>2 DEF ringVars, RingInv, RingTypeOK, IndexStores, SlotAccesses, ProducerView,
              ConsumerView, FifoOrder
<1> QED BY <1>1, <1>2

\* The inductive invariant holds throughout every behaviour of the ring.
THEOREM RingInvariant == RingSpec => []RingInv
BY InitInv, RingStepInv, PTL DEF RingSpec

-----------------------------------------------------------------------------
(* What the invariant is for.                                              *)

\* Every variable of the ring keeps its type.
THEOREM RingTypes == RingSpec => []RingTypeOK
<1>1. RingInv => RingTypeOK
  BY DEF RingInv
<1> QED BY RingInvariant, <1>1, PTL

\* try_push and try_pop never race on a slot: every access is ordered after all the
\* conflicting accesses made so far, whatever stale indices the threads load.
THEOREM RingRaceFree == RingSpec => []NoDataRace
<1>1. RingInv => NoDataRace
  <2> SUFFICES ASSUME RingInv PROVE NoDataRace
    OBVIOUS
  <2>1. ASSUME cons.pc = "read", NEW k \in WritesTo(SlotOf(cons.h))
        PROVE  k <= cons.acquired
    <3>1. k <= Len(popped) + 1
      BY <2>1, ReadOrdered
    <3>2. Len(popped) + 1 <= cons.acquired /\ Len(popped) \in Nat /\ cons.acquired \in Nat
      BY <2>1, Distances DEF RingInv, ConsumerView
    <3>3. k \in Nat
      BY DEF RingInv, RingTypeOK, WritesTo
    <3> QED BY <3>1, <3>2, <3>3
  <2> QED BY <2>1, WriteOrdered DEF NoDataRace
<1> QED BY RingInvariant, <1>1, PTL

\* What try_pop delivered is a prefix of what try_push accepted.
THEOREM RingFifoOrder == RingSpec => []FifoOrder
<1>1. RingInv => FifoOrder
  BY DEF RingInv
<1> QED BY RingInvariant, <1>1, PTL

\* No slot is overwritten before its item was delivered: at most Capacity items are
\* written and not yet released by a pop.
THEOREM RingWithinCapacity == RingSpec => []WithinCapacity
<1>1. RingInv => WithinCapacity
  <2> SUFFICES ASSUME RingInv PROVE WithinCapacity
    OBVIOUS
  <2>1. Len(slotWrites) \in Nat
    BY DEF RingInv, RingTypeOK
  <2> QED BY <2>1, Distances, CapacityAssumption DEF WithinCapacity
<1> QED BY RingInvariant, <1>1, PTL

\* A call returns false only when its thread cannot know better: try_push when Capacity
\* items are in the ring as far as the producer has seen, try_pop when every push the
\* consumer has seen was delivered.
THEOREM RingHonestFailures == RingSpec => HonestFailures
<1> DEFINE Honest ==
      /\ (prod.pc = "check" /\ prod'.pc = "idle") =>
             Len(pushed) - (prod'.seen - 1) = Capacity
      /\ (cons.pc = "check" /\ cons'.pc = "idle") =>
             cons'.seen - 1 = Len(popped)
<1>1. RingInv /\ [RingNext]_ringVars => [Honest]_ringVars
  <2> SUFFICES ASSUME RingInv, RingNext PROVE Honest
    OBVIOUS
  <2>1. prod \in ProducerLocals /\ cons \in ConsumerLocals
    BY DEF RingInv, RingTypeOK
  <2>2. ASSUME NEW i \in DOMAIN head_, PushFull(i) PROVE Honest
    <3>1. /\ prod.pc = "check" /\ i \in Readable(head_, prod.seen)
          /\ IsFull(prod.t, head_[i].val) /\ cons' = cons
          /\ prod' = [Acquire(prod, head_, i) EXCEPT !.pc = "idle"]
      BY <2>2 DEF PushFull
    <3>2. /\ i - 1 \in Nat /\ i - 1 <= Len(popped) /\ i >= prod.seen
          /\ prod.seen \in Nat /\ i \in Nat /\ prod.acquired = prod.seen - 1
          /\ head_[i].val = (i - 1) % IndexMod
          /\ Acquire(prod, head_, i) = [prod EXCEPT !.seen = i, !.acquired = i - 1]
      BY <3>1, AcquireProducer
    <3>3. prod'.seen = i /\ prod.t = Len(pushed) % IndexMod
      BY <2>1, <3>1, <3>2 DEF RingInv, ProducerView, ProducerLocals
    <3>4. Len(pushed) \in Nat /\ i - 1 <= Len(pushed) /\ Len(pushed) - (i - 1) <= Capacity
      <4>1. i - 1 \in Nat /\ i - 1 <= Len(popped) /\ prod.acquired <= i - 1
        BY <3>2
      <4> QED BY <4>1, Distances, CapacityAssumption
    <3>5. Len(pushed) - (i - 1) = Capacity
      BY <3>1, <3>2, <3>3, <3>4, FullTest
    <3> QED BY <3>1, <3>3, <3>5
  <2>3. ASSUME NEW i \in DOMAIN tail_, PopEmpty(i) PROVE Honest
    <3>1. /\ cons.pc = "check" /\ i \in Readable(tail_, cons.seen)
          /\ cons.h = tail_[i].val /\ prod' = prod
          /\ cons' = [Acquire(cons, tail_, i) EXCEPT !.pc = "idle"]
      BY <2>3 DEF PopEmpty
    <3>2. /\ i - 1 \in Nat /\ i - 1 <= Len(pushed) /\ i >= cons.seen
          /\ cons.seen \in Nat /\ i \in Nat /\ cons.acquired = cons.seen - 1
          /\ tail_[i].val = (i - 1) % IndexMod
          /\ Acquire(cons, tail_, i) = [cons EXCEPT !.seen = i, !.acquired = i - 1]
      BY <3>1, AcquireConsumer
    <3>3. cons'.seen = i /\ cons.h = Len(popped) % IndexMod
      BY <2>1, <3>1, <3>2 DEF RingInv, ConsumerView, ConsumerLocals
    <3>4. Len(popped) \in Nat /\ Len(popped) <= i - 1 /\ (i - 1) - Len(popped) <= Capacity
      BY <3>2, Distances, CapacityAssumption
    <3>5. Len(popped) = i - 1
      BY <3>1, <3>2, <3>3, <3>4, EmptyTest
    <3> QED BY <3>1, <3>3, <3>5
  <2>4. CASE Producer /\ ~(\E i \in DOMAIN head_ : PushFull(i))
    <3>1. cons' = cons /\ (prod.pc = "check" => prod'.pc # "idle")
      BY <2>1, <2>4 DEF Producer, PushCall, PushRoom, PushWrite, PushPublish,
                        ProducerSynchronises, Acquire, ProducerLocals
    <3> QED BY <3>1
  <2>5. CASE Consumer /\ ~(\E i \in DOMAIN tail_ : PopEmpty(i))
    <3>1. prod' = prod /\ (cons.pc = "check" => cons'.pc # "idle")
      BY <2>1, <2>5 DEF Consumer, PopCall, PopAvailable, PopRead, PopPublish,
                        ConsumerSynchronises, Acquire, ConsumerLocals
    <3> QED BY <3>1
  <2> QED BY <2>2, <2>3, <2>4, <2>5 DEF RingNext
<1>2. RingSpec => [][Honest]_ringVars
  BY RingInvariant, <1>1, PTL DEF RingSpec
<1> QED BY <1>2 DEF HonestFailures

-----------------------------------------------------------------------------
(* The refinement: a push happens at the release store of tail_, a pop at  *)
(* the release store of head_, and every other step of either thread is    *)
(* invisible to the other.                                                 *)

Queue == SubSeq(pushed, Len(popped) + 1, Len(pushed))
Received == IF popped = <<>> THEN NoItem ELSE popped[Len(popped)]

\* Appending to a sequence appends to each of its suffixes.
LEMMA SuffixOfAppend ==
  ASSUME NEW S, NEW s \in Seq(S), NEW x \in S, NEW m \in 1 .. Len(s) + 1
  PROVE  SubSeq(Append(s, x), m, Len(s) + 1) = Append(SubSeq(s, m, Len(s)), x)
<1> DEFINE n == Len(s)
           l == SubSeq(Append(s, x), m, n + 1)
           q == SubSeq(s, m, n)
<1>1. /\ n \in Nat /\ m \in Int /\ n + 1 \in Int /\ n \in Int
      /\ \A i \in m .. n + 1 : Append(s, x)[i] \in S
      /\ \A i \in m .. n : s[i] \in S
  OBVIOUS
<1>2. /\ l \in Seq(S) /\ Len(l) = n + 1 - m + 1
      /\ \A i \in 1 .. n + 1 - m + 1 : l[i] = Append(s, x)[m + i - 1]
  BY <1>1, SubSeqProperties
<1>3. /\ q \in Seq(S) /\ Len(q) = n - m + 1
      /\ \A i \in 1 .. n - m + 1 : q[i] = s[m + i - 1]
  BY <1>1, SubSeqProperties
<1> HIDE DEF l, q
<1>4. /\ Append(q, x) \in Seq(S) /\ Len(Append(q, x)) = Len(q) + 1
      /\ \A i \in 1 .. Len(q) : Append(q, x)[i] = q[i]
      /\ Append(q, x)[Len(q) + 1] = x
  BY <1>3
<1>5. ASSUME NEW i \in 1 .. Len(l) PROVE l[i] = Append(q, x)[i]
  <2>1. /\ Append(s, x)[n + 1] = x
        /\ \A k \in 1 .. n : Append(s, x)[k] = s[k]
    OBVIOUS
  <2>2. i \in 1 .. n + 1 - m + 1 /\ m \in 1 .. n + 1 /\ n \in Nat
    BY <1>1, <1>2
  <2> HIDE DEF n
  <2>3. CASE i = n + 1 - m + 1
    <3>1. m + i - 1 = n + 1 /\ i = Len(q) + 1
      BY <1>3, <2>2, <2>3
    <3> QED BY <1>2, <1>4, <2>1, <2>2, <3>1
  <2>4. CASE i < n + 1 - m + 1
    <3>1. m + i - 1 \in 1 .. n /\ i \in 1 .. n - m + 1 /\ i \in 1 .. Len(q)
      BY <1>3, <2>2, <2>4
    <3>2. l[i] = s[m + i - 1] /\ q[i] = s[m + i - 1]
      BY <1>2, <1>3, <2>1, <2>2, <3>1
    <3> QED BY <1>4, <3>1, <3>2
  <2>5. i = n + 1 - m + 1 \/ i < n + 1 - m + 1
    BY <2>2
  <2> QED BY <2>3, <2>4, <2>5
<1>6. Len(l) = Len(Append(q, x))
  BY <1>1, <1>2, <1>3, <1>4
<1>7. l = Append(q, x)
  BY <1>2, <1>4, <1>5, <1>6, SeqEqual
<1> QED BY <1>7 DEF l, q

\* A successful try_push is a push of the queue, which has room.
LEMMA PublishIsPush ==
  ASSUME RingInv, PushPublish
  PROVE  Fifo!Push(prod.item)
<1>1. /\ prod.pc = "publish" /\ pushed' = Append(pushed, prod.item) /\ popped' = popped
  BY DEF PushPublish
<1>2. /\ pushed \in Seq(Items) /\ prod.item \in Items
      /\ Len(pushed) - prod.acquired < Capacity
  BY <1>1 DEF RingInv, RingTypeOK, ProducerView
<1>3. /\ Len(pushed) \in Nat /\ Len(popped) \in Nat /\ Len(popped) <= Len(pushed)
      /\ prod.acquired <= Len(popped) /\ prod.acquired \in Nat
  BY Distances
<1>4. Len(pushed') = Len(pushed) + 1
  BY <1>1, <1>2
<1>5. Queue' = Append(Queue, prod.item)
  <2>1. Queue' = SubSeq(Append(pushed, prod.item), Len(popped) + 1, Len(pushed) + 1)
    BY <1>1, <1>4 DEF Queue
  <2>2. Len(popped) + 1 \in 1 .. Len(pushed) + 1
    BY <1>3
  <2> QED BY <1>2, <2>1, <2>2, SuffixOfAppend DEF Queue
<1>6. Len(Queue) = Len(pushed) - Len(popped)
  <2>1. \A i \in Len(popped) + 1 .. Len(pushed) : pushed[i] \in Items
    BY <1>2, <1>3
  <2>2. Len(Queue) = IF Len(popped) + 1 <= Len(pushed)
                     THEN Len(pushed) - (Len(popped) + 1) + 1 ELSE 0
    BY <1>3, <2>1, SubSeqProperties DEF Queue
  <2> QED BY <1>3, <2>2
<1>7. Len(Queue) < Capacity
  BY <1>2, <1>3, <1>6, CapacityAssumption
<1>8. Received' = Received
  BY <1>1 DEF Received
<1> QED BY <1>5, <1>7, <1>8 DEF Fifo!Push, Queue, Received

\* A successful try_pop is a pop of the queue: it delivers the oldest item.
LEMMA PublishIsPop ==
  ASSUME RingInv, PopPublish
  PROVE  Fifo!Pop
<1> DEFINE n == Len(popped)
<1>1. /\ cons.pc = "publish" /\ popped' = Append(popped, cons.out) /\ pushed' = pushed
  BY DEF PopPublish
<1>2. /\ pushed \in Seq(Items) /\ popped \in Seq(Items) /\ cons.out = pushed[n + 1]
      /\ n < cons.acquired
  BY <1>1 DEF RingInv, RingTypeOK, ConsumerView
<1>3. n \in Nat /\ n + 1 \in 1 .. Len(pushed) /\ Len(pushed) \in Nat
  BY <1>2, Distances
<1>4. /\ Len(popped') = n + 1 /\ popped'[n + 1] = cons.out
  BY <1>1, <1>2
<1>5. Head(Queue) = pushed[n + 1] /\ Tail(Queue) = SubSeq(pushed, n + 1 + 1, Len(pushed))
  <2>1. Len(pushed) \in n + 1 .. Len(pushed)
    BY <1>3
  <2> QED BY <1>2, <1>3, <2>1, HeadTailOfSubSeq DEF Queue
<1>6. Queue' = Tail(Queue)
  BY <1>1, <1>4, <1>5 DEF Queue
<1>7. Received' = Head(Queue)
  <2>1. popped' # <<>>
    BY <1>3, <1>4
  <2> QED BY <1>2, <1>4, <1>5, <2>1 DEF Received
<1>8. Queue # <<>>
  <2>1. \A i \in n + 1 .. Len(pushed) : pushed[i] \in Items
    BY <1>2, <1>3
  <2>2. Len(Queue) = IF n + 1 <= Len(pushed) THEN Len(pushed) - (n + 1) + 1 ELSE 0
    BY <1>3, <2>1, SubSeqProperties DEF Queue
  <2> QED BY <1>3, <2>2
<1> QED BY <1>6, <1>7, <1>8 DEF Fifo!Pop, Queue, Received

\* The ring implements the queue.
THEOREM RingImplementsFifo == RingSpec => ImplementsFifo
<1>1. RingInit => Fifo!Init
  <2> SUFFICES ASSUME RingInit PROVE Fifo!Init
    OBVIOUS
  <2>1. pushed = <<>> /\ popped = <<>>
    BY DEF RingInit
  <2>2. SubSeq(pushed, Len(popped) + 1, Len(pushed)) = <<>>
    BY <2>1, SubSeqEmpty
  <2> QED BY <2>1, <2>2 DEF Fifo!Init
<1>2. RingInv /\ [RingNext]_ringVars => [Fifo!Next]_Fifo!fifoVars
  <2> SUFFICES ASSUME RingInv, [RingNext]_ringVars
               PROVE  [Fifo!Next]_Fifo!fifoVars
    OBVIOUS
  <2>1. CASE PushPublish
    <3>1. prod.item \in Items
      BY <2>1 DEF PushPublish, RingInv, ProducerView
    <3> QED BY <2>1, <3>1, PublishIsPush DEF Fifo!Next
  <2>2. CASE PopPublish
    BY <2>2, PublishIsPop DEF Fifo!Next
  <2>3. CASE UNCHANGED <<pushed, popped>>
    BY <2>3 DEF Fifo!fifoVars
  <2>4. PushPublish \/ PopPublish \/ UNCHANGED <<pushed, popped>>
    BY DEF RingNext, Producer, Consumer, PushCall, PushFull, PushRoom, PushWrite,
           ProducerSynchronises, PopCall, PopEmpty, PopAvailable, PopRead,
           ConsumerSynchronises, ringVars
  <2> QED BY <2>1, <2>2, <2>3, <2>4
<1> QED BY <1>1, <1>2, RingInvariant, PTL DEF RingSpec, ImplementsFifo, Fifo!Spec
=============================================================================
