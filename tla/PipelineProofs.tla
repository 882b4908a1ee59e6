--------------------------- MODULE PipelineProofs ---------------------------
(***************************************************************************)
(* The two threads of the pipeline use the ring as it allows, leave        *)
(* nothing in it, and emit the orders of the sequential pipeline, for any  *)
(* feeds, any number of calls, any window and any ring; and the harness    *)
(* reports them as the reference does.                                     *)
(***************************************************************************)
EXTENDS Harness, SpscRingProofs, RoundingProofs, SequenceTheorems, FiniteSetTheorems

-----------------------------------------------------------------------------
(* What the steps of the ring do to the variables the pipeline looks at.   *)

\* The steps of try_push.
LEMMA PushSteps ==
  ASSUME RingInv
  PROVE  /\ \A item : PushCall(item) =>
              /\ prod.pc = "idle" /\ prod'.pc = "check" /\ prod'.item = item
              /\ UNCHANGED <<tail_, cons, pushed, popped>>
         /\ \A i : PushFull(i) \/ PushRoom(i) =>
              /\ prod.pc = "check" /\ prod'.item = prod.item
              /\ UNCHANGED <<tail_, cons, pushed, popped>>
         /\ PushWrite =>
              /\ prod.pc = "write" /\ prod'.item = prod.item
              /\ UNCHANGED <<tail_, cons, pushed, popped>>
         /\ PushPublish =>
              /\ prod.pc = "publish" /\ prod'.pc = "idle" /\ pushed' = Append(pushed, prod.item)
              /\ UNCHANGED <<cons, popped>>
         /\ \A i : ProducerSynchronises(i) =>
              /\ prod.pc = "idle" /\ prod'.pc = "idle"
              /\ UNCHANGED <<tail_, cons, pushed, popped>>
<1>1. prod \in ProducerLocals
  BY DEF RingInv, RingTypeOK
<1> QED BY <1>1 DEF PushCall, PushFull, PushRoom, PushWrite, PushPublish,
                    ProducerSynchronises, Acquire, ProducerLocals

\* The steps of try_pop.
LEMMA PopSteps ==
  ASSUME RingInv
  PROVE  /\ PopCall =>
              /\ cons.pc = "idle" /\ cons'.seen = cons.seen
              /\ UNCHANGED <<tail_, prod, pushed, popped>>
         /\ \A i : PopEmpty(i) =>
              /\ cons.pc = "check" /\ cons'.pc = "idle" /\ i \in Readable(tail_, cons.seen)
              /\ cons.h = tail_[i].val
              /\ UNCHANGED <<tail_, prod, pushed, popped>>
         /\ \A i : PopAvailable(i) =>
              /\ cons.pc = "check" /\ cons'.seen = i /\ i \in Readable(tail_, cons.seen)
              /\ UNCHANGED <<tail_, prod, pushed, popped>>
         /\ PopRead =>
              /\ cons.pc = "read" /\ cons'.seen = cons.seen
              /\ UNCHANGED <<tail_, prod, pushed, popped>>
         /\ PopPublish =>
              /\ cons.pc = "publish" /\ cons'.pc = "idle" /\ popped' = Append(popped, cons.out)
              /\ UNCHANGED <<tail_, prod, pushed>>
         /\ \A i : ConsumerSynchronises(i) =>
              /\ cons.pc = "idle" /\ cons'.pc = "idle" /\ cons'.seen = i
              /\ UNCHANGED <<tail_, prod, pushed, popped>>
<1>1. cons \in ConsumerLocals
  BY DEF RingInv, RingTypeOK
<1> QED BY <1>1 DEF PopCall, PopEmpty, PopAvailable, PopRead, PopPublish,
                    ConsumerSynchronises, Acquire, ConsumerLocals

-----------------------------------------------------------------------------
(* The ring is used as it allows.                                          *)

\* The tick the producer decodes is one the ring may be given.
LEMMA DecodedItem ==
  ASSUME in \in Feeds \cup {<<>>}, NEW i \in Nat, i < Len(in)
  PROVE  Decode(in, i) \in Items
<1>1. in \in Feeds
  <2>1. CASE in = <<>>
    BY <2>1
  <2> QED BY <2>1
<1>2. in \in Seq(WireTick) /\ i + 1 \in DOMAIN in
  BY <1>1, FeedsAssumption
<1>3. Decode(in, i) = Decode(in, (i + 1) - 1)
  OBVIOUS
<1> QED BY <1>1, <1>2, <1>3, RingOfTicks DEF Decoded

\* Every step of the pipeline is a step of the ring or leaves it alone.
LEMMA StepsOfRing ==
  ASSUME PipelineInv, [Next]_vars
  PROVE  [RingNext]_ringVars
<1>1. /\ TypeOK /\ RingInv /\ tail_ \in Seq(Message) /\ head_ \in Seq(Message)
      /\ prod.seen \in 1 .. Len(head_) /\ cons.seen \in 1 .. Len(tail_)
  BY DEF PipelineInv, RingInv, RingTypeOK, ProducerView, ConsumerView
<1>2. CASE TryPush
  <2>1. next \in Nat /\ next < Len(in) /\ in \in Feeds \cup {<<>>} /\ PushCall(Decode(in, next))
    BY <1>1, <1>2 DEF TryPush, TypeOK
  <2>2. Decode(in, next) \in Items
    BY <2>1, DecodedItem
  <2> QED BY <2>1, <2>2 DEF RingNext, Producer
<1>3. CASE WriteSlot \/ PublishTick \/ \E i \in DOMAIN head_ : TestRoom(i)
  BY <1>3 DEF WriteSlot, PublishTick, TestRoom, RingNext, Producer
<1>4. CASE TryPop \/ ReadSlot \/ Trade
           \/ \E i \in DOMAIN tail_ : TickAvailable(i) \/ NoTickAvailable(i)
  BY <1>4 DEF TryPop, ReadSlot, Trade, TickAvailable, NoTickAvailable, RingNext, Consumer
<1>5. CASE \E k \in DOMAIN producer_done : LoadDone(k)
  <2>1. PICK k \in DOMAIN producer_done : LoadDone(k)
    BY <1>5
  <2>2. CASE producer_done[k].val
    <3>1. ConsumerSynchronises(producer_done[k].tail)
      BY <2>1, <2>2 DEF LoadDone
    <3>2. producer_done[k].tail \in DOMAIN tail_
      BY <1>1, <3>1 DEF ConsumerSynchronises, Readable
    <3> QED BY <3>1, <3>2 DEF RingNext, Consumer
  <2>3. CASE ~producer_done[k].val
    BY <2>1, <2>3 DEF LoadDone
  <2> QED BY <2>2, <2>3
<1>6. CASE Join
  <2>1. ConsumerSynchronises(Len(tail_)) /\ Len(tail_) \in DOMAIN tail_
    BY <1>1, <1>6 DEF Join
  <2> QED BY <2>1 DEF RingNext, Consumer
<1>7. CASE \E feed \in Feeds : Run(feed)
  <2>1. ProducerSynchronises(Len(head_)) /\ Len(head_) \in DOMAIN head_
    BY <1>1, <1>7 DEF Run
  <2> QED BY <2>1 DEF RingNext, Producer
<1>8. CASE Finish \/ Terminated \/ UNCHANGED vars
  BY <1>8 DEF Finish, Terminated, vars
<1> QED BY <1>2, <1>3, <1>4, <1>5, <1>6, <1>7, <1>8 DEF Next, ProducerNext, ConsumerNext

\* The ring's invariant survives every step of the pipeline.
LEMMA KeepsRingInv ==
  ASSUME PipelineInv, [Next]_vars
  PROVE  RingInv'
BY StepsOfRing, RingStepInv DEF PipelineInv

-----------------------------------------------------------------------------
(* The parts of the invariant, one lemma each.                             *)

\* Every step keeps what is known of where the two threads are.
LEMMA KeepsThreads ==
  ASSUME PipelineInv, Next
  PROVE  Threads'
<1>1. RingInv /\ TypeOK /\ Threads /\ TicksInFlight /\ DoneSeen
  BY DEF PipelineInv
<1>2. next \in Nat /\ Len(in) \in Nat /\ next <= Len(in)
  BY <1>1, FeedsAssumption DEF TypeOK
<1>3. CASE TryPush
  BY <1>1, <1>3, PushSteps DEF TryPush, Threads, producerVars, consumerVars, Decode
<1>4. CASE WriteSlot
  BY <1>1, <1>4, PushSteps DEF WriteSlot, Threads, producerVars, consumerVars, Decode
<1>5. CASE PublishTick
  <2>1. prod.pc = "publish" /\ prod'.pc = "idle" /\ next' = next + 1
        /\ UNCHANGED <<producer, producer_done, consumerVars, cons>>
    BY <1>1, <1>5, PushSteps DEF PublishTick
  <2> QED BY <1>1, <1>2, <2>1 DEF Threads, consumerVars
<1>6. CASE Finish
  BY <1>1, <1>6 DEF Finish, Threads, ringVars, consumerVars
<1>7. ASSUME NEW i \in DOMAIN head_, TestRoom(i) PROVE Threads'
  BY <1>1, <1>7, PushSteps DEF TestRoom, Threads, producerVars, consumerVars, Decode
<1>8. CASE TryPop
  BY <1>1, <1>8, PopSteps DEF TryPop, Threads, producerVars, consumerVars, Decode
<1>9. CASE ReadSlot
  BY <1>1, <1>9, PopSteps DEF ReadSlot, Threads, producerVars, consumerVars, Decode
<1>10. CASE Trade
  BY <1>1, <1>10, PopSteps DEF Trade, Threads, producerVars, Decode
<1>11. CASE Join
  BY <1>1, <1>11, PopSteps DEF Join, Threads, Decode
<1>12. ASSUME NEW i \in DOMAIN tail_, TickAvailable(i) PROVE Threads'
  BY <1>1, <1>12, PopSteps DEF TickAvailable, Threads, producerVars, consumerVars, Decode
<1>13. ASSUME NEW i \in DOMAIN tail_, NoTickAvailable(i) PROVE Threads'
  BY <1>1, <1>13, PopSteps DEF NoTickAvailable, Threads, producerVars, Decode
<1>14. ASSUME NEW k \in DOMAIN producer_done, LoadDone(k) PROVE Threads'
  BY <1>1, <1>14, PopSteps DEF LoadDone, Threads, producerVars, ringVars, Decode
<1>15. ASSUME NEW feed \in Feeds, Run(feed) PROVE Threads'
  BY <1>1, <1>15, PushSteps DEF Run, Threads, Decode
<1>16. CASE Terminated
  BY <1>1, <1>16 DEF Terminated, vars, Threads, ringVars, producerVars, consumerVars, Decode
<1> QED BY <1>3, <1>4, <1>5, <1>6, <1>7, <1>8, <1>9, <1>10, <1>11, <1>12, <1>13, <1>14,
           <1>15, <1>16 DEF Next, ProducerNext, ConsumerNext

\* What appending to a sequence of one element gives.
LEMMA SecondElement ==
  ASSUME NEW S, NEW s \in Seq(S), NEW x \in S, Len(s) = 1
  PROVE  Len(Append(s, x)) = 2 /\ Append(s, x)[1] = s[1] /\ Append(s, x)[2] = x
<1>1. Len(Append(s, x)) = Len(s) + 1 /\ Append(s, x)[Len(s) + 1] = x
  BY AppendProperties
<1>2. Append(s, x)[1] = s[1]
  OBVIOUS
<1>3. Len(s) + 1 = 2
  OBVIOUS
<1> QED BY <1>1, <1>2, <1>3

\* Every step keeps what is known of the messages of the flag.
LEMMA KeepsFlagStores ==
  ASSUME PipelineInv, Next
  PROVE  FlagStores'
<1>1. RingInv /\ TypeOK /\ Threads /\ FlagStores
  BY DEF PipelineInv
<1>2. runs \in Nat /\ producer_done \in Seq([val : BOOLEAN, tail : Nat]) /\ doneSeen \in Nat
      /\ tail_ \in Seq(Message)
  BY <1>1, RunsAssumption DEF TypeOK, RingTypeOK
<1>3. CASE TryPush \/ WriteSlot \/ \E i \in DOMAIN head_ : TestRoom(i)
  BY <1>1, <1>3, PushSteps DEF TryPush, WriteSlot, TestRoom, FlagStores, producerVars, consumerVars
<1>4. CASE PublishTick
  <2>1. producer = "loop"
    BY <1>1, <1>4, PushSteps DEF PublishTick, Threads
  <2> QED BY <1>1, <1>4, <2>1 DEF PublishTick, FlagStores, consumerVars
<1>5. CASE Finish
  <2>1. producer = "loop" /\ Len(producer_done) = 1 /\ runs # 0
    BY <1>1, <1>5 DEF Finish, Threads, FlagStores
  <2>2. /\ producer_done' = Append(producer_done, [val |-> TRUE, tail |-> Len(tail_)])
        /\ UNCHANGED <<tail_, runs, consumer, doneSeen>> /\ producer' = "exited"
    BY <1>5 DEF Finish, ringVars, consumerVars
  <2>3. /\ Len(producer_done') = 2 /\ producer_done'[1] = producer_done[1]
        /\ producer_done'[2] = [val |-> TRUE, tail |-> Len(tail_)]
    <3> DEFINE Messages == [val : BOOLEAN, tail : Nat]
               last == [val |-> TRUE, tail |-> Len(tail_)]
    <3>1. /\ producer_done \in Seq(Messages) /\ last \in Messages
          /\ producer_done' = Append(producer_done, last)
      BY <1>2, <2>2
    <3> HIDE DEF Messages, last
    <3>2. /\ Len(Append(producer_done, last)) = 2
          /\ Append(producer_done, last)[1] = producer_done[1]
          /\ Append(producer_done, last)[2] = last
      BY <2>1, <3>1, SecondElement
    <3> QED BY <3>1, <3>2 DEF last
  <2> QED BY <1>1, <2>1, <2>2, <2>3 DEF FlagStores
<1>6. CASE TryPop \/ ReadSlot \/ \E i \in DOMAIN tail_ : TickAvailable(i)
  BY <1>1, <1>6, PopSteps DEF TryPop, ReadSlot, TickAvailable, FlagStores, producerVars, consumerVars
<1>7. CASE Trade \/ \E i \in DOMAIN tail_ : NoTickAvailable(i)
  <2>1. consumer # "idle" /\ UNCHANGED <<tail_, producerVars, doneSeen, runs>>
    BY <1>1, <1>7, PopSteps DEF Trade, NoTickAvailable, Threads
  <2> QED BY <1>1, <2>1 DEF FlagStores, producerVars
<1>8. CASE Join
  BY <1>1, <1>8, PopSteps DEF Join, FlagStores, Threads
<1>9. ASSUME NEW k \in DOMAIN producer_done, LoadDone(k) PROVE FlagStores'
  <2>1. consumer = "flag" /\ doneSeen' = k /\ UNCHANGED <<producerVars, runs>>
    BY <1>9 DEF LoadDone
  <2>2. UNCHANGED tail_
    BY <1>1, <1>9, PopSteps DEF LoadDone, ringVars
  <2>3. k > 0
    BY <1>2
  <2> QED BY <1>1, <2>1, <2>2, <2>3 DEF FlagStores, producerVars
<1>10. ASSUME NEW feed \in Feeds, Run(feed) PROVE FlagStores'
  <2>1. /\ producer_done' = <<[val |-> FALSE, tail |-> Len(tail_)]>> /\ producer' = "loop"
        /\ runs' = runs + 1 /\ doneSeen' = 1
    BY <1>10 DEF Run
  <2>2. Len(producer_done') = 1 /\ producer_done'[1].val = FALSE /\ runs' # 0
    BY <1>2, <2>1
  <2> QED BY <2>1, <2>2 DEF FlagStores
<1>11. CASE Terminated
  BY <1>1, <1>11 DEF Terminated, vars, FlagStores, ringVars, producerVars, consumerVars
<1> QED BY <1>3, <1>4, <1>5, <1>6, <1>7, <1>8, <1>9, <1>10, <1>11
        DEF Next, ProducerNext, ConsumerNext

\* The input is a sequence of wire ticks.
LEMMA InputTicks ==
  ASSUME TypeOK
  PROVE  in \in Seq(WireTick)
<1>1. CASE in = <<>>
  BY <1>1
<1>2. CASE in \in Feeds
  BY <1>2, FeedsAssumption
<1> QED BY <1>1, <1>2 DEF TypeOK

\* The tick the consumer is about to trade is the next one of the call's input.
LEMMA TradedTick ==
  ASSUME PipelineInv, cons.pc = "publish"
  PROVE  /\ traded \in Nat /\ traded < next /\ traded < Len(in)
         /\ in \in Seq(WireTick) /\ in[traded + 1] \in WireTick
         /\ cons.out = Decode(in, traded)
<1>1. RingInv /\ TypeOK /\ Threads /\ TicksInFlight /\ DoneSeen
  BY DEF PipelineInv
<1>2. /\ Len(pushed) \in Nat /\ Len(popped) \in Nat /\ Len(popped) < Len(pushed)
      /\ cons.out = pushed[Len(popped) + 1]
  BY <1>1, Distances DEF RingInv, ConsumerView
<1>3. in \in Seq(WireTick)
  BY <1>1, InputTicks
<1>4. next \in Nat /\ traded \in Nat /\ next <= Len(in) /\ Len(in) \in Nat
  BY <1>1, <1>3 DEF TypeOK
<1>5. traded + 1 \in 1 .. next /\ Len(pushed) - next + (traded + 1) = Len(popped) + 1
  BY <1>1, <1>2, <1>4 DEF TicksInFlight
<1>6. pushed[Len(pushed) - next + (traded + 1)] = Decode(in, (traded + 1) - 1)
  BY <1>1, <1>5 DEF TicksInFlight
<1>7. cons.out = Decode(in, traded)
  BY <1>2, <1>4, <1>5, <1>6
<1> QED BY <1>3, <1>4, <1>5, <1>7

\* Every step keeps the ring filled with the ticks pushed and not yet traded.
LEMMA KeepsTicksInFlight ==
  ASSUME PipelineInv, Next
  PROVE  TicksInFlight'
<1>1. RingInv /\ TypeOK /\ Threads /\ TicksInFlight /\ DoneSeen
  BY DEF PipelineInv
<1>2. /\ pushed \in Seq(Items) /\ popped \in Seq(Items) /\ Len(pushed) \in Nat /\ Len(popped) \in Nat
      /\ next \in Nat /\ traded \in Nat /\ next <= Len(in) /\ traded <= Len(in) /\ Len(in) \in Nat
  BY <1>1, InputTicks DEF TypeOK, RingTypeOK
<1>3. CASE UNCHANGED <<pushed, popped, consumer, next, traded, in>>
  BY <1>1, <1>3 DEF TicksInFlight, Decode
<1>4. CASE PublishTick
  <2>1. /\ prod.pc = "publish" /\ pushed' = Append(pushed, prod.item) /\ next' = next + 1
        /\ UNCHANGED <<popped, consumer, traded, in>>
    BY <1>1, <1>4, PushSteps DEF PublishTick, consumerVars
  <2>2. /\ consumer # "idle" /\ prod.item = Decode(in, next) /\ prod.item \in Items
    BY <1>1, <2>1 DEF Threads, RingInv, ProducerView
  <2>3. /\ Len(pushed') = Len(pushed) + 1 /\ pushed'[Len(pushed) + 1] = Decode(in, next)
        /\ \A k \in 1 .. Len(pushed) : pushed'[k] = pushed[k]
    BY <1>2, <2>1, <2>2
  <2>4. ASSUME NEW j \in 1 .. next + 1
        PROVE  pushed'[Len(pushed') - next' + j] = Decode(in, j - 1)
    <3>1. Len(pushed') - next' + j = Len(pushed) - next + j
      BY <1>2, <2>1, <2>3
    <3>2. CASE j = next + 1
      <4>1. Len(pushed) - next + j = Len(pushed) + 1 /\ j - 1 = next
        BY <1>2, <3>2
      <4> QED BY <2>3, <3>1, <4>1
    <3>3. CASE j \in 1 .. next
      <4>1. Len(pushed) - next + j \in 1 .. Len(pushed)
        BY <1>1, <1>2, <3>3 DEF TicksInFlight
      <4> QED BY <1>1, <2>3, <3>1, <3>3, <4>1 DEF TicksInFlight
    <3> QED BY <1>2, <3>2, <3>3
  <2>5. Len(pushed) - Len(popped) = next - traded /\ next <= Len(pushed)
    BY <1>1 DEF TicksInFlight
  <2>6. Len(pushed') - Len(popped') = next' - traded' /\ next' <= Len(pushed')
    <3>1. popped' = popped /\ traded' = traded /\ next' = next + 1 /\ Len(pushed') = Len(pushed) + 1
      BY <2>1, <2>3
    <3> QED BY <1>2, <2>5, <3>1
  <2> QED BY <2>1, <2>2, <2>4, <2>6 DEF TicksInFlight, Decode
<1>5. CASE Trade
  <2>1. /\ popped' = Append(popped, cons.out) /\ traded' = traded + 1 /\ consumer' = "pop"
        /\ UNCHANGED <<pushed, next, in>>
    BY <1>1, <1>5, PopSteps DEF Trade, producerVars
  <2>2. Len(popped') = Len(popped) + 1
    BY <1>2, <2>1
  <2> QED BY <1>1, <1>2, <2>1, <2>2 DEF TicksInFlight, Decode
<1>6. ASSUME NEW i \in DOMAIN tail_, NoTickAvailable(i) PROVE TicksInFlight'
  <2>1. consumer' # "idle" /\ UNCHANGED <<pushed, popped, next, traded, in>>
    BY <1>1, <1>6, PopSteps DEF NoTickAvailable, producerVars
  <2> QED BY <1>1, <2>1 DEF TicksInFlight, Decode
<1>7. ASSUME NEW k \in DOMAIN producer_done, LoadDone(k) PROVE TicksInFlight'
  <2>1. consumer' # "idle" /\ UNCHANGED <<next, traded, in>>
    BY <1>7 DEF LoadDone, producerVars
  <2>2. UNCHANGED <<pushed, popped>>
    BY <1>1, <1>7, PopSteps DEF LoadDone, ringVars
  <2> QED BY <1>1, <2>1, <2>2 DEF TicksInFlight, Decode
<1>8. CASE Join
  <2>1. UNCHANGED <<pushed, popped, next, traded, in>> /\ consumer = "join"
    BY <1>1, <1>8, PopSteps DEF Join
  <2>2. producer = "exited" /\ Len(popped) = Len(pushed) /\ next = Len(in)
    BY <1>1, <2>1 DEF DoneSeen, Threads
  <2>3. traded = Len(in)
    BY <1>1, <1>2, <2>2 DEF TicksInFlight
  <2> QED BY <1>1, <2>1, <2>2, <2>3 DEF TicksInFlight, Decode
<1>9. ASSUME NEW feed \in Feeds, Run(feed) PROVE TicksInFlight'
  <2>1. /\ consumer = "idle" /\ consumer' = "pop" /\ next' = 0 /\ traded' = 0
        /\ UNCHANGED <<pushed, popped>>
    BY <1>1, <1>9, PushSteps DEF Run
  <2>2. Len(pushed) = Len(popped)
    BY <1>1, <1>2, <2>1 DEF TicksInFlight
  <2> QED BY <1>2, <2>1, <2>2 DEF TicksInFlight
<1>10. CASE TryPush \/ WriteSlot \/ \E i \in DOMAIN head_ : TestRoom(i)
  BY <1>1, <1>3, <1>10, PushSteps DEF TryPush, WriteSlot, TestRoom, producerVars, consumerVars
<1>11. CASE TryPop \/ ReadSlot \/ \E i \in DOMAIN tail_ : TickAvailable(i)
  BY <1>1, <1>3, <1>11, PopSteps DEF TryPop, ReadSlot, TickAvailable, producerVars, consumerVars
<1>12. CASE Finish \/ Terminated
  BY <1>3, <1>12 DEF Finish, Terminated, vars, ringVars, producerVars, consumerVars
<1> QED BY <1>4, <1>5, <1>6, <1>7, <1>8, <1>9, <1>10, <1>11, <1>12
        DEF Next, ProducerNext, ConsumerNext

\* Every step keeps what the consumer knows once it saw the flag set.
LEMMA KeepsDoneSeen ==
  ASSUME PipelineInv, Next
  PROVE  DoneSeen'
<1>1. RingInv /\ TypeOK /\ Threads /\ FlagStores /\ TicksInFlight /\ DoneSeen
  BY DEF PipelineInv
<1>2. /\ Len(tail_) = Len(pushed) + 1 /\ Len(pushed) \in Nat /\ Len(popped) \in Nat
      /\ cons.seen \in 1 .. Len(tail_)
  BY <1>1 DEF RingInv, RingTypeOK, IndexStores, ConsumerView
<1>3. CASE UNCHANGED <<tail_, pushed, popped, consumer, producer>> /\ cons'.seen = cons.seen
  BY <1>1, <1>3 DEF DoneSeen
<1>4. CASE TryPush \/ WriteSlot \/ \E i \in DOMAIN head_ : TestRoom(i)
  BY <1>1, <1>3, <1>4, PushSteps DEF TryPush, WriteSlot, TestRoom, producerVars, consumerVars
<1>5. CASE PublishTick
  <2>1. producer = "loop" /\ UNCHANGED <<consumer, producer>>
    BY <1>1, <1>5, PushSteps DEF PublishTick, Threads, consumerVars
  <2> QED BY <1>1, <2>1 DEF DoneSeen
<1>6. CASE Finish
  BY <1>1, <1>6 DEF Finish, DoneSeen, ringVars, consumerVars
<1>7. CASE TryPop \/ ReadSlot
  BY <1>1, <1>3, <1>7, PopSteps DEF TryPop, ReadSlot, producerVars, consumerVars
<1>8. ASSUME NEW i \in DOMAIN tail_, TickAvailable(i) PROVE DoneSeen'
  <2>1. /\ cons'.seen = i /\ i \in Readable(tail_, cons.seen)
        /\ UNCHANGED <<tail_, pushed, popped, consumer, producer>>
    BY <1>1, <1>8, PopSteps DEF TickAvailable, producerVars, consumerVars
  <2>2. consumer = "drain" => i = Len(tail_)
    BY <1>1, <1>2, <2>1 DEF DoneSeen, Readable
  <2> QED BY <1>1, <2>1, <2>2 DEF DoneSeen
<1>9. ASSUME NEW i \in DOMAIN tail_, NoTickAvailable(i) PROVE DoneSeen'
  <2>1. /\ cons.pc = "check" /\ i \in Readable(tail_, cons.seen) /\ cons.h = tail_[i].val
        /\ UNCHANGED <<tail_, pushed, popped, producer>>
        /\ consumer' = IF consumer = "pop" THEN "flag" ELSE "join"
    BY <1>1, <1>9, PopSteps DEF NoTickAvailable, producerVars
  <2>2. CASE consumer = "pop"
    BY <2>1, <2>2 DEF DoneSeen
  <2>3. CASE consumer # "pop"
    <3>1. consumer = "drain" /\ producer = "exited" /\ i = Len(tail_)
      BY <1>1, <1>2, <2>1, <2>3 DEF Threads, DoneSeen, Readable
    <3>2. cons.h = Len(popped) % IndexMod /\ tail_[i].val = Len(pushed) % IndexMod
      BY <1>1, <1>2, <2>1, <3>1, OwnIndex DEF RingInv, ConsumerView, OwnValue
    <3>3. Len(popped) <= Len(pushed) /\ Len(pushed) - Len(popped) <= Capacity
      BY <1>1, Distances, CapacityAssumption
    <3>4. Len(popped) = Len(pushed)
      BY <1>2, <2>1, <3>2, <3>3, EmptyTest
    <3> QED BY <2>1, <2>3, <3>1, <3>4 DEF DoneSeen
  <2> QED BY <2>2, <2>3
<1>10. CASE Trade
  BY <1>10 DEF Trade, DoneSeen
<1>11. CASE Join
  BY <1>11 DEF Join, DoneSeen
<1>12. ASSUME NEW k \in DOMAIN producer_done, LoadDone(k) PROVE DoneSeen'
  <2>1. consumer = "flag" /\ k \in Readable(producer_done, doneSeen) /\ UNCHANGED producer
    BY <1>12 DEF LoadDone, producerVars
  <2>2. CASE ~producer_done[k].val
    BY <1>12, <2>2 DEF LoadDone, DoneSeen
  <2>3. CASE producer_done[k].val
    <3>1. /\ consumer' = "drain" /\ cons'.seen = producer_done[k].tail /\ UNCHANGED tail_
      BY <1>1, <1>12, <2>3, PopSteps DEF LoadDone
    <3>2. k \in 1 .. Len(producer_done)
      BY <1>1 DEF TypeOK
    <3>3. k = 2 /\ producer # "none"
      BY <1>1, <2>1, <2>3, <3>2 DEF FlagStores, Threads
    <3>4. producer = "exited"
      BY <1>1, <3>2, <3>3 DEF FlagStores, TypeOK
    <3> QED BY <1>1, <2>1, <3>1, <3>3, <3>4 DEF FlagStores, DoneSeen
  <2> QED BY <2>2, <2>3
<1>13. ASSUME NEW feed \in Feeds, Run(feed) PROVE DoneSeen'
  BY <1>13 DEF Run, DoneSeen
<1>14. CASE Terminated
  BY <1>3, <1>14 DEF Terminated, vars, ringVars, producerVars, consumerVars
<1> QED BY <1>4, <1>5, <1>6, <1>7, <1>8, <1>9, <1>10, <1>11, <1>12, <1>13, <1>14
        DEF Next, ProducerNext, ConsumerNext

\* A window, its head and its count stay in range when a mid is added.
LEMMA UpdatedType ==
  ASSUME NEW st \in SymbolState, NEW mid \in Int
  PROVE  Updated(st, mid) \in SymbolState /\ Updated(st, mid).position = st.position
<1>1. (st.head + 1) % Window \in 0 .. Window - 1
  <2>1. st.head + 1 \in Nat
    BY DEF SymbolState
  <2> QED BY <2>1, WindowAssumption, ModRange
<1>2. (IF st.count < Window THEN st.count + 1 ELSE st.count) \in 0 .. Window
  BY WindowAssumption DEF SymbolState
<1>3. [st.window EXCEPT ![st.head] = mid] \in [0 .. Window - 1 -> Int]
  BY DEF SymbolState
<1> QED BY <1>1, <1>2, <1>3 DEF Updated, SymbolState

\* A signal is one of three sides.
LEMMA SignalType ==
  ASSUME NEW window, NEW mid, NEW position
  PROVE  Signal(window, mid, position) \in {"NONE", "BUY", "SELL"}
BY DEF Signal

\* What process_tick does to the variables it changes: at most one order, for its tick.
LEMMA ProcessTickSteps ==
  ASSUME TypeOK, NEW dt, dt \in [symbol : Symbols, bid : Int, ask : Int, tick_index : Nat],
         ProcessTick(dt)
  PROVE  /\ state_' \in [Symbols -> SymbolState]
         /\ \A s \in Symbols \ {dt.symbol} : state_'[s] = state_[s]
         /\ \/ orders' = orders /\ state_'[dt.symbol].position = state_[dt.symbol].position
            \/ \E side \in {"BUY", "SELL"} :
                 /\ orders' = Append(orders, OrderFor(dt.tick_index, dt, side))
                 /\ OrderFor(dt.tick_index, dt, side) \in Order
                 /\ state_'[dt.symbol].position = Filled(state_[dt.symbol].position, side)
                 /\ state_[dt.symbol].position > 0 => side = "SELL"
                 /\ state_[dt.symbol].position < 0 => side = "BUY"
<1> DEFINE old == state_[dt.symbol]
           st == Updated(old, Mid(dt))
           side == IF st.count < Window THEN "NONE" ELSE Signal(st.window, Mid(dt), st.position)
           new == [st EXCEPT !.position = Filled(@, side)]
<1>1. /\ state_' = [state_ EXCEPT ![dt.symbol] = new]
      /\ orders' = IF side = "NONE" THEN orders
                   ELSE Append(orders, OrderFor(dt.tick_index, dt, side))
  BY DEF ProcessTick
<1>2. state_ \in [Symbols -> SymbolState] /\ old \in SymbolState /\ Mid(dt) \in Int
  BY DEF TypeOK, Mid
<1>3. st \in SymbolState /\ st.position = old.position
  BY <1>2, UpdatedType
<1>4. side \in {"NONE", "BUY", "SELL"}
  BY SignalType
<1>5. /\ side = "SELL" => ~(st.position < 0)
      /\ side = "BUY" => ~(st.position > 0)
  <2>1. st.position \in -1 .. 1
    BY <1>3 DEF SymbolState
  <2> QED BY <2>1 DEF Signal
<1> HIDE DEF side, st
<1>6. st.position \in -1 .. 1 /\ Filled(st.position, side) \in -1 .. 1
  BY <1>3 DEF SymbolState, Filled
<1>7. new \in SymbolState /\ new.position = Filled(st.position, side)
  BY <1>3, <1>6 DEF SymbolState
<1>8. side # "NONE" => OrderFor(dt.tick_index, dt, side) \in Order
  BY <1>4 DEF OrderFor, Order
<1> HIDE DEF new
<1>9. /\ state_' \in [Symbols -> SymbolState] /\ state_'[dt.symbol] = new
      /\ \A s \in Symbols \ {dt.symbol} : state_'[s] = state_[s]
  BY <1>1, <1>2, <1>7
<1>10. CASE side = "NONE"
  BY <1>1, <1>3, <1>7, <1>9, <1>10 DEF Filled
<1>11. CASE side # "NONE"
  <2>1. side \in {"BUY", "SELL"}
    BY <1>4, <1>11
  <2>2. /\ orders' = Append(orders, OrderFor(dt.tick_index, dt, side))
        /\ state_'[dt.symbol].position = Filled(old.position, side)
    BY <1>1, <1>3, <1>7, <1>9, <1>11
  <2>3. (old.position > 0 => side = "SELL") /\ (old.position < 0 => side = "BUY")
    BY <1>3, <1>5, <1>6, <2>1
  <2> QED BY <1>8, <1>9, <1>11, <2>1, <2>2, <2>3
<1> QED BY <1>10, <1>11

\* Every variable keeps its type.
LEMMA KeepsTypes ==
  ASSUME PipelineInv, Next
  PROVE  TypeOK'
<1>1. RingInv /\ TypeOK /\ Threads /\ FlagStores /\ TicksInFlight /\ DoneSeen
  BY DEF PipelineInv
<1>2. RingTypeOK'
  BY KeepsRingInv DEF RingInv
<1>3. in \in Seq(WireTick) /\ next \in Nat /\ traded \in Nat /\ runs \in Nat
  BY <1>1, InputTicks, RunsAssumption DEF TypeOK
<1>4. CASE UNCHANGED <<producerVars, consumerVars>>
  BY <1>1, <1>2, <1>4 DEF TypeOK, producerVars, consumerVars
<1>5. CASE TryPush \/ WriteSlot \/ \E i \in DOMAIN head_ : TestRoom(i)
  BY <1>4, <1>5 DEF TryPush, WriteSlot, TestRoom
<1>6. CASE TryPop \/ ReadSlot \/ \E i \in DOMAIN tail_ : TickAvailable(i)
  BY <1>4, <1>6 DEF TryPop, ReadSlot, TickAvailable
<1>7. CASE Terminated
  BY <1>4, <1>7 DEF Terminated, vars
<1>8. CASE PublishTick
  <2>1. next < Len(in)
    BY <1>1, <1>8, PushSteps DEF PublishTick, Threads
  <2> QED BY <1>1, <1>2, <1>3, <1>8, <2>1 DEF PublishTick, TypeOK, consumerVars
<1>9. CASE Finish
  <2>1. Len(tail_) \in Nat
    BY <1>1 DEF TypeOK, RingTypeOK
  <2>2. /\ producer_done' \in Seq([val : BOOLEAN, tail : Nat])
        /\ Len(producer_done') = Len(producer_done) + 1
    <3>1. [val |-> TRUE, tail |-> Len(tail_)] \in [val : BOOLEAN, tail : Nat]
      BY <2>1
    <3> QED BY <1>1, <1>9, <3>1, AppendProperties DEF Finish, TypeOK
  <2>3. doneSeen \in 0 .. Len(producer_done')
    BY <1>1, <2>2 DEF TypeOK
  <2> QED BY <1>1, <1>2, <1>9, <2>2, <2>3 DEF Finish, TypeOK, consumerVars
<1>10. CASE Trade
  <2>1. /\ ProcessTick(cons.out) /\ traded' = traded + 1 /\ consumer' = "pop"
        /\ cons.pc = "publish" /\ UNCHANGED <<producerVars, doneSeen, runs, in>>
    BY <1>1, <1>10, PopSteps DEF Trade
  <2>2. /\ traded < Len(in) /\ Len(in) \in Nat
        /\ cons.out \in [symbol : Symbols, bid : Int, ask : Int, tick_index : Nat]
    BY <2>1, <1>3, TradedTick DEF Decode, WireTick
  <2>3. state_' \in [Symbols -> SymbolState] /\ orders' \in Seq(Order)
    <3>1. /\ state_' \in [Symbols -> SymbolState]
          /\ orders' = orders \/ \E order \in Order : orders' = Append(orders, order)
      BY <1>1, <2>1, <2>2, ProcessTickSteps
    <3>2. orders \in Seq(Order)
      BY <1>1 DEF TypeOK
    <3> QED BY <3>1, <3>2, AppendProperties
  <2>4. traded' \in 0 .. Len(in)
    BY <1>3, <2>1, <2>2
  <2> QED BY <1>1, <1>2, <2>1, <2>3, <2>4 DEF TypeOK, producerVars
<1>11. ASSUME NEW i \in DOMAIN tail_, NoTickAvailable(i) PROVE TypeOK'
  BY <1>1, <1>2, <1>11 DEF NoTickAvailable, TypeOK, producerVars
<1>12. ASSUME NEW k \in DOMAIN producer_done, LoadDone(k) PROVE TypeOK'
  <2>1. k \in 0 .. Len(producer_done) /\ doneSeen' = k /\ consumer' \in {"drain", "pop"}
    BY <1>1, <1>12 DEF LoadDone, TypeOK
  <2> QED BY <1>1, <1>2, <1>12, <2>1 DEF LoadDone, TypeOK, producerVars
<1>13. CASE Join
  BY <1>1, <1>2, <1>13 DEF Join, TypeOK
<1>14. ASSUME NEW feed \in Feeds, Run(feed) PROVE TypeOK'
  <2>1. Len(tail_) \in Nat /\ Len(feed) \in Nat /\ runs + 1 \in 0 .. Runs
    BY <1>1, <1>14, FeedsAssumption, RunsAssumption DEF TypeOK, RingTypeOK, Run
  <2>2. /\ producer_done' \in Seq([val : BOOLEAN, tail : Nat])
        /\ Len(producer_done') = 1 /\ orders' \in Seq(Order)
    BY <1>14, <2>1 DEF Run
  <2> QED BY <1>1, <1>2, <1>14, <2>1, <2>2 DEF Run, TypeOK
<1> QED BY <1>5, <1>6, <1>7, <1>8, <1>9, <1>10, <1>11, <1>12, <1>13, <1>14
        DEF Next, ProducerNext, ConsumerNext

-----------------------------------------------------------------------------
(* The windows of the symbols.                                             *)

\* The operators of the sequential pipeline are those of the model.
LEMMA SequentialOperators ==
  /\ \A f : SumFunction(f) = SumOver(f, DOMAIN f) /\ Sequential!SumFunction(f) = SumOver(f, DOMAIN f)
  /\ \A tick : Sequential!Mid(tick) = Mid(tick)
  /\ \A position, side : Sequential!Filled(position, side) = Filled(position, side)
  /\ \A index, tick, side : Sequential!OrderFor(index, tick, side) = OrderFor(index, tick, side)
<1>1. \A f : SumFunction(f) = SumOver(f, DOMAIN f)
  BY DEF SumFunction, SumFunctionOnSet, FoldFunctionOnSet, MapThenFoldSet, SumOver, MapThenSumSet
<1>2. \A f : Sequential!SumFunction(f) = SumOver(f, DOMAIN f)
  BY DEF Sequential!SumFunction, Sequential!SumFunctionOnSet, Sequential!FoldFunctionOnSet,
         Sequential!MapThenFoldSet, MapThenFoldSet, SumOver, MapThenSumSet
<1>3. \A tick : Sequential!Mid(tick) = Mid(tick)
  BY DEF Sequential!Mid, Mid
<1>4. \A position, side : Sequential!Filled(position, side) = Filled(position, side)
  BY DEF Sequential!Filled, Filled
<1>5. \A index, tick, side : Sequential!OrderFor(index, tick, side) = OrderFor(index, tick, side)
  BY DEF Sequential!OrderFor, OrderFor
<1> QED BY <1>1, <1>2, <1>3, <1>4, <1>5

\* The number of a tick among those of its symbol.
LEMMA NumberIs ==
  \A own, j : Sequential!Number(own, j) = Cardinality(Smaller(own, j))
<1>1. \A S : Sequential!Cardinality(S) = Cardinality(S)
  BY DEF Sequential!Cardinality, Cardinality
<1> QED BY <1>1 DEF Sequential!Number, Smaller

\* The slot of a tick, and the last Window ticks of a symbol that has so many.
SlotIn(own, j) == Cardinality(Smaller(own, j)) % Window

\* The last ticks fill the slots, each its own, and no later tick of the symbol has the
\* slot of one of them.
LEMMA LastInSlots ==
  ASSUME NEW own \in SUBSET Nat, IsFiniteSet(own), Cardinality(own) >= Window
  PROVE  /\ Sequential!LastOf(own) \in SUBSET own
         /\ \A j \in Sequential!LastOf(own) : \A k \in own : SlotIn(own, k) = SlotIn(own, j) => k <= j
         /\ \A i, j \in Sequential!LastOf(own) : SlotIn(own, i) = SlotIn(own, j) => i = j
         /\ {SlotIn(own, j) : j \in Sequential!LastOf(own)} = 0 .. Window - 1
<1> DEFINE c == Cardinality(own)
           N(j) == Cardinality(Smaller(own, j))
           last == Sequential!LastOf(own)
<1>1. last = {j \in own : c - N(j) <= Window}
  <2>1. Sequential!Cardinality(own) = Cardinality(own)
    BY DEF Sequential!Cardinality, Cardinality
  <2> QED BY <2>1, NumberIs DEF Sequential!LastOf
<1>2. /\ c \in Nat /\ c >= Window /\ Window \in Nat \ {0}
      /\ \A j \in own : j \in Nat /\ N(j) \in Nat /\ N(j) < c
      /\ \A i, j \in own : i < j => N(i) < N(j)
      /\ \A r \in Nat : r < c => \E j \in own : N(j) = r
  BY Numbering, FS_CardinalityType, WindowAssumption
<1>3. \A j \in own : SlotIn(own, j) = N(j) % Window
  BY DEF SlotIn
<1> HIDE DEF c, N, last
<1>4. ASSUME NEW j \in last, NEW k \in own, j < k
      PROVE  SlotIn(own, k) # SlotIn(own, j)
  <2>1. j \in own /\ c - N(j) <= Window
    BY <1>1
  <2>2. N(j) \in Nat /\ N(k) \in Nat /\ N(j) < N(k) /\ N(k) - N(j) < Window
    <3>1. N(j) < N(k) /\ N(k) < c
      BY <1>2, <1>4, <2>1
    <3> QED BY <1>2, <2>1, <3>1
  <2> DEFINE a == N(k)
             b == N(j)
  <2> HIDE DEF a, b
  <2>3. a % Window # b % Window
    <3>1. a \in Nat /\ b \in Nat /\ b < a /\ a - b < Window
      BY <2>2 DEF a, b
    <3> QED BY <1>2, <3>1, DistinctRemainders
  <2> QED BY <1>3, <2>1, <2>3 DEF a, b
<1>5. ASSUME NEW s \in 0 .. Window - 1
      PROVE  \E j \in last : SlotIn(own, j) = s
  <2>1. PICK r \in Nat : r < c /\ c - r <= Window /\ r % Window = s
    BY <1>2, RecentRemainder
  <2>2. PICK j \in own : N(j) = r
    BY <1>2, <2>1
  <2>3. j \in last
    BY <1>1, <2>1, <2>2
  <2> QED BY <1>3, <2>1, <2>2, <2>3
<1>6. last \in SUBSET own
  BY <1>1
<1>7. \A j \in last : \A k \in own : SlotIn(own, k) = SlotIn(own, j) => k <= j
  BY <1>2, <1>4, <1>6
<1>8. \A i, j \in last : SlotIn(own, i) = SlotIn(own, j) => i = j
  <2> SUFFICES ASSUME NEW i \in last, NEW j \in last, SlotIn(own, i) = SlotIn(own, j)
               PROVE  i = j
    OBVIOUS
  <2>1. i <= j /\ j <= i /\ i \in Nat /\ j \in Nat
    BY <1>2, <1>6, <1>7
  <2> QED BY <2>1
<1>9. \A j \in last : SlotIn(own, j) \in 0 .. Window - 1
  <2> SUFFICES ASSUME NEW j \in last PROVE SlotIn(own, j) \in 0 .. Window - 1
    OBVIOUS
  <2> DEFINE a == N(j)
  <2>1. a \in Nat /\ SlotIn(own, j) = a % Window
    BY <1>2, <1>3, <1>6
  <2> HIDE DEF a
  <2> QED BY <1>2, <2>1, ModRange
<1>10. {SlotIn(own, j) : j \in last} = 0 .. Window - 1
  BY <1>5, <1>9
<1> QED BY <1>6, <1>7, <1>8, <1>10 DEF last

\* The sums over the window, and hence the signal, are those of the last mids.
LEMMA SameSignal ==
  ASSUME NEW own \in SUBSET Nat, IsFiniteSet(own), Cardinality(own) >= Window,
         NEW window \in [0 .. Window - 1 -> Int], NEW mids,
         \A j \in Sequential!LastOf(own) : window[SlotIn(own, j)] = mids[j],
         NEW mid, NEW position
  PROVE  Sequential!Signal([j \in Sequential!LastOf(own) |-> mids[j]], mid, position)
         = Signal(window, mid, position)
<1> DEFINE last == Sequential!LastOf(own)
           f == [j \in last |-> mids[j]]
           g == [j \in last |-> SlotIn(own, j)]
           slots == 0 .. Window - 1
<1>1. /\ last \in SUBSET own
      /\ \A i, j \in last : SlotIn(own, i) = SlotIn(own, j) => i = j
      /\ {SlotIn(own, j) : j \in last} = slots
  BY LastInSlots
<1>2. IsFiniteSet(last)
  BY <1>1, FS_Subset
<1>3. /\ DOMAIN f = last /\ DOMAIN window = slots
      /\ Values(g, last) = slots
      /\ \A i, j \in last : g[i] = g[j] => i = j
      /\ \A j \in last : f[j] \in Int /\ window[g[j]] = f[j]
      /\ \A j \in last : g[j] \in slots
  <2>1. \A j \in last : g[j] = SlotIn(own, j) /\ f[j] = mids[j] /\ g[j] \in slots
    BY <1>1
  <2>2. Values(g, last) = {SlotIn(own, j) : j \in last}
    BY <2>1 DEF Values
  <2> HIDE DEF g, f, last, slots
  <2>3. \A j \in last : f[j] = window[g[j]]
    BY <2>1 DEF last
  <2>4. \A j \in last : f[j] \in Int
    BY <2>1, <2>3 DEF slots
  <2>5. DOMAIN f = last /\ DOMAIN window = slots
    BY DEF f, slots
  <2>6. \A i, j \in last : g[i] = g[j] => i = j
    BY <1>1, <2>1
  <2>7. Values(g, last) = slots /\ \A j \in last : g[j] \in slots
    BY <1>1, <2>1, <2>2
  <2> QED BY <2>3, <2>4, <2>5, <2>6, <2>7
<1> HIDE DEF last, f, g, slots
<1>4. SumOver(window, slots) = SumOver(f, last)
  <2>1. SumOver(window, Values(g, last)) = SumOver(f, last)
    <3>1. \A j \in last : f[j] \in Int /\ window[g[j]] = f[j]
      BY <1>3
    <3>2. \A i, j \in last : g[i] = g[j] => i = j
      BY <1>3
    <3> DEFINE e == window
    <3>3. \A j \in last : f[j] \in Int /\ e[g[j]] = f[j]
      BY <3>1
    <3> HIDE DEF e
    <3>4. SumOver(e, Values(g, last)) = SumOver(f, last)
      BY <1>2, <3>2, <3>3, SumReindexed
    <3> QED BY <3>4 DEF e
  <2> QED BY <1>3, <2>1
<1>5. SumFunction(window) = Sequential!SumFunction(f) /\ SumFunction(window) = SumOver(window, slots)
  BY <1>3, <1>4, SequentialOperators
<1> DEFINE total == SumFunction(window)
           Square(x) == (Window * x - total) * (Window * x - total)
           windowSquares == [i \in slots |-> Square(window[i])]
           midSquares == [j \in last |-> Square(f[j])]
<1>6. \A x \in Int : Square(x) \in Int
  <2>1. total \in Int
    <3>1. IsFiniteSet(slots) /\ \A i \in slots : window[i] \in Int
      BY FS_Interval, WindowAssumption DEF slots
    <3>2. SumOver(window, slots) \in Int
      BY <3>1, SumType
    <3> QED BY <1>5, <3>2
  <2> HIDE DEF total
  <2> SUFFICES ASSUME NEW x \in Int PROVE Square(x) \in Int
    OBVIOUS
  <2> DEFINE y == Window * x - total
  <2>2. y \in Int
    BY <2>1, WindowAssumption
  <2> HIDE DEF y
  <2>3. y * y \in Int
    BY <2>2
  <2> QED BY <2>3 DEF y
<1>7. Spread(window) = SumFunction(windowSquares)
  BY <1>3 DEF Spread
<1>8. Sequential!Spread(f) = Sequential!SumFunction(midSquares)
  BY <1>3, <1>5 DEF Sequential!Spread
<1> HIDE DEF Square
<1>9. SumOver(windowSquares, slots) = SumOver(midSquares, last)
  <2>1. \A j \in last : midSquares[j] \in Int /\ windowSquares[g[j]] = midSquares[j]
    <3> SUFFICES ASSUME NEW j \in last
                 PROVE  midSquares[j] \in Int /\ windowSquares[g[j]] = midSquares[j]
      OBVIOUS
    <3>1. g[j] \in slots /\ window[g[j]] = f[j] /\ f[j] \in Int
      BY <1>3
    <3> QED BY <1>6, <3>1
  <2> HIDE DEF windowSquares, midSquares
  <2>2. SumOver(windowSquares, Values(g, last)) = SumOver(midSquares, last)
    <3>1. \A i, j \in last : g[i] = g[j] => i = j
      BY <1>3
    <3> QED BY <1>2, <2>1, <3>1, SumReindexed
  <2> QED BY <1>3, <2>2
<1>10. Spread(window) = Sequential!Spread(f)
  <2>1. DOMAIN windowSquares = slots /\ DOMAIN midSquares = last
    OBVIOUS
  <2> HIDE DEF windowSquares, midSquares
  <2> QED BY <1>7, <1>8, <1>9, <2>1, SequentialOperators
<1>11. Deviation(window, mid) = Sequential!Deviation(f, mid)
  BY <1>5 DEF Deviation, Sequential!Deviation
<1>12. Sequential!Signal(f, mid, position) = Signal(window, mid, position)
  BY <1>10, <1>11 DEF Signal, Flat, AboveEntry, BelowEntry, WithinExit, Sequential!Signal,
     Sequential!Flat, Sequential!AboveEntry, Sequential!BelowEntry, Sequential!WithinExit
<1> QED BY <1>12 DEF f, last

\* What a slot of a symbol's window holds: the mids of the ticks of its remainder.
Held(own, i) == {k \in own : SlotIn(own, k) = i}

\* The layout, with the numbers of the ticks counted here.
LEMMA LaidOutIs ==
  \A st, ticks, own :
    LaidOut(st, ticks, own) <=>
      /\ st.head = Cardinality(own) % Window
      /\ st.count = IF Cardinality(own) < Window THEN Cardinality(own) ELSE Window
      /\ \A i \in 0 .. Window - 1 :
           st.window[i] = IF Held(own, i) = {} THEN 0 ELSE Mid(ticks[Max(Held(own, i))])
<1> SUFFICES ASSUME NEW st, NEW ticks, NEW own
             PROVE  LaidOut(st, ticks, own) <=>
                      /\ st.head = Cardinality(own) % Window
                      /\ st.count = IF Cardinality(own) < Window THEN Cardinality(own) ELSE Window
                      /\ \A i \in 0 .. Window - 1 :
                           st.window[i] = IF Held(own, i) = {} THEN 0
                                          ELSE Mid(ticks[Max(Held(own, i))])
  OBVIOUS
<1>1. \A i : {k \in own : Sequential!Number(own, k) % Window = i} = Held(own, i)
  BY NumberIs DEF Held, SlotIn
<1> QED BY <1>1 DEF LaidOut

\* One tick more, behind all others, keeps the numbers of the others.
LEMMA OneMoreOwn ==
  ASSUME NEW n \in Nat, NEW own \in SUBSET (1 .. n)
  PROVE  /\ IsFiniteSet(own) /\ Cardinality(own) \in Nat /\ n + 1 \notin own
         /\ Cardinality(own \cup {n + 1}) = Cardinality(own) + 1
         /\ \A k \in own : SlotIn(own \cup {n + 1}, k) = SlotIn(own, k)
         /\ SlotIn(own \cup {n + 1}, n + 1) = Cardinality(own) % Window
<1>1. IsFiniteSet(own) /\ Cardinality(own) \in Nat
  <2>1. IsFiniteSet(1 .. n)
    BY FS_Interval
  <2>2. IsFiniteSet(own)
    BY <2>1, FS_Subset
  <2> QED BY <2>2, FS_CardinalityType
<1>2. \A k \in own : k \in Nat /\ k < n + 1 /\ ~(n + 1 < k)
  OBVIOUS
<1>3. n + 1 \notin own /\ ~(n + 1 < n + 1)
  BY <1>2
<1>4. Cardinality(own \cup {n + 1}) = Cardinality(own) + 1
  BY <1>1, <1>3, FS_AddElement
<1>5. \A k \in own : Smaller(own \cup {n + 1}, k) = Smaller(own, k)
  BY <1>2 DEF Smaller
<1>6. Smaller(own \cup {n + 1}, n + 1) = own
  BY <1>2, <1>3 DEF Smaller
<1> QED BY <1>1, <1>3, <1>4, <1>5, <1>6 DEF SlotIn

\* process_tick keeps the layout of the window it writes to.
LEMMA UpdatedLayout ==
  ASSUME NEW n \in Nat, NEW own \in SUBSET (1 .. n), NEW ticks, NEW more,
         \A k \in own : more[k] = ticks[k], Mid(more[n + 1]) \in Int,
         NEW st, st \in SymbolState, LaidOut(st, ticks, own),
         NEW new, new.window = [st.window EXCEPT ![st.head] = Mid(more[n + 1])],
         new.head = (st.head + 1) % Window,
         new.count = IF st.count < Window THEN st.count + 1 ELSE st.count
  PROVE  LaidOut(new, more, own \cup {n + 1})
<1> DEFINE own2 == own \cup {n + 1}
           c == Cardinality(own)
           mid == Mid(more[n + 1])
<1>1. /\ IsFiniteSet(own) /\ c \in Nat /\ n + 1 \notin own /\ Cardinality(own2) = c + 1
      /\ \A k \in own : SlotIn(own2, k) = SlotIn(own, k)
      /\ SlotIn(own2, n + 1) = c % Window
  BY OneMoreOwn
<1>2. /\ st.head = c % Window /\ st.count = IF c < Window THEN c ELSE Window
      /\ \A i \in 0 .. Window - 1 :
           st.window[i] = IF Held(own, i) = {} THEN 0 ELSE Mid(ticks[Max(Held(own, i))])
  BY LaidOutIs
<1> HIDE DEF c, own2, mid
<1>3. new.head = Cardinality(own2) % Window
  BY <1>1, <1>2, WrappedSuccessor, WindowAssumption
<1>4. new.count = IF Cardinality(own2) < Window THEN Cardinality(own2) ELSE Window
  BY <1>1, <1>2, WindowAssumption
<1>5. st.window \in [0 .. Window - 1 -> Int] /\ st.head \in 0 .. Window - 1
  BY DEF SymbolState
<1>6. ASSUME NEW i \in 0 .. Window - 1
      PROVE  new.window[i] = IF Held(own2, i) = {} THEN 0 ELSE Mid(more[Max(Held(own2, i))])
  <2>1. CASE i = c % Window
    <3>1. n + 1 \in Held(own2, i)
      BY <1>1, <2>1 DEF Held, own2
    <3>2. Max(Held(own2, i)) = n + 1
      <4>1. \A k \in own2 : k \in Int /\ n + 1 >= k
        BY DEF own2
      <4>2. Held(own2, i) \in SUBSET Int /\ \A k \in Held(own2, i) : n + 1 >= k
        BY <4>1 DEF Held
      <4> QED BY <3>1, <4>2, MaxIs
    <3>3. new.window[i] = mid
      BY <1>2, <1>5, <2>1 DEF mid
    <3> QED BY <3>1, <3>2, <3>3 DEF mid
  <2>2. CASE i # c % Window
    <3>1. Held(own2, i) = Held(own, i)
      BY <1>1, <2>2 DEF Held, own2
    <3>2. new.window[i] = st.window[i]
      BY <1>2, <1>5, <2>2
    <3>3. CASE Held(own, i) = {}
      BY <1>2, <3>1, <3>2, <3>3
    <3>4. CASE Held(own, i) # {}
      <4>1. Held(own, i) \in SUBSET own
        BY DEF Held
      <4>2. Held(own, i) \in SUBSET Int /\ IsFiniteSet(Held(own, i))
        <5>1. own \in SUBSET Int
          OBVIOUS
        <5>2. IsFiniteSet(Held(own, i))
          BY <1>1, <4>1, FS_Subset
        <5> QED BY <4>1, <5>1, <5>2
      <4>3. Max(Held(own, i)) \in own
        BY <3>4, <4>1, <4>2, Extremes
      <4> QED BY <1>2, <3>1, <3>2, <3>4, <4>3
    <3> QED BY <3>3, <3>4
  <2> QED BY <2>1, <2>2
<1>7. LaidOut(new, more, own2)
  BY <1>3, <1>4, <1>6, LaidOutIs
<1> QED BY <1>7 DEF own2

\* Only the mids of the symbol's own ticks matter.
LEMMA SameLayout ==
  ASSUME NEW n \in Nat, NEW own \in SUBSET (1 .. n), NEW ticks, NEW more,
         \A k \in own : Mid(more[k]) = Mid(ticks[k]), NEW st, LaidOut(st, ticks, own)
  PROVE  LaidOut(st, more, own)
<1>1. IsFiniteSet(own)
  BY OneMoreOwn
<1>2. ASSUME NEW i \in 0 .. Window - 1
      PROVE  st.window[i] = IF Held(own, i) = {} THEN 0 ELSE Mid(more[Max(Held(own, i))])
  <2>1. Held(own, i) # {} => Max(Held(own, i)) \in own
    <3>0. Held(own, i) \in SUBSET own /\ own \in SUBSET Int
      BY DEF Held
    <3>1. Held(own, i) \in SUBSET own /\ Held(own, i) \in SUBSET Int
      BY <3>0
    <3>2. IsFiniteSet(Held(own, i))
      BY <1>1, <3>1, FS_Subset
    <3> QED BY <3>1, <3>2, Extremes
  <2> QED BY <2>1, LaidOutIs
<1> QED BY <1>2, LaidOutIs

\* process_tick makes the symbol of its tick do what a side says.
Decides(dt, side) ==
  /\ state_'[dt.symbol].position = Filled(state_[dt.symbol].position, side)
  /\ orders' = IF side = "NONE" THEN orders ELSE Append(orders, OrderFor(dt.tick_index, dt, side))

\* What process_tick does to the window of the tick's symbol, and what it then decides.
LEMMA ProcessTickWindow ==
  ASSUME TypeOK, NEW dt, dt \in [symbol : Symbols, bid : Int, ask : Int, tick_index : Nat],
         ProcessTick(dt)
  PROVE  LET st == state_[dt.symbol]
             new == state_'[dt.symbol]
         IN  /\ new.window = [st.window EXCEPT ![st.head] = Mid(dt)]
             /\ new.head = (st.head + 1) % Window
             /\ new.count = IF st.count < Window THEN st.count + 1 ELSE st.count
             /\ Decides(dt, IF new.count < Window THEN "NONE"
                            ELSE Signal(new.window, Mid(dt), st.position))
<1> DEFINE old == state_[dt.symbol]
           st == Updated(old, Mid(dt))
           side == IF st.count < Window THEN "NONE" ELSE Signal(st.window, Mid(dt), st.position)
           new == [st EXCEPT !.position = Filled(@, side)]
<1>1. /\ state_' = [state_ EXCEPT ![dt.symbol] = new]
      /\ orders' = IF side = "NONE" THEN orders
                   ELSE Append(orders, OrderFor(dt.tick_index, dt, side))
  BY DEF ProcessTick
<1>2. state_ \in [Symbols -> SymbolState] /\ old \in SymbolState /\ Mid(dt) \in Int
  BY DEF TypeOK, Mid
<1>3. st \in SymbolState /\ st.position = old.position
  BY <1>2, UpdatedType
<1>4. /\ st.window = [old.window EXCEPT ![old.head] = Mid(dt)]
      /\ st.head = (old.head + 1) % Window
      /\ st.count = IF old.count < Window THEN old.count + 1 ELSE old.count
  BY <1>2 DEF Updated, SymbolState
<1>5. /\ new.window = st.window /\ new.head = st.head /\ new.count = st.count
      /\ new.position = Filled(old.position, side)
  <2> HIDE DEF st, side
  <2> QED BY <1>3 DEF SymbolState
<1>6. side = IF new.count < Window THEN "NONE" ELSE Signal(new.window, Mid(dt), old.position)
  BY <1>3, <1>5
<1> HIDE DEF st, side, new
<1>7. state_'[dt.symbol] = new
  BY <1>1, <1>2
<1>8. Decides(dt, side)
  BY <1>1, <1>5, <1>7 DEF Decides
<1> QED BY <1>4, <1>5, <1>6, <1>7, <1>8

\* The slot of one of the last ticks holds its mid.
LEMMA LastLaidOut ==
  ASSUME NEW own \in SUBSET Nat, IsFiniteSet(own), Cardinality(own) >= Window,
         NEW st, NEW ticks, LaidOut(st, ticks, own), NEW j \in Sequential!LastOf(own)
  PROVE  st.window[SlotIn(own, j)] = Mid(ticks[j])
<1> DEFINE last == Sequential!LastOf(own)
           i == SlotIn(own, j)
<1>1. /\ last \in SUBSET own
      /\ \A k \in last : \A l \in own : SlotIn(own, l) = SlotIn(own, k) => l <= k
      /\ {SlotIn(own, k) : k \in last} = 0 .. Window - 1
  BY LastInSlots
<1>2. j \in own /\ i \in 0 .. Window - 1
  BY <1>1
<1>3. j \in Held(own, i) /\ Held(own, i) \in SUBSET Int /\ \A k \in Held(own, i) : j >= k
  <2>1. \A k \in own : k \in Nat
    OBVIOUS
  <2>2. \A k \in Held(own, i) : k \in own /\ k <= j
    BY <1>1 DEF Held
  <2>3. j \in Held(own, i)
    BY <1>2 DEF Held
  <2>4. ASSUME NEW k \in Held(own, i) PROVE k \in Int /\ j >= k
    <3>1. k \in own /\ k <= j /\ k \in Nat /\ j \in Nat
      BY <1>2, <2>1, <2>2
    <3> QED BY <3>1
  <2> QED BY <2>3, <2>4
<1>4. Max(Held(own, i)) = j
  BY <1>3, MaxIs
<1>5. st.window[i] = IF Held(own, i) = {} THEN 0 ELSE Mid(ticks[Max(Held(own, i))])
  BY <1>2, LaidOutIs
<1> QED BY <1>3, <1>4, <1>5

\* What the reference makes a symbol do at a tick is what its window says.
LEMMA SideOfLayout ==
  ASSUME NEW history, NEW k \in Nat \ {0}, NEW st, st \in SymbolState, Mid(history[k]) \in Int,
         LaidOut(st, history, Sequential!TicksOf(history, history[k].symbol, k)), NEW p
  PROVE  Sequential!SideAt(history, k, p)
         = IF st.count < Window THEN "NONE" ELSE Signal(st.window, Mid(history[k]), p)
<1> DEFINE own == Sequential!TicksOf(history, history[k].symbol, k)
           last == Sequential!LastOf(own)
           mids == [j \in last |-> Mid(history[j])]
<1>1. own \in SUBSET (1 .. k) /\ Sequential!Cardinality(own) = Cardinality(own)
  BY DEF Sequential!TicksOf, Sequential!Cardinality, Cardinality
<1>2. own \in SUBSET Nat /\ IsFiniteSet(own) /\ Cardinality(own) \in Nat
  <2>1. 1 .. k \subseteq Nat
    OBVIOUS
  <2>2. IsFiniteSet(own) /\ Cardinality(own) \in Nat
    BY <1>1, OneMoreOwn
  <2> QED BY <1>1, <2>1, <2>2
<1>3. [j \in last |-> Sequential!Mid(history[j])] = mids
      /\ Sequential!Mid(history[k]) = Mid(history[k])
  BY SequentialOperators
<1>4. Sequential!SideAt(history, k, p)
      = IF Cardinality(own) < Window THEN "NONE" ELSE Sequential!Signal(mids, Mid(history[k]), p)
  BY <1>1, <1>3 DEF Sequential!SideAt
<1>5. /\ LaidOut(st, history, own)
      /\ st.count = IF Cardinality(own) < Window THEN Cardinality(own) ELSE Window
  BY LaidOutIs
<1> HIDE DEF own
<1>6. CASE Cardinality(own) < Window
  BY <1>4, <1>5, <1>6
<1>7. CASE ~(Cardinality(own) < Window)
  <2>1. Cardinality(own) >= Window /\ ~(st.count < Window)
    BY <1>2, <1>5, <1>7, WindowAssumption
  <2>2. \A j \in last : st.window[SlotIn(own, j)] = mids[j]
    <3> SUFFICES ASSUME NEW j \in last PROVE st.window[SlotIn(own, j)] = mids[j]
      OBVIOUS
    <3>1. mids[j] = Mid(history[j])
      OBVIOUS
    <3>2. st.window[SlotIn(own, j)] = Mid(history[j])
      BY <1>2, <1>5, <2>1, LastLaidOut
    <3> QED BY <3>1, <3>2
  <2>3. st.window \in [0 .. Window - 1 -> Int]
    BY DEF SymbolState
  <2>4. mids = [j \in last |-> mids[j]]
    OBVIOUS
  <2> HIDE DEF mids
  <2>5. Sequential!Signal([j \in last |-> mids[j]], Mid(history[k]), p)
        = Signal(st.window, Mid(history[k]), p)
    BY <1>2, <2>1, <2>2, <2>3, SameSignal
  <2> QED BY <1>4, <1>7, <2>1, <2>4, <2>5
<1> QED BY <1>6, <1>7

\* The first n ticks are the same.
Continues(more, history, n) == \A k \in 1 .. n : more[k] = history[k]

\* The ticks of a symbol before and after one tick more.
LEMMA TicksAppended ==
  ASSUME NEW n \in Nat, NEW history, NEW more, Continues(more, history, n), NEW s
  PROVE  /\ Sequential!TicksOf(history, s, n) \in SUBSET (1 .. n)
         /\ \A k \in 0 .. n : Sequential!TicksOf(more, s, k) = Sequential!TicksOf(history, s, k)
         /\ more[n + 1].symbol = s =>
              Sequential!TicksOf(more, s, n + 1) = Sequential!TicksOf(history, s, n) \cup {n + 1}
         /\ more[n + 1].symbol # s =>
              Sequential!TicksOf(more, s, n + 1) = Sequential!TicksOf(history, s, n)
<1>1. 1 .. n + 1 = (1 .. n) \cup {n + 1}
  OBVIOUS
<1>2. /\ \A k \in 0 .. n : \A j \in 1 .. k : more[j] = history[j]
      /\ \A k \in 1 .. n : more[k] = history[k]
  BY DEF Continues
<1>3. \A k \in 0 .. n : Sequential!TicksOf(more, s, k) = Sequential!TicksOf(history, s, k)
  BY <1>2 DEF Sequential!TicksOf
<1>4. Sequential!TicksOf(history, s, n) \in SUBSET (1 .. n)
  BY DEF Sequential!TicksOf
<1>5. more[n + 1].symbol = s =>
        Sequential!TicksOf(more, s, n + 1) = Sequential!TicksOf(history, s, n) \cup {n + 1}
  BY <1>1, <1>2 DEF Sequential!TicksOf
<1>6. more[n + 1].symbol # s =>
        Sequential!TicksOf(more, s, n + 1) = Sequential!TicksOf(history, s, n)
  BY <1>1, <1>2 DEF Sequential!TicksOf
<1> QED BY <1>3, <1>4, <1>5, <1>6

\* Only trading a tick changes what is known of the symbols.
LEMMA OnlyTrade ==
  ASSUME PipelineInv, [Next]_vars
  PROVE  Trade \/ UNCHANGED <<popped, state_>>
<1>1. RingInv
  BY DEF PipelineInv
<1>2. CASE TryPush \/ WriteSlot \/ PublishTick \/ \E i \in DOMAIN head_ : TestRoom(i)
  BY <1>1, <1>2, PushSteps DEF TryPush, WriteSlot, PublishTick, TestRoom, consumerVars
<1>3. CASE TryPop \/ ReadSlot \/ \E i \in DOMAIN tail_ : TickAvailable(i) \/ NoTickAvailable(i)
  BY <1>1, <1>3, PopSteps DEF TryPop, ReadSlot, TickAvailable, NoTickAvailable, consumerVars
<1>4. CASE Join \/ \E k \in DOMAIN producer_done : LoadDone(k)
  BY <1>1, <1>4, PopSteps DEF Join, LoadDone, ringVars
<1>5. CASE \E feed \in Feeds : Run(feed)
  BY <1>1, <1>5, PushSteps DEF Run
<1>6. CASE Finish \/ Terminated \/ UNCHANGED vars
  BY <1>6 DEF Finish, Terminated, vars, ringVars, consumerVars
<1> QED BY <1>2, <1>3, <1>4, <1>5, <1>6 DEF Next, ProducerNext, ConsumerNext

\* What a step of the consumer that trades a tick does.
LEMMA TradeSteps ==
  ASSUME PipelineInv, Trade
  PROVE  /\ cons.out \in [symbol : Symbols, bid : Int, ask : Int, tick_index : Nat]
         /\ cons.out = Decode(in, traded) /\ in[traded + 1] \in WireTick
         /\ traded \in Nat /\ traded < Len(in)
         /\ ProcessTick(cons.out) /\ popped' = Append(popped, cons.out)
         /\ Len(popped) \in Nat /\ Len(popped') = Len(popped) + 1
         /\ popped'[Len(popped) + 1] = cons.out
         /\ \A k \in 1 .. Len(popped) : popped'[k] = popped[k]
         /\ DOMAIN popped = 1 .. Len(popped) /\ DOMAIN popped' = 1 .. Len(popped) + 1
<1>1. RingInv /\ TypeOK
  BY DEF PipelineInv
<1>2. /\ ProcessTick(cons.out) /\ popped' = Append(popped, cons.out) /\ cons.pc = "publish"
  BY <1>1, PopSteps DEF Trade
<1>3. /\ traded \in Nat /\ traded < Len(in) /\ cons.out = Decode(in, traded)
      /\ in[traded + 1] \in WireTick
  BY <1>2, TradedTick
<1>4. cons.out \in [symbol : Symbols, bid : Int, ask : Int, tick_index : Nat]
  BY <1>3 DEF Decode, WireTick
<1>5. popped \in Seq(Items)
  BY <1>1 DEF RingInv, RingTypeOK
<1>6. /\ Len(popped) \in Nat /\ Len(popped') = Len(popped) + 1
      /\ popped'[Len(popped) + 1] = cons.out
      /\ \A k \in 1 .. Len(popped) : popped'[k] = popped[k]
      /\ DOMAIN popped = 1 .. Len(popped) /\ DOMAIN popped' = 1 .. Len(popped) + 1
  <2>1. cons.out \in {cons.out} \cup Items /\ popped \in Seq({cons.out} \cup Items)
    BY <1>5
  <2> QED BY <1>2, <2>1, AppendProperties
<1> QED BY <1>2, <1>3, <1>4, <1>6

\* The windows keep their layout.
LEMMA WindowsAfter ==
  ASSUME PipelineInv, [Next]_vars
  PROVE  \A s \in Symbols :
           LaidOut(state_'[s], popped', Sequential!TicksOf(popped', s, Len(popped')))
<1> DEFINE own(s) == Sequential!TicksOf(popped, s, Len(popped))
           own2(s) == Sequential!TicksOf(popped', s, Len(popped'))
<1>1. TypeOK /\ \A s \in Symbols : LaidOut(state_[s], popped, own(s))
  BY DEF PipelineInv, WindowLayout
<1>2. SUFFICES \A s \in Symbols : LaidOut(state_'[s], popped', own2(s))
  OBVIOUS
<1>3. CASE Trade
  <2> DEFINE dt == cons.out
             n == Len(popped)
             st == state_[dt.symbol]
             new == state_'[dt.symbol]
  <2>1. /\ dt \in [symbol : Symbols, bid : Int, ask : Int, tick_index : Nat]
        /\ ProcessTick(dt) /\ n \in Nat /\ Len(popped') = n + 1 /\ popped'[n + 1] = dt
        /\ \A k \in 1 .. n : popped'[k] = popped[k]
    BY <1>3, TradeSteps
  <2>2. /\ dt.symbol \in Symbols /\ Mid(dt) \in Int /\ st \in SymbolState
    BY <1>1, <2>1 DEF TypeOK, Mid
  <2>3. \A s \in Symbols \ {dt.symbol} : state_'[s] = state_[s]
    BY <1>1, <2>1, ProcessTickSteps
  <2>4. /\ new.window = [st.window EXCEPT ![st.head] = Mid(dt)]
        /\ new.head = (st.head + 1) % Window
        /\ new.count = IF st.count < Window THEN st.count + 1 ELSE st.count
    BY <1>1, <2>1, <2>2, ProcessTickWindow
  <2> HIDE DEF dt, n, st, new
  <2>5. \A s : /\ own(s) \in SUBSET (1 .. n)
               /\ dt.symbol = s => own2(s) = own(s) \cup {n + 1}
               /\ dt.symbol # s => own2(s) = own(s)
    <3> SUFFICES ASSUME NEW s
                 PROVE  /\ own(s) \in SUBSET (1 .. n)
                        /\ dt.symbol = s => own2(s) = own(s) \cup {n + 1}
                        /\ dt.symbol # s => own2(s) = own(s)
      OBVIOUS
    <3> DEFINE now == popped
               more == popped'
    <3>1. /\ n \in Nat /\ more[n + 1] = dt /\ Continues(more, now, n)
          /\ own(s) = Sequential!TicksOf(now, s, n) /\ own2(s) = Sequential!TicksOf(more, s, n + 1)
      BY <2>1 DEF n, Continues
    <3> HIDE DEF now, more, own, own2
    <3>2. /\ Sequential!TicksOf(now, s, n) \in SUBSET (1 .. n)
          /\ more[n + 1].symbol = s =>
               Sequential!TicksOf(more, s, n + 1) = Sequential!TicksOf(now, s, n) \cup {n + 1}
          /\ more[n + 1].symbol # s =>
               Sequential!TicksOf(more, s, n + 1) = Sequential!TicksOf(now, s, n)
      BY <3>1, TicksAppended
    <3> QED BY <3>1, <3>2
  <2> HIDE DEF own, own2
  <2>6. ASSUME NEW s \in Symbols PROVE LaidOut(state_'[s], popped', own2(s))
    <3> DEFINE now == popped
               more == popped'
    <3>1. /\ LaidOut(state_[s], now, own(s)) /\ own(s) \in SUBSET (1 .. n)
          /\ \A k \in own(s) : more[k] = now[k]
      BY <1>1, <2>1, <2>5
    <3>2. more[n + 1] = dt
      BY <2>1
    <3> HIDE DEF now, more
    <3>3. CASE dt.symbol = s
      <4>1. LaidOut(st, now, own(s))
        BY <3>1, <3>3 DEF st
      <4>2. LaidOut(new, more, own(s) \cup {n + 1})
        BY <2>1, <2>2, <2>4, <3>1, <3>2, <4>1, UpdatedLayout
      <4> QED BY <2>5, <3>3, <4>2 DEF new, more
    <3>4. CASE dt.symbol # s
      <4>1. LaidOut(state_[s], more, own(s))
        <5>1. \A k \in own(s) : Mid(more[k]) = Mid(now[k])
          BY <3>1
        <5> QED BY <2>1, <3>1, <5>1, SameLayout
      <4> QED BY <2>3, <2>5, <3>4, <4>1 DEF more
    <3> QED BY <3>3, <3>4
  <2> QED BY <2>6
<1>4. CASE UNCHANGED <<popped, state_>>
  BY <1>1, <1>4
<1> QED BY <1>3, <1>4, OnlyTrade

\* The layout is an invariant.
LEMMA KeepsWindows ==
  ASSUME PipelineInv, [Next]_vars
  PROVE  WindowLayout'
<1>1. \A s \in Symbols :
        LaidOut(state_'[s], popped', Sequential!TicksOf(popped', s, Len(popped')))
  BY WindowsAfter
<1> QED BY <1>1 DEF WindowLayout, LaidOut, Sequential!TicksOf, Sequential!Number, Mid

-----------------------------------------------------------------------------
(* The positions: the reference replays the whole history.                 *)

\* The positions after the k-th tick, from those before it.
Stepped(before, history, k) ==
  [before EXCEPT ![history[k].symbol] =
     Sequential!Filled(@, Sequential!SideAt(history, k, @))]

\* f gives the positions of all symbols after each of the first n ticks.
Replays(f, history, n) ==
  f = [k \in 0 .. n |-> IF k = 0 THEN [s \in Symbols |-> 0]
                        ELSE Stepped(f[k - 1], history, k)]

\* The same, tick by tick.
Unfolds(f, history, n) ==
  /\ f[0] = [s \in Symbols |-> 0]
  /\ \A k \in 1 .. n : f[k] = Stepped(f[k - 1], history, k)

\* A replay, tick by tick.
LEMMA ReplayAt ==
  ASSUME NEW history, NEW n \in Nat, NEW f, Replays(f, history, n)
  PROVE  Unfolds(f, history, n)
<1> DEFINE body == [k \in 0 .. n |-> IF k = 0 THEN [s \in Symbols |-> 0]
                                     ELSE Stepped(f[k - 1], history, k)]
<1>1. f = body
  BY DEF Replays
<1>2. body[0] = [s \in Symbols |-> 0]
  OBVIOUS
<1>3. ASSUME NEW k \in 1 .. n PROVE body[k] = Stepped(f[k - 1], history, k)
  <2>1. k \in 0 .. n /\ k # 0
    OBVIOUS
  <2> QED BY <2>1
<1> HIDE DEF body
<1> QED BY <1>1, <1>2, <1>3 DEF Unfolds

\* Every history can be replayed.
LEMMA ReplayExists ==
  ASSUME NEW history, NEW n \in Nat
  PROVE  \E f : Replays(f, history, n)
<1> DEFINE P == {m \in Nat : \E f : Replays(f, history, m)}
<1>1. 0 \in P
  <2> DEFINE f == [k \in 0 .. 0 |-> [s \in Symbols |-> 0]]
  <2>1. f = [k \in 0 .. 0 |-> IF k = 0 THEN [s \in Symbols |-> 0]
                              ELSE Stepped(f[k - 1], history, k)]
    OBVIOUS
  <2>2. Replays(f, history, 0)
    BY <2>1 DEF Replays
  <2> QED BY <2>2
<1>2. ASSUME NEW m \in P PROVE m + 1 \in P
  <2>1. m \in Nat
    OBVIOUS
  <2>2. PICK f : Replays(f, history, m)
    OBVIOUS
  <2> DEFINE g == [k \in 0 .. m + 1 |-> IF k = m + 1 THEN Stepped(f[m], history, m + 1) ELSE f[k]]
  <2>3. \A k \in 0 .. m : f[k] = IF k = 0 THEN [s \in Symbols |-> 0]
                                 ELSE Stepped(f[k - 1], history, k)
    <3>1. Unfolds(f, history, m)
      BY <2>1, <2>2, ReplayAt
    <3>2. \A k \in 0 .. m : k # 0 => k \in 1 .. m
      BY <2>1
    <3> QED BY <3>1, <3>2 DEF Unfolds
  <2>4. \A k \in 0 .. m + 1 : g[k] = IF k = 0 THEN [s \in Symbols |-> 0]
                                     ELSE Stepped(g[k - 1], history, k)
    <3> SUFFICES ASSUME NEW k \in 0 .. m + 1
                 PROVE  g[k] = IF k = 0 THEN [s \in Symbols |-> 0]
                               ELSE Stepped(g[k - 1], history, k)
      OBVIOUS
    <3>1. CASE k = m + 1
      <4>1. k # 0 /\ k - 1 = m /\ m \in 0 .. m + 1 /\ m # m + 1 /\ g[m] = f[m]
        BY <2>1, <3>1
      <4>2. g[k] = Stepped(f[m], history, k)
        BY <3>1
      <4> HIDE DEF g
      <4> QED BY <4>1, <4>2
    <3>2. CASE k # m + 1
      <4>1. k \in 0 .. m /\ g[k] = f[k] /\ (k # 0 => k - 1 \in 0 .. m + 1 /\ k - 1 # m + 1)
        BY <2>1, <3>2
      <4>2. k # 0 => g[k - 1] = f[k - 1]
        BY <4>1
      <4> HIDE DEF g
      <4> QED BY <2>3, <4>1, <4>2
    <3> QED BY <3>1, <3>2
  <2>5. g = [k \in 0 .. m + 1 |-> g[k]]
    OBVIOUS
  <2> HIDE DEF g
  <2>6. g = [k \in 0 .. m + 1 |-> IF k = 0 THEN [s \in Symbols |-> 0]
                                  ELSE Stepped(g[k - 1], history, k)]
    BY <2>4, <2>5
  <2>7. Replays(g, history, m + 1)
    BY <2>6 DEF Replays
  <2> QED BY <2>1, <2>7
<1> HIDE DEF P
<1>3. P = Nat
  <2>1. P \in SUBSET Nat
    BY DEF P
  <2> QED BY <1>1, <1>2, <2>1, NatInductionSet
<1> QED BY <1>3 DEF P

\* The positions of the reference are a replay of the history.
LEMMA PositionsReplay ==
  ASSUME NEW history, Len(history) \in Nat
  PROVE  Replays(Sequential!Positions(history), history, Len(history))
<1> DEFINE f == CHOOSE f : Replays(f, history, Len(history))
<1>1. Replays(f, history, Len(history))
  BY ReplayExists
<1>2. Sequential!Positions(history) = f
  BY DEF Sequential!Positions, Replays, Stepped
<1> QED BY <1>1, <1>2

\* A step keeps the positions among -1, 0 and 1.
LEMMA SteppedType ==
  ASSUME NEW before, before \in [Symbols -> -1 .. 1], NEW history, NEW k
  PROVE  Stepped(before, history, k) \in [Symbols -> -1 .. 1]
<1> DEFINE a == history[k].symbol
           v == Sequential!Filled(before[a], Sequential!SideAt(history, k, before[a]))
<1>1. Stepped(before, history, k) = [before EXCEPT ![a] = v]
  BY DEF Stepped
<1>2. a \in Symbols => v \in -1 .. 1
  BY DEF Sequential!Filled
<1> HIDE DEF a, v
<1> QED BY <1>1, <1>2

\* Positions are -1, 0 or 1.
LEMMA ReplayType ==
  ASSUME NEW history, NEW n \in Nat, NEW f, Replays(f, history, n)
  PROVE  \A k \in 0 .. n : f[k] \in [Symbols -> -1 .. 1]
<1>0. /\ f[0] = [s \in Symbols |-> 0]
      /\ \A k \in 1 .. n : f[k] = Stepped(f[k - 1], history, k)
  <2>1. Unfolds(f, history, n)
    BY ReplayAt
  <2> QED BY <2>1 DEF Unfolds
<1> DEFINE P == {m \in Nat : m <= n => f[m] \in [Symbols -> -1 .. 1]}
<1>1. 0 \in P
  <2>1. [s \in Symbols |-> 0] \in [Symbols -> -1 .. 1]
    OBVIOUS
  <2> QED BY <1>0, <2>1
<1>2. ASSUME NEW m \in P PROVE m + 1 \in P
  <2>1. m \in Nat /\ m + 1 \in Nat
    OBVIOUS
  <2>2. ASSUME m + 1 <= n PROVE f[m + 1] \in [Symbols -> -1 .. 1]
    <3>1. m + 1 \in 1 .. n /\ (m + 1) - 1 = m /\ m <= n
      BY <2>1, <2>2
    <3>2. f[m] \in [Symbols -> -1 .. 1]
      BY <3>1
    <3>3. f[m + 1] = Stepped(f[m], history, m + 1)
      BY <1>0, <3>1
    <3> QED BY <3>2, <3>3, SteppedType
  <2> QED BY <2>1, <2>2
<1> HIDE DEF P
<1>3. P = Nat
  <2>1. P \in SUBSET Nat
    BY DEF P
  <2> QED BY <1>1, <1>2, <2>1, NatInductionSet
<1> QED BY <1>3 DEF P

\* What a tick makes its symbol do depends on the ticks up to it.
LEMMA SideContinued ==
  ASSUME NEW n \in Nat, NEW history, NEW more, Continues(more, history, n), NEW k \in 1 .. n
  PROVE  /\ \A p : Sequential!SideAt(more, k, p) = Sequential!SideAt(history, k, p)
         /\ \A before : Stepped(before, more, k) = Stepped(before, history, k)
<1>1. \A j \in 1 .. k : more[j] = history[j]
  BY DEF Continues
<1>2. more[k] = history[k]
  BY <1>1
<1> DEFINE s == history[k].symbol
           own == Sequential!TicksOf(history, s, k)
           last == Sequential!LastOf(own)
<1>3. Sequential!TicksOf(more, s, k) = own /\ own \subseteq 1 .. k
  BY <1>1 DEF Sequential!TicksOf
<1>4. last \subseteq own
  BY DEF Sequential!LastOf
<1>5. [j \in last |-> Sequential!Mid(more[j])] = [j \in last |-> Sequential!Mid(history[j])]
  BY <1>1, <1>3, <1>4
<1> HIDE DEF own, last
<1>6. \A p : Sequential!SideAt(more, k, p) = Sequential!SideAt(history, k, p)
  BY <1>2, <1>3, <1>5 DEF Sequential!SideAt, own, last
<1> QED BY <1>2, <1>6 DEF Stepped

\* A replay of a longer history begins with the replay of the shorter one.
LEMMA ReplayContinued ==
  ASSUME NEW n \in Nat, NEW m \in Nat, n <= m, NEW history, NEW more,
         Continues(more, history, n), NEW f, Replays(f, history, n), NEW g, Replays(g, more, m)
  PROVE  \A k \in 0 .. n : g[k] = f[k]
<1>0. /\ f[0] = [s \in Symbols |-> 0] /\ g[0] = [s \in Symbols |-> 0]
      /\ \A k \in 1 .. n : f[k] = Stepped(f[k - 1], history, k)
      /\ \A k \in 1 .. m : g[k] = Stepped(g[k - 1], more, k)
  <2>1. Unfolds(f, history, n) /\ Unfolds(g, more, m)
    BY ReplayAt
  <2> QED BY <2>1 DEF Unfolds
<1> DEFINE P == {k \in Nat : k <= n => g[k] = f[k]}
<1>1. 0 \in P
  BY <1>0
<1>2. ASSUME NEW k \in P PROVE k + 1 \in P
  <2> SUFFICES ASSUME k + 1 <= n PROVE g[k + 1] = f[k + 1]
    OBVIOUS
  <2>1. /\ k \in Nat /\ k + 1 \in 1 .. n /\ k + 1 \in 1 .. m /\ (k + 1) - 1 = k
        /\ g[k] = f[k]
    OBVIOUS
  <2>2. f[k + 1] = Stepped(f[k], history, k + 1) /\ g[k + 1] = Stepped(g[k], more, k + 1)
    BY <1>0, <2>1
  <2>4. Stepped(f[k], more, k + 1) = Stepped(f[k], history, k + 1)
    BY <2>1, SideContinued
  <2> QED BY <2>1, <2>2, <2>4
<1> HIDE DEF P
<1>3. P = Nat
  <2>1. P \in SUBSET Nat
    BY DEF P
  <2> QED BY <1>1, <1>2, <2>1, NatInductionSet
<1> QED BY <1>3 DEF P

\* The positions after one tick more.
LEMMA PositionsAppended ==
  ASSUME NEW history, NEW more, NEW n \in Nat, Len(history) = n, Len(more) = n + 1,
         Continues(more, history, n)
  PROVE  /\ Sequential!Positions(more)[n] = Sequential!Positions(history)[n]
         /\ Sequential!Positions(more)[n + 1] =
              Stepped(Sequential!Positions(history)[n], more, n + 1)
         /\ Sequential!Positions(history)[n] \in [Symbols -> -1 .. 1]
<1> DEFINE f == Sequential!Positions(history)
           g == Sequential!Positions(more)
<1>1. Replays(f, history, n) /\ Replays(g, more, n + 1)
  BY PositionsReplay
<1> HIDE DEF f, g
<1>2. n \in 0 .. n /\ n + 1 \in 1 .. n + 1 /\ (n + 1) - 1 = n /\ n <= n + 1
  OBVIOUS
<1>3. g[n] = f[n]
  BY <1>1, <1>2, ReplayContinued
<1>4. g[n + 1] = Stepped(g[n], more, n + 1)
  <2>1. Unfolds(g, more, n + 1)
    BY <1>1, ReplayAt
  <2> QED BY <1>2, <2>1 DEF Unfolds
<1>5. f[n] \in [Symbols -> -1 .. 1]
  BY <1>1, <1>2, ReplayType
<1> QED BY <1>3, <1>4, <1>5 DEF f, g

\* The history is what was popped, without the indices.
HistoryCopied ==
  /\ Len(History) = Len(popped) /\ Len(popped) \in Nat /\ History \in Seq(WireTick)
  /\ \A k \in 1 .. Len(popped) :
       History[k] = [symbol |-> popped[k].symbol, bid |-> popped[k].bid, ask |-> popped[k].ask]

\* It is in every well-typed state.
LEMMA HistoryIs == TypeOK => HistoryCopied
<1> SUFFICES ASSUME TypeOK PROVE HistoryCopied
  OBVIOUS
<1>1. popped \in Seq(Items) /\ Len(popped) \in Nat /\ DOMAIN popped = 1 .. Len(popped)
  BY DEF TypeOK, RingTypeOK
<1>2. \A k \in 1 .. Len(popped) : popped[k] \in Items
  BY <1>1
<1>3. ASSUME NEW item \in Items
      PROVE  [symbol |-> item.symbol, bid |-> item.bid, ask |-> item.ask] \in WireTick
  <2>1. PICK feed \in Feeds : \E j \in DOMAIN feed : item = Decode(feed, j - 1)
    BY RingOfTicks DEF Decoded
  <2>2. PICK j \in DOMAIN feed : item = Decode(feed, j - 1)
    BY <2>1
  <2>3. feed \in Seq(WireTick)
    BY FeedsAssumption
  <2>4. feed[j] \in WireTick /\ (j - 1) + 1 = j
    BY <2>3
  <2> QED BY <2>2, <2>4 DEF Decode, WireTick
<1> QED BY <1>1, <1>2, <1>3 DEF History, HistoryCopied

\* A tick that is traded extends the history.
LEMMA HistoryAppended ==
  ASSUME PipelineInv, TypeOK', Trade
  PROVE  /\ Len(popped) \in Nat /\ Len(History) = Len(popped) /\ Len(History') = Len(popped) + 1
         /\ Continues(History', History, Len(popped))
         /\ History'[Len(popped) + 1] = in[traded + 1]
         /\ History'[Len(popped) + 1].symbol = cons.out.symbol
         /\ History' = Append(History, in[traded + 1])
         /\ \A k \in 1 .. Len(popped) + 1 :
              History'[k].symbol = popped'[k].symbol /\ Mid(History'[k]) = Mid(popped'[k])
<1> DEFINE n == Len(popped)
           H == History
           M == History'
<1>1. TypeOK
  BY DEF PipelineInv
<1>2. /\ n \in Nat /\ Len(H) = n /\ H \in Seq(WireTick)
      /\ \A k \in 1 .. n : H[k] = [symbol |-> popped[k].symbol, bid |-> popped[k].bid,
                                   ask |-> popped[k].ask]
  BY <1>1, HistoryIs DEF HistoryCopied
<1>3. /\ Len(M) = Len(popped') /\ M \in Seq(WireTick)
      /\ \A k \in 1 .. Len(popped') :
           M[k] = [symbol |-> popped'[k].symbol, bid |-> popped'[k].bid, ask |-> popped'[k].ask]
  <2>1. HistoryCopied'
    BY HistoryIs, PTL
  <2> QED BY <2>1 DEF HistoryCopied
<1>4. /\ Len(popped') = n + 1 /\ popped'[n + 1] = cons.out /\ in[traded + 1] \in WireTick
      /\ cons.out = Decode(in, traded) /\ \A k \in 1 .. n : popped'[k] = popped[k]
  BY TradeSteps
<1> HIDE DEF n, H, M
<1>5. Continues(M, H, n)
  BY <1>2, <1>3, <1>4 DEF Continues
<1>6. M[n + 1] = in[traded + 1] /\ M[n + 1].symbol = cons.out.symbol
  <2>1. M[n + 1] = [symbol |-> cons.out.symbol, bid |-> cons.out.bid, ask |-> cons.out.ask]
    BY <1>2, <1>3, <1>4
  <2>2. /\ cons.out.symbol = in[traded + 1].symbol /\ cons.out.bid = in[traded + 1].bid
        /\ cons.out.ask = in[traded + 1].ask
    BY <1>4 DEF Decode
  <2> QED BY <2>1, <2>2, <1>4 DEF WireTick
<1>7. M = Append(H, in[traded + 1])
  <2>1. \A k \in 1 .. n : M[k] = H[k]
    BY <1>5 DEF Continues
  <2> QED BY <1>2, <1>3, <1>4, <1>6, <2>1
<1>8. \A k \in 1 .. n + 1 : M[k].symbol = popped'[k].symbol /\ Mid(M[k]) = Mid(popped'[k])
  BY <1>3, <1>4 DEF Mid
<1> QED BY <1>2, <1>3, <1>4, <1>5, <1>6, <1>7, <1>8 DEF n, H, M

\* process_tick does what the reference does at that point of the history.
LEMMA TradedSide ==
  ASSUME PipelineInv, TypeOK', Trade
  PROVE  Decides(cons.out, Sequential!SideAt(History', Len(popped) + 1,
                                             state_[cons.out.symbol].position))
<1> DEFINE n == Len(popped)
           M == History'
           more == popped'
           dt == cons.out
           new == state_'[dt.symbol]
           p == state_[dt.symbol].position
           own == Sequential!TicksOf(more, dt.symbol, n + 1)
<1>1. /\ n \in Nat /\ M[n + 1].symbol = dt.symbol
      /\ \A k \in 1 .. n + 1 : M[k].symbol = more[k].symbol /\ Mid(M[k]) = Mid(more[k])
  BY HistoryAppended
<1>2. /\ dt \in [symbol : Symbols, bid : Int, ask : Int, tick_index : Nat]
      /\ ProcessTick(dt) /\ Len(more) = n + 1 /\ more[n + 1] = dt
  BY TradeSteps
<1>3. TypeOK /\ new \in SymbolState /\ Mid(dt) \in Int
  <2>1. TypeOK /\ dt.symbol \in Symbols /\ Mid(dt) \in Int
    BY <1>2 DEF PipelineInv, Mid
  <2>2. state_' \in [Symbols -> SymbolState]
    BY <1>2, <2>1, ProcessTickSteps
  <2> QED BY <2>1, <2>2
<1>4. Decides(dt, IF new.count < Window THEN "NONE" ELSE Signal(new.window, Mid(dt), p))
  BY <1>2, <1>3, ProcessTickWindow
<1>5. LaidOut(new, more, own)
  <2>1. Next
    BY DEF Next, ConsumerNext
  <2> QED BY <1>2, <2>1, WindowsAfter
<1> HIDE DEF n, M, more, dt, new, p
<1>6. Sequential!TicksOf(M, dt.symbol, n + 1) = own /\ own \in SUBSET (1 .. n + 1)
  BY <1>1 DEF Sequential!TicksOf
<1> HIDE DEF own
<1>7. LaidOut(new, M, own)
  <2>1. \A k \in own : Mid(M[k]) = Mid(more[k])
    BY <1>1, <1>6
  <2>2. n + 1 \in Nat
    BY <1>1
  <2> QED BY <1>5, <1>6, <2>1, <2>2, SameLayout
<1>8. n + 1 \in Nat \ {0} /\ n + 1 \in 1 .. n + 1
  BY <1>1
<1>9. Mid(M[n + 1]) = Mid(dt)
  BY <1>1, <1>2, <1>8
<1>10. Sequential!SideAt(M, n + 1, p)
       = IF new.count < Window THEN "NONE" ELSE Signal(new.window, Mid(dt), p)
  BY <1>1, <1>3, <1>6, <1>7, <1>8, <1>9, SideOfLayout
<1> QED BY <1>4, <1>10 DEF n, M, dt, p

\* The positions of the state are those of the replay.
LEMMA KeepsPositions ==
  ASSUME PipelineInv, TypeOK', [Next]_vars
  PROVE  PositionsReplayed'
<1> DEFINE n == Len(popped)
           H == History
           M == History'
<1>1. TypeOK /\ \A s \in Symbols : state_[s].position = Sequential!Positions(H)[n][s]
  BY DEF PipelineInv, PositionsReplayed
<1>2. SUFFICES \A s \in Symbols : state_'[s].position = Sequential!Positions(M)[Len(popped')][s]
  BY DEF PositionsReplayed
<1>3. CASE Trade
  <2> DEFINE dt == cons.out
             old == Sequential!Positions(H)[n]
             side == Sequential!SideAt(M, n + 1, state_[dt.symbol].position)
  <2>1. /\ n \in Nat /\ Len(H) = n /\ Len(M) = n + 1 /\ Continues(M, H, n)
        /\ M[n + 1].symbol = dt.symbol
    BY <1>3, HistoryAppended
  <2>2. Sequential!Positions(M)[n + 1] = Stepped(old, M, n + 1) /\ old \in [Symbols -> -1 .. 1]
    <3> HIDE DEF n, H, M
    <3> QED BY <2>1, PositionsAppended
  <2>3. /\ dt \in [symbol : Symbols, bid : Int, ask : Int, tick_index : Nat]
        /\ ProcessTick(dt) /\ Len(popped') = n + 1
    BY <1>3, TradeSteps
  <2>4. Decides(dt, side)
    BY <1>3, TradedSide
  <2>5. \A s \in Symbols \ {dt.symbol} : state_'[s] = state_[s]
    BY <1>1, <2>3, ProcessTickSteps
  <2>6. state_'[dt.symbol].position = Filled(state_[dt.symbol].position, side)
    BY <2>4 DEF Decides
  <2>7. Stepped(old, M, n + 1) = [old EXCEPT ![dt.symbol] = Filled(@, side)]
    BY <1>1, <2>1, <2>3, SequentialOperators DEF Stepped
  <2> HIDE DEF side, old, n, H, M, dt
  <2>8. \A s \in Symbols : state_[s].position = old[s]
    BY <1>1 DEF old
  <2>9. ASSUME NEW s \in Symbols
        PROVE  state_'[s].position = Sequential!Positions(M)[Len(popped')][s]
    <3> DEFINE later == Sequential!Positions(M)[n + 1]
               moved == Filled(old[dt.symbol], side)
    <3>1. later = [old EXCEPT ![dt.symbol] = moved] /\ old \in [Symbols -> -1 .. 1]
      BY <2>2, <2>7
    <3>2. dt.symbol \in Symbols /\ state_'[dt.symbol].position = moved
      BY <2>3, <2>6, <2>8
    <3>3. s # dt.symbol => state_'[s].position = old[s]
      BY <2>5, <2>8
    <3>4. Sequential!Positions(M)[Len(popped')] = later
      BY <2>3
    <3> HIDE DEF later, moved
    <3> QED BY <3>1, <3>2, <3>3, <3>4
  <2> QED BY <2>9
<1>4. CASE UNCHANGED <<popped, state_>>
  BY <1>1, <1>4 DEF History
<1> QED BY <1>3, <1>4, OnlyTrade

-----------------------------------------------------------------------------
(* The theorems.                                                           *)

\* The initial state satisfies the invariant.
LEMMA PipelineInitInv ==
  ASSUME Init
  PROVE  PipelineInv
<1>1. RingInv /\ RingTypeOK
  BY InitInv DEF Init, RingInv
<1>2. EmptyState \in SymbolState
  BY WindowAssumption DEF EmptyState, SymbolState
<1>3. Len(<<>>) = 0 /\ <<>> \in Seq(Order) /\ <<>> \in Seq([val : BOOLEAN, tail : Nat])
  OBVIOUS
<1>4. TypeOK
  BY <1>1, <1>2, <1>3, RunsAssumption DEF Init, TypeOK
<1>5. prod.pc = "idle" /\ cons.pc = "idle" /\ Len(pushed) = 0 /\ Len(popped) = 0
  BY <1>3 DEF Init, RingInit
<1>6. Threads
  BY <1>5 DEF Init, Threads
<1>7. FlagStores
  BY <1>3 DEF Init, FlagStores
<1>8. TicksInFlight
  BY <1>3, <1>5 DEF Init, TicksInFlight
<1>9. DoneSeen
  BY DEF Init, DoneSeen
<1>10. WindowLayout
  <2> SUFFICES ASSUME NEW s \in Symbols
               PROVE  LaidOut(state_[s], popped, Sequential!TicksOf(popped, s, Len(popped)))
    BY DEF WindowLayout
  <2>1. Sequential!TicksOf(popped, s, Len(popped)) = {}
    BY <1>5 DEF Sequential!TicksOf
  <2>2. Cardinality({}) = 0 /\ 0 % Window = 0 /\ 0 < Window
    BY WindowAssumption, ModSmall, FS_EmptySet
  <2>3. /\ state_[s].head = 0 /\ state_[s].count = 0
        /\ \A i \in 0 .. Window - 1 : state_[s].window[i] = 0
    BY DEF Init, EmptyState
  <2>4. \A i : Held({}, i) = {}
    BY DEF Held
  <2> QED BY <2>1, <2>2, <2>3, <2>4, LaidOutIs
<1>11. PositionsReplayed
  <2> DEFINE H == History
             f == Sequential!Positions(H)
  <2>1. Len(H) = 0
    BY <1>4, <1>5, HistoryIs DEF HistoryCopied
  <2>2. Unfolds(f, H, 0)
    <3>1. Replays(f, H, 0)
      <4> HIDE DEF H
      <4>1. Len(H) \in Nat
        BY <2>1
      <4>2. Replays(f, H, Len(H))
        BY <4>1, PositionsReplay
      <4> QED BY <2>1, <4>2
    <3> HIDE DEF f, H
    <3> QED BY <3>1, ReplayAt
  <2>3. f[0] = [s \in Symbols |-> 0]
    BY <2>2 DEF Unfolds
  <2>4. \A s \in Symbols : state_[s].position = 0
    BY DEF Init, EmptyState
  <2> HIDE DEF f
  <2> QED BY <1>5, <2>3, <2>4 DEF PositionsReplayed, f
<1> QED BY <1>1, <1>4, <1>6, <1>7, <1>8, <1>9, <1>10, <1>11 DEF PipelineInv

\* The inductive invariant holds throughout every behaviour of the pipeline.
THEOREM PipelineInvariant == Spec => []PipelineInv
<1>1. PipelineInv /\ [Next]_vars => PipelineInv'
  <2> SUFFICES ASSUME PipelineInv, [Next]_vars PROVE PipelineInv'
    OBVIOUS
  <2>1. CASE Next
    <3>1. RingInv' /\ TypeOK' /\ Threads' /\ FlagStores' /\ TicksInFlight' /\ DoneSeen'
      BY <2>1, KeepsRingInv, KeepsTypes, KeepsThreads, KeepsFlagStores, KeepsTicksInFlight,
         KeepsDoneSeen
    <3>2. WindowLayout' /\ PositionsReplayed'
      BY <3>1, KeepsWindows, KeepsPositions
    <3> QED BY <3>1, <3>2 DEF PipelineInv
  <2>2. CASE UNCHANGED vars
    <3>1. RingInv'
      BY KeepsRingInv
    <3>2. TypeOK' /\ Threads' /\ FlagStores' /\ TicksInFlight' /\ DoneSeen'
      BY <2>2 DEF PipelineInv, vars, ringVars, producerVars, consumerVars, TypeOK, RingTypeOK,
                  Threads, FlagStores, TicksInFlight, DoneSeen, Decode
    <3>3. WindowLayout' /\ PositionsReplayed'
      BY <3>2, KeepsWindows, KeepsPositions
    <3> QED BY <3>1, <3>2, <3>3 DEF PipelineInv
  <2> QED BY <2>1, <2>2
<1> QED BY PipelineInitInv, <1>1, PTL DEF Spec

\* Every variable of the pipeline keeps its type: positions stay within -1 .. 1, heads in
\* their windows, loop variables in the input.
THEOREM PipelineTypes == Spec => []TypeOK
<1>1. PipelineInv => TypeOK
  BY DEF PipelineInv
<1> QED BY PipelineInvariant, <1>1, PTL

\* The pipeline uses its ring as SpscRing allows, over any number of calls of run() on one
\* object, so that all theorems about the ring hold of the pipeline's ring.
THEOREM PipelineRingIntact == Spec => RingIntact
<1>1. Init => RingInit
  BY DEF Init
<1>2. PipelineInv /\ [Next]_vars => [RingNext]_ringVars
  BY StepsOfRing
<1> QED BY <1>1, <1>2, PipelineInvariant, PTL DEF Spec, RingIntact, RingSpec

\* When the consumer leaves its loop, every tick of the input was traded: seeing the flag
\* set and then the ring empty means the end, whatever stale indices were loaded before.
THEOREM PipelineNothingLeftBehind == Spec => []NothingLeftBehind
<1>1. PipelineInv => NothingLeftBehind
  <2> SUFFICES ASSUME PipelineInv, consumer = "join"
               PROVE  traded = Len(in) /\ popped = pushed
    BY DEF NothingLeftBehind
  <2>1. RingInv /\ TypeOK /\ Threads /\ TicksInFlight /\ DoneSeen
    BY DEF PipelineInv
  <2>2. Len(popped) = Len(pushed) /\ next = Len(in)
    BY <2>1 DEF DoneSeen, Threads
  <2>3. traded = Len(in)
    BY <2>1, <2>2, InputTicks DEF TicksInFlight, TypeOK, RingTypeOK
  <2>4. popped = pushed
    BY <2>1, <2>2, SeqEqual DEF RingInv, FifoOrder, RingTypeOK
  <2> QED BY <2>3, <2>4
<1> QED BY PipelineInvariant, <1>1, PTL

\* Every slot of every window holds the latest mid whose number is the slot's modulo Window,
\* after any number of calls of run() on the same object.
THEOREM PipelineWindowLayout == Spec => []WindowLayout
<1>1. PipelineInv => WindowLayout
  BY DEF PipelineInv
<1> QED BY PipelineInvariant, <1>1, PTL

-----------------------------------------------------------------------------
(* The orders of a call.                                                   *)

\* The orders placed are finitely many, and none beyond the last one.
LEMMA PlacedFinite ==
  ASSUME TypeOK, NEW from \in Nat, NEW s, NEW side
  PROVE  /\ IsFiniteSet(Placed(s, side, from)) /\ Cardinality(Placed(s, side, from)) \in Nat
         /\ from > Len(orders) => Cardinality(Placed(s, side, from)) = 0
<1>1. Len(orders) \in Nat
  BY DEF TypeOK
<1>2. IsFiniteSet(from .. Len(orders))
  BY <1>1, FS_Interval
<1>3. Placed(s, side, from) \in SUBSET (from .. Len(orders))
  BY DEF Placed
<1>4. IsFiniteSet(Placed(s, side, from))
  BY <1>2, <1>3, FS_Subset
<1>5. ASSUME from > Len(orders) PROVE Placed(s, side, from) = {}
  BY <1>1, <1>3, <1>5
<1> QED BY <1>4, <1>5, FS_CardinalityType, FS_EmptySet

\* One more order is counted for its own symbol and side.
LEMMA OneMorePlaced ==
  ASSUME TypeOK, NEW order \in Order, orders' = Append(orders, order),
         NEW from \in 1 .. Len(orders) + 1, NEW s, NEW side
  PROVE  Cardinality(Placed(s, side, from)') =
           IF order.symbol = s /\ order.side = side
           THEN Cardinality(Placed(s, side, from)) + 1
           ELSE Cardinality(Placed(s, side, from))
<1> DEFINE n == Len(orders)
           old == Placed(s, side, from)
           new == Placed(s, side, from)'
<1>1. /\ n \in Nat /\ Len(orders') = n + 1 /\ orders'[n + 1] = order
      /\ \A k \in 1 .. n : orders'[k] = orders[k]
  BY AppendProperties DEF TypeOK
<1>2. /\ old = {k \in from .. n : orders[k].symbol = s /\ orders[k].side = side}
      /\ new = {k \in from .. n + 1 : orders'[k].symbol = s /\ orders'[k].side = side}
  BY <1>1 DEF Placed
<1>3. from .. n + 1 = (from .. n) \cup {n + 1} /\ n + 1 \notin from .. n
  BY <1>1
<1>4. from .. n \subseteq 1 .. n
  BY <1>1
<1>5. IsFiniteSet(old) /\ n + 1 \notin old
  <2>1. from \in Nat
    BY <1>1
  <2> QED BY <1>2, <1>3, <2>1, PlacedFinite
<1> HIDE DEF n, old, new
<1>6. CASE order.symbol = s /\ order.side = side
  <2>1. new = old \cup {n + 1}
    BY <1>1, <1>2, <1>3, <1>4, <1>6
  <2>2. Cardinality(new) = Cardinality(old) + 1
    BY <1>5, <2>1, FS_AddElement
  <2> QED BY <1>6, <2>2 DEF old, new
<1>7. CASE ~(order.symbol = s /\ order.side = side)
  <2>1. new = old
    BY <1>1, <1>2, <1>3, <1>4, <1>7
  <2> QED BY <1>7, <2>1 DEF old, new
<1> QED BY <1>6, <1>7

\* Going back through the orders of a symbol, its position stays within -1 .. 1, also from
\* the place behind the last one.
LEMMA PositionAt ==
  ASSUME TypeOK, OrdersConsistent, NEW s \in Symbols, NEW k \in 1 .. Len(orders) + 1
  PROVE  /\ state_[s].position - Bought(s, k) \in -1 .. 1
         /\ Bought(s, k) \in Int /\ state_[s].position \in -1 .. 1
<1>1. state_[s].position \in -1 .. 1 /\ Len(orders) \in Nat /\ DOMAIN orders = 1 .. Len(orders)
  BY DEF TypeOK, SymbolState
<1>2. Bought(s, k) \in Int
  BY PlacedFinite DEF Bought
<1>3. CASE k = Len(orders) + 1
  <2>1. Bought(s, k) = 0
    BY <1>1, <1>3, PlacedFinite DEF Bought
  <2> QED BY <1>1, <2>1
<1>4. CASE k \in DOMAIN orders
  BY <1>1, <1>2, <1>4 DEF OrdersConsistent
<1> QED BY <1>1, <1>3, <1>4

\* Trading a tick keeps the orders consistent.
LEMMA TradeKeepsOrders ==
  ASSUME PipelineInv, OrdersConsistent, Trade
  PROVE  OrdersConsistent'
<1> DEFINE dt == cons.out
           n == Len(orders)
<1>1. RingInv /\ TypeOK
  BY DEF PipelineInv
<1>2. /\ ProcessTick(dt) /\ traded' = traded + 1 /\ in' = in /\ cons.pc = "publish"
  BY <1>1, PopSteps DEF Trade
<1>3. /\ traded \in Nat /\ dt = Decode(in, traded) /\ in[traded + 1] \in WireTick
  BY <1>2, TradedTick
<1>4. dt \in [symbol : Symbols, bid : Int, ask : Int, tick_index : Nat]
  BY <1>3 DEF Decode, WireTick
<1>5. /\ orders \in Seq(Order) /\ n \in Nat /\ DOMAIN orders = 1 .. n
      /\ \A k \in 1 .. n : orders[k].tick_index \in Nat
  <2>1. orders \in Seq(Order)
    BY <1>1 DEF TypeOK
  <2>2. \A k \in 1 .. n : orders[k] \in Order
    BY <2>1
  <2> QED BY <2>1, <2>2 DEF Order
<1>6. \A s \in Symbols \ {dt.symbol} : state_'[s] = state_[s]
  BY <1>1, <1>2, <1>4, ProcessTickSteps
<1>7. CASE orders' = orders /\ state_'[dt.symbol].position = state_[dt.symbol].position
  <2>1. \A s \in Symbols : /\ state_'[s].position = state_[s].position
                           /\ \A k \in DOMAIN orders : Bought(s, k)' = Bought(s, k)
    BY <1>6, <1>7 DEF Bought, Placed
  <2> QED BY <1>2, <1>3, <1>5, <1>7, <2>1 DEF OrdersConsistent
<1>8. ASSUME NEW side \in {"BUY", "SELL"},
             orders' = Append(orders, OrderFor(dt.tick_index, dt, side)),
             OrderFor(dt.tick_index, dt, side) \in Order,
             state_'[dt.symbol].position = Filled(state_[dt.symbol].position, side),
             state_[dt.symbol].position > 0 => side = "SELL",
             state_[dt.symbol].position < 0 => side = "BUY"
      PROVE  OrdersConsistent'
  <2> DEFINE order == OrderFor(dt.tick_index, dt, side)
             delta == IF side = "BUY" THEN 1 ELSE -1
  <2>1. /\ order.tick_index = traded /\ order.symbol = dt.symbol /\ order.side = side
        /\ order.price = IF side = "SELL" THEN in[traded + 1].bid ELSE in[traded + 1].ask
        /\ dt.symbol = in[traded + 1].symbol /\ order \in Order
    BY <1>3, <1>8 DEF OrderFor, Decode
  <2>2. orders' = Append(orders, order)
    BY <1>8
  <2> HIDE DEF order
  <2>3. /\ Len(orders') = n + 1 /\ DOMAIN orders' = 1 .. n + 1 /\ orders'[n + 1] = order
        /\ \A k \in 1 .. n : orders'[k] = orders[k]
    BY <1>5, <2>1, <2>2, AppendProperties
  <2>4. ASSUME NEW k \in 1 .. n + 1
        PROVE  /\ orders'[k].tick_index < traded'
               /\ orders'[k].symbol = in[orders'[k].tick_index + 1].symbol
               /\ orders'[k].price = IF orders'[k].side = "SELL"
                                     THEN in[orders'[k].tick_index + 1].bid
                                     ELSE in[orders'[k].tick_index + 1].ask
               /\ k > 1 => orders'[k - 1].tick_index < orders'[k].tick_index
    <3>1. CASE k \in 1 .. n
      <4>1. orders'[k] = orders[k] /\ (k > 1 => orders'[k - 1] = orders[k - 1])
        BY <1>5, <2>3, <3>1
      <4>2. /\ orders[k].tick_index < traded
            /\ orders[k].symbol = in[orders[k].tick_index + 1].symbol
            /\ orders[k].price = IF orders[k].side = "SELL"
                                 THEN in[orders[k].tick_index + 1].bid
                                 ELSE in[orders[k].tick_index + 1].ask
            /\ k > 1 => orders[k - 1].tick_index < orders[k].tick_index
        BY <1>5, <3>1 DEF OrdersConsistent
      <4>3. orders[k].tick_index < traded'
        BY <1>2, <1>3, <1>5, <3>1, <4>2
      <4> QED BY <4>1, <4>2, <4>3
    <3>2. CASE k = n + 1
      <4>1. k > 1 => k - 1 \in 1 .. n
        BY <1>5, <3>2
      <4>2. k > 1 => orders'[k - 1].tick_index < traded
        BY <1>5, <2>3, <4>1 DEF OrdersConsistent
      <4> QED BY <1>2, <1>3, <2>1, <2>3, <3>2, <4>2
    <3> QED BY <1>5, <3>1, <3>2
  <2>5. ASSUME NEW s \in Symbols, NEW k \in 1 .. n + 1
        PROVE  state_'[s].position - Bought(s, k)' \in -1 .. 1
    <3>1. /\ state_[s].position - Bought(s, k) \in -1 .. 1
          /\ Bought(s, k) \in Int /\ state_[s].position \in -1 .. 1
      BY <1>1, PositionAt
    <3>2. /\ Cardinality(Placed(s, "BUY", k)) \in Nat
          /\ Cardinality(Placed(s, "SELL", k)) \in Nat
      BY <1>1, PlacedFinite
    <3>3. \A sd \in {"BUY", "SELL"} :
             Cardinality(Placed(s, sd, k)') = IF s = dt.symbol /\ sd = side
                                              THEN Cardinality(Placed(s, sd, k)) + 1
                                              ELSE Cardinality(Placed(s, sd, k))
      BY <1>1, <2>1, <2>2, OneMorePlaced
    <3>4. Bought(s, k)' = Cardinality(Placed(s, "BUY", k)') - Cardinality(Placed(s, "SELL", k)')
      BY DEF Bought
    <3>5. CASE s = dt.symbol
      <4>1. Bought(s, k)' = Bought(s, k) + delta
        BY <3>2, <3>3, <3>4, <3>5 DEF Bought
      <4>2. state_'[s].position = state_[s].position + delta
        BY <1>8, <3>1, <3>5 DEF Filled
      <4> QED BY <3>1, <4>1, <4>2
    <3>6. CASE s # dt.symbol
      <4>1. Bought(s, k)' = Bought(s, k)
        BY <3>3, <3>4, <3>6 DEF Bought
      <4>2. state_'[s] = state_[s]
        BY <1>6, <3>6
      <4> QED BY <3>1, <4>1, <4>2
    <3> QED BY <3>5, <3>6
  <2> QED BY <1>2, <2>3, <2>4, <2>5 DEF OrdersConsistent
<1> QED BY <1>1, <1>2, <1>4, <1>7, <1>8, ProcessTickSteps

\* The orders of a call are priced by their own ticks, in the order of the ticks, and add up
\* to the positions, for any window and any feeds.
THEOREM PipelineOrdersConsistent == Spec => []OrdersConsistent
<1>1. Init => OrdersConsistent
  BY DEF Init, OrdersConsistent
<1>2. PipelineInv /\ OrdersConsistent /\ [Next]_vars => OrdersConsistent'
  <2> SUFFICES ASSUME PipelineInv, OrdersConsistent, [Next]_vars PROVE OrdersConsistent'
    OBVIOUS
  <2>1. CASE Trade
    BY <2>1, TradeKeepsOrders
  <2>2. CASE \E feed \in Feeds : Run(feed)
    <3>1. orders' = <<>>
      BY <2>2 DEF Run
    <3> QED BY <3>1 DEF OrdersConsistent
  <2>3. CASE UNCHANGED <<in, traded, state_, orders>>
    BY <2>3 DEF OrdersConsistent, Bought, Placed
  <2>4. Trade \/ (\E feed \in Feeds : Run(feed)) \/ UNCHANGED <<in, traded, state_, orders>>
    BY DEF Next, ProducerNext, ConsumerNext, TryPush, WriteSlot, PublishTick, Finish, TestRoom,
           TryPop, ReadSlot, Join, TickAvailable, NoTickAvailable, LoadDone, Terminated,
           vars, consumerVars
  <2> QED BY <2>1, <2>2, <2>3, <2>4
<1> QED BY <1>1, <1>2, PipelineInvariant, PTL DEF Spec

-----------------------------------------------------------------------------
(* The sequential pipeline.                                                *)

\* The steps that change what the caller of the pipeline sees.
LEMMA VisibleSteps ==
  ASSUME PipelineInv, [Next]_vars
  PROVE  \/ Trade \/ Join
         \/ \E feed \in Feeds : Run(feed)
         \/ UNCHANGED <<consumer # "idle", in, traded, popped, orders>>
<1>1. RingInv /\ Threads
  BY DEF PipelineInv
<1>2. CASE TryPush \/ WriteSlot \/ PublishTick \/ \E i \in DOMAIN head_ : TestRoom(i)
  BY <1>1, <1>2, PushSteps DEF TryPush, WriteSlot, PublishTick, TestRoom, consumerVars
<1>3. CASE TryPop \/ ReadSlot \/ \E i \in DOMAIN tail_ : TickAvailable(i)
  BY <1>1, <1>3, PopSteps DEF TryPop, ReadSlot, TickAvailable, consumerVars
<1>4. CASE \E i \in DOMAIN tail_ : NoTickAvailable(i)
  <2>1. PICK i \in DOMAIN tail_ : NoTickAvailable(i)
    BY <1>4
  <2>2. cons.pc = "check" /\ UNCHANGED <<in, traded, popped, orders>> /\ consumer' \in {"flag", "join"}
    BY <1>1, <2>1, PopSteps DEF NoTickAvailable
  <2> QED BY <1>1, <2>2 DEF Threads
<1>5. CASE \E k \in DOMAIN producer_done : LoadDone(k)
  BY <1>1, <1>5, PopSteps DEF LoadDone, ringVars
<1>6. CASE Finish \/ Terminated \/ UNCHANGED vars
  BY <1>6 DEF Finish, Terminated, vars, ringVars, consumerVars
<1> QED BY <1>2, <1>3, <1>4, <1>5, <1>6 DEF Next, ProducerNext, ConsumerNext

\* Trading a tick is the reference's step.
LEMMA TradeIsSequential ==
  ASSUME PipelineInv, TypeOK', Trade
  PROVE  Sequential!Trade
<1> DEFINE n == Len(popped)
           H == History
           M == History'
           tick == in[traded + 1]
           dt == cons.out
           p == state_[dt.symbol].position
           side == Sequential!SideAt(M, n + 1, p)
<1>1. RingInv /\ TypeOK /\ Threads /\ PositionsReplayed
  BY DEF PipelineInv
<1>2. /\ dt \in [symbol : Symbols, bid : Int, ask : Int, tick_index : Nat]
      /\ dt = Decode(in, traded) /\ traded \in Nat /\ traded < Len(in)
  BY TradeSteps
<1>3. /\ n \in Nat /\ Len(H) = n /\ Len(M) = n + 1 /\ Continues(M, H, n)
      /\ M[n + 1] = tick /\ M[n + 1].symbol = dt.symbol /\ M = Append(H, tick)
  BY HistoryAppended
<1>4. Decides(dt, side)
  BY TradedSide
<1>5. p = Sequential!Positions(M)[n][tick.symbol]
  <2>1. Sequential!Positions(M)[n] = Sequential!Positions(H)[n]
    <3> HIDE DEF n, H, M
    <3> QED BY <1>3, PositionsAppended
  <2>2. p = Sequential!Positions(H)[n][dt.symbol]
    BY <1>1, <1>2 DEF PositionsReplayed
  <2> QED BY <1>3, <2>1, <2>2
<1>6. Sequential!Emitted(M, traded)
      = IF side = "NONE" THEN <<>> ELSE <<Sequential!OrderFor(traded, tick, side)>>
  <2>1. side = Sequential!SideAt(M, n + 1, p)
    OBVIOUS
  <2> HIDE DEF n, M, tick, p, side
  <2>2. Len(M) = n + 1 /\ Len(M) - 1 = n /\ M[Len(M)] = tick
    BY <1>3
  <2> QED BY <1>5, <2>1, <2>2 DEF Sequential!Emitted
<1>7. Sequential!OrderFor(traded, tick, side) = OrderFor(dt.tick_index, dt, side)
  <2> HIDE DEF side
  <2> QED BY <1>2 DEF Decode, Sequential!OrderFor, OrderFor
<1>8. orders' = orders \o Sequential!Emitted(M, traded)
  <2>1. orders' = IF side = "NONE" THEN orders ELSE Append(orders, OrderFor(dt.tick_index, dt, side))
    BY <1>4 DEF Decides
  <2>2. orders \in Seq(Order)
    BY <1>1 DEF TypeOK
  <2> HIDE DEF side, M, tick, dt
  <2> QED BY <1>6, <1>7, <2>1, <2>2
<1>9. cons.pc = "publish" /\ traded' = traded + 1 /\ consumer' = "pop" /\ in' = in
  BY <1>1, PopSteps DEF Trade
<1>10. consumer # "idle"
  BY <1>1, <1>9 DEF Threads
<1> HIDE DEF H, M
<1> QED BY <1>2, <1>3, <1>8, <1>9, <1>10 DEF Sequential!Trade, H, M

\* run() returns when the last tick was traded.
LEMMA JoinIsSequential ==
  ASSUME PipelineInv, Join
  PROVE  Sequential!Return
<1>1. RingInv /\ TypeOK /\ Threads /\ TicksInFlight /\ DoneSeen
  BY DEF PipelineInv
<1>2. Len(popped) = Len(pushed) /\ next = Len(in)
  BY <1>1 DEF DoneSeen, Threads, Join
<1>3. traded = Len(in)
  BY <1>1, <1>2, InputTicks DEF TicksInFlight, TypeOK, RingTypeOK
<1>4. UNCHANGED <<popped, in, traded, orders>> /\ consumer = "join" /\ consumer' = "idle"
  BY <1>1, PopSteps DEF Join
<1> QED BY <1>3, <1>4 DEF Sequential!Return, History

\* A call of run() is a call of the reference's.
LEMMA RunIsSequential ==
  ASSUME PipelineInv, NEW feed \in Feeds, Run(feed)
  PROVE  Sequential!Call(feed)
<1>1. RingInv
  BY DEF PipelineInv
<1>2. UNCHANGED popped
  BY <1>1, PushSteps DEF Run
<1>3. consumer = "idle" /\ consumer' = "pop" /\ in' = feed /\ traded' = 0 /\ orders' = <<>>
  BY DEF Run
<1> QED BY <1>2, <1>3 DEF Sequential!Call, History

\* Whatever the interleaving, the staleness of the loads and the number of earlier calls,
\* the two threads trade the ticks as the sequential pipeline does: same order stream, and
\* run() returns only after the last tick.
THEOREM PipelineImplementsSequential == Spec => ImplementsSequential
<1>1. Init => Sequential!Init
  <2> SUFFICES ASSUME Init PROVE Sequential!Init
    OBVIOUS
  <2>1. /\ popped = <<>> /\ consumer = "idle" /\ in = <<>> /\ traded = 0 /\ orders = <<>>
    BY DEF Init, RingInit
  <2>2. History = <<>>
    BY <2>1 DEF History
  <2> QED BY <2>1, <2>2 DEF Sequential!Init
<1>2. PipelineInv /\ PipelineInv' /\ [Next]_vars => [Sequential!Next]_(Sequential!seqVars)
  <2> SUFFICES ASSUME PipelineInv, PipelineInv', [Next]_vars
               PROVE  Sequential!Next \/ UNCHANGED Sequential!seqVars
    OBVIOUS
  <2>1. TypeOK'
    BY DEF PipelineInv
  <2>2. CASE Trade
    BY <2>1, <2>2, TradeIsSequential DEF Sequential!Next
  <2>3. CASE Join
    BY <2>3, JoinIsSequential DEF Sequential!Next
  <2>4. ASSUME NEW feed \in Feeds, Run(feed) PROVE Sequential!Next
    BY <2>4, RunIsSequential DEF Sequential!Next
  <2>5. CASE UNCHANGED <<consumer # "idle", in, traded, popped, orders>>
    BY <2>5 DEF Sequential!seqVars, History
  <2> QED BY <2>2, <2>3, <2>4, <2>5, VisibleSteps
<1> QED BY <1>1, <1>2, PipelineInvariant, PTL DEF Spec, ImplementsSequential, Sequential!Spec

-----------------------------------------------------------------------------
(* Prices through doubles and back.                                        *)

\* The unit of the doubles is small enough for the scale, and the model has exponents enough
\* for it.
ScaleFits == 4 * PriceScale <= 2 ^ FractionBits /\ FractionBits <= MaxExponent

\* The mantissa has three bits more than the price, which is not negative.
HasRoom(p) == p \in Nat /\ 8 * p <= 2 ^ Precision

\* What the first rounding of a price does: T is the unit of the doubles, L the number of
\* mantissas, S the scale, u the distance of doubles of the size of the quotient x.
LEMMA RoomForOne ==
  ASSUME NEW L \in Nat, L >= 2, NEW T \in Nat, NEW S \in Nat \ {0}, 4 * S <= T,
         NEW p \in Nat, 8 * p <= L,
         NEW x \in Nat, S * x <= p * T, NEW u \in Nat \ {0}, u = 1 \/ u * L <= 2 * x
  PROVE  4 * (S * u) <= T
<1>1. CASE u = 1
  BY <1>1
<1>2. CASE u * L <= 2 * x
  <2> DEFINE w == S * u
             a == p * T
             b == L * T
             lw == L * w
             sx == S * x
  <2>1. w \in Nat /\ a \in Nat /\ b \in Nat /\ sx <= a
    OBVIOUS
  <2>2. 8 * a <= b
    <3>1. T * (8 * p) <= T * L
      BY ProductMonotone
    <3>2. T * (8 * p) = 8 * (p * T) /\ T * L = L * T
      OBVIOUS
    <3> QED BY <3>1, <3>2
  <2>3. lw \in Int /\ sx \in Int /\ lw <= 2 * sx
    <3>1. S * (u * L) <= S * (2 * x)
      BY <1>2, ProductMonotone
    <3>2. S * (u * L) = L * w /\ S * (2 * x) = 2 * (S * x)
      OBVIOUS
    <3> QED BY <2>1, <3>1, <3>2
  <2> HIDE DEF lw, sx, a, b, w
  <2>4. 4 * lw <= b
    BY <2>1, <2>2, <2>3
  <2>5. L * (4 * w) = 4 * lw
    BY <2>1 DEF lw
  <2>6. L * (4 * w) <= L * T
    BY <2>4, <2>5 DEF b
  <2>7. L \in Nat \ {0} /\ 4 * w \in Int
    BY <2>1
  <2>8. 4 * w <= T
    BY <2>6, <2>7, FactorCancels
  <2> QED BY <2>8 DEF w
<1> QED BY <1>1, <1>2

\* What both roundings do: v is the distance of doubles of the size of the product y.
LEMMA RoomForBoth ==
  ASSUME NEW L \in Nat, L >= 2, NEW T \in Nat, NEW S \in Nat \ {0}, 4 * S <= T,
         NEW p \in Nat, 8 * p <= L,
         NEW x \in Nat, S * x <= p * T, NEW u \in Nat \ {0}, u = 1 \/ u * L <= 2 * x,
         NEW y \in Nat, 2 * y - 2 * (p * T) \in -(S * u) .. S * u,
         NEW v \in Nat \ {0}, v = 1 \/ v * L <= 2 * y
  PROVE  S * u + v < T
<1> DEFINE w == S * u
           a == p * T
           b == L * T
<1>1. w \in Nat /\ a \in Nat /\ b \in Nat
  OBVIOUS
<1>2. 8 * a <= b
  <2>1. T * (8 * p) <= T * L
    BY ProductMonotone
  <2>2. T * (8 * p) = 8 * (p * T) /\ T * L = L * T
    OBVIOUS
  <2> QED BY <2>1, <2>2
<1>3. 4 * w <= T
  BY RoomForOne
<1>4. 2 * y <= 2 * a + w
  <2> DEFINE t == 2 * y - 2 * a
  <2>1. t \in -w .. w /\ t = 2 * y - 2 * a
    OBVIOUS
  <2> HIDE DEF t, w, a
  <2> QED BY <1>1, <2>1
<1>5. CASE v = 1
  <2> HIDE DEF w
  <2> QED BY <1>1, <1>3, <1>5
<1>6. CASE v * L <= 2 * y
  <2> DEFINE lv == v * L
  <2>1. lv \in Nat /\ lv <= 2 * y
    BY <1>6
  <2>2. 2 * T <= b
    <3>1. T * 2 <= T * L
      BY ProductMonotone
    <3> QED BY <3>1
  <2>3. 8 * lv <= 3 * b
    <3> HIDE DEF lv, a, b, w
    <3> QED BY <1>1, <1>2, <1>3, <1>4, <2>1, <2>2
  <2>4. L * (8 * v) = 8 * lv /\ L * (3 * T) = 3 * b
    OBVIOUS
  <2>5. L * (8 * v) <= L * (3 * T)
    BY <2>3, <2>4
  <2>6. 8 * v <= 3 * T
    <3>1. L \in Nat \ {0} /\ 8 * v \in Int /\ 3 * T \in Int
      OBVIOUS
    <3> QED BY <2>5, <3>1, FactorCancels
  <2> HIDE DEF w
  <2> QED BY <1>1, <1>3, <2>6
<1> QED BY <1>5, <1>6

\* The report gets back the integer on the wire.
LEMMA PriceKept ==
  ASSUME ScaleFits, NEW p, HasRoom(p)
  PROVE  Encoded(DecodedPrice(p)) = p
<1> DEFINE L == 2 ^ Precision
           T == 2 ^ FractionBits
           S == PriceScale
           a == p * T
           x == a \div S
           u == Ulp(x)
           d == RoundedRatio(a, S)
           y == S * d
           v == Ulp(y)
           R == RoundedRatio(y, 1)
<1>1. /\ L \in Nat /\ L >= 2 /\ T \in Nat \ {0} /\ S \in Nat \ {0} /\ 4 * S <= T
      /\ p \in Nat /\ 8 * p <= L
      /\ FractionBits \in 0 .. MaxExponent /\ 2 ^ (FractionBits + 1) = 2 * T
  <2>1. FractionBits \in Nat /\ S \in Nat \ {0} /\ Precision \in Nat \ {0} /\ MaxExponent \in Nat
    BY HarnessAssumption, RoundingAssumption
  <2>2. L \in Nat /\ L >= 2
    BY <2>1, PowPositive
  <2>3. T \in Nat /\ 2 ^ (FractionBits + 1) = 2 * T
    BY <2>1, PowType, PowNext
  <2>4. 4 * S <= T /\ FractionBits \in 0 .. MaxExponent
    BY <2>1 DEF ScaleFits
  <2>5. T # 0
    <3> HIDE DEF T
    <3> QED BY <2>1, <2>4
  <2> QED BY <2>1, <2>2, <2>3, <2>4, <2>5 DEF HasRoom
<1>2. a \in Nat /\ x \in Nat /\ S * x <= a
  <2>1. a \in Nat
    <3> HIDE DEF T
    <3> QED BY <1>1
  <2>2. a < S * (a + 1)
    <3> HIDE DEF a
    <3>1. 1 <= S /\ S \in Int /\ a + 1 \in Nat
      BY <1>1, <2>1
    <3>2. (a + 1) * 1 <= (a + 1) * S
      BY <3>1, ProductMonotone
    <3>3. (a + 1) * 1 = a + 1 /\ (a + 1) * S = S * (a + 1)
      BY <1>1, <2>1
    <3>4. a + 1 <= S * (a + 1) /\ S * (a + 1) \in Int
      BY <1>1, <2>1, <3>2, <3>3
    <3> QED BY <2>1, <3>4
  <2> HIDE DEF a
  <2>3. a + 1 \in Nat
    BY <2>1
  <2> QED BY <1>1, <2>1, <2>2, <2>3, QuotientBelow
<1>3. p + 1 \in Nat /\ p + 1 <= L /\ a + T = T * (p + 1)
  <2> HIDE DEF T, L
  <2>1. a = p * T /\ p * T + T = T * (p + 1)
    BY <1>1
  <2> QED BY <1>1, <2>1
<1>4. u \in Nat \ {0} /\ (u = 1 \/ u * L <= 2 * x)
  <2>1. x < T * (p + 1)
    <3> HIDE DEF x, T, L
    <3>1. x <= S * x
      <4>1. 1 <= S /\ S \in Int
        BY <1>1
      <4>2. x * 1 <= x * S
        BY <1>2, <4>1, ProductMonotone
      <4> QED BY <1>1, <1>2, <4>2
    <3>2. S * x \in Int
      BY <1>1, <1>2
    <3> HIDE DEF a
    <3> QED BY <1>1, <1>2, <1>3, <3>1, <3>2
  <2> HIDE DEF x
  <2>2. x \div T < L
    <3> HIDE DEF T, L
    <3>1. x \div T < p + 1 /\ x \div T \in Nat
      BY <1>1, <1>2, <1>3, <2>1, QuotientBelow
    <3> QED BY <1>1, <1>3, <3>1
  <2> QED BY <1>1, <1>2, <2>2, UlpSize
<1>5. d \in Nat /\ 2 * y - 2 * a \in -(S * u) .. S * u
  <2>1. u = Ulp(a \div S)
    OBVIOUS
  <2> HIDE DEF a, u
  <2> QED BY <1>1, <1>2, <1>4, <2>1, RatioWithin
<1>6. y \in Nat /\ S * u \in Nat
  <2> HIDE DEF u, d
  <2> QED BY <1>1, <1>4, <1>5
<1>7. v \in Nat \ {0} /\ (v = 1 \/ v * L <= 2 * y)
  <2>1. 4 * (S * u) <= T
    <3>1. S * x <= p * T
      BY <1>2
    <3> HIDE DEF u, x, T, L, y, S
    <3> QED BY <1>1, <1>2, <1>4, <3>1, RoomForOne
  <2>2. y < T * (p + 1)
    <3> DEFINE w == S * u
               t == 2 * y - 2 * a
    <3>1. t \in -w .. w /\ t = 2 * y - 2 * a /\ w \in Nat /\ 4 * w <= T
      BY <1>5, <1>6, <2>1
    <3> HIDE DEF w, t, y, a, T
    <3>2. y < a + T
      BY <1>1, <1>2, <1>6, <3>1
    <3> QED BY <1>3, <3>2
  <2> HIDE DEF y
  <2>3. y \div T < L
    <3> HIDE DEF T, L
    <3>1. y \div T < p + 1 /\ y \div T \in Nat
      BY <1>1, <1>3, <1>6, <2>2, QuotientBelow
    <3> QED BY <1>1, <1>3, <3>1
  <2> QED BY <1>1, <1>6, <2>3, UlpSize
<1>8. S * u + v < T
  <2>1. S * x <= p * T /\ 2 * y - 2 * (p * T) \in -(S * u) .. S * u
    BY <1>2, <1>5
  <2> HIDE DEF S, u, v, x, y, T, L
  <2> QED BY <1>1, <1>2, <1>4, <1>6, <1>7, <2>1, RoomForBoth
<1>9. R \in Nat /\ 2 * R - 2 * y \in -v .. v
  <2>1. y \div 1 = y
    <3> HIDE DEF y
    <3> QED BY <1>6, DividedByOne
  <2>2. v = Ulp(y \div 1)
    BY <2>1
  <2> DEFINE one == 1
  <2>3. one \in Nat \ {0} /\ v = Ulp(y \div one) /\ R = RoundedRatio(y, one)
    BY <2>2
  <2> HIDE DEF y, v, R, one
  <2>4. RoundedRatio(y, one) \in Nat
        /\ 2 * (one * RoundedRatio(y, one)) - 2 * y \in -(one * v) .. one * v
    BY <1>6, <1>7, <2>3, RatioWithin
  <2>5. R \in Nat /\ 2 * (one * R) - 2 * y \in -(one * v) .. one * v
    BY <2>3, <2>4
  <2>6. one * R = R /\ one * v = v
    BY <1>7, <2>5 DEF one
  <2> QED BY <2>5, <2>6
<1>10. Encoded(DecodedPrice(p)) = (2 * R + T) \div (2 * T)
  <2>1. d = DecodedPrice(p)
    BY DEF DecodedPrice
  <2>2. R = Rounded(DecodedPrice(p) * PriceScale)
    <3>1. y = d * S
      <4> HIDE DEF d
      <4> QED BY <1>1, <1>5
    <3> QED BY <2>1, <3>1 DEF Rounded
  <2> HIDE DEF R, d
  <2>3. Encoded(DecodedPrice(p)) = (2 * R + T) \div 2 ^ (FractionBits + 1)
    BY <2>2 DEF Encoded
  <2> QED BY <1>1, <2>3
<1>11. \E r \in 0 .. 2 * T - 1 : 2 * R + T = (2 * T) * p + r
  <2> DEFINE w == S * u
             t == 2 * y - 2 * a
             c == 2 * R - 2 * y
             r == t + c + T
  <2>1. t \in -w .. w /\ t = 2 * y - 2 * a /\ c \in -v .. v /\ c = 2 * R - 2 * y /\ w + v < T /\ w \in Nat
    BY <1>5, <1>6, <1>8, <1>9
  <2>2. 2 * a = (2 * T) * p
    <3> HIDE DEF T
    <3> QED BY <1>1
  <2>3. (2 * T) * p \in Int
    <3> HIDE DEF T
    <3> QED BY <1>1
  <2> HIDE DEF w, t, c, y, a, R, v, T
  <2>4. r \in 0 .. 2 * T - 1 /\ 2 * R + T = 2 * a + r
    BY <1>1, <1>2, <1>6, <1>7, <1>9, <2>1
  <2> QED BY <2>2, <2>4
<1> HIDE DEF R, T
<1>12. PICK r \in 0 .. 2 * T - 1 : 2 * R + T = (2 * T) * p + r
  BY <1>11
<1>13. 2 * T \in Nat \ {0} /\ p \in Int
  BY <1>1
<1> DEFINE m == 2 * T
<1>14. m \in Nat \ {0} /\ r \in 0 .. m - 1 /\ 2 * R + T = m * p + r
  BY <1>12, <1>13
<1>15. (m * p + r) \div m = p
  <2> HIDE DEF m
  <2> QED BY <1>13, <1>14, QuotientIs
<1> QED BY <1>10, <1>14, <1>15

-----------------------------------------------------------------------------
(* The report of the first call.                                           *)

\* The mantissa has room for every price, and the doubles' unit for the scale.
ShortPrices ==
  /\ ScaleFits
  /\ \A feed \in Feeds : \A k \in DOMAIN feed : HasRoom(feed[k].bid) /\ HasRoom(feed[k].ask)

\* Sequences joined one after the other, as FlattenSeq joins them.
Joined(parts) ==
  LET flatten[i \in 1 .. Len(parts)] == IF i = 1 THEN parts[i] ELSE flatten[i - 1] \o parts[i]
  IN  flatten

Joins(f, parts, n) ==
  f = [i \in 1 .. n |-> IF i = 1 THEN parts[i] ELSE f[i - 1] \o parts[i]]

\* What the reference emits tick by tick, and after the first n ticks.
Parts(feed) == [k \in DOMAIN feed |-> Sequential!Emitted(SubSeq(feed, 1, k), k - 1)]
OrdersAfter(feed, n) == IF n = 0 THEN <<>> ELSE Joined(Parts(feed))[n]

\* Any number of sequences can be joined.
LEMMA JoinsExists ==
  ASSUME NEW parts, NEW n \in Nat
  PROVE  \E f : Joins(f, parts, n)
<1> DEFINE P == {m \in Nat : \E f : Joins(f, parts, m)}
<1>1. 0 \in P
  <2> DEFINE f == [i \in {} |-> parts[i]]
  <2>1. 1 .. 0 = {}
    OBVIOUS
  <2>2. f = [i \in 1 .. 0 |-> IF i = 1 THEN parts[i] ELSE f[i - 1] \o parts[i]]
    BY <2>1
  <2> HIDE DEF f
  <2>3. Joins(f, parts, 0)
    BY <2>2 DEF Joins
  <2> QED BY <2>3
<1>2. ASSUME NEW m \in P PROVE m + 1 \in P
  <2>1. m \in Nat
    OBVIOUS
  <2>2. PICK f : Joins(f, parts, m)
    OBVIOUS
  <2> DEFINE g == [i \in 1 .. m + 1 |-> IF i = 1 THEN parts[i] ELSE f[i - 1] \o parts[i]]
  <2>3. \A i \in 1 .. m : f[i] = IF i = 1 THEN parts[i] ELSE f[i - 1] \o parts[i]
    <3> DEFINE body == [i \in 1 .. m |-> IF i = 1 THEN parts[i] ELSE f[i - 1] \o parts[i]]
    <3>1. f = body
      BY <2>2 DEF Joins
    <3>2. \A i \in 1 .. m : body[i] = IF i = 1 THEN parts[i] ELSE f[i - 1] \o parts[i]
      OBVIOUS
    <3> HIDE DEF body
    <3> QED BY <3>1, <3>2
  <2>4. \A i \in 1 .. m : g[i] = f[i]
    <3>1. \A i \in 1 .. m : i \in 1 .. m + 1
      BY <2>1
    <3> QED BY <2>3, <3>1
  <2>5. \A i \in 1 .. m + 1 : i # 1 => i - 1 \in 1 .. m
    BY <2>1
  <2>6. \A i \in 1 .. m + 1 : i # 1 => f[i - 1] = g[i - 1]
    <3> HIDE DEF g
    <3> QED BY <2>4, <2>5
  <2>7. g = [i \in 1 .. m + 1 |-> IF i = 1 THEN parts[i] ELSE g[i - 1] \o parts[i]]
    <3> DEFINE h == [i \in 1 .. m + 1 |-> IF i = 1 THEN parts[i] ELSE g[i - 1] \o parts[i]]
    <3>1. \A i \in 1 .. m + 1 : g[i] = IF i = 1 THEN parts[i] ELSE f[i - 1] \o parts[i]
      OBVIOUS
    <3>2. \A i \in 1 .. m + 1 : h[i] = IF i = 1 THEN parts[i] ELSE g[i - 1] \o parts[i]
      <4> HIDE DEF g
      <4> QED OBVIOUS
    <3>3. g = [i \in 1 .. m + 1 |-> g[i]] /\ h = [i \in 1 .. m + 1 |-> h[i]]
      OBVIOUS
    <3> HIDE DEF g, h
    <3>4. \A i \in 1 .. m + 1 : g[i] = h[i]
      BY <2>6, <3>1, <3>2
    <3>5. g = h
      BY <3>3, <3>4
    <3> QED BY <3>5 DEF h
  <2> HIDE DEF g
  <2>8. Joins(g, parts, m + 1)
    BY <2>7 DEF Joins
  <2> QED BY <2>1, <2>8
<1> HIDE DEF P
<1>3. P = Nat
  <2>1. P \in SUBSET Nat
    BY DEF P
  <2> QED BY <1>1, <1>2, <2>1, NatInductionSet
<1> QED BY <1>3 DEF P

\* Joining goes on from where it was.
LEMMA JoinedSteps ==
  ASSUME NEW parts, Len(parts) \in Nat, NEW i \in 1 .. Len(parts)
  PROVE  Joined(parts)[i] = IF i = 1 THEN parts[i] ELSE Joined(parts)[i - 1] \o parts[i]
<1> DEFINE f == CHOOSE f : Joins(f, parts, Len(parts))
           body == [k \in 1 .. Len(parts) |-> IF k = 1 THEN parts[k] ELSE f[k - 1] \o parts[k]]
<1>1. Joins(f, parts, Len(parts))
  BY JoinsExists
<1>2. Joined(parts) = f
  BY DEF Joined, Joins
<1>3. f = body
  <2> HIDE DEF f
  <2> QED BY <1>1 DEF Joins
<1>4. body[i] = IF i = 1 THEN parts[i] ELSE f[i - 1] \o parts[i]
  <2> HIDE DEF f
  <2> QED OBVIOUS
<1> HIDE DEF f, body
<1> QED BY <1>2, <1>3, <1>4

\* The last of the joins is the flattened sequence.
LEMMA FlattenSeqIs ==
  ASSUME NEW parts
  PROVE  FlattenSeq(parts) = IF Len(parts) = 0 THEN parts ELSE Joined(parts)[Len(parts)]
BY DEF FlattenSeq, Joined

\* One tick more of a feed.
LEMMA SubSeqNext ==
  ASSUME NEW T, NEW feed \in Seq(T), NEW n \in Nat, n < Len(feed)
  PROVE  SubSeq(feed, 1, n + 1) = Append(SubSeq(feed, 1, n), feed[n + 1])
<1> DEFINE a == SubSeq(feed, 1, n)
           b == SubSeq(feed, 1, n + 1)
           c == Append(a, feed[n + 1])
<1>1. /\ n + 1 \in Nat /\ (\A i \in 1 .. n + 1 : feed[i] \in T) /\ 1 .. n \subseteq 1 .. n + 1
      /\ n + 1 \in 1 .. n + 1
  <2>1. Len(feed) \in Nat /\ \A i \in 1 .. Len(feed) : feed[i] \in T
    OBVIOUS
  <2> QED BY <2>1
<1>2. a \in Seq(T) /\ Len(a) = n /\ \A i \in 1 .. n : a[i] = feed[i]
  <2>1. \A i \in 1 .. n : feed[i] \in T
    BY <1>1
  <2>2. a \in Seq(T) /\ Len(a) = (IF 1 <= n THEN n - 1 + 1 ELSE 0) /\ \A i \in 1 .. n - 1 + 1 : a[i] = feed[1 + i - 1]
    <3> HIDE DEF a
    <3> QED BY <2>1, SubSeqProperties DEF a
  <2> HIDE DEF a
  <2>3. n - 1 + 1 = n /\ \A i \in 1 .. n : 1 + i - 1 = i
    OBVIOUS
  <2> QED BY <2>2, <2>3
<1>3. b \in Seq(T) /\ Len(b) = n + 1 /\ \A i \in 1 .. n + 1 : b[i] = feed[i]
  <2> DEFINE m == n + 1
  <2>1. m \in Int /\ \A i \in 1 .. m : feed[i] \in T
    BY <1>1
  <2> HIDE DEF m
  <2>2. /\ SubSeq(feed, 1, m) \in Seq(T) /\ Len(SubSeq(feed, 1, m)) = (IF 1 <= m THEN m - 1 + 1 ELSE 0)
        /\ \A i \in 1 .. m - 1 + 1 : SubSeq(feed, 1, m)[i] = feed[1 + i - 1]
    BY <2>1, SubSeqProperties
  <2>3. m - 1 + 1 = m /\ 1 <= m /\ \A i \in 1 .. m : 1 + i - 1 = i
    BY DEF m
  <2>4. /\ SubSeq(feed, 1, m) \in Seq(T) /\ Len(SubSeq(feed, 1, m)) = m
        /\ \A i \in 1 .. m : SubSeq(feed, 1, m)[i] = feed[i]
    BY <2>2, <2>3
  <2> QED BY <2>4 DEF m
<1> HIDE DEF a, b
<1>4. c \in Seq(T) /\ Len(c) = n + 1 /\ (\A i \in 1 .. n : c[i] = a[i]) /\ c[n + 1] = feed[n + 1]
  <2>1. feed[n + 1] \in T
    BY <1>1
  <2> QED BY <1>2, <2>1, AppendProperties
<1> HIDE DEF c
<1>5. \A i \in 1 .. n + 1 : b[i] = c[i]
  BY <1>1, <1>2, <1>3, <1>4
<1>6. b = c
  BY <1>3, <1>4, <1>5, SeqEqual
<1> QED BY <1>6 DEF a, b, c

\* The first call: its ticks are the whole history, and its orders what the reference emits
\* for each of them.
FirstCall ==
  /\ runs = 0 => popped = <<>>
  /\ runs = 1 => History = SubSeq(in, 1, traded) /\ orders = OrdersAfter(in, traded)

\* Calls are counted when they begin.
LEMMA OnlyRunCounts ==
  ASSUME [Next]_vars
  PROVE  runs' = runs \/ \E feed \in Feeds : Run(feed)
BY DEF Next, ProducerNext, ConsumerNext, TryPush, WriteSlot, PublishTick, Finish, TestRoom,
       TryPop, ReadSlot, Trade, Join, TickAvailable, NoTickAvailable, LoadDone, Terminated,
       vars, consumerVars

\* What a tick emits is one order or none.
LEMMA EmittedIs ==
  ASSUME NEW history, NEW index
  PROVE  \/ Sequential!Emitted(history, index) = <<>>
         \/ \E order : Sequential!Emitted(history, index) = <<order>>
BY DEF Sequential!Emitted

\* Trading a tick of the first call.
LEMMA TradeKeepsFirst ==
  ASSUME PipelineInv, TypeOK', Trade, FirstCall, runs = 1, runs' = 1
  PROVE  FirstCall'
<1> DEFINE n == traded
           part == Sequential!Emitted(History', n)
           parts == Parts(in)
<1>1. /\ n \in Nat /\ n < Len(in) /\ n' = n + 1 /\ in' = in
      /\ History' = Append(History, in[n + 1]) /\ orders' = orders \o part
  <2>1. Sequential!Trade
    BY TradeIsSequential
  <2>2. TypeOK
    BY DEF PipelineInv
  <2>3. traded \in Nat /\ traded < Len(in)
    BY TradeSteps
  <2> QED BY <2>1, <2>3 DEF Sequential!Trade
<1>2. in \in Seq(WireTick) /\ Len(in) \in Nat /\ DOMAIN in = 1 .. Len(in)
  <2>1. TypeOK
    BY DEF PipelineInv
  <2> QED BY <2>1, InputTicks
<1>3. History' = SubSeq(in, 1, n + 1)
  <2>1. History = SubSeq(in, 1, n)
    BY DEF FirstCall
  <2> HIDE DEF n
  <2> QED BY <1>1, <1>2, <2>1, SubSeqNext
<1>4. Len(parts) = Len(in) /\ n + 1 \in 1 .. Len(parts) /\ parts[n + 1] = part
  <2>1. n + 1 \in 1 .. Len(in) /\ (n + 1) - 1 = n
    BY <1>1, <1>2
  <2>2. parts = [k \in 1 .. Len(in) |-> Sequential!Emitted(SubSeq(in, 1, k), k - 1)]
    BY <1>2 DEF Parts
  <2>3. Len(parts) = Len(in)
    <3> HIDE DEF parts
    <3> QED BY <1>2, <2>2
  <2>4. parts[n + 1] = Sequential!Emitted(SubSeq(in, 1, n + 1), (n + 1) - 1)
    <3> DEFINE m == n + 1
    <3>1. m \in 1 .. Len(in)
      BY <2>1
    <3> HIDE DEF m, parts
    <3>2. parts[m] = Sequential!Emitted(SubSeq(in, 1, m), m - 1)
      BY <2>2, <3>1
    <3> QED BY <3>2 DEF m
  <2> QED BY <1>3, <2>1, <2>3, <2>4
<1>5. orders' = OrdersAfter(in, n + 1)
  <2>1. orders = OrdersAfter(in, n)
    BY DEF FirstCall
  <2>2. Joined(parts)[n + 1] = IF n + 1 = 1 THEN parts[n + 1] ELSE Joined(parts)[(n + 1) - 1] \o parts[n + 1]
    <3> DEFINE m == n + 1
    <3>1. Len(parts) \in Nat /\ m \in 1 .. Len(parts)
      BY <1>2, <1>4
    <3> HIDE DEF m, parts
    <3> QED BY <3>1, JoinedSteps DEF m
  <2>3. CASE n = 0
    <3>1. orders = <<>>
      BY <2>1, <2>3 DEF OrdersAfter
    <3>2. Joined(parts)[n + 1] = part
      BY <1>4, <2>2, <2>3
    <3>3. <<>> \o part = part
      <4>1. part = <<>> \/ \E order : part = <<order>>
        BY EmittedIs
      <4> HIDE DEF part
      <4>2. CASE part = <<>>
        BY <4>2
      <4>3. CASE \E order : part = <<order>>
        BY <4>3
      <4> QED BY <4>1, <4>2, <4>3
    <3>4. OrdersAfter(in, n + 1) = Joined(parts)[n + 1]
      BY <2>3 DEF OrdersAfter
    <3> HIDE DEF part, parts
    <3> QED BY <1>1, <3>1, <3>2, <3>3, <3>4
  <2>4. CASE n # 0
    <3>1. orders = Joined(parts)[n]
      BY <2>1, <2>4 DEF OrdersAfter
    <3>2. n + 1 # 1 /\ (n + 1) - 1 = n /\ n + 1 # 0
      BY <1>1, <2>4
    <3>3. OrdersAfter(in, n + 1) = Joined(parts)[n + 1]
      BY <3>2 DEF OrdersAfter
    <3> HIDE DEF part, parts, n
    <3> QED BY <1>1, <1>4, <2>2, <3>1, <3>2, <3>3
  <2> QED BY <2>3, <2>4
<1> HIDE DEF part, parts
<1> QED BY <1>1, <1>3, <1>5 DEF FirstCall

\* Every step keeps what is known of the first call.
LEMMA FirstCallStep ==
  ASSUME PipelineInv, PipelineInv', [Next]_vars, FirstCall
  PROVE  FirstCall'
<1>1. TypeOK /\ TypeOK' /\ RingInv /\ FlagStores
  BY DEF PipelineInv
<1>2. CASE \E feed \in Feeds : Run(feed)
  <2>1. PICK feed \in Feeds : Run(feed)
    BY <1>2
  <2>2. runs' = runs + 1 /\ traded' = 0 /\ in' = feed /\ orders' = <<>> /\ popped' = popped
    BY <1>1, <2>1, PushSteps DEF Run
  <2>3. runs \in Nat
    BY <1>1, RunsAssumption DEF TypeOK
  <2>4. CASE runs' = 1
    <3>1. popped' = <<>> /\ runs' # 0
      BY <2>2, <2>3, <2>4 DEF FirstCall
    <3>2. History' = <<>>
      BY <3>1 DEF History
    <3>3. SubSeq(in', 1, traded') = <<>>
      BY <2>2, SubSeqEmpty
    <3>4. OrdersAfter(in', traded') = <<>>
      BY <2>2 DEF OrdersAfter
    <3> QED BY <2>2, <3>1, <3>2, <3>3, <3>4 DEF FirstCall
  <2>5. CASE runs' # 1
    BY <2>2, <2>3, <2>5 DEF FirstCall
  <2> QED BY <2>4, <2>5
<1>3. CASE runs' = runs /\ Trade
  <2>1. CASE runs = 1
    BY <1>1, <1>3, <2>1, TradeKeepsFirst
  <2>2. CASE runs # 1
    <3>1. runs # 0
      BY <1>1, <1>3, PopSteps DEF Trade, FlagStores, PipelineInv, Threads
    <3> QED BY <1>3, <2>2, <3>1 DEF FirstCall
  <2> QED BY <2>1, <2>2
<1>4. CASE runs' = runs /\ UNCHANGED <<in, traded, popped, orders>>
  <2>1. History' = History
    BY <1>4 DEF History
  <2>2. OrdersAfter(in, traded)' = OrdersAfter(in, traded)
    BY <1>4
  <2> QED BY <1>4, <2>1, <2>2 DEF FirstCall
<1>5. Join => UNCHANGED <<in, traded, popped, orders>>
  BY <1>1, PopSteps DEF Join
<1> QED BY <1>2, <1>3, <1>4, <1>5, VisibleSteps, OnlyRunCounts

\* Every order of a call is printed as the reference prints it.
LEMMA OrderReported ==
  ASSUME ShortPrices, TypeOK, OrdersConsistent, traded = Len(in), NEW k \in DOMAIN orders
  PROVE  Reported(orders[k]) = ReferenceOrder(orders[k])
<1> DEFINE order == orders[k]
           tick == in[order.tick_index + 1]
<1>1. /\ order.tick_index < traded
      /\ order.price = IF order.side = "SELL" THEN tick.bid ELSE tick.ask
  BY DEF OrdersConsistent
<1>2. order \in Order
  BY DEF TypeOK
<1>3. in \in Seq(WireTick) /\ Len(in) \in Nat /\ DOMAIN in = 1 .. Len(in)
  BY InputTicks
<1>4. order.tick_index \in Nat /\ order.tick_index + 1 \in DOMAIN in
  BY <1>1, <1>2, <1>3 DEF Order
<1>5. in \in Feeds
  BY <1>3, <1>4 DEF TypeOK
<1>6. HasRoom(tick.bid) /\ HasRoom(tick.ask)
  <2> DEFINE i == order.tick_index + 1
  <2>1. i \in DOMAIN in
    BY <1>4
  <2> HIDE DEF i
  <2>2. HasRoom(in[i].bid) /\ HasRoom(in[i].ask)
    BY <1>5, <2>1 DEF ShortPrices
  <2> QED BY <2>2 DEF i
<1>7. HasRoom(order.price)
  <2> HIDE DEF order, tick
  <2> QED BY <1>1, <1>6
<1>8. Encoded(DecodedPrice(order.price)) = order.price
  <2> HIDE DEF order
  <2> QED BY <1>7, PriceKept DEF ShortPrices
<1>9. order.tick_index < Len(in)
  BY <1>1
<1> HIDE DEF order
<1>10. Reported(order) = ReferenceOrder(order)
  BY <1>8, <1>9 DEF Reported, ReferenceOrder
<1> QED BY <1>10 DEF order

\* When the first call has returned, the orders are all those the reference emits.
LEMMA OrdersFlattened ==
  ASSUME PipelineInv, FirstCall, consumer = "idle", runs = 1
  PROVE  traded = Len(in) /\ FlattenSeq(Parts(in)) = orders
<1>1. TypeOK /\ TicksInFlight
  BY DEF PipelineInv
<1>2. in \in Seq(WireTick) /\ Len(in) \in Nat /\ DOMAIN in = 1 .. Len(in)
  BY <1>1, InputTicks
<1>3. traded = Len(in)
  BY <1>1 DEF TicksInFlight
<1>4. Parts(in) = [k \in 1 .. Len(in) |-> Sequential!Emitted(SubSeq(in, 1, k), k - 1)]
  BY <1>2 DEF Parts
<1>5. Len(Parts(in)) = Len(in)
  BY <1>2, <1>4
<1>6. orders = OrdersAfter(in, Len(in))
  BY <1>3 DEF FirstCall
<1>7. CASE Len(in) = 0
  <2>1. 1 .. Len(in) = {}
    BY <1>7
  <2>2. Parts(in) = <<>>
    BY <1>4, <2>1
  <2>3. orders = <<>>
    BY <1>6, <1>7 DEF OrdersAfter
  <2> QED BY <1>3, <1>5, <1>7, <2>2, <2>3, FlattenSeqIs
<1>8. CASE Len(in) # 0
  <2>1. orders = Joined(Parts(in))[Len(in)]
    BY <1>6, <1>8 DEF OrdersAfter
  <2> QED BY <1>3, <1>5, <1>8, <2>1, FlattenSeqIs
<1> QED BY <1>7, <1>8

\* The report of the first call is the reference's of the same feed, for any window, ring
\* and interleaving, and all feeds whose prices leave the mantissa three bits: orders that
\* went through two threads, and prices that were divided and multiplied again.
THEOREM PipelineReport ==
  ASSUME ShortPrices
  PROVE  Spec => []ReportMatchesReference
<1>1. Init => FirstCall
  BY DEF Init, RingInit, FirstCall
<1>2. PipelineInv /\ PipelineInv' /\ FirstCall /\ [Next]_vars => FirstCall'
  BY FirstCallStep
<1>3. PipelineInv /\ FirstCall /\ OrdersConsistent => ReportMatchesReference
  <2> SUFFICES ASSUME PipelineInv, FirstCall, OrdersConsistent, consumer = "idle", runs = 1
               PROVE  Report = ReferenceReport(in)
    BY DEF ReportMatchesReference
  <2>1. traded = Len(in) /\ FlattenSeq(Parts(in)) = orders
    BY OrdersFlattened
  <2>2. \A k \in DOMAIN orders : Reported(orders[k]) = ReferenceOrder(orders[k])
    <3>1. TypeOK
      BY DEF PipelineInv
    <3> QED BY <2>1, <3>1, OrderReported
  <2>3. [k \in DOMAIN orders |-> Reported(orders[k])] = [k \in DOMAIN orders |-> ReferenceOrder(orders[k])]
    BY <2>2
  <2>4. ReferenceReport(in) = [n |-> Len(in), num_orders |-> Len(orders),
                               orders |-> [k \in DOMAIN orders |-> ReferenceOrder(orders[k])]]
    BY <2>1 DEF ReferenceReport, Parts
  <2> QED BY <2>3, <2>4 DEF Report
<1> QED BY <1>1, <1>2, <1>3, PipelineInvariant, PipelineOrdersConsistent, PTL DEF Spec
=============================================================================
