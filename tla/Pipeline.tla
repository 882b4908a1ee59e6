------------------------------ MODULE Pipeline ------------------------------
(***************************************************************************)
(* FastPipeline of week-4/project/pipeline.cpp: run() starts a producer    *)
(* thread that decodes the wire ticks into the ring, consumes the ring on  *)
(* the calling thread, trades every tick, and joins the producer.  The     *)
(* threads share the ring of SpscRing and the flag producer_done, whose    *)
(* acquire load is the only thing that tells the consumer that an empty    *)
(* ring stays empty.                                                       *)
(*                                                                         *)
(* producer_done is a modification order as in SpscRing; its TRUE message  *)
(* carries the position of tail_ the producer had reached.  A tick is a    *)
(* record [symbol, bid, ask]; decoding adds its index.                     *)
(***************************************************************************)
EXTENDS SpscRing, ZScore, FiniteSets, FiniteSetsExt

CONSTANTS Symbols, Feeds,     \* symbol ids, and the inputs run() is called with
          Runs, MaxTicks      \* bounds: calls of run() on one object, ticks of a call

WireTick == [symbol : Symbols, bid : Int, ask : Int]

ASSUME RunsAssumption == Runs \in Nat /\ MaxTicks \in Nat
ASSUME FeedsAssumption == \A feed \in Feeds : feed \in Seq(WireTick) /\ Len(feed) <= MaxTicks

\* Decoding keeps the tick's fields and adds its position in the input.
Decode(feed, i) ==
  [symbol |-> feed[i + 1].symbol, bid |-> feed[i + 1].bid, ask |-> feed[i + 1].ask,
   tick_index |-> i]

Decoded == UNION {{Decode(feed, j - 1) : j \in DOMAIN feed} : feed \in Feeds}

\* The ring is an SpscRing<DecodedTick, Capacity>; its bound is that of the calls.
ASSUME RingOfTicks == Items = Decoded /\ MaxPushes = Runs * MaxTicks

VARIABLES producer,       \* producer thread: "none", "loop", "exited"
          next,           \* its loop variable i
          producer_done,  \* modification order of the flag
          consumer,       \* where run() is: "idle", "pop", "flag", "drain", "join"
          doneSeen,       \* the last message of the flag the consumer saw
          runs,           \* calls of run() so far
          in,             \* the input of the latest call
          traded,         \* ticks of it given to process_tick
          state_,         \* per symbol: window, head, count, position
          orders          \* out[0 .. num_orders - 1]

producerVars == <<producer, next, producer_done>>
consumerVars == <<consumer, doneSeen, runs, in, traded, state_, orders>>
vars == <<ringVars, producerVars, consumerVars>>

EmptyState == [window |-> [i \in 0 .. Window - 1 |-> 0], head |-> 0, count |-> 0, position |-> 0]

Init ==
  /\ RingInit
  /\ producer = "none" /\ next = 0 /\ producer_done = <<>>
  /\ consumer = "idle" /\ doneSeen = 0 /\ runs = 0 /\ in = <<>> /\ traded = 0
  /\ state_ = [s \in Symbols |-> EmptyState]
  /\ orders = <<>>

-----------------------------------------------------------------------------
(* process_tick *)

\* Variant: the window is kept in the order of time.
UpdatedShifted(st, mid) ==
  [st EXCEPT !.window = [i \in 0 .. Window - 1 |-> IF i < Window - 1 THEN @[i + 1] ELSE mid],
             !.head = (@ + 1) % Window, !.count = IF @ < Window THEN @ + 1 ELSE @]

\* The rolling window after one more mid; count stops at Window.
Updated(st, mid) ==
  [st EXCEPT !.window[st.head] = mid, !.head = (@ + 1) % Window,
             !.count = IF @ < Window THEN @ + 1 ELSE @]

ProcessTick(dt) ==
  LET st == Updated(state_[dt.symbol], Mid(dt))
      side == IF st.count < Window THEN "NONE" ELSE Signal(st.window, Mid(dt), st.position)
  IN  /\ state_' = [state_ EXCEPT ![dt.symbol] = [st EXCEPT !.position = Filled(@, side)]]
      /\ orders' = IF side = "NONE" THEN orders
                   ELSE Append(orders, OrderFor(dt.tick_index, dt, side))

-----------------------------------------------------------------------------
(* The call: a fresh flag, a fresh producer thread, which is ordered after  *)
(* everything its creator did.                                              *)

\* Variant: the call resets the ring, and the two threads forget what they saw of it.
RunResetting(feed) ==
  /\ consumer = "idle" /\ runs < Runs
  /\ runs' = runs + 1 /\ in' = feed /\ traded' = 0 /\ orders' = <<>>
  /\ producer_done' = <<[val |-> FALSE, tail |-> Len(tail_)]>> /\ doneSeen' = 1
  /\ producer' = "loop" /\ next' = 0
  /\ tail_' = Append(tail_, [val |-> 0, view |-> 0])
  /\ head_' = Append(head_, [val |-> 0, view |-> 0])
  /\ consumer' = "pop"
  /\ UNCHANGED <<slotWrites, slotReads, prod, cons, pushed, popped, state_>>

\* Variant: the flag belongs to the object and is not reset.
RunKeepingFlag(feed) ==
  /\ consumer = "idle" /\ runs < Runs
  /\ runs' = runs + 1 /\ in' = feed /\ traded' = 0 /\ orders' = <<>>
  /\ IF runs = 0 THEN producer_done' = <<[val |-> FALSE, tail |-> 0]>> /\ doneSeen' = 1
                 ELSE UNCHANGED <<producer_done, doneSeen>>
  /\ producer' = "loop" /\ next' = 0
  /\ ProducerSynchronises(Len(head_))
  /\ consumer' = "pop"
  /\ UNCHANGED state_

Run(feed) ==
  /\ consumer = "idle" /\ runs < Runs
  /\ runs' = runs + 1 /\ in' = feed /\ traded' = 0 /\ orders' = <<>>
  /\ producer_done' = <<[val |-> FALSE, tail |-> Len(tail_)]>> /\ doneSeen' = 1
  /\ producer' = "loop" /\ next' = 0
  /\ ProducerSynchronises(Len(head_))
  /\ consumer' = "pop"
  /\ UNCHANGED state_

(* The producer thread. *)

\* Decode in[i] and call try_push, again and again while it returns false.
TryPush == /\ producer = "loop" /\ next < Len(in)
           /\ PushCall(Decode(in, next))
           /\ UNCHANGED <<producerVars, consumerVars>>

\* Variant: a tick the ring has no room for is dropped.
TestRoomOnce(i) == \/ /\ PushFull(i)
                      /\ next' = next + 1
                      /\ UNCHANGED <<producer, producer_done, consumerVars>>
                   \/ PushRoom(i) /\ UNCHANGED <<producerVars, consumerVars>>

TestRoom(i) == /\ PushFull(i) \/ PushRoom(i)
               /\ UNCHANGED <<producerVars, consumerVars>>

WriteSlot == PushWrite /\ UNCHANGED <<producerVars, consumerVars>>

PublishTick == /\ PushPublish
               /\ next' = next + 1
               /\ UNCHANGED <<producer, producer_done, consumerVars>>

\* Variant: an empty input never sets the flag.
FinishSome == /\ producer = "loop" /\ next = Len(in) /\ prod.pc = "idle" /\ next > 0
              /\ producer_done' = Append(producer_done, [val |-> TRUE, tail |-> Len(tail_)])
              /\ producer' = "exited"
              /\ UNCHANGED <<ringVars, next, consumerVars>>

\* The release store of producer_done, after which the thread exits.
Finish == /\ producer = "loop" /\ next = Len(in) /\ prod.pc = "idle"
          /\ producer_done' = Append(producer_done, [val |-> TRUE, tail |-> Len(tail_)])
          /\ producer' = "exited"
          /\ UNCHANGED <<ringVars, next, consumerVars>>

(* The consumer loop. *)

TryPop == /\ consumer \in {"pop", "drain"}
          /\ PopCall
          /\ UNCHANGED <<producerVars, consumerVars>>

TickAvailable(i) == PopAvailable(i) /\ UNCHANGED <<producerVars, consumerVars>>

ReadSlot == PopRead /\ UNCHANGED <<producerVars, consumerVars>>

\* try_pop returned true: the tick is traded and the loop goes round.
Trade == /\ PopPublish
         /\ ProcessTick(cons.out)
         /\ traded' = traded + 1
         /\ consumer' = "pop"
         /\ UNCHANGED <<producerVars, doneSeen, runs, in>>

\* try_pop returned false: look at the flag, or, if it was set before this second
\* attempt, leave the loop.
NoTickAvailable(i) == /\ PopEmpty(i)
                      /\ consumer' = IF consumer = "pop" THEN "flag" ELSE "join"
                      /\ UNCHANGED <<producerVars, doneSeen, runs, in, traded, state_, orders>>

\* Variant: the flag is loaded relaxed.
LoadDoneRelaxed(k) ==
  /\ consumer = "flag"
  /\ k \in Readable(producer_done, doneSeen)
  /\ doneSeen' = k
  /\ consumer' = IF producer_done[k].val THEN "drain" ELSE "pop"
  /\ UNCHANGED <<ringVars, producerVars, runs, in, traded, state_, orders>>

\* The acquire load of producer_done.
LoadDone(k) ==
  /\ consumer = "flag"
  /\ k \in Readable(producer_done, doneSeen)
  /\ doneSeen' = k
  /\ IF producer_done[k].val
     THEN /\ consumer' = "drain"
          /\ ConsumerSynchronises(producer_done[k].tail)
     ELSE /\ consumer' = "pop"
          /\ UNCHANGED ringVars
  /\ UNCHANGED <<producerVars, runs, in, traded, state_, orders>>

\* producer.join(), which orders the caller after the thread, and the return.
Join == /\ consumer = "join" /\ producer = "exited"
        /\ producer' = "none" /\ consumer' = "idle"
        /\ ConsumerSynchronises(Len(tail_))
        /\ UNCHANGED <<next, producer_done, doneSeen, runs, in, traded, state_, orders>>

\* All the calls were made and have returned.
Terminated == consumer = "idle" /\ runs = Runs /\ UNCHANGED vars

-----------------------------------------------------------------------------
ProducerNext == \/ TryPush \/ WriteSlot \/ PublishTick \/ Finish
                \/ \E i \in DOMAIN head_ : TestRoom(i)

ConsumerNext == \/ TryPop \/ ReadSlot \/ Trade \/ Join
                \/ \E i \in DOMAIN tail_ : TickAvailable(i) \/ NoTickAvailable(i)
                \/ \E k \in DOMAIN producer_done : LoadDone(k)

Next == \/ ProducerNext \/ ConsumerNext \/ Terminated
        \/ \E feed \in Feeds : Run(feed)

(* Both threads keep running, and a store becomes visible to the other     *)
(* thread's loads in finite time: a load repeated for ever does not return *)
(* the same stale value for ever.                                          *)
Fairness ==
  /\ WF_vars(ProducerNext) /\ WF_vars(ConsumerNext)
  /\ SF_vars(TestRoom(Len(head_)))
  /\ SF_vars(TickAvailable(Len(tail_)) \/ NoTickAvailable(Len(tail_)))
  /\ SF_vars(LoadDone(Len(producer_done)))

Spec == Init /\ [][Next]_vars /\ Fairness

-----------------------------------------------------------------------------
(* Properties. *)

SymbolState == [window : [0 .. Window - 1 -> Int], head : 0 .. Window - 1,
                count : 0 .. Window, position : -1 .. 1]

Order == [tick_index : Nat, symbol : Symbols, side : {"BUY", "SELL"}, price : Int]

TypeOK ==
  /\ RingTypeOK
  /\ producer \in {"none", "loop", "exited"} /\ next \in 0 .. Len(in)
  /\ producer_done \in Seq([val : BOOLEAN, tail : Nat])
  /\ consumer \in {"idle", "pop", "flag", "drain", "join"}
  /\ doneSeen \in 0 .. Len(producer_done) /\ runs \in 0 .. Runs
  /\ in \in Feeds \cup {<<>>} /\ traded \in 0 .. Len(in)
  /\ state_ \in [Symbols -> SymbolState]
  /\ orders \in Seq(Order)

\* The wire ticks traded since on_init.
History == [k \in DOMAIN popped |->
              [symbol |-> popped[k].symbol, bid |-> popped[k].bid, ask |-> popped[k].ask]]

\* The two threads together implement the sequential pipeline: whatever the
\* interleaving, the staleness of their loads and the number of earlier calls, the
\* order stream grows exactly as if the ticks were traded one by one, and run()
\* returns only when the last one was.
Sequential == INSTANCE SequentialPipeline WITH
                running <- consumer # "idle", input <- in,
                history <- History

ImplementsSequential == Sequential!Spec

\* When the consumer leaves its loop every tick was traded and the ring is empty:
\* seeing producer_done set and then failing to pop once more really means the end.
NothingLeftBehind ==
  consumer = "join" => /\ traded = Len(in)
                       /\ popped = pushed

\* The reuse of the object for another run() never disturbs the ring.
RingIntact == RingSpec

\* Every order of a call prices its own tick, orders follow the ticks, at most one each,
\* and the positions kept in state_ are what the orders bought and sold: going back
\* through a symbol's orders never takes its position out of -1 .. 1.
Placed(s, side, from) == {k \in from .. Len(orders) : orders[k].symbol = s /\ orders[k].side = side}

Bought(s, from) == Cardinality(Placed(s, "BUY", from)) - Cardinality(Placed(s, "SELL", from))

OrdersConsistent ==
  /\ \A k \in DOMAIN orders :
        LET order == orders[k]
            tick == in[order.tick_index + 1]
        IN  /\ order.tick_index < traded
            /\ order.symbol = tick.symbol
            /\ order.price = IF order.side = "SELL" THEN tick.bid ELSE tick.ask
            /\ k > 1 => orders[k - 1].tick_index < order.tick_index
  /\ \A s \in Symbols : \A k \in DOMAIN orders : state_[s].position - Bought(s, k) \in -1 .. 1

\* The state of a symbol whose ticks, among all `ticks', are `own'.
LaidOut(st, ticks, own) ==
  /\ st.head = Cardinality(own) % Window
  /\ st.count = IF Cardinality(own) < Window THEN Cardinality(own) ELSE Window
  /\ \A i \in 0 .. Window - 1 :
       LET held == {k \in own : Sequential!Number(own, k) % Window = i}
       IN  st.window[i] = IF held = {} THEN 0 ELSE Mid(ticks[Max(held)])

\* Every slot of a window holds the mid the reference keeps in that slot: the latest one
\* whose number is the slot's modulo Window, over all the calls of run().  The rounding of
\* doubles depends on the order of the additions, so that the orders could differ from the
\* reference's if the window had the same mids in another arrangement.
WindowLayout ==
  \A s \in Symbols : LaidOut(state_[s], popped, Sequential!TicksOf(popped, s, Len(popped)))

\* The positions are those the reference reaches by replaying the whole history.
PositionsReplayed ==
  \A s \in Symbols : state_[s].position = Sequential!Positions(History)[Len(popped)][s]

(***************************************************************************)
(* The inductive invariant behind NothingLeftBehind, in named parts.       *)
(***************************************************************************)
\* Where the two threads are: there is a producer thread exactly during a call, it pushes
\* the tick number `next', and exits with nothing half pushed.
Threads ==
  /\ consumer = "idle" <=> producer = "none"
  /\ cons.pc # "idle" => consumer \in {"pop", "drain"}
  /\ prod.pc # "idle" => producer = "loop" /\ next < Len(in) /\ prod.item = Decode(in, next)
  /\ producer = "exited" => next = Len(in)

\* The messages of the flag: FALSE from the call, TRUE from the thread's exit, which
\* carries the final position of tail_.
FlagStores ==
  /\ Len(producer_done) = IF runs = 0 THEN 0 ELSE IF producer = "loop" THEN 1 ELSE 2
  /\ \A k \in 1 .. Len(producer_done) : producer_done[k].val <=> k = 2
  /\ producer = "exited" => producer_done[2].tail = Len(tail_)
  /\ runs = 0 => consumer = "idle"
  /\ consumer # "idle" => doneSeen > 0

\* The ring holds the ticks pushed and not yet traded, and what was pushed last are the
\* first ticks of the call's input.
TicksInFlight ==
  /\ Len(pushed) - Len(popped) = next - traded
  /\ consumer = "idle" => next = Len(in) /\ traded = Len(in)
  /\ next <= Len(pushed)
  /\ \A j \in 1 .. next : pushed[Len(pushed) - next + j] = Decode(in, j - 1)

\* What the consumer knows once it saw the flag set: the last store of tail_.
DoneSeen ==
  /\ consumer = "drain" => producer = "exited" /\ cons.seen = Len(tail_)
  /\ consumer = "join" => producer = "exited" /\ Len(popped) = Len(pushed)

PipelineInv ==
  /\ TypeOK /\ RingInv /\ Threads /\ FlagStores /\ TicksInFlight /\ DoneSeen
  /\ WindowLayout /\ PositionsReplayed

\* A call of run() returns.
RunReturns == consumer = "pop" ~> consumer = "idle"
=============================================================================
