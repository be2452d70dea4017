------------------------ MODULE StockConsumer_proofs ------------------------
(***************************************************************************)
(* The safety of the OrderCreated consumer for any orders, products and    *)
(* stocks, any finite number of handlers and any number of copies.         *)
(***************************************************************************)
EXTENDS StockConsumer, FiniteSetTheorems, TLAPS

Pcs == {"received", "updating", "acking", "rejecting"}

Delivery == [pc : Pcs, msg : Orders, live : BOOLEAN]

QueueOK == Queue!QueueTypeOK(Pcs)

dbOK ==
    /\ stock \in [Products -> Nat]
    /\ processed \in [Orders -> Nat]
    /\ failures \in [Orders -> Nat]
    /\ taken \in [Orders -> [Products -> Nat]]

LEMMA QueueCardinality == \A S : Queue!Cardinality(S) = Cardinality(S)
BY DEF Queue!Cardinality, Cardinality

\* A goroutine that is not idle is about an order.
LEMMA BusyDelivery ==
    ASSUME QueueOK, NEW w \in Workers, ~At(w, "idle")
    PROVE worker[w] \in Delivery /\ OrderOf(w) \in Orders
BY DEF QueueOK, Queue!QueueTypeOK, Queue!Idle, Queue!At, At, OrderOf, Delivery, Pcs

\* What a handler does to its delivery keeps the queue's type.
LEMMA HandlerKeepsQueue ==
    ASSUME QueueOK, NEW w \in Workers, ~At(w, "idle"),
           \/ Queue!Ack(w) \/ Queue!NackRequeue(w) \/ Queue!NackDiscard(w)
           \/ \E pc \in Pcs : Queue!Advance(w, pc)
    PROVE QueueOK'
<1>1. worker[w] \in Delivery
  BY BusyDelivery
<1>2. ready \in [Orders -> Nat] /\ dead \in [Orders -> Nat]
      /\ worker \in [Workers -> {Queue!Idle} \cup Delivery]
  BY DEF QueueOK, Queue!QueueTypeOK, Delivery
<1>3. CASE Queue!Ack(w)
  BY <1>2, <1>3 DEF Queue!Ack, Queue!Finish, QueueOK, Queue!QueueTypeOK, Delivery
<1>4. CASE Queue!NackRequeue(w)
  BY <1>1, <1>2, <1>4
     DEF Queue!NackRequeue, Queue!Finish, QueueOK, Queue!QueueTypeOK, Delivery
<1>5. CASE Queue!NackDiscard(w)
  BY <1>1, <1>2, <1>5
     DEF Queue!NackDiscard, Queue!Finish, QueueOK, Queue!QueueTypeOK, Delivery
<1>6. ASSUME NEW pc \in Pcs, Queue!Advance(w, pc) PROVE QueueOK'
  <2>1. [worker[w] EXCEPT !.pc = pc] \in Delivery
    BY <1>1 DEF Delivery
  <2> QED BY <1>2, <1>6, <2>1 DEF Queue!Advance, QueueOK, Queue!QueueTypeOK, Delivery
<1> QED BY <1>3, <1>4, <1>5, <1>6

\* The broker's own steps keep the queue's type.
LEMMA BrokerKeepsQueue ==
    ASSUME QueueOK,
           \/ \E o \in Orders : Queue!Enqueue(o, 1)
           \/ \E w \in Workers, o \in Orders : Queue!Receive(w, o)
           \/ Queue!DropConnection \/ Queue!Crash
    PROVE QueueOK'
<1> USE DEF QueueOK, Queue!QueueTypeOK
<1>1. ASSUME NEW o \in Orders, Queue!Enqueue(o, 1) PROVE QueueOK'
  BY <1>1 DEF Queue!Enqueue
<1>2. ASSUME NEW w \in Workers, NEW o \in Orders, Queue!Receive(w, o) PROVE QueueOK'
  BY <1>2 DEF Queue!Receive, Pcs
<1>3. Queue!Redelivered \in [Orders -> Nat]
  <2>1. ASSUME NEW o \in Orders PROVE Queue!Cardinality(Queue!Holders(o)) \in Nat
    <3>1. Queue!Holders(o) \in SUBSET Workers
      BY DEF Queue!Holders
    <3>2. IsFiniteSet(Queue!Holders(o))
      BY <3>1, WorkersAssumption, FS_Subset
    <3> QED BY <3>2, QueueCardinality, FS_CardinalityType
  <2> QED BY <2>1 DEF Queue!Redelivered
<1>4. CASE Queue!DropConnection
  <2>1. ASSUME NEW w \in Workers
        PROVE worker'[w] \in {Queue!Idle} \cup Delivery
    <3>1. worker[w] \in {Queue!Idle} \cup Delivery
      BY DEF Delivery
    <3>2. CASE Queue!Live(w)
      <4>1. worker[w] \in Delivery
        BY <3>1, <3>2 DEF Queue!Live, Queue!Idle
      <4> QED BY <1>4, <3>2, <4>1 DEF Queue!DropConnection, Delivery
    <3>3. CASE ~Queue!Live(w)
      BY <1>4, <3>1, <3>3 DEF Queue!DropConnection
    <3> QED BY <3>2, <3>3
  <2> QED BY <1>3, <1>4, <2>1 DEF Queue!DropConnection, Delivery
<1>5. CASE Queue!Crash
  BY <1>3, <1>5 DEF Queue!Crash
<1> QED BY <1>1, <1>2, <1>4, <1>5

\* The transaction keeps the tables' types: the stock of a line is taken only
\* where there is enough of it.
LEMMA UpdateKeepsTables ==
    ASSUME dbOK, NEW o \in Orders, UpdateStock(o)
    PROVE dbOK'
<1>1. \A p \in Products : Items[o][p] \in Nat
  BY ItemsAssumption
<1>2. stock' \in [Products -> Nat]
  BY <1>1 DEF dbOK, UpdateStock, Served, Lines
<1>3. taken' \in [Orders -> [Products -> Nat]]
  BY <1>1 DEF dbOK, UpdateStock
<1>4. processed' \in [Orders -> Nat] /\ failures' \in [Orders -> Nat]
  BY DEF dbOK, UpdateStock
<1> QED BY <1>2, <1>3, <1>4 DEF dbOK

\* A step keeps every type.
LEMMA TypeStep ==
    ASSUME TypeOK, [Next]_vars
    PROVE TypeOK'
<1> USE DEF QueueOK, Pcs, dbOK
<1>0. QueueOK /\ dbOK /\ delivered \in [Orders -> 0..MaxCopies]
  BY DEF TypeOK
<1>q. QueueOK' /\ dbOK' /\ delivered' \in [Orders -> 0..MaxCopies] => TypeOK'
  BY DEF TypeOK
<1>d. dbVars' = dbVars => dbOK'
  BY <1>0 DEF dbVars
<1>1. ASSUME NEW o \in Orders, Deliver(o) PROVE TypeOK'
  <2>1. delivered' \in [Orders -> 0..MaxCopies]
    BY <1>0, <1>1, MaxCopiesAssumption DEF Deliver
  <2>2. QueueOK' /\ dbOK'
    BY <1>0, <1>1, <1>d, BrokerKeepsQueue DEF Deliver
  <2> QED BY <2>1, <2>2, <1>q
<1>2. ASSUME NEW w \in Workers, NEW o \in Orders, Receive(w, o) PROVE TypeOK'
  BY <1>0, <1>2, <1>d, <1>q, BrokerKeepsQueue DEF Receive, dbVars
<1>3. ASSUME NEW w \in Workers,
             SkipProcessed(w) \/ PassCheck(w) \/ HandlerFails(w)
               \/ AckHandled(w) \/ RejectShort(w)
      PROVE TypeOK'
  <2>1. ~At(w, "idle") /\ UNCHANGED <<delivered, dbVars>>
    BY <1>3 DEF SkipProcessed, PassCheck, HandlerFails, AckHandled, RejectShort,
                At, Queue!At
  <2>2. \/ Queue!Ack(w) \/ Queue!NackRequeue(w) \/ Queue!NackDiscard(w)
        \/ \E pc \in Pcs : Queue!Advance(w, pc)
    BY <1>3 DEF SkipProcessed, PassCheck, HandlerFails, AckHandled, RejectShort
  <2>3. QueueOK'
    BY <2>1, <2>2, <1>0, HandlerKeepsQueue
  <2> QED BY <2>1, <2>3, <1>0, <1>d, <1>q
<1>4. ASSUME NEW w \in Workers, CommitStockUpdate(w) \/ CommitReplyLost(w)
      PROVE TypeOK'
  <2>1. ~At(w, "idle") /\ UpdateStock(OrderOf(w)) /\ UNCHANGED delivered
    BY <1>4 DEF CommitStockUpdate, CommitReplyLost, At, Queue!At
  <2>2. Queue!NackRequeue(w) \/ \E pc \in Pcs : Queue!Advance(w, pc)
    BY <1>4 DEF CommitStockUpdate, CommitReplyLost
  <2>3. QueueOK'
    BY <2>1, <2>2, <1>0, HandlerKeepsQueue
  <2>4. dbOK'
    BY <2>1, <1>0, BusyDelivery, UpdateKeepsTables
  <2> QED BY <2>1, <2>3, <2>4, <1>0, <1>q
<1>5. CASE DropConnection
  BY <1>0, <1>5, <1>d, <1>q, BrokerKeepsQueue DEF DropConnection, dbVars
<1>6. CASE Crash
  BY <1>0, <1>6, <1>d, <1>q, BrokerKeepsQueue DEF Crash, dbVars
<1>7. CASE UNCHANGED vars
  BY <1>7 DEF vars, queueVars, dbVars, TypeOK, Queue!QueueTypeOK
<1> QED BY <1>1, <1>2, <1>3, <1>4, <1>5, <1>6, <1>7 DEF Next, Handle

\* Every variable keeps its type; the stock of no product gets negative.
THEOREM TypeCorrect == Spec => []TypeOK
<1>1. Init => TypeOK
  BY InitialStocksAssumption, MaxCopiesAssumption
     DEF Init, TypeOK, Queue!QueueInit, Queue!QueueTypeOK
<1> QED BY <1>1, TypeStep, PTL DEF Spec

-----------------------------------------------------------------------------

\* What a handler that is past its transaction knows of the tables.
Recorded ==
    \A w \in Workers :
        /\ At(w, "acking") \/ At(w, "rejecting") => processed[OrderOf(w)] > 0
        /\ At(w, "rejecting") => failures[OrderOf(w)] > 0

\* A step of one handler leaves the others where they are.
LEMMA OthersStay ==
    ASSUME QueueOK, NEW w \in Workers, ~At(w, "idle"),
           \/ Queue!Ack(w) \/ Queue!NackRequeue(w) \/ Queue!NackDiscard(w)
           \/ \E pc \in Pcs : Queue!Advance(w, pc)
    PROVE /\ \A v \in Workers : v # w => worker'[v] = worker[v]
          /\ \/ worker'[w] = Queue!Idle
             \/ \E pc \in Pcs : /\ Queue!Advance(w, pc)
                                /\ worker'[w] = [worker[w] EXCEPT !.pc = pc]
BY DEF QueueOK, Queue!QueueTypeOK, Queue!Ack, Queue!NackRequeue, Queue!NackDiscard,
       Queue!Advance, Queue!Finish

\* The transaction only adds rows.
LEMMA UpdateAdds ==
    ASSUME dbOK, NEW o \in Orders, UpdateStock(o)
    PROVE /\ processed' = [processed EXCEPT ![o] = @ + 1]
          /\ processed'[o] = processed[o] + 1
          /\ \A m \in Orders : processed'[m] >= processed[m] /\ failures'[m] >= failures[m]
          /\ Short(o) => failures'[o] > 0
BY DEF dbOK, UpdateStock

\* A message is dead-lettered only if its StockUpdateFailed row is in the
\* outbox, and the handlers' later steps find what their transaction wrote.
LEMMA RecordedIsInvariant == Spec => [](Recorded /\ DeadLetterIsCompensated)
<1> DEFINE Inv == Recorded /\ DeadLetterIsCompensated
<1>1. Init => Inv
  BY DEF Init, Recorded, DeadLetterIsCompensated, Queue!QueueInit, Queue!Idle, At, Queue!At
<1>2. TypeOK /\ TypeOK' /\ Inv /\ [Next]_vars => Inv'
  <2> SUFFICES ASSUME TypeOK, TypeOK', Inv, [Next]_vars PROVE Inv'
    OBVIOUS
  <2>0. QueueOK /\ dbOK /\ QueueOK' /\ dbOK'
    BY DEF TypeOK, QueueOK, dbOK, Pcs
  <2>1. ASSUME NEW o \in Orders, Deliver(o) PROVE Inv'
    BY <2>1 DEF Deliver, Queue!Enqueue, dbVars, Recorded, DeadLetterIsCompensated,
               At, Queue!At, OrderOf
  <2>2. ASSUME NEW w \in Workers, NEW o \in Orders, Receive(w, o) PROVE Inv'
    <3>1. UNCHANGED <<dead, processed, failures>>
      BY <2>2 DEF Receive, Queue!Receive, dbVars
    <3>2. \A v \in Workers : worker'[v] = worker[v] \/ worker'[v].pc = "received"
      BY <2>0, <2>2 DEF Receive, Queue!Receive, QueueOK, Queue!QueueTypeOK
    <3> QED BY <3>1, <3>2 DEF Recorded, DeadLetterIsCompensated, At, Queue!At, OrderOf
  <2>3. ASSUME NEW w \in Workers,
               SkipProcessed(w) \/ PassCheck(w) \/ HandlerFails(w) \/ AckHandled(w)
        PROVE Inv'
    <3>1. UNCHANGED <<dead, processed, failures>>
      BY <2>3 DEF SkipProcessed, PassCheck, HandlerFails, AckHandled, dbVars,
                  Queue!Ack, Queue!Advance, Queue!NackRequeue
    <3>2. \A v \in Workers : \/ worker'[v] = worker[v]
                             \/ worker'[v].pc \in {"idle", "updating"}
      BY <2>0, <2>3
         DEF SkipProcessed, PassCheck, HandlerFails, AckHandled, Queue!Ack, Queue!Advance,
             Queue!NackRequeue, Queue!Finish, Queue!Idle, QueueOK, Queue!QueueTypeOK,
             At, Queue!At
    <3> QED BY <3>1, <3>2 DEF Recorded, DeadLetterIsCompensated, At, Queue!At, OrderOf
  <2>4. ASSUME NEW w \in Workers, CommitStockUpdate(w) PROVE Inv'
    <3>1. /\ At(w, "updating") /\ UpdateStock(OrderOf(w)) /\ UNCHANGED dead
          /\ Queue!Advance(w, IF Short(OrderOf(w)) THEN "rejecting" ELSE "acking")
      BY <2>4 DEF CommitStockUpdate, Queue!Advance
    <3>2. OrderOf(w) \in Orders /\ worker[w] \in Delivery
      BY <3>1, <2>0, BusyDelivery DEF At, Queue!At
    <3>3. /\ processed'[OrderOf(w)] > 0
          /\ \A m \in Orders : processed'[m] >= processed[m] /\ failures'[m] >= failures[m]
          /\ Short(OrderOf(w)) => failures'[OrderOf(w)] > 0
      BY <3>1, <3>2, <2>0, UpdateAdds DEF dbOK
    <3>4. /\ \A v \in Workers \ {w} : worker'[v] = worker[v]
          /\ worker'[w].msg = OrderOf(w)
          /\ worker'[w].pc = "rejecting" => Short(OrderOf(w))
      BY <3>1, <3>2, <2>0
         DEF Queue!Advance, QueueOK, Queue!QueueTypeOK, OrderOf, Delivery
    <3>5. Recorded'
      <4> SUFFICES ASSUME NEW v \in Workers
                   PROVE /\ (At(v, "acking") \/ At(v, "rejecting")
                                => processed[OrderOf(v)] > 0)'
                         /\ (At(v, "rejecting") => failures[OrderOf(v)] > 0)'
        BY DEF Recorded
      <4>1. CASE v = w
        BY <4>1, <3>3, <3>4 DEF At, Queue!At, OrderOf
      <4>2. CASE v # w /\ ~At(v, "idle")
        <5>1. OrderOf(v) \in Orders
          BY <4>2, <2>0, BusyDelivery
        <5> QED BY <4>2, <5>1, <3>3, <3>4, <2>0 DEF Recorded, At, Queue!At, OrderOf, dbOK
      <4>3. CASE v # w /\ At(v, "idle")
        BY <4>3, <3>4 DEF At, Queue!At
      <4> QED BY <4>1, <4>2, <4>3
    <3>6. DeadLetterIsCompensated'
      BY <3>1, <3>3, <2>0 DEF DeadLetterIsCompensated, dbOK
    <3> QED BY <3>5, <3>6
  <2>5. ASSUME NEW w \in Workers, CommitReplyLost(w) PROVE Inv'
    <3>1. /\ At(w, "updating") /\ UpdateStock(OrderOf(w)) /\ UNCHANGED dead
          /\ Queue!NackRequeue(w)
      BY <2>5 DEF CommitReplyLost, Queue!NackRequeue
    <3>2. OrderOf(w) \in Orders
      BY <3>1, <2>0, BusyDelivery DEF At, Queue!At
    <3>3. \A m \in Orders : processed'[m] >= processed[m] /\ failures'[m] >= failures[m]
      BY <3>1, <3>2, <2>0, UpdateAdds
    <3>4. \A v \in Workers : worker'[v] = worker[v] \/ worker'[v].pc = "idle"
      BY <3>1, <2>0
         DEF Queue!NackRequeue, Queue!Finish, Queue!Idle, QueueOK, Queue!QueueTypeOK
    <3>5. Recorded'
      <4> SUFFICES ASSUME NEW v \in Workers, worker'[v] = worker[v], ~At(v, "idle")
                   PROVE /\ (At(v, "acking") \/ At(v, "rejecting")
                                => processed[OrderOf(v)] > 0)'
                         /\ (At(v, "rejecting") => failures[OrderOf(v)] > 0)'
        BY <3>4 DEF Recorded, At, Queue!At
      <4>1. OrderOf(v) \in Orders
        BY <2>0, BusyDelivery
      <4> QED BY <4>1, <3>3, <2>0 DEF Recorded, At, Queue!At, OrderOf, dbOK
    <3>6. DeadLetterIsCompensated'
      BY <3>1, <3>3, <2>0 DEF DeadLetterIsCompensated, dbOK
    <3> QED BY <3>5, <3>6
  <2>6. ASSUME NEW w \in Workers, RejectShort(w) PROVE Inv'
    <3>1. At(w, "rejecting") /\ Queue!NackDiscard(w) /\ UNCHANGED <<processed, failures>>
      BY <2>6 DEF RejectShort, dbVars
    <3>2. failures[OrderOf(w)] > 0
      BY <3>1 DEF Recorded
    <3>3. DeadLetterIsCompensated'
      BY <3>1, <3>2, <2>0
         DEF Queue!NackDiscard, DeadLetterIsCompensated, OrderOf, QueueOK, Queue!QueueTypeOK
    <3>4. \A v \in Workers : worker'[v] = worker[v] \/ worker'[v].pc = "idle"
      BY <3>1, <2>0
         DEF Queue!NackDiscard, Queue!Finish, Queue!Idle, QueueOK, Queue!QueueTypeOK
    <3> QED BY <3>1, <3>3, <3>4 DEF Recorded, At, Queue!At, OrderOf
  <2>7. CASE DropConnection
    <3>1. UNCHANGED <<dead, processed, failures>>
      BY <2>7 DEF DropConnection, Queue!DropConnection, dbVars
    <3>2. \A v \in Workers : \/ At(v, "idle") /\ worker'[v] = worker[v]
                             \/ /\ worker'[v].pc = worker[v].pc
                                /\ worker'[v].msg = worker[v].msg
      <4> SUFFICES ASSUME NEW v \in Workers, ~At(v, "idle")
                   PROVE worker'[v].pc = worker[v].pc /\ worker'[v].msg = worker[v].msg
        BY <2>7, <2>0
           DEF DropConnection, Queue!DropConnection, QueueOK, Queue!QueueTypeOK, At,
               Queue!At, Queue!Idle, Queue!Live
      <4>1. worker[v] \in Delivery
        BY <2>0, BusyDelivery
      <4> QED BY <4>1, <2>7 DEF DropConnection, Queue!DropConnection, Delivery
    <3> QED BY <3>1, <3>2 DEF Recorded, DeadLetterIsCompensated, At, Queue!At, OrderOf
  <2>8. CASE Crash
    BY <2>8 DEF Crash, Queue!Crash, Queue!Idle, dbVars, Recorded,
               DeadLetterIsCompensated, At, Queue!At
  <2>9. CASE UNCHANGED vars
    BY <2>9 DEF vars, queueVars, dbVars, Recorded, DeadLetterIsCompensated, At,
               Queue!At, OrderOf
  <2> QED
    BY <2>1, <2>2, <2>3, <2>4, <2>5, <2>6, <2>7, <2>8, <2>9 DEF Next, Handle
<1> QED BY <1>1, <1>2, TypeCorrect, PTL DEF Spec

\* A dead-lettered order has its StockUpdateFailed row in the outbox.
THEOREM DeadLettersAreCompensated == Spec => []DeadLetterIsCompensated
BY RecordedIsInvariant, PTL

-----------------------------------------------------------------------------

\* Some copy of the message is in the queue, or will go back to it when its
\* handler fails.
Pending(o) == ready[o] > 0 \/ Queue!Holders(o) # {}

\* The broker takes no copy away but to hand it to a goroutine.
LEMMA BrokerKeepsPending ==
    ASSUME QueueOK, NEW o \in Orders, Pending(o),
           \/ \E m \in Orders : Queue!Enqueue(m, 1)
           \/ \E w \in Workers, m \in Orders : Queue!Receive(w, m)
           \/ Queue!DropConnection \/ Queue!Crash
    PROVE Pending(o)'
<1> USE DEF QueueOK, Queue!QueueTypeOK
<1>1. ASSUME NEW m \in Orders, Queue!Enqueue(m, 1) PROVE Pending(o)'
  BY <1>1 DEF Queue!Enqueue, Pending, Queue!Holders, Queue!Live
<1>2. ASSUME NEW w \in Workers, NEW m \in Orders, Queue!Receive(w, m) PROVE Pending(o)'
  <2>1. /\ worker'[w].msg = m /\ worker'[w].live
        /\ \A v \in Workers : v # w => worker'[v] = worker[v]
        /\ \A n \in Orders : n # m => ready'[n] = ready[n]
    BY <1>2 DEF Queue!Receive
  <2>2. CASE o = m
    BY <2>1, <2>2 DEF Pending, Queue!Holders, Queue!Live
  <2>3. CASE o # m
    <3>1. ~worker[w].live
      BY <1>2 DEF Queue!Receive, Queue!At, Queue!Idle, Pcs
    <3> QED BY <2>1, <2>3, <3>1 DEF Pending, Queue!Holders, Queue!Live
  <2> QED BY <2>2, <2>3
<1>3. Queue!Redelivered[o] > 0
  <2>1. Queue!Holders(o) \in SUBSET Workers
    BY DEF Queue!Holders
  <2>2. IsFiniteSet(Queue!Holders(o))
    BY <2>1, WorkersAssumption, FS_Subset
  <2>3. /\ Cardinality(Queue!Holders(o)) \in Nat
        /\ Queue!Holders(o) # {} => Cardinality(Queue!Holders(o)) # 0
    BY <2>2, FS_CardinalityType, FS_EmptySet
  <2>4. Queue!Redelivered[o] = ready[o] + Cardinality(Queue!Holders(o))
    BY QueueCardinality DEF Queue!Redelivered
  <2> QED BY <2>3, <2>4 DEF Pending
<1>4. CASE Queue!DropConnection
  BY <1>3, <1>4 DEF Queue!DropConnection, Pending
<1>5. CASE Queue!Crash
  BY <1>3, <1>5 DEF Queue!Crash, Pending
<1> QED BY <1>1, <1>2, <1>4, <1>5

\* A handler settles no copy but the one it was given, and that one only with
\* an ack or a nack without requeue.
LEMMA HandlerKeepsPending ==
    ASSUME QueueOK, NEW w \in Workers, ~At(w, "idle"), NEW o \in Orders, Pending(o),
           \/ (Queue!Ack(w) \/ Queue!NackDiscard(w)) /\ o # OrderOf(w)
           \/ Queue!NackRequeue(w)
           \/ \E pc \in Pcs : Queue!Advance(w, pc)
    PROVE Pending(o)'
<1> USE DEF QueueOK, Queue!QueueTypeOK
<1>0. worker[w] \in Delivery
  BY BusyDelivery
<1>1. CASE (Queue!Ack(w) \/ Queue!NackDiscard(w)) /\ o # OrderOf(w)
  <2>1. ready' = ready /\ \A v \in Workers : v # w => worker'[v] = worker[v]
    BY <1>1 DEF Queue!Ack, Queue!NackDiscard, Queue!Finish
  <2>2. w \notin Queue!Holders(o)
    BY <1>1 DEF Queue!Holders, OrderOf
  <2> QED BY <2>1, <2>2 DEF Pending, Queue!Holders, Queue!Live
<1>2. CASE Queue!NackRequeue(w)
  <2>1. \A v \in Workers : v # w => worker'[v] = worker[v]
    BY <1>2 DEF Queue!NackRequeue, Queue!Finish
  <2>2. ready'[o] >= ready[o]
    BY <1>0, <1>2 DEF Queue!NackRequeue, Delivery
  <2>3. CASE w \in Queue!Holders(o)
    <3>1. ready'[o] = ready[o] + 1
      BY <1>2, <2>3 DEF Queue!NackRequeue, Queue!Holders
    <3> QED BY <3>1 DEF Pending
  <2>4. CASE w \notin Queue!Holders(o) /\ ready[o] > 0
    BY <1>2, <2>2, <2>4, <1>0 DEF Queue!NackRequeue, Delivery, Pending
  <2>5. CASE w \notin Queue!Holders(o) /\ ~(ready[o] > 0)
    BY <2>1, <2>5 DEF Pending, Queue!Holders, Queue!Live
  <2> QED BY <2>3, <2>4, <2>5
<1>3. ASSUME NEW pc \in Pcs, Queue!Advance(w, pc) PROVE Pending(o)'
  <2>1. ready' = ready
    BY <1>3 DEF Queue!Advance
  <2>2. \A v \in Workers : worker'[v].msg = worker[v].msg /\ worker'[v].live = worker[v].live
    BY <1>0, <1>3 DEF Queue!Advance, Delivery
  <2> QED BY <2>1, <2>2 DEF Pending, Queue!Holders, Queue!Live
<1> QED BY <1>1, <1>2, <1>3

\* No order is lost by the consumer: until an OrderCreated is processed, a copy
\* of it is pending, whatever fails, reconnects or restarts.
THEOREM NoEventIsLost == Spec => []NoEventLost
<1> DEFINE Kept(o) == delivered[o] > 0 => processed[o] > 0 \/ Pending(o)
           Inv == \A o \in Orders : Kept(o)
<1>1. Init => Inv
  BY DEF Init
<1>2. TypeOK /\ TypeOK' /\ Recorded /\ Inv /\ [Next]_vars => Inv'
  <2> SUFFICES ASSUME TypeOK, TypeOK', Recorded, Inv, [Next]_vars, NEW o \in Orders
               PROVE Kept(o)'
    OBVIOUS
  <2>0. QueueOK /\ dbOK /\ QueueOK' /\ dbOK' /\ delivered \in [Orders -> Nat] /\ Kept(o)
    BY DEF TypeOK, QueueOK, dbOK, Pcs
  <2>1. ASSUME NEW m \in Orders, Deliver(m) PROVE Kept(o)'
    <3>1. processed' = processed /\ Queue!Enqueue(m, 1)
      BY <2>1 DEF Deliver, dbVars
    <3>2. CASE o = m
      BY <3>1, <3>2, <2>0 DEF Queue!Enqueue, Pending, QueueOK, Queue!QueueTypeOK
    <3>3. CASE o # m
      <4>1. delivered'[o] = delivered[o]
        BY <2>0, <2>1, <3>3 DEF Deliver
      <4> QED BY <3>1, <4>1, <2>0, BrokerKeepsPending
    <3> QED BY <3>2, <3>3
  <2>2. ASSUME NEW w \in Workers, NEW m \in Orders, Receive(w, m) PROVE Kept(o)'
    BY <2>0, <2>2, BrokerKeepsPending DEF Receive, dbVars
  <2>3. ASSUME NEW w \in Workers, SkipProcessed(w) \/ AckHandled(w) \/ RejectShort(w)
        PROVE Kept(o)'
    <3>1. /\ ~At(w, "idle") /\ UNCHANGED <<delivered, processed>>
          /\ Queue!Ack(w) \/ Queue!NackDiscard(w)
          /\ processed[OrderOf(w)] > 0
      BY <2>3 DEF SkipProcessed, AckHandled, RejectShort, At, Queue!At, dbVars, Recorded
    <3>2. CASE o = OrderOf(w)
      BY <3>1, <3>2
    <3>3. CASE o # OrderOf(w)
      BY <3>1, <3>3, <2>0, HandlerKeepsPending
    <3> QED BY <3>2, <3>3
  <2>4. ASSUME NEW w \in Workers, PassCheck(w) \/ HandlerFails(w) PROVE Kept(o)'
    <3>1. /\ ~At(w, "idle") /\ UNCHANGED <<delivered, processed>>
          /\ Queue!NackRequeue(w) \/ \E pc \in Pcs : Queue!Advance(w, pc)
      BY <2>4 DEF PassCheck, HandlerFails, At, Queue!At, dbVars, Pcs
    <3> QED BY <3>1, <2>0, HandlerKeepsPending
  <2>5. ASSUME NEW w \in Workers, CommitStockUpdate(w) \/ CommitReplyLost(w)
        PROVE Kept(o)'
    <3>1. /\ ~At(w, "idle") /\ UpdateStock(OrderOf(w)) /\ UNCHANGED delivered
          /\ Queue!NackRequeue(w) \/ \E pc \in Pcs : Queue!Advance(w, pc)
      BY <2>5 DEF CommitStockUpdate, CommitReplyLost, At, Queue!At, Pcs
    <3>2. OrderOf(w) \in Orders
      BY <3>1, <2>0, BusyDelivery
    <3>3. processed'[o] >= processed[o]
      BY <3>1, <3>2, <2>0, UpdateAdds
    <3>4. Pending(o) => Pending(o)'
      BY <3>1, <2>0, HandlerKeepsPending
    <3> QED BY <3>1, <3>3, <3>4, <2>0 DEF dbOK
  <2>6. CASE DropConnection \/ Crash
    BY <2>0, <2>6, BrokerKeepsPending DEF DropConnection, Crash, dbVars
  <2>7. CASE UNCHANGED vars
    BY <2>7, <2>0 DEF vars, queueVars, dbVars, Pending, Queue!Holders, Queue!Live
  <2> QED BY <2>1, <2>2, <2>3, <2>4, <2>5, <2>6, <2>7 DEF Next, Handle
<1>3. Inv => NoEventLost
  BY DEF NoEventLost, Pending
<1> QED BY <1>1, <1>2, <1>3, TypeCorrect, RecordedIsInvariant, PTL DEF Spec

-----------------------------------------------------------------------------

\* Whatever the queue or a handler has, and whatever was processed, is of an
\* order that the broker delivered.
Delivered ==
    /\ \A o \in Orders : ready[o] > 0 \/ processed[o] > 0 => delivered[o] > 0
    /\ \A w \in Workers : ~At(w, "idle") => delivered[OrderOf(w)] > 0

\* What goes back to the queue was in it or with a handler.
LEMMA RedeliveredWasThere ==
    ASSUME QueueOK, NEW o \in Orders, Queue!Redelivered[o] > 0
    PROVE \/ ready[o] > 0
          \/ \E w \in Workers : ~At(w, "idle") /\ OrderOf(w) = o
<1>1. CASE Queue!Holders(o) = {}
  BY <1>1, QueueCardinality, FS_EmptySet DEF Queue!Redelivered, QueueOK, Queue!QueueTypeOK
<1>2. CASE Queue!Holders(o) # {}
  <2>1. PICK w \in Workers : worker[w].live /\ worker[w].msg = o
    BY <1>2 DEF Queue!Holders, Queue!Live
  <2>2. worker[w] # Queue!Idle
    BY <2>1 DEF Queue!Idle
  <2>3. ~At(w, "idle")
    BY <2>2 DEF QueueOK, Queue!QueueTypeOK, At, Queue!At, Pcs
  <2> QED BY <2>1, <2>3 DEF OrderOf
<1> QED BY <1>1, <1>2

\* Only an order the broker delivered is processed.
THEOREM ProcessedWasDelivered == Spec => []Delivered
<1>1. Init => Delivered
  BY DEF Init, Delivered, Queue!QueueInit, Queue!Idle, At, Queue!At
<1>2. TypeOK /\ TypeOK' /\ Delivered /\ [Next]_vars => Delivered'
  <2> SUFFICES ASSUME TypeOK, TypeOK', Delivered, [Next]_vars PROVE Delivered'
    OBVIOUS
  <2>0. QueueOK /\ dbOK /\ QueueOK' /\ delivered \in [Orders -> Nat]
    BY DEF TypeOK, QueueOK, dbOK, Pcs
  <2>1. ASSUME NEW o \in Orders, Deliver(o) PROVE Delivered'
    <3>1. /\ worker' = worker /\ processed' = processed
          /\ delivered'[o] > 0
          /\ \A m \in Orders : delivered[m] > 0 => delivered'[m] > 0
          /\ \A m \in Orders : m # o => ready'[m] = ready[m]
      BY <2>0, <2>1 DEF Deliver, Queue!Enqueue, dbVars, QueueOK, Queue!QueueTypeOK
    <3>2. \A w \in Workers : ~At(w, "idle") => OrderOf(w) \in Orders
      BY <2>0, BusyDelivery
    <3>3. \A m \in Orders : ready'[m] > 0 \/ processed'[m] > 0 => delivered'[m] > 0
      BY <3>1 DEF Delivered
    <3>4. \A w \in Workers : ~At(w, "idle")' => delivered'[OrderOf(w)'] > 0
      BY <3>1, <3>2 DEF Delivered, At, Queue!At, OrderOf
    <3> QED BY <3>3, <3>4 DEF Delivered
  <2>2. ASSUME NEW w \in Workers, NEW o \in Orders, Receive(w, o) PROVE Delivered'
    <3>1. /\ UNCHANGED <<delivered, processed>>
          /\ ready[o] > 0
          /\ \A m \in Orders : ready'[m] > 0 => ready[m] > 0
          /\ \A v \in Workers : worker'[v] = worker[v] \/ worker'[v].msg = o
      BY <2>0, <2>2 DEF Receive, Queue!Receive, dbVars, QueueOK, Queue!QueueTypeOK
    <3> QED BY <3>1 DEF Delivered, At, Queue!At, OrderOf
  <2>3. ASSUME NEW w \in Workers, Handle(w) PROVE Delivered'
    <3>1. /\ ~At(w, "idle") /\ delivered' = delivered
          /\ \/ Queue!Ack(w) \/ Queue!NackRequeue(w) \/ Queue!NackDiscard(w)
             \/ \E pc \in Pcs : Queue!Advance(w, pc)
          /\ processed' = processed \/ UpdateStock(OrderOf(w))
      BY <2>3 DEF Handle, SkipProcessed, PassCheck, HandlerFails, CommitStockUpdate,
                  CommitReplyLost, AckHandled, RejectShort, dbVars, At, Queue!At, Pcs
    <3>2. worker[w] \in Delivery /\ OrderOf(w) \in Orders /\ delivered[OrderOf(w)] > 0
      BY <2>0, <3>1, BusyDelivery DEF Delivered
    <3>3. \A m \in Orders : processed'[m] > 0 => delivered[m] > 0
      BY <2>0, <3>1, <3>2, UpdateAdds DEF Delivered, dbOK
    <3>4. \A m \in Orders : ready'[m] > 0 => delivered[m] > 0
      BY <2>0, <3>1, <3>2
         DEF Delivered, Queue!Ack, Queue!NackRequeue, Queue!NackDiscard, Queue!Advance,
             QueueOK, Queue!QueueTypeOK, OrderOf
    <3>5. ASSUME NEW v \in Workers, ~At(v, "idle")'
          PROVE delivered[worker'[v].msg] > 0
      <4>1. CASE v # w
        <5>1. worker'[v] = worker[v]
          BY <2>0, <3>1, <4>1, OthersStay
        <5> QED BY <3>5, <5>1 DEF Delivered, At, Queue!At, OrderOf
      <4>2. CASE v = w /\ worker'[w] = Queue!Idle
        BY <3>5, <4>2 DEF At, Queue!At, Queue!Idle
      <4>3. ASSUME v = w, NEW pc \in Pcs, worker'[w] = [worker[w] EXCEPT !.pc = pc]
            PROVE delivered[worker'[v].msg] > 0
        BY <3>2, <4>3 DEF Delivery, OrderOf
      <4> QED BY <2>0, <3>1, <4>1, <4>2, <4>3, OthersStay
    <3> QED BY <3>1, <3>3, <3>4, <3>5 DEF Delivered, OrderOf
  <2>4. CASE DropConnection
    <3>1. UNCHANGED <<delivered, processed>> /\ ready' = Queue!Redelivered
      BY <2>4 DEF DropConnection, Queue!DropConnection, dbVars
    <3>2. \A m \in Orders : ready'[m] > 0 => delivered[m] > 0
      BY <2>0, <3>1, RedeliveredWasThere DEF Delivered
    <3>3. ASSUME NEW v \in Workers, ~At(v, "idle")' PROVE delivered[worker'[v].msg] > 0
      <4>1. CASE At(v, "idle")
        BY <2>0, <2>4, <3>3, <4>1
           DEF DropConnection, Queue!DropConnection, QueueOK, Queue!QueueTypeOK, At,
               Queue!At, Queue!Idle, Queue!Live, Pcs
      <4>2. CASE ~At(v, "idle")
        <5>1. worker[v] \in Delivery
          BY <2>0, <4>2, BusyDelivery
        <5>2. worker'[v].msg = OrderOf(v)
          BY <2>4, <5>1 DEF DropConnection, Queue!DropConnection, Delivery, OrderOf
        <5> QED BY <4>2, <5>2 DEF Delivered
      <4> QED BY <4>1, <4>2
    <3> QED BY <3>1, <3>2, <3>3 DEF Delivered, OrderOf
  <2>5. CASE Crash
    <3>1. /\ UNCHANGED <<delivered, processed>> /\ ready' = Queue!Redelivered
          /\ \A v \in Workers : At(v, "idle")'
      BY <2>5 DEF Crash, Queue!Crash, Queue!Idle, dbVars, At, Queue!At
    <3>2. \A m \in Orders : ready'[m] > 0 => delivered[m] > 0
      BY <2>0, <3>1, RedeliveredWasThere DEF Delivered
    <3> QED BY <3>1, <3>2 DEF Delivered
  <2>6. CASE UNCHANGED vars
    BY <2>6 DEF vars, queueVars, dbVars, Delivered, At, Queue!At, OrderOf
  <2> QED BY <2>1, <2>2, <2>3, <2>4, <2>5, <2>6 DEF Next
<1> QED BY <1>1, <1>2, TypeCorrect, PTL DEF Spec

-----------------------------------------------------------------------------

\* What is taken for an order never exceeds its lines times the number of
\* transactions that processed it.
TakenWithin == \A o \in Orders, p \in Products : taken[o][p] <= processed[o] * Items[o][p]

LEMMA OneMore == \A n, k \in Nat : (n + 1) * k = n * k + k
OBVIOUS

\* What one transaction does to the history of its order.
LEMMA UpdateTakes ==
    ASSUME dbOK, NEW o \in Orders, UpdateStock(o)
    PROVE /\ \A p \in Products :
                taken'[o][p] = taken[o][p] + (IF p \in Served(o) THEN Items[o][p] ELSE 0)
          /\ \A m \in Orders, p \in Products : m # o => taken'[m][p] = taken[m][p]
          /\ \A m \in Orders : m # o => processed'[m] = processed[m] /\ failures'[m] = failures[m]
          /\ processed'[o] = processed[o] + 1
          /\ failures'[o] = IF Short(o) THEN failures[o] + 1 ELSE failures[o]
BY DEF dbOK, UpdateStock

\* StockUpdateFailed is recorded for an order exactly when some of its lines
\* were not served, however often and by however many handlers it was processed.
THEOREM FailuresAreExact == Spec => [](FailureIffShort /\ TakenWithin)
<1> DEFINE Exact(o) == failures[o] > 0 <=>
                         \E p \in Products : taken[o][p] < processed[o] * Items[o][p]
           Within(o) == \A p \in Products : taken[o][p] <= processed[o] * Items[o][p]
           Inv == \A o \in Orders : Exact(o) /\ Within(o)
<1>1. Init => Inv
  <2> SUFFICES ASSUME Init, NEW o \in Orders PROVE Exact(o) /\ Within(o)
    OBVIOUS
  <2>1. failures[o] = 0 /\ processed[o] = 0 /\ \A p \in Products : taken[o][p] = 0
    BY DEF Init
  <2>2. \A p \in Products : Items[o][p] \in Nat /\ 0 * Items[o][p] = 0
    BY ItemsAssumption
  <2> QED BY <2>1, <2>2
<1>2. TypeOK /\ Inv /\ [Next]_vars => Inv'
  <2> SUFFICES ASSUME TypeOK, Inv, [Next]_vars, NEW o \in Orders
               PROVE (Exact(o) /\ Within(o))'
    OBVIOUS
  <2>0. QueueOK /\ dbOK /\ Exact(o) /\ Within(o)
    BY DEF TypeOK, QueueOK, dbOK, Pcs
  <2>1. ASSUME NEW m \in Orders, UpdateStock(m) PROVE (Exact(o) /\ Within(o))'
    <3>1. CASE o # m
      <4>1. /\ failures'[o] = failures[o] /\ processed'[o] = processed[o]
            /\ \A p \in Products : taken'[o][p] = taken[o][p]
        BY <2>0, <2>1, <3>1, UpdateTakes
      <4> QED BY <4>1, <2>0
    <3>2. CASE o = m
      <4>1. UpdateStock(o)
        BY <2>1, <3>2
      <4>2. ASSUME NEW p \in Products
            PROVE /\ Items[o][p] \in Nat /\ taken[o][p] \in Nat /\ processed[o] \in Nat
                  /\ processed[o] * Items[o][p] \in Nat
                  /\ processed'[o] * Items[o][p] = processed[o] * Items[o][p] + Items[o][p]
                  /\ p \in Served(o) \/ p \notin Lines(o)
                       => taken'[o][p] = taken[o][p] + Items[o][p]
                  /\ p \in Lines(o) \ Served(o)
                       => taken'[o][p] = taken[o][p] /\ Items[o][p] > 0
        <5>1. Items[o][p] \in Nat /\ taken[o][p] \in Nat /\ processed[o] \in Nat
          BY ItemsAssumption, <2>0 DEF dbOK
        <5>2. processed'[o] = processed[o] + 1
          BY <2>0, <4>1, UpdateTakes
        <5>3. processed'[o] * Items[o][p] = processed[o] * Items[o][p] + Items[o][p]
          BY <5>1, <5>2, OneMore
        <5>4. processed[o] * Items[o][p] \in Nat
          BY <5>1
        <5>5. taken'[o][p] = taken[o][p] + (IF p \in Served(o) THEN Items[o][p] ELSE 0)
          BY <2>0, <4>1, UpdateTakes
        <5>6. /\ p \notin Lines(o) => Items[o][p] = 0 /\ p \notin Served(o)
              /\ p \in Lines(o) => Items[o][p] > 0
          BY <5>1 DEF Lines, Served
        <5> QED BY <5>1, <5>3, <5>4, <5>5, <5>6
      <4>3. Within(o)'
        <5> SUFFICES ASSUME NEW p \in Products
                     PROVE taken'[o][p] <= processed'[o] * Items[o][p]
          OBVIOUS
        <5>1. taken[o][p] <= processed[o] * Items[o][p]
          BY <2>0
        <5>2. Served(o) \subseteq Lines(o)
          BY DEF Served
        <5> QED BY <4>2, <5>1, <5>2
      <4>4. CASE Short(o)
        <5>1. failures'[o] > 0
          BY <2>0, <4>1, <4>4, UpdateTakes DEF dbOK
        <5>2. PICK p \in Products : p \in Lines(o) \ Served(o)
          BY <4>4 DEF Short, Served, Lines
        <5>3. taken[o][p] <= processed[o] * Items[o][p]
          BY <2>0
        <5>4. taken'[o][p] < processed'[o] * Items[o][p]
          BY <4>2, <5>2, <5>3
        <5> QED BY <4>3, <5>1, <5>4
      <4>5. CASE ~Short(o)
        <5>1. failures'[o] = failures[o]
          BY <2>0, <4>1, <4>5, UpdateTakes
        <5>2. \A p \in Products : p \in Served(o) \/ p \notin Lines(o)
          BY <4>5 DEF Short
        <5>3. \A p \in Products : taken'[o][p] < processed'[o] * Items[o][p]
                                   <=> taken[o][p] < processed[o] * Items[o][p]
          BY <4>2, <5>2
        <5> QED BY <2>0, <4>3, <5>1, <5>3
      <4> QED BY <4>4, <4>5
    <3> QED BY <3>1, <3>2
  <2>2. ASSUME NEW w \in Workers, CommitStockUpdate(w) \/ CommitReplyLost(w)
        PROVE (Exact(o) /\ Within(o))'
    <3>1. ~At(w, "idle") /\ UpdateStock(OrderOf(w))
      BY <2>2 DEF CommitStockUpdate, CommitReplyLost, At, Queue!At
    <3> QED BY <3>1, <2>0, <2>1, BusyDelivery
  <2>3. ASSUME UNCHANGED dbVars PROVE (Exact(o) /\ Within(o))'
    BY <2>0, <2>3 DEF dbVars
  <2> QED
    BY <2>2, <2>3 DEF Next, Handle, Deliver, Receive, SkipProcessed, PassCheck,
       HandlerFails, AckHandled, RejectShort, DropConnection, Crash, vars
<1>3. Inv => FailureIffShort /\ TakenWithin
  BY DEF FailureIffShort, TakenWithin
<1> QED BY <1>1, <1>2, <1>3, TypeCorrect, PTL DEF Spec

-----------------------------------------------------------------------------

\* The handlers that have passed the check of o and not yet run the transaction:
\* they act on an answer that may no longer be true.
Racing(o) == {w \in Workers : At(w, "updating") /\ OrderOf(w) = o}

\* Every handler that races uses up one of the times o may still be processed.
RoomForRace ==
    \A o \in Orders : processed[o] + Cardinality(Racing(o)) <= Cardinality(Workers)

LEMMA RacingIsFinite ==
    ASSUME NEW o
    PROVE /\ IsFiniteSet(Racing(o)) /\ Cardinality(Racing(o)) \in Nat
          /\ Cardinality(Workers) \in Nat
<1>1. Racing(o) \in SUBSET Workers
  BY DEF Racing
<1> QED BY <1>1, WorkersAssumption, FS_Subset, FS_CardinalityType

\* Fewer handlers race, and the order was not processed once more.
LEMMA FewerRace ==
    ASSUME NEW o \in Orders, dbOK, RoomForRace, processed'[o] = processed[o],
           Racing(o)' \subseteq Racing(o)
    PROVE processed'[o] + Cardinality(Racing(o)') <= Cardinality(Workers)
<1>1. Cardinality(Racing(o)') <= Cardinality(Racing(o))
  BY RacingIsFinite, FS_Subset
<1>2. IsFiniteSet(Racing(o)') /\ Cardinality(Racing(o)') \in Nat
  BY RacingIsFinite, FS_Subset, FS_CardinalityType
<1> QED BY <1>1, <1>2, RacingIsFinite DEF RoomForRace, dbOK

\* An order is processed at most once per handler that can run at one time: the
\* check before the transaction stops every later handler, and the handlers
\* that passed it before are no more than there are.
THEOREM ProcessedOncePerHandler == Spec => []TakenOncePerHandler
<1>1. Init => RoomForRace
  <2> SUFFICES ASSUME Init, NEW o \in Orders
               PROVE processed[o] + Cardinality(Racing(o)) <= Cardinality(Workers)
    BY DEF RoomForRace
  <2>1. Racing(o) = {}
    BY DEF Init, Racing, Queue!QueueInit, Queue!Idle, At, Queue!At
  <2>2. processed[o] = 0 /\ Cardinality(Racing(o)) = 0
    BY <2>1, FS_EmptySet DEF Init
  <2> QED BY <2>2, RacingIsFinite
<1>2. TypeOK /\ TypeOK' /\ RoomForRace /\ [Next]_vars => RoomForRace'
  <2> SUFFICES ASSUME TypeOK, TypeOK', RoomForRace, [Next]_vars, NEW o \in Orders
               PROVE processed'[o] + Cardinality(Racing(o)') <= Cardinality(Workers)
    BY DEF RoomForRace
  <2>0. QueueOK /\ dbOK /\ QueueOK' /\ dbOK'
    BY DEF TypeOK, QueueOK, dbOK, Pcs
  <2>1. ASSUME NEW m \in Orders, Deliver(m)
        PROVE processed'[o] + Cardinality(Racing(o)') <= Cardinality(Workers)
    <3>1. processed' = processed /\ worker' = worker
      BY <2>1 DEF Deliver, Queue!Enqueue, dbVars
    <3>2. Racing(o)' \subseteq Racing(o)
      BY <3>1 DEF Racing, At, Queue!At, OrderOf
    <3> QED BY <3>1, <3>2, <2>0, FewerRace
  <2>2. ASSUME NEW w \in Workers, NEW m \in Orders, Receive(w, m)
        PROVE processed'[o] + Cardinality(Racing(o)') <= Cardinality(Workers)
    <3>1. processed' = processed
      BY <2>2 DEF Receive, dbVars
    <3>2. \A v \in Workers : worker'[v] = worker[v] \/ worker'[v].pc = "received"
      BY <2>0, <2>2 DEF Receive, Queue!Receive, QueueOK, Queue!QueueTypeOK
    <3>3. Racing(o)' \subseteq Racing(o)
      BY <3>2 DEF Racing, At, Queue!At, OrderOf
    <3> QED BY <3>1, <3>3, <2>0, FewerRace
  <2>3. ASSUME NEW w \in Workers,
               SkipProcessed(w) \/ HandlerFails(w) \/ AckHandled(w) \/ RejectShort(w)
        PROVE processed'[o] + Cardinality(Racing(o)') <= Cardinality(Workers)
    <3>1. /\ processed' = processed /\ ~At(w, "idle")
          /\ Queue!Ack(w) \/ Queue!NackRequeue(w) \/ Queue!NackDiscard(w)
      BY <2>3 DEF SkipProcessed, HandlerFails, AckHandled, RejectShort, dbVars, At, Queue!At
    <3>2. \A v \in Workers : worker'[v] = worker[v] \/ worker'[v].pc = "idle"
      BY <3>1, <2>0
         DEF Queue!Ack, Queue!NackRequeue, Queue!NackDiscard, Queue!Finish, Queue!Idle,
             QueueOK, Queue!QueueTypeOK
    <3>3. Racing(o)' \subseteq Racing(o)
      BY <3>2 DEF Racing, At, Queue!At, OrderOf
    <3> QED BY <3>1, <3>3, <2>0, FewerRace
  <2>4. ASSUME NEW w \in Workers, PassCheck(w)
        PROVE processed'[o] + Cardinality(Racing(o)') <= Cardinality(Workers)
    <3>1. /\ processed' = processed /\ processed[OrderOf(w)] = 0 /\ ~At(w, "idle")
          /\ worker' = [worker EXCEPT ![w].pc = "updating"]
      BY <2>4 DEF PassCheck, Queue!Advance, dbVars, At, Queue!At
    <3>2. worker[w] \in Delivery
      BY <3>1, <2>0, BusyDelivery
    <3>3. /\ \A v \in Workers : v # w => worker'[v] = worker[v]
          /\ worker'[w].msg = OrderOf(w)
      BY <3>1, <3>2, <2>0 DEF QueueOK, Queue!QueueTypeOK, OrderOf, Delivery
    <3>4. CASE o = OrderOf(w)
      <4>1. Racing(o)' \in SUBSET Workers
        BY DEF Racing
      <4>2. /\ IsFiniteSet(Racing(o)') /\ Cardinality(Racing(o)') \in Nat
            /\ Cardinality(Racing(o)') <= Cardinality(Workers)
        BY <4>1, WorkersAssumption, FS_Subset, FS_CardinalityType
      <4> QED BY <4>2, <3>1, <3>4, RacingIsFinite
    <3>5. CASE o # OrderOf(w)
      <4>1. Racing(o)' \subseteq Racing(o)
        BY <3>3, <3>5 DEF Racing, At, Queue!At, OrderOf
      <4> QED BY <3>1, <4>1, <2>0, FewerRace
    <3> QED BY <3>4, <3>5
  <2>5. ASSUME NEW w \in Workers, CommitStockUpdate(w) \/ CommitReplyLost(w)
        PROVE processed'[o] + Cardinality(Racing(o)') <= Cardinality(Workers)
    <3>1. /\ At(w, "updating") /\ UpdateStock(OrderOf(w))
          /\ \/ Queue!NackRequeue(w)
             \/ Queue!Advance(w, "rejecting") \/ Queue!Advance(w, "acking")
      BY <2>5 DEF CommitStockUpdate, CommitReplyLost
    <3>2. worker[w] \in Delivery /\ OrderOf(w) \in Orders
      BY <3>1, <2>0, BusyDelivery DEF At, Queue!At
    <3>3. /\ \A v \in Workers : v # w => worker'[v] = worker[v]
          /\ worker'[w].pc # "updating"
      BY <3>1, <3>2, <2>0
         DEF Queue!NackRequeue, Queue!Finish, Queue!Advance, Queue!Idle, Delivery,
             QueueOK, Queue!QueueTypeOK
    <3>4. Racing(o)' \subseteq Racing(o) \ {w}
      BY <3>3 DEF Racing, At, Queue!At, OrderOf
    <3>5. CASE o = OrderOf(w)
      <4>1. w \in Racing(o)
        BY <3>1, <3>5 DEF Racing
      <4>2. /\ IsFiniteSet(Racing(o) \ {w})
            /\ Cardinality(Racing(o) \ {w}) = Cardinality(Racing(o)) - 1
        BY <4>1, RacingIsFinite, FS_RemoveElement
      <4>3. /\ IsFiniteSet(Racing(o)') /\ Cardinality(Racing(o)') \in Nat
            /\ Cardinality(Racing(o)') <= Cardinality(Racing(o)) - 1
        BY <3>4, <4>2, FS_Subset, FS_CardinalityType
      <4>4. processed'[o] = processed[o] + 1
        BY <3>1, <3>5, <2>0, UpdateAdds
      <4> QED BY <4>3, <4>4, <2>0, RacingIsFinite DEF RoomForRace, dbOK
    <3>6. CASE o # OrderOf(w)
      <4>1. processed'[o] = processed[o]
        BY <3>1, <3>2, <3>6, <2>0, UpdateTakes
      <4> QED BY <3>4, <4>1, <2>0, FewerRace
    <3> QED BY <3>5, <3>6
  <2>6. CASE DropConnection
    <3>1. processed' = processed
      BY <2>6 DEF DropConnection, dbVars
    <3>2. \A v \in Workers : worker'[v].pc = "updating" => 
                                  At(v, "updating") /\ worker'[v].msg = OrderOf(v)
      <4> SUFFICES ASSUME NEW v \in Workers, worker'[v].pc = "updating"
                   PROVE At(v, "updating") /\ worker'[v].msg = OrderOf(v)
        OBVIOUS
      <4>1. CASE At(v, "idle")
        <5>1. worker'[v] = worker[v]
          BY <4>1, <2>6, <2>0
             DEF DropConnection, Queue!DropConnection, QueueOK, Queue!QueueTypeOK, At,
                 Queue!At, Queue!Idle, Queue!Live, Pcs
        <5> QED BY <4>1, <5>1 DEF At, Queue!At
      <4>2. CASE ~At(v, "idle")
        <5>1. worker[v] \in Delivery
          BY <4>2, <2>0, BusyDelivery
        <5> QED BY <5>1, <2>6
                DEF DropConnection, Queue!DropConnection, Delivery, At, Queue!At, OrderOf
      <4> QED BY <4>1, <4>2
    <3>3. Racing(o)' \subseteq Racing(o)
      BY <3>2 DEF Racing, At, Queue!At, OrderOf
    <3> QED BY <3>1, <3>3, <2>0, FewerRace
  <2>7. CASE Crash
    <3>1. processed' = processed
      BY <2>7 DEF Crash, dbVars
    <3>2. Racing(o)' \subseteq Racing(o)
      BY <2>7 DEF Crash, Queue!Crash, Queue!Idle, Racing, At, Queue!At, OrderOf
    <3> QED BY <3>1, <3>2, <2>0, FewerRace
  <2>8. CASE UNCHANGED vars
    <3>1. processed' = processed /\ worker' = worker
      BY <2>8 DEF vars, queueVars, dbVars
    <3>2. Racing(o)' \subseteq Racing(o)
      BY <3>1 DEF Racing, At, Queue!At, OrderOf
    <3> QED BY <3>1, <3>2, <2>0, FewerRace
  <2> QED
    BY <2>1, <2>2, <2>3, <2>4, <2>5, <2>6, <2>7, <2>8 DEF Next, Handle
<1>3. TypeOK /\ RoomForRace => TakenOncePerHandler
  <2> SUFFICES ASSUME TypeOK, RoomForRace, NEW o \in Orders
               PROVE processed[o] <= Cardinality(Workers)
    BY DEF TakenOncePerHandler
  <2> QED BY RacingIsFinite DEF RoomForRace, TypeOK
<1> QED BY <1>1, <1>2, <1>3, TypeCorrect, PTL DEF Spec

\* With one handler at a time the stock of an order is taken at most once: the
\* check of processed_events is then enough, and only then.
THEOREM OneHandlerTakesOnce ==
    ASSUME Cardinality(Workers) = 1
    PROVE Spec => []TakenAtMostOnce
<1>1. TypeOK /\ TakenOncePerHandler /\ TakenWithin => TakenAtMostOnce
  <2> SUFFICES ASSUME TypeOK, TakenOncePerHandler, TakenWithin,
                      NEW o \in Orders, NEW p \in Products
               PROVE taken[o][p] <= Items[o][p]
    BY DEF TakenAtMostOnce
  <2>1. processed[o] \in Nat /\ processed[o] <= 1 /\ taken[o][p] \in Nat
    BY DEF TypeOK, TakenOncePerHandler
  <2>2. Items[o][p] \in Nat /\ taken[o][p] <= processed[o] * Items[o][p]
    BY ItemsAssumption DEF TakenWithin
  <2>3. CASE processed[o] = 0
    BY <2>1, <2>2, <2>3
  <2>4. CASE processed[o] = 1
    BY <2>1, <2>2, <2>4
  <2> QED BY <2>1, <2>3, <2>4
<1> QED BY <1>1, TypeCorrect, ProcessedOncePerHandler, FailuresAreExact, PTL

=============================================================================
