------------------------- MODULE OrderService_proofs -------------------------
(***************************************************************************)
(* The safety of the checkout and of its cancellation, for any orders, any *)
(* finite number of handlers of StockUpdateFailed and any number of copies *)
(* of it.                                                                  *)
(***************************************************************************)
EXTENDS OrderService, FiniteSetTheorems, TLAPS

Pcs == {"received", "updating", "acking"}

QueueOK == FailedQueue!QueueTypeOK(Pcs)

-----------------------------------------------------------------------------
(* The queue.                                                              *)

\* A goroutine's delivery while it handles one.
Delivery == [pc : Pcs, msg : Orders, live : BOOLEAN]

\* m can still be handled: it waits, or a goroutine can return it.
Pending(m) == failedReady[m] > 0 \/ FailedQueue!Holders(m) # {}

HandlerStep(w) ==
    FailedQueue!Ack(w) \/ FailedQueue!NackRequeue(w) \/ FailedQueue!NackDiscard(w)
      \/ \E pc \in Pcs : FailedQueue!Advance(w, pc)

\* The process stops: what that does to the queue, whoever else was busy.
Restart ==
    /\ failedReady' = FailedQueue!Redelivered
    /\ canceller' = [w \in Cancellers |-> FailedQueue!Idle]
    /\ UNCHANGED failedDead

BrokerMoves ==
    \/ \E m \in Orders : FailedQueue!Enqueue(m, 1)
    \/ \E w \in Cancellers, m \in Orders : FailedQueue!Receive(w, m)
    \/ FailedQueue!DropConnection
    \/ Restart

\* A goroutine that is not idle has a message.
LEMMA BusyDelivery ==
    ASSUME QueueOK, NEW w \in Cancellers, ~FailedQueue!At(w, "idle")
    PROVE canceller[w] \in Delivery /\ canceller[w].msg \in Orders
BY DEF QueueOK, FailedQueue!QueueTypeOK, FailedQueue!Idle, FailedQueue!At, Delivery

\* A step of one handler leaves the others where they are; the handler is done
\* or goes on with the same message.
LEMMA HandlerMoves ==
    ASSUME QueueOK, NEW w \in Cancellers, ~FailedQueue!At(w, "idle"), HandlerStep(w)
    PROVE /\ \A v \in Cancellers : v # w => canceller'[v] = canceller[v]
          /\ \/ canceller'[w] = FailedQueue!Idle
             \/ \E pc \in Pcs : /\ FailedQueue!Advance(w, pc)
                                /\ canceller'[w] = [canceller[w] EXCEPT !.pc = pc]
                                /\ canceller'[w] \in Delivery
<1>1. canceller[w] \in Delivery
  BY BusyDelivery
<1>2. \A pc \in Pcs : [canceller[w] EXCEPT !.pc = pc] \in Delivery
  BY <1>1 DEF Delivery
<1>3. CASE FailedQueue!Ack(w) \/ FailedQueue!NackRequeue(w) \/ FailedQueue!NackDiscard(w)
  BY <1>3 DEF QueueOK, FailedQueue!QueueTypeOK, FailedQueue!Ack, FailedQueue!NackRequeue, FailedQueue!NackDiscard,
              FailedQueue!Finish
<1>4. ASSUME NEW pc \in Pcs, FailedQueue!Advance(w, pc)
      PROVE /\ \A v \in Cancellers : v # w => canceller'[v] = canceller[v]
            /\ canceller'[w] = [canceller[w] EXCEPT !.pc = pc]
  BY <1>4 DEF QueueOK, FailedQueue!QueueTypeOK, FailedQueue!Advance
<1> QED BY <1>2, <1>3, <1>4 DEF HandlerStep

\* What a handler does to its delivery keeps the queue's type.
LEMMA HandlerKeepsType ==
    ASSUME QueueOK, NEW w \in Cancellers, ~FailedQueue!At(w, "idle"), HandlerStep(w)
    PROVE QueueOK'
<1>1. canceller[w] \in Delivery
  BY BusyDelivery
<1>2. failedReady \in [Orders -> Nat] /\ failedDead \in [Orders -> Nat]
      /\ canceller \in [Cancellers -> {FailedQueue!Idle} \cup Delivery]
  BY DEF QueueOK, FailedQueue!QueueTypeOK, Delivery
<1>3. canceller' \in [Cancellers -> {FailedQueue!Idle} \cup Delivery]
  <2>1. \A v \in Cancellers : canceller'[v] \in {FailedQueue!Idle} \cup Delivery
    BY <1>2, HandlerMoves
  <2>2. canceller' = [v \in Cancellers |-> canceller'[v]]
    BY <1>2 DEF HandlerStep, FailedQueue!Ack, FailedQueue!NackRequeue, FailedQueue!NackDiscard,
                FailedQueue!Finish, FailedQueue!Advance
  <2> QED BY <2>1, <2>2
<1>4. failedReady' \in [Orders -> Nat] /\ failedDead' \in [Orders -> Nat]
  BY <1>1, <1>2 DEF HandlerStep, FailedQueue!Ack, FailedQueue!NackRequeue, FailedQueue!NackDiscard,
                    FailedQueue!Advance, Delivery
<1> QED BY <1>3, <1>4 DEF QueueOK, FailedQueue!QueueTypeOK, Delivery

\* Redelivery counts the messages.
LEMMA HoldersAreFinite ==
    ASSUME NEW m
    PROVE /\ FailedQueue!Cardinality(FailedQueue!Holders(m)) \in Nat
          /\ FailedQueue!Holders(m) # {} <=> FailedQueue!Cardinality(FailedQueue!Holders(m)) > 0
<1>1. FailedQueue!Holders(m) \in SUBSET Cancellers
  BY DEF FailedQueue!Holders
<1>2. IsFiniteSet(FailedQueue!Holders(m))
  BY <1>1, CancellersAssumption, FS_Subset
<1>3. FailedQueue!Cardinality(FailedQueue!Holders(m)) = Cardinality(FailedQueue!Holders(m))
  BY DEF FailedQueue!Cardinality, Cardinality
<1> QED BY <1>2, <1>3, FS_CardinalityType, FS_EmptySet

\* The connection goes: a goroutine keeps its message but not its delivery.
LEMMA DropConnectionMoves ==
    ASSUME QueueOK, FailedQueue!DropConnection, NEW w \in Cancellers
    PROVE \/ canceller'[w] = canceller[w]
          \/ /\ canceller[w] \in Delivery /\ canceller'[w] \in Delivery
             /\ canceller'[w].pc = canceller[w].pc /\ canceller'[w].msg = canceller[w].msg
<1>1. CASE FailedQueue!Live(w)
  <2>1. canceller[w] \in Delivery
    BY <1>1 DEF QueueOK, FailedQueue!QueueTypeOK, FailedQueue!Live, FailedQueue!Idle, Delivery
  <2> QED BY <1>1, <2>1 DEF FailedQueue!DropConnection, Delivery
<1>2. CASE ~FailedQueue!Live(w)
  BY <1>2 DEF FailedQueue!DropConnection
<1> QED BY <1>1, <1>2

\* The broker's own steps keep the queue's type.
LEMMA BrokerKeepsType ==
    ASSUME QueueOK, BrokerMoves
    PROVE QueueOK'
<1> USE DEF QueueOK, FailedQueue!QueueTypeOK
<1>1. ASSUME NEW m \in Orders, FailedQueue!Enqueue(m, 1) PROVE QueueOK'
  BY <1>1 DEF FailedQueue!Enqueue
<1>2. ASSUME NEW w \in Cancellers, NEW m \in Orders, FailedQueue!Receive(w, m) PROVE QueueOK'
  BY <1>2 DEF FailedQueue!Receive, Pcs
<1>3. FailedQueue!Redelivered \in [Orders -> Nat]
  BY HoldersAreFinite DEF FailedQueue!Redelivered
<1>4. CASE FailedQueue!DropConnection
  <2>1. \A w \in Cancellers : canceller'[w] \in {FailedQueue!Idle} \cup Delivery
    BY <1>4, DropConnectionMoves DEF Delivery
  <2> QED BY <1>3, <1>4, <2>1 DEF FailedQueue!DropConnection, Delivery
<1>5. CASE Restart
  BY <1>3, <1>5 DEF Restart
<1> QED BY <1>1, <1>2, <1>4, <1>5 DEF BrokerMoves

\* The broker loses nothing: it takes, hands out and takes back.
LEMMA BrokerKeepsPending ==
    ASSUME QueueOK, BrokerMoves, NEW m \in Orders, Pending(m)
    PROVE Pending(m)'
<1>1. failedReady \in [Orders -> Nat]
  BY DEF QueueOK, FailedQueue!QueueTypeOK
<1>2. ASSUME NEW n \in Orders, FailedQueue!Enqueue(n, 1) PROVE Pending(m)'
  BY <1>1, <1>2 DEF FailedQueue!Enqueue, Pending, FailedQueue!Holders, FailedQueue!Live
<1>3. ASSUME NEW w \in Cancellers, NEW n \in Orders, FailedQueue!Receive(w, n) PROVE Pending(m)'
  <2>1. canceller'[w] = [pc |-> "received", msg |-> n, live |-> TRUE]
    BY <1>3 DEF FailedQueue!Receive, QueueOK, FailedQueue!QueueTypeOK
  <2>2. CASE n = m
    BY <2>1, <2>2 DEF Pending, FailedQueue!Holders, FailedQueue!Live
  <2>3. CASE n # m /\ failedReady[m] > 0
    BY <1>1, <1>3, <2>3 DEF FailedQueue!Receive, Pending
  <2>4. CASE failedReady[m] = 0
    <3>1. PICK v \in Cancellers : FailedQueue!Live(v) /\ canceller[v].msg = m
      BY <1>1, <2>4 DEF Pending, FailedQueue!Holders
    <3>2. (n # m /\ v # w) \/ n = m
      BY <1>1, <1>3, <2>4, <3>1
         DEF FailedQueue!Receive, FailedQueue!At, QueueOK, FailedQueue!QueueTypeOK, FailedQueue!Idle, FailedQueue!Live, Pcs
    <3>3. v # w => canceller'[v] = canceller[v]
      BY <1>3 DEF FailedQueue!Receive, QueueOK, FailedQueue!QueueTypeOK
    <3> QED BY <2>2, <3>1, <3>2, <3>3 DEF Pending, FailedQueue!Holders, FailedQueue!Live
  <2> QED BY <1>1, <2>2, <2>3, <2>4
<1>4. FailedQueue!Redelivered[m] > 0
  BY <1>1, HoldersAreFinite DEF FailedQueue!Redelivered, Pending
<1> QED BY <1>2, <1>3, <1>4 DEF BrokerMoves, FailedQueue!DropConnection, Restart, Pending

\* A handler can only lose the message it acknowledges or discards.
LEMMA HandlerKeepsPending ==
    ASSUME QueueOK, NEW w \in Cancellers, ~FailedQueue!At(w, "idle"), HandlerStep(w),
           NEW m \in Orders, Pending(m),
           \/ canceller[w].msg # m
           \/ FailedQueue!NackRequeue(w) \/ \E pc \in Pcs : FailedQueue!Advance(w, pc)
    PROVE Pending(m)'
<1> USE DEF FailedQueue!NackRequeue, FailedQueue!Advance
<1>1. failedReady \in [Orders -> Nat] /\ canceller[w] \in Delivery
  BY BusyDelivery DEF QueueOK, FailedQueue!QueueTypeOK
<1>2. failedReady'[m] >= failedReady[m]
  BY <1>1 DEF HandlerStep, FailedQueue!Ack, FailedQueue!NackDiscard, Delivery
<1>3. CASE failedReady[m] > 0
  BY <1>1, <1>2, <1>3 DEF HandlerStep, FailedQueue!Ack, FailedQueue!NackDiscard, Delivery, Pending
<1>4. ASSUME NEW v \in FailedQueue!Holders(m) PROVE Pending(m)'
  <2>1. v \in Cancellers /\ canceller[v].live /\ canceller[v].msg = m
    BY <1>4 DEF FailedQueue!Holders, FailedQueue!Live
  <2>2. CASE v # w
    <3>1. canceller'[v] = canceller[v]
      BY <2>1, <2>2, HandlerMoves
    <3> QED BY <2>1, <3>1 DEF Pending, FailedQueue!Holders, FailedQueue!Live
  <2>3. CASE v = w /\ FailedQueue!NackRequeue(w)
    <3>1. failedReady'[m] = failedReady[m] + 1
      BY <1>1, <2>1, <2>3 DEF FailedQueue!Live
    <3> QED BY <1>1, <3>1 DEF Pending
  <2>4. ASSUME v = w, NEW pc \in Pcs, FailedQueue!Advance(w, pc) PROVE Pending(m)'
    <3>1. canceller'[w] = [canceller[w] EXCEPT !.pc = pc]
      BY <2>4 DEF QueueOK, FailedQueue!QueueTypeOK
    <3>2. canceller'[w].live /\ canceller'[w].msg = m
      BY <1>1, <2>1, <2>4, <3>1 DEF Delivery
    <3> QED BY <2>1, <2>4, <3>2 DEF Pending, FailedQueue!Holders, FailedQueue!Live
  <2> QED BY <2>1, <2>2, <2>3, <2>4
<1> QED BY <1>1, <1>3, <1>4 DEF Pending, FailedQueue!Holders

-----------------------------------------------------------------------------
(* The types.                                                              *)

CheckoutOK ==
    /\ request \in [Orders -> InFlight \cup {"idle", "rejected", "failed",
                                "succeeded", "compensated", "crashed"}]
    /\ orders \in [Orders -> {"none"} \cup OrderStatusNames]
    /\ outbox \in [Orders -> {"none", "UNPUBLISHED", "PUBLISHED", "CANCELLED"}]
    /\ call \in [Orders -> {"none", "sent", "created", "replied", "failed"}]
    /\ payment \in [Orders -> {"none", "PROCESSING", "SUCCEEDED"}]

CopiesOK == failedDelivered \in [Orders -> 0..MaxFailedCopies]

\* The types, in parts.
LEMMA TypeParts ==
    /\ TypeOK <=> CheckoutOK /\ QueueOK /\ CopiesOK
    /\ TypeOK' <=> CheckoutOK' /\ QueueOK' /\ CopiesOK'
BY DEF TypeOK, CheckoutOK, QueueOK, CopiesOK, Pcs, Payments!PaymentTypeOK

\* Every step of the consumer is one of a handler, of the queue or of both.
LEMMA FailureStep ==
    ASSUME NEW w \in Cancellers, HandleFailure(w)
    PROVE ~FailedQueue!At(w, "idle") /\ HandlerStep(w)
<1>1. ~FailedQueue!At(w, "idle")
  BY DEF HandleFailure, SkipFailure, ReadOrder, CancelByFailure, CancelReplyLost,
         FailureHandlerFails, AckFailure, FailedQueue!At
<1>2. FailedQueue!Ack(w) \/ FailedQueue!NackRequeue(w) \/ \E pc \in Pcs : FailedQueue!Advance(w, pc)
  BY DEF HandleFailure, SkipFailure, ReadOrder, CancelByFailure, CancelReplyLost,
         FailureHandlerFails, AckFailure, Pcs
<1> QED BY <1>1, <1>2 DEF HandlerStep

\* What the broker, the connection and a restart do to the queue.
LEMMA BrokerStep ==
    ASSUME \/ \E o \in Orders : FailureArrives(o)
           \/ \E w \in Cancellers, o \in Orders : ReceiveFailure(w, o)
           \/ DropConnection \/ Crash
    PROVE BrokerMoves
<1>1. CASE Crash
  BY <1>1 DEF Crash, Restart, BrokerMoves
<1>2. CASE ~Crash
  BY <1>2 DEF FailureArrives, ReceiveFailure, DropConnection, BrokerMoves
<1> QED BY <1>1, <1>2

\* The queue keeps its type in every step.
LEMMA QueueTypeStep ==
    ASSUME QueueOK, [Next]_vars
    PROVE QueueOK'
<1>1. ASSUME NEW w \in Cancellers, HandleFailure(w) PROVE QueueOK'
  BY <1>1, FailureStep, HandlerKeepsType
<1>2. ASSUME \/ \E o \in Orders : FailureArrives(o)
             \/ \E w \in Cancellers, o \in Orders : ReceiveFailure(w, o)
             \/ DropConnection \/ Crash
      PROVE QueueOK'
  BY <1>2, BrokerStep, BrokerKeepsType
<1>3. ASSUME UNCHANGED consumerVars PROVE QueueOK'
  BY <1>3 DEF consumerVars, QueueOK, FailedQueue!QueueTypeOK
<1> QED
  BY <1>1, <1>2, <1>3
     DEF Next, CreateOrder, RejectRequest, BeginOrderTx, CommitOrderTx, CommitReplyLost,
         RollbackOrderTx, SendPayment, PaymentSucceeds, PaymentFails, CancelOrder,
         RelayerMarks, PaymentStep, vars

-----------------------------------------------------------------------------

\* The steps of one CreateOrder request, with what the other requests keep.
Untouched(o) ==
    /\ request'[o] = request[o]
    /\ orders'[o] = orders[o]
    /\ outbox'[o] = outbox[o]
    /\ call'[o] = call[o]
    /\ payment'[o] = payment[o]

\* A step for one order leaves the rows of the others alone.
LEMMA OthersUntouched ==
    ASSUME CheckoutOK, NEW o \in Orders, CreateOrder(o) \/ RelayerMarks(o) \/ PaymentStep(o)
    PROVE \A m \in Orders : m # o => Untouched(m)
BY DEF CheckoutOK, Untouched, CreateOrder, RejectRequest, BeginOrderTx, CommitOrderTx,
       CommitReplyLost, RollbackOrderTx, SendPayment, PaymentSucceeds, PaymentFails,
       CancelOrder, RelayerMarks, PaymentStep, Goto, InsertOrder, tables, paymentVars,
       Payments!SendCall, Payments!ProcessPayment, Payments!CreatePayment,
       Payments!CreatePaymentFails, Payments!UpdatePaymentStatus,
       Payments!UpdatePaymentStatusFails

\* What the consumer does to the tables.
LEMMA FailureOnTables ==
    ASSUME CheckoutOK, QueueOK, NEW w \in Cancellers, HandleFailure(w)
    PROVE /\ UNCHANGED <<request, outbox, call, payment, failedDelivered>>
          /\ \/ UNCHANGED orders
             \/ FailedQueue!At(w, "updating") /\ SetCancelled(w)
BY DEF HandleFailure, SkipFailure, ReadOrder, CancelByFailure, CancelReplyLost,
       FailureHandlerFails, AckFailure, tables, paymentVars

\* Every variable of the checkout keeps its type.
LEMMA CheckoutTypeStep ==
    ASSUME CheckoutOK, QueueOK, [Next]_vars
    PROVE CheckoutOK'
<1> USE DEF OrderStatusNames
<1>1. ASSUME NEW o \in Orders, RejectRequest(o) \/ BeginOrderTx(o) \/ RollbackOrderTx(o)
               \/ PaymentSucceeds(o) \/ PaymentFails(o)
      PROVE CheckoutOK'
  BY <1>1 DEF CheckoutOK, RejectRequest, BeginOrderTx, RollbackOrderTx, PaymentSucceeds,
              PaymentFails, Goto, tables, paymentVars, InFlight
<1>2. ASSUME NEW o \in Orders, CommitOrderTx(o) \/ CommitReplyLost(o) PROVE CheckoutOK'
  BY <1>2 DEF CheckoutOK, CommitOrderTx, CommitReplyLost, Goto, InsertOrder, paymentVars,
              InFlight
<1>3. ASSUME NEW o \in Orders, SendPayment(o) PROVE CheckoutOK'
  BY <1>3 DEF CheckoutOK, SendPayment, Goto, Payments!SendCall, tables, InFlight
<1>4. ASSUME NEW o \in Orders, CancelOrder(o) PROVE CheckoutOK'
  BY <1>4 DEF CheckoutOK, CancelOrder, Goto, tables, paymentVars, InFlight
<1>5. ASSUME NEW o \in Orders, RelayerMarks(o) PROVE CheckoutOK'
  BY <1>5 DEF CheckoutOK, RelayerMarks, paymentVars
<1>6. ASSUME NEW o \in Orders, PaymentStep(o) PROVE CheckoutOK'
  BY <1>6 DEF CheckoutOK, PaymentStep, tables, Payments!ProcessPayment,
              Payments!CreatePayment, Payments!CreatePaymentFails,
              Payments!UpdatePaymentStatus, Payments!UpdatePaymentStatusFails
<1>7. ASSUME NEW w \in Cancellers, HandleFailure(w) PROVE CheckoutOK'
  <2>1. OrderOf(w) \in Orders
    BY <1>7, FailureStep, BusyDelivery DEF OrderOf
  <2> QED BY <1>7, <2>1, FailureOnTables DEF CheckoutOK, SetCancelled
<1>8. CASE Crash
  BY <1>8 DEF CheckoutOK, Crash, tables, paymentVars, InFlight
<1>9. ASSUME UNCHANGED <<request, tables, paymentVars>> PROVE CheckoutOK'
  BY <1>9 DEF CheckoutOK, tables, paymentVars
<1> QED
  BY <1>1, <1>2, <1>3, <1>4, <1>5, <1>6, <1>7, <1>8, <1>9
     DEF Next, CreateOrder, FailureArrives, ReceiveFailure, DropConnection, vars

\* A step keeps every type.
LEMMA TypeStep ==
    ASSUME TypeOK, [Next]_vars
    PROVE TypeOK'
<1> SUFFICES CopiesOK'
  BY TypeParts, QueueTypeStep, CheckoutTypeStep
<1>0. CopiesOK /\ CheckoutOK /\ QueueOK
  BY TypeParts
<1>1. ASSUME NEW o \in Orders, FailureArrives(o) PROVE CopiesOK'
  BY <1>0, <1>1, MaxFailedCopiesAssumption DEF FailureArrives, CopiesOK
<1>2. ASSUME NEW w \in Cancellers, HandleFailure(w) PROVE CopiesOK'
  BY <1>0, <1>2, FailureOnTables DEF CopiesOK
<1>3. ASSUME UNCHANGED failedDelivered PROVE CopiesOK'
  BY <1>0, <1>3 DEF CopiesOK
<1> QED
  BY <1>1, <1>2, <1>3
     DEF Next, CreateOrder, RejectRequest, BeginOrderTx, CommitOrderTx, CommitReplyLost,
         RollbackOrderTx, SendPayment, PaymentSucceeds, PaymentFails, CancelOrder,
         RelayerMarks, PaymentStep, ReceiveFailure, DropConnection, Crash, vars,
         consumerVars

\* Every variable keeps its type.
THEOREM TypeCorrect == Spec => []TypeOK
<1>1. Init => TypeOK
  BY MaxFailedCopiesAssumption
     DEF Init, TypeOK, Payments!PaymentInit, Payments!PaymentTypeOK, FailedQueue!QueueInit,
         FailedQueue!QueueTypeOK
<1> QED BY <1>1, TypeStep, PTL DEF Spec

-----------------------------------------------------------------------------

\* How far an order can be, seen from its request, its rows and its payment.
Consistent(o) ==
    /\ orders[o] = "none" <=> outbox[o] = "none"
    /\ request[o] \in {"idle", "inTx"} => orders[o] = "none"
    /\ request[o] \in {"ordered", "paying", "compensating", "compensated", "succeeded"}
         => orders[o] # "none"
    /\ call[o] # "none" =>
         /\ orders[o] # "none"
         /\ request[o] \in {"paying", "compensating", "compensated", "succeeded", "crashed"}
    /\ payment[o] # "none" => call[o] # "none"
    /\ call[o] = "replied" => payment[o] = "SUCCEEDED"
    /\ request[o] = "succeeded" => call[o] = "replied"

\* A handler of StockUpdateFailed goes on only with an order that is there.
Found == \A w \in Cancellers : FailedQueue!At(w, "updating") => orders[OrderOf(w)] # "none"

OrderInv == Found /\ \A o \in Orders : Consistent(o)

\* Rows of orders are not deleted, whatever step it is.
LEMMA OrdersStay ==
    ASSUME CheckoutOK, QueueOK, [Next]_vars, NEW o \in Orders, orders[o] # "none"
    PROVE orders'[o] # "none"
<1>1. ASSUME NEW m \in Orders, CreateOrder(m) \/ RelayerMarks(m) \/ PaymentStep(m)
      PROVE orders'[o] # "none"
  BY <1>1
     DEF CheckoutOK, CreateOrder, RejectRequest, BeginOrderTx, CommitOrderTx,
         CommitReplyLost, RollbackOrderTx, SendPayment, PaymentSucceeds, PaymentFails,
         CancelOrder, RelayerMarks, PaymentStep, InsertOrder, tables
<1>2. ASSUME NEW w \in Cancellers, HandleFailure(w) PROVE orders'[o] # "none"
  <2>1. OrderOf(w) \in Orders
    BY <1>2, FailureStep, BusyDelivery DEF OrderOf
  <2> QED BY <1>2, <2>1, FailureOnTables DEF CheckoutOK, SetCancelled
<1>3. ASSUME UNCHANGED orders PROVE orders'[o] # "none"
  BY <1>3
<1> QED
  BY <1>1, <1>2, <1>3
     DEF Next, FailureArrives, ReceiveFailure, DropConnection, Crash, tables, vars

\* A request, the worker and payment-service keep its order consistent.
LEMMA RequestKeepsConsistent ==
    ASSUME CheckoutOK, NEW o \in Orders, Consistent(o),
           CreateOrder(o) \/ RelayerMarks(o) \/ PaymentStep(o)
    PROVE Consistent(o)'
<1> USE DEF CheckoutOK, Consistent
<1>1. CASE RejectRequest(o) \/ BeginOrderTx(o) \/ RollbackOrderTx(o)
  BY <1>1 DEF RejectRequest, BeginOrderTx, RollbackOrderTx, Goto, tables, paymentVars
<1>2. CASE CommitOrderTx(o) \/ CommitReplyLost(o)
  BY <1>2 DEF CommitOrderTx, CommitReplyLost, Goto, InsertOrder, paymentVars
<1>3. CASE SendPayment(o)
  BY <1>3 DEF SendPayment, Goto, Payments!SendCall, tables
<1>4. CASE PaymentSucceeds(o) \/ PaymentFails(o)
  BY <1>4 DEF PaymentSucceeds, PaymentFails, Goto, tables, paymentVars
<1>5. CASE CancelOrder(o)
  BY <1>5 DEF CancelOrder, Goto, tables, paymentVars
<1>6. CASE RelayerMarks(o)
  BY <1>6 DEF RelayerMarks, paymentVars
<1>7. CASE PaymentStep(o)
  BY <1>7 DEF PaymentStep, tables, Payments!ProcessPayment, Payments!CreatePayment,
              Payments!CreatePaymentFails, Payments!UpdatePaymentStatus,
              Payments!UpdatePaymentStatusFails
<1> QED BY <1>1, <1>2, <1>3, <1>4, <1>5, <1>6, <1>7 DEF CreateOrder

\* The consumer's goroutines move to "updating" only with an order they found.
LEMMA FoundStep ==
    ASSUME CheckoutOK, QueueOK, Found, [Next]_vars
    PROVE Found'
<1> SUFFICES ASSUME NEW w \in Cancellers, FailedQueue!At(w, "updating")'
             PROVE orders'[canceller'[w].msg] # "none"
  BY DEF Found, OrderOf
<1>1. ASSUME FailedQueue!At(w, "updating"), canceller'[w].msg = OrderOf(w)
      PROVE orders'[canceller'[w].msg] # "none"
  <2>1. OrderOf(w) \in Orders
    BY <1>1, BusyDelivery DEF FailedQueue!At, OrderOf
  <2> QED BY <1>1, <2>1, OrdersStay DEF Found
<1>2. ASSUME NEW v \in Cancellers, HandleFailure(v), v # w
      PROVE orders'[canceller'[w].msg] # "none"
  <2>1. canceller'[w] = canceller[w]
    BY <1>2, FailureStep, HandlerMoves
  <2> QED BY <1>1, <2>1 DEF FailedQueue!At, OrderOf
<1>3. ASSUME HandleFailure(w) PROVE orders'[canceller'[w].msg] # "none"
  <2>1. canceller[w] \in Delivery /\ OrderOf(w) \in Orders
    BY <1>3, FailureStep, BusyDelivery DEF OrderOf
  <2>2. CASE ReadOrder(w)
    <3>1. canceller'[w] = [canceller[w] EXCEPT !.pc = "updating"]
      BY <2>2 DEF ReadOrder, FailedQueue!Advance, QueueOK, FailedQueue!QueueTypeOK
    <3>2. canceller'[w].msg = OrderOf(w) /\ orders[OrderOf(w)] # "none"
      BY <2>1, <2>2, <3>1 DEF ReadOrder, Delivery, OrderOf
    <3> QED BY <2>1, <3>2, OrdersStay
  <2>3. CASE ~ReadOrder(w)
    <3>1. canceller'[w].pc # "updating"
      BY <1>3, <2>1, <2>3
         DEF HandleFailure, SkipFailure, CancelByFailure, CancelReplyLost,
             FailureHandlerFails, AckFailure, FailedQueue!Ack, FailedQueue!NackRequeue,
             FailedQueue!Advance, FailedQueue!Finish, FailedQueue!Idle, QueueOK,
             FailedQueue!QueueTypeOK, Delivery
    <3> QED BY <3>1 DEF FailedQueue!At
  <2> QED BY <2>2, <2>3
<1>4. ASSUME NEW v \in Cancellers, NEW o \in Orders, ReceiveFailure(v, o)
      PROVE orders'[canceller'[w].msg] # "none"
  <2>1. canceller'[w] = canceller[w] \/ canceller'[w].pc = "received"
    BY <1>4 DEF ReceiveFailure, FailedQueue!Receive, QueueOK, FailedQueue!QueueTypeOK
  <2> QED BY <1>1, <2>1 DEF FailedQueue!At, OrderOf
<1>5. CASE DropConnection
  <2>1. FailedQueue!DropConnection
    BY <1>5 DEF DropConnection
  <2>2. canceller'[w].pc = canceller[w].pc /\ canceller'[w].msg = canceller[w].msg
    BY <2>1, DropConnectionMoves
  <2> QED BY <1>1, <2>2 DEF FailedQueue!At, OrderOf
<1>6. CASE Crash
  BY <1>6 DEF Crash, FailedQueue!Idle, FailedQueue!At
<1>7. ASSUME UNCHANGED canceller PROVE orders'[canceller'[w].msg] # "none"
  BY <1>1, <1>7 DEF FailedQueue!At, OrderOf
<1> QED
  BY <1>2, <1>3, <1>4, <1>5, <1>6, <1>7
     DEF Next, CreateOrder, RejectRequest, BeginOrderTx, CommitOrderTx, CommitReplyLost,
         RollbackOrderTx, SendPayment, PaymentSucceeds, PaymentFails, CancelOrder,
         RelayerMarks, PaymentStep, FailureArrives, FailedQueue!Enqueue, vars, consumerVars

\* The invariant from which the properties of the checkout follow.
LEMMA OrderInvariant == Spec => []OrderInv
<1>1. Init => OrderInv
  BY DEF Init, OrderInv, Found, Consistent, Payments!PaymentInit, FailedQueue!QueueInit,
         FailedQueue!Idle, FailedQueue!At
<1>2. TypeOK /\ OrderInv /\ [Next]_vars => OrderInv'
  <2> SUFFICES ASSUME TypeOK, OrderInv, [Next]_vars, NEW o \in Orders PROVE Consistent(o)'
    BY TypeParts, FoundStep DEF OrderInv
  <2>0. CheckoutOK /\ QueueOK /\ Consistent(o) /\ Found
    BY TypeParts DEF OrderInv
  <2>1. ASSUME Untouched(o) PROVE Consistent(o)'
    BY <2>0, <2>1 DEF Untouched, Consistent
  <2>2. ASSUME NEW m \in Orders, CreateOrder(m) \/ RelayerMarks(m) \/ PaymentStep(m)
        PROVE Consistent(o)'
    <3>1. CASE m = o
      BY <2>0, <2>2, <3>1, RequestKeepsConsistent
    <3>2. CASE m # o
      BY <2>0, <2>1, <2>2, <3>2, OthersUntouched
    <3> QED BY <3>1, <3>2
  <2>3. ASSUME NEW w \in Cancellers, HandleFailure(w) PROVE Consistent(o)'
    <3>1. OrderOf(w) \in Orders
      BY <2>0, <2>3, FailureStep, BusyDelivery DEF OrderOf
    <3>2. UNCHANGED <<request, outbox, call, payment>>
      BY <2>0, <2>3, FailureOnTables
    <3>3. orders'[o] = "none" <=> orders[o] = "none"
      BY <2>0, <2>3, <3>1, FailureOnTables DEF CheckoutOK, SetCancelled, Found
    <3> QED BY <2>0, <3>2, <3>3 DEF Consistent
  <2>4. CASE Crash
    BY <2>0, <2>4 DEF Crash, tables, paymentVars, InFlight, Consistent, CheckoutOK
  <2>5. ASSUME UNCHANGED <<request, tables, paymentVars>> PROVE Consistent(o)'
    BY <2>1, <2>5 DEF tables, paymentVars, Untouched
  <2> QED
    BY <2>2, <2>3, <2>4, <2>5
       DEF Next, FailureArrives, ReceiveFailure, DropConnection, vars
<1> QED BY <1>1, <1>2, TypeCorrect, PTL DEF Spec

\* A caller is told of success only for a recorded and paid order.
THEOREM ConfirmedOrdersArePaid == Spec => []ConfirmedIsPaid
<1>1. OrderInv => ConfirmedIsPaid
  BY DEF OrderInv, Consistent, ConfirmedIsPaid
<1> QED BY <1>1, OrderInvariant, PTL

\* No payment without an order, and none for a request that was refused.
THEOREM PaymentsHaveOrders == Spec => []NoOrphanPayment
<1>1. OrderInv => NoOrphanPayment
  BY DEF OrderInv, Consistent, NoOrphanPayment
<1> QED BY <1>1, OrderInvariant, PTL

\* No step of a request, and none of the consumer, takes a cancellation back.
LEMMA CancelledStays ==
    ASSUME TypeOK, OrderInv, [Next]_vars, NEW o \in Orders, orders[o] = "CANCELLED"
    PROVE orders'[o] = "CANCELLED"
<1>0. CheckoutOK /\ QueueOK /\ Consistent(o)
  BY TypeParts DEF OrderInv
<1>1. ASSUME NEW m \in Orders, CreateOrder(m) \/ RelayerMarks(m) \/ PaymentStep(m)
      PROVE orders'[o] = "CANCELLED"
  <2>1. m = o => request[o] # "inTx"
    BY <1>0 DEF Consistent
  <2> QED
    BY <1>0, <1>1, <2>1
       DEF CheckoutOK, CreateOrder, RejectRequest, BeginOrderTx, CommitOrderTx,
           CommitReplyLost, RollbackOrderTx, SendPayment, PaymentSucceeds, PaymentFails,
           CancelOrder, RelayerMarks, PaymentStep, InsertOrder, Goto, tables
<1>2. ASSUME NEW w \in Cancellers, HandleFailure(w) PROVE orders'[o] = "CANCELLED"
  BY <1>0, <1>2, FailureOnTables DEF CheckoutOK, SetCancelled
<1>3. ASSUME UNCHANGED orders PROVE orders'[o] = "CANCELLED"
  BY <1>3
<1> QED
  BY <1>1, <1>2, <1>3
     DEF Next, FailureArrives, ReceiveFailure, DropConnection, Crash, tables, vars

\* Nothing takes a cancellation back: it is an action property of the checkout.
THEOREM CancellationIsFinal == Spec => CancelledIsFinal
<1>1. TypeOK /\ OrderInv /\ [Next]_vars =>
        [\A o \in Orders : orders[o] = "CANCELLED" => orders'[o] = "CANCELLED"]_orders
  BY CancelledStays
<1> QED BY <1>1, TypeCorrect, OrderInvariant, PTL DEF Spec, CancelledIsFinal

-----------------------------------------------------------------------------

\* A goroutine acknowledges after a cancellation, a report is about an order.
Settled ==
    /\ \A w \in Cancellers : FailedQueue!At(w, "acking") => orders[OrderOf(w)] = "CANCELLED"
    /\ \A o \in Orders : failedDelivered[o] > 0 =>
         /\ orders[o] # "none"
         /\ orders[o] = "CANCELLED" \/ Pending(o)

\* No failure report is lost: its order is cancelled, or a copy of it waits or is held
\* by a goroutine whose delivery the broker still counts.
THEOREM NoFailureIsLost == Spec => []NoFailureLost
<1>1. Init => Settled
  BY DEF Init, Settled, FailedQueue!QueueInit, FailedQueue!Idle, FailedQueue!At
<1>2. TypeOK /\ OrderInv /\ Settled /\ [Next]_vars => Settled'
  <2> SUFFICES ASSUME TypeOK, OrderInv, Settled, [Next]_vars PROVE Settled'
    OBVIOUS
  <2>0. CheckoutOK /\ QueueOK /\ CopiesOK
    BY TypeParts
  <2>1. ASSUME NEW w \in Cancellers, FailedQueue!At(w, "acking")'
        PROVE orders'[canceller'[w].msg] = "CANCELLED"
    <3>1. ASSUME FailedQueue!At(w, "acking"), canceller'[w].msg = OrderOf(w)
          PROVE orders'[canceller'[w].msg] = "CANCELLED"
      <4>1. OrderOf(w) \in Orders
        BY <2>0, <3>1, BusyDelivery DEF FailedQueue!At, OrderOf
      <4> QED BY <3>1, <4>1, CancelledStays DEF Settled
    <3>2. ASSUME NEW v \in Cancellers, HandleFailure(v), v # w
          PROVE orders'[canceller'[w].msg] = "CANCELLED"
      <4>1. canceller'[w] = canceller[w]
        BY <2>0, <3>2, FailureStep, HandlerMoves
      <4> QED BY <2>1, <3>1, <4>1 DEF FailedQueue!At, OrderOf
    <3>3. ASSUME HandleFailure(w) PROVE orders'[canceller'[w].msg] = "CANCELLED"
      <4>1. canceller[w] \in Delivery /\ OrderOf(w) \in Orders
        BY <2>0, <3>3, FailureStep, BusyDelivery DEF OrderOf
      <4>2. CASE CancelByFailure(w)
        <5>1. canceller'[w] = [canceller[w] EXCEPT !.pc = "acking"]
          BY <2>0, <4>2 DEF CancelByFailure, FailedQueue!Advance, QueueOK, FailedQueue!QueueTypeOK
        <5>2. canceller'[w].msg = OrderOf(w)
          BY <4>1, <5>1 DEF Delivery, OrderOf
        <5> QED BY <2>0, <4>1, <4>2, <5>2 DEF CancelByFailure, SetCancelled, CheckoutOK
      <4>3. CASE ~CancelByFailure(w)
        <5>1. canceller'[w].pc # "acking"
          BY <2>0, <3>3, <4>1, <4>3
             DEF HandleFailure, SkipFailure, ReadOrder, CancelReplyLost,
                 FailureHandlerFails, AckFailure, FailedQueue!Ack, FailedQueue!NackRequeue,
                 FailedQueue!Advance, FailedQueue!Finish, FailedQueue!Idle, QueueOK,
                 FailedQueue!QueueTypeOK, Delivery
        <5> QED BY <2>1, <5>1 DEF FailedQueue!At
      <4> QED BY <4>2, <4>3
    <3>4. ASSUME NEW v \in Cancellers, NEW o \in Orders, ReceiveFailure(v, o)
          PROVE orders'[canceller'[w].msg] = "CANCELLED"
      <4>1. canceller'[w] = canceller[w] \/ canceller'[w].pc = "received"
        BY <2>0, <3>4 DEF ReceiveFailure, FailedQueue!Receive, QueueOK, FailedQueue!QueueTypeOK
      <4> QED BY <2>1, <3>1, <4>1 DEF FailedQueue!At, OrderOf
    <3>5. CASE DropConnection
      <4>1. FailedQueue!DropConnection
        BY <3>5 DEF DropConnection
      <4>2. canceller'[w].pc = canceller[w].pc /\ canceller'[w].msg = canceller[w].msg
        BY <2>0, <4>1, DropConnectionMoves
      <4> QED BY <2>1, <3>1, <4>2 DEF FailedQueue!At, OrderOf
    <3>6. CASE Crash
      BY <2>1, <3>6 DEF Crash, FailedQueue!Idle, FailedQueue!At
    <3>7. ASSUME UNCHANGED canceller PROVE orders'[canceller'[w].msg] = "CANCELLED"
      BY <2>1, <3>1, <3>7 DEF FailedQueue!At, OrderOf
    <3> QED
      BY <3>2, <3>3, <3>4, <3>5, <3>6, <3>7
         DEF Next, CreateOrder, RejectRequest, BeginOrderTx, CommitOrderTx,
             CommitReplyLost, RollbackOrderTx, SendPayment, PaymentSucceeds, PaymentFails,
             CancelOrder, RelayerMarks, PaymentStep, FailureArrives, FailedQueue!Enqueue,
             vars, consumerVars
  <2>2. ASSUME NEW o \in Orders, failedDelivered'[o] > 0
        PROVE orders'[o] # "none" /\ (orders'[o] = "CANCELLED" \/ Pending(o)')
    <3> DEFINE Reported == orders[o] # "none" /\ (orders[o] = "CANCELLED" \/ Pending(o))
    <3>1. ASSUME Reported, Pending(o) => Pending(o)' \/ orders'[o] = "CANCELLED"
          PROVE orders'[o] # "none" /\ (orders'[o] = "CANCELLED" \/ Pending(o)')
      BY <2>0, <3>1, OrdersStay, CancelledStays
    <3>2. ASSUME failedDelivered'[o] = failedDelivered[o] PROVE Reported
      BY <2>2, <3>2 DEF Settled
    <3>3. ASSUME NEW m \in Orders, FailureArrives(m), m = o
          PROVE orders'[o] # "none" /\ (orders'[o] = "CANCELLED" \/ Pending(o)')
      <4>1. failedReady'[o] > 0
        BY <2>0, <3>3 DEF FailureArrives, FailedQueue!Enqueue, QueueOK, FailedQueue!QueueTypeOK
      <4>2. orders'[o] # "none"
        BY <3>3 DEF FailureArrives, tables
      <4> QED BY <4>1, <4>2 DEF Pending
    <3>4. ASSUME NEW w \in Cancellers, HandleFailure(w)
          PROVE orders'[o] # "none" /\ (orders'[o] = "CANCELLED" \/ Pending(o)')
      <4>1. Reported
        BY <2>0, <3>2, <3>4, FailureOnTables
      <4>2. \/ OrderOf(w) # o
            \/ FailedQueue!NackRequeue(w)
            \/ \E pc \in Pcs : FailedQueue!Advance(w, pc)
            \/ orders[o] = "CANCELLED"
        BY <3>4, <4>1
           DEF HandleFailure, SkipFailure, ReadOrder, CancelByFailure, CancelReplyLost,
               FailureHandlerFails, AckFailure, Settled, Pcs
      <4>3. CASE orders[o] = "CANCELLED"
        BY <3>1, <4>1, <4>3, CancelledStays
      <4>4. CASE orders[o] # "CANCELLED"
        <5>1. canceller[w].msg # o \/ FailedQueue!NackRequeue(w)
                \/ \E pc \in Pcs : FailedQueue!Advance(w, pc)
          BY <4>2, <4>4 DEF OrderOf
        <5>2. Pending(o)'
          BY <2>0, <3>4, <4>1, <4>4, <5>1, FailureStep, HandlerKeepsPending
        <5> QED BY <3>1, <4>1, <5>2
      <4> QED BY <4>3, <4>4
    <3>5. ASSUME \/ \E m \in Orders : FailureArrives(m) /\ m # o
                 \/ \E w \in Cancellers, m \in Orders : ReceiveFailure(w, m)
                 \/ DropConnection \/ Crash
          PROVE orders'[o] # "none" /\ (orders'[o] = "CANCELLED" \/ Pending(o)')
      <4>1. failedDelivered'[o] = failedDelivered[o]
        BY <2>0, <3>5 DEF FailureArrives, ReceiveFailure, DropConnection, Crash, CopiesOK
      <4>2. BrokerMoves
        BY <3>5, BrokerStep
      <4>3. Pending(o) => Pending(o)'
        BY <2>0, <4>2, BrokerKeepsPending
      <4> QED BY <3>1, <3>2, <4>1, <4>3
    <3>6. ASSUME UNCHANGED consumerVars
          PROVE orders'[o] # "none" /\ (orders'[o] = "CANCELLED" \/ Pending(o)')
      <4>1. failedDelivered'[o] = failedDelivered[o] /\ (Pending(o) => Pending(o)')
        BY <3>6 DEF consumerVars, Pending, FailedQueue!Holders, FailedQueue!Live
      <4> QED BY <3>1, <3>2, <4>1
    <3> QED
      BY <3>3, <3>4, <3>5, <3>6
         DEF Next, CreateOrder, RejectRequest, BeginOrderTx, CommitOrderTx,
             CommitReplyLost, RollbackOrderTx, SendPayment, PaymentSucceeds, PaymentFails,
             CancelOrder, RelayerMarks, PaymentStep, vars
  <2> QED BY <2>1, <2>2 DEF Settled, OrderOf
<1>3. Settled => NoFailureLost
  BY DEF Settled, NoFailureLost, Pending
<1> QED BY <1>1, <1>2, <1>3, TypeCorrect, OrderInvariant, PTL DEF Spec

-----------------------------------------------------------------------------

\* Every copy the consumer has, and every cancellation, goes back to a report; no
\* order is ever "DELIVERED".
Reports ==
    /\ \A o \in Orders : orders[o] \in {"none", "CREATED", "CANCELLED"}
    /\ \A o \in Orders :
         orders[o] = "CANCELLED" \/ failedReady[o] > 0 => failedDelivered[o] > 0
    /\ \A w \in Cancellers : ~FailedQueue!At(w, "idle") => failedDelivered[OrderOf(w)] > 0

\* What goes back to the queue was in it or with a handler.
LEMMA RedeliveredWasThere ==
    ASSUME QueueOK, NEW o \in Orders, FailedQueue!Redelivered[o] > 0
    PROVE \/ failedReady[o] > 0
          \/ \E w \in Cancellers : ~FailedQueue!At(w, "idle") /\ OrderOf(w) = o
<1>1. CASE FailedQueue!Holders(o) = {}
  BY <1>1, HoldersAreFinite DEF FailedQueue!Redelivered, QueueOK, FailedQueue!QueueTypeOK
<1>2. CASE FailedQueue!Holders(o) # {}
  <2>1. PICK w \in Cancellers : canceller[w].live /\ canceller[w].msg = o
    BY <1>2 DEF FailedQueue!Holders, FailedQueue!Live
  <2>2. canceller[w] # FailedQueue!Idle
    BY <2>1 DEF FailedQueue!Idle
  <2>3. ~FailedQueue!At(w, "idle")
    BY <2>2 DEF QueueOK, FailedQueue!QueueTypeOK, FailedQueue!At, Pcs
  <2> QED BY <2>1, <2>3 DEF OrderOf
<1> QED BY <1>1, <1>2

\* Only the consumer cancels an order: CancelOrder looks up a status that
\* order_statuses does not have and rolls back.
LEMMA CancelOrderRollsBack ==
    ASSUME NEW o \in Orders, CancelOrder(o)
    PROVE UNCHANGED tables
<1>1. ("CANCELED" \in OrderStatusNames) = FALSE
  BY DEF OrderStatusNames
<1> QED BY <1>1 DEF CancelOrder

\* A request leads no order to CANCELLED.
LEMMA RequestCancelsNothing ==
    ASSUME CheckoutOK, NEW o \in Orders, CreateOrder(o) \/ RelayerMarks(o) \/ PaymentStep(o)
    PROVE \A m \in Orders : orders'[m] = orders[m] \/ orders'[m] = "CREATED"
BY CancelOrderRollsBack
   DEF CheckoutOK, CreateOrder, RejectRequest, BeginOrderTx, CommitOrderTx, CommitReplyLost,
       RollbackOrderTx, SendPayment, PaymentSucceeds, PaymentFails, RelayerMarks,
       PaymentStep, InsertOrder, tables

\* Only an order reported short is cancelled, whatever becomes of its payment.
THEOREM CancelledWasReported == Spec => []Reports
<1>1. Init => Reports
  BY DEF Init, Reports, FailedQueue!QueueInit, FailedQueue!Idle, FailedQueue!At
<1>2. TypeOK /\ Reports /\ [Next]_vars => Reports'
  <2> SUFFICES ASSUME TypeOK, Reports, [Next]_vars PROVE Reports'
    OBVIOUS
  <2>0. CheckoutOK /\ QueueOK /\ CopiesOK
    BY TypeParts
  <2>1. ASSUME NEW o \in Orders, CreateOrder(o) \/ RelayerMarks(o) \/ PaymentStep(o)
        PROVE Reports'
    <3>1. UNCHANGED <<failedReady, canceller, failedDelivered>>
      BY <2>1
         DEF CreateOrder, RejectRequest, BeginOrderTx, CommitOrderTx, CommitReplyLost,
             RollbackOrderTx, SendPayment, PaymentSucceeds, PaymentFails, CancelOrder,
             RelayerMarks, PaymentStep, consumerVars
    <3> QED
      BY <2>0, <2>1, <3>1, RequestCancelsNothing DEF Reports, FailedQueue!At, OrderOf
  <2>2. ASSUME NEW o \in Orders, FailureArrives(o) PROVE Reports'
    <3>1. /\ canceller' = canceller /\ orders' = orders
          /\ failedDelivered'[o] > 0
          /\ \A m \in Orders : failedDelivered[m] > 0 => failedDelivered'[m] > 0
          /\ \A m \in Orders : m # o => failedReady'[m] = failedReady[m]
      BY <2>0, <2>2
         DEF FailureArrives, FailedQueue!Enqueue, QueueOK, FailedQueue!QueueTypeOK,
             CopiesOK, tables
    <3>2. \A w \in Cancellers : ~FailedQueue!At(w, "idle") => OrderOf(w) \in Orders
      BY <2>0, BusyDelivery DEF OrderOf
    <3>3. \A m \in Orders :
            orders'[m] = "CANCELLED" \/ failedReady'[m] > 0 => failedDelivered'[m] > 0
      BY <3>1 DEF Reports
    <3>4. \A w \in Cancellers :
            ~FailedQueue!At(w, "idle")' => failedDelivered'[OrderOf(w)'] > 0
      BY <3>1, <3>2 DEF Reports, FailedQueue!At, OrderOf
    <3> QED BY <3>1, <3>3, <3>4 DEF Reports
  <2>3. ASSUME NEW w \in Cancellers, NEW o \in Orders, ReceiveFailure(w, o) PROVE Reports'
    <3>1. /\ UNCHANGED <<failedDelivered, orders>>
          /\ failedReady[o] > 0
          /\ \A m \in Orders : failedReady'[m] > 0 => failedReady[m] > 0
          /\ \A v \in Cancellers : canceller'[v] = canceller[v] \/ canceller'[v].msg = o
      BY <2>0, <2>3
         DEF ReceiveFailure, FailedQueue!Receive, tables, QueueOK, FailedQueue!QueueTypeOK
    <3> QED BY <3>1 DEF Reports, FailedQueue!At, OrderOf
  <2>4. ASSUME NEW w \in Cancellers, HandleFailure(w) PROVE Reports'
    <3>1. ~FailedQueue!At(w, "idle") /\ HandlerStep(w)
      BY <2>4, FailureStep
    <3>2. canceller[w] \in Delivery /\ OrderOf(w) \in Orders /\ failedDelivered[OrderOf(w)] > 0
      BY <2>0, <3>1, BusyDelivery DEF Reports, OrderOf
    <3>3. failedDelivered' = failedDelivered /\ (orders' = orders \/ SetCancelled(w))
      BY <2>0, <2>4, FailureOnTables
    <3>4. \A m \in Orders : /\ orders'[m] \in {"none", "CREATED", "CANCELLED"}
                            /\ orders'[m] = "CANCELLED" => failedDelivered[m] > 0
      BY <2>0, <3>2, <3>3 DEF Reports, SetCancelled, CheckoutOK
    <3>5. \A m \in Orders : failedReady'[m] > 0 => failedDelivered[m] > 0
      BY <2>0, <3>1, <3>2
         DEF Reports, HandlerStep, FailedQueue!Ack, FailedQueue!NackRequeue,
             FailedQueue!NackDiscard, FailedQueue!Advance, QueueOK,
             FailedQueue!QueueTypeOK, OrderOf
    <3>6. ASSUME NEW v \in Cancellers, ~FailedQueue!At(v, "idle")'
          PROVE failedDelivered[canceller'[v].msg] > 0
      <4>1. CASE v # w
        <5>1. canceller'[v] = canceller[v]
          BY <2>0, <3>1, <4>1, HandlerMoves
        <5> QED BY <3>6, <5>1 DEF Reports, FailedQueue!At, OrderOf
      <4>2. CASE v = w /\ canceller'[w] = FailedQueue!Idle
        BY <3>6, <4>2 DEF FailedQueue!At, FailedQueue!Idle
      <4>3. ASSUME v = w, NEW pc \in Pcs, canceller'[w] = [canceller[w] EXCEPT !.pc = pc]
            PROVE failedDelivered[canceller'[v].msg] > 0
        BY <3>2, <4>3 DEF Delivery, OrderOf
      <4> QED BY <2>0, <3>1, <4>1, <4>2, <4>3, HandlerMoves
    <3> QED BY <3>3, <3>4, <3>5, <3>6 DEF Reports, OrderOf
  <2>5. CASE DropConnection
    <3>0. FailedQueue!DropConnection
      BY <2>5 DEF DropConnection
    <3>1. UNCHANGED <<failedDelivered, orders>> /\ failedReady' = FailedQueue!Redelivered
      BY <2>5 DEF DropConnection, FailedQueue!DropConnection, tables
    <3>2. \A m \in Orders : failedReady'[m] > 0 => failedDelivered[m] > 0
      BY <2>0, <3>1, RedeliveredWasThere DEF Reports
    <3>3. ASSUME NEW v \in Cancellers, ~FailedQueue!At(v, "idle")'
          PROVE failedDelivered[canceller'[v].msg] > 0
      BY <2>0, <3>0, <3>3, DropConnectionMoves DEF Reports, FailedQueue!At, OrderOf
    <3> QED BY <3>1, <3>2, <3>3 DEF Reports, OrderOf
  <2>6. CASE Crash
    <3>1. /\ UNCHANGED <<failedDelivered, orders>> /\ failedReady' = FailedQueue!Redelivered
          /\ \A v \in Cancellers : FailedQueue!At(v, "idle")'
      BY <2>6 DEF Crash, FailedQueue!Idle, FailedQueue!At, tables
    <3>2. \A m \in Orders : failedReady'[m] > 0 => failedDelivered[m] > 0
      BY <2>0, <3>1, RedeliveredWasThere DEF Reports
    <3> QED BY <3>1, <3>2 DEF Reports
  <2>7. CASE UNCHANGED vars
    BY <2>7 DEF vars, consumerVars, tables, Reports, FailedQueue!At, OrderOf
  <2> QED BY <2>1, <2>2, <2>3, <2>4, <2>5, <2>6, <2>7 DEF Next
<1> QED BY <1>1, <1>2, TypeCorrect, PTL DEF Spec

=============================================================================
