--------------------------- MODULE Checkout_proofs ---------------------------
(***************************************************************************)
(* The order saga for any orders, products, stocks, any finite number of   *)
(* handlers on both sides, and any number of faults: each part keeps its   *)
(* own specification with the others as its environment, so what was       *)
(* proved of the parts holds here; with the copies of StockUpdateFailed    *)
(* counted, the two databases agree when the saga has settled.             *)
(***************************************************************************)
EXTENDS Checkout, FiniteSetTheorems, TLAPS

OrderFacts == INSTANCE OrderService_proofs WITH
    MaxFailedCopies <- MaxFailures * (MaxRowFaults + 1)

RelayFacts == INSTANCE OutboxRelayer_proofs WITH
    Events <- Orders, Poison <- {}, BrokerDrops <- FALSE

StockFacts == INSTANCE StockConsumer_proofs WITH
    Workers <- StockWorkers, ready <- stockReady, worker <- stockWorker,
    dead <- stockDead, delivered <- sent

RowFacts == INSTANCE OutboxRelayer_proofs WITH
    Events <- FailureRows, Poison <- {}, BrokerDrops <- FALSE, MaxFaults <- MaxRowFaults,
    outbox <- failureRow, createdAt <- rowCreatedAt, now <- rowNow, batch <- rowBatch,
    phase <- rowPhase, attempt <- rowAttempt, channel <- rowChannel,
    sent <- rowSent, faults <- rowFaults

-----------------------------------------------------------------------------
(* The parts under their two names.                                        *)


\* The worker whose safety is proved is the one order-service runs,
LEMMA SameOrderRelayer ==
    /\ OrderRelayer!Init <=> RelayFacts!Init
    /\ [OrderRelayer!Next]_(OrderRelayer!vars) <=> [RelayFacts!Next]_(RelayFacts!vars)
<1>1. OrderRelayer!Init <=> RelayFacts!Init
  BY DEF OrderRelayer!Init, RelayFacts!Init
<1>2. OrderRelayer!Fetch <=> RelayFacts!Fetch
  <2>1. \A S : OrderRelayer!Cardinality(S) = RelayFacts!Cardinality(S)
    BY DEF OrderRelayer!Cardinality, RelayFacts!Cardinality
  <2> QED
    BY <2>1 DEF OrderRelayer!Fetch, RelayFacts!Fetch, OrderRelayer!IsBatch,
         RelayFacts!IsBatch, OrderRelayer!Unpublished, RelayFacts!Unpublished,
         OrderRelayer!txVars, RelayFacts!txVars
<1>3. OrderRelayer!Next <=> RelayFacts!Next
  BY <1>2 DEF OrderRelayer!Next, RelayFacts!Next, OrderRelayer!Relay, RelayFacts!Relay,
         OrderRelayer!ConsumerReconnects, RelayFacts!ConsumerReconnects,
         OrderRelayer!PublishSucceeds, RelayFacts!PublishSucceeds,
         OrderRelayer!PublishRefused, RelayFacts!PublishRefused, OrderRelayer!Reconnect,
         RelayFacts!Reconnect, OrderRelayer!MarkPublished, RelayFacts!MarkPublished,
         OrderRelayer!BeginTx, RelayFacts!BeginTx, OrderRelayer!CommitTx,
         RelayFacts!CommitTx, OrderRelayer!WriteTx, RelayFacts!WriteTx,
         OrderRelayer!PublishBreaks, RelayFacts!PublishBreaks,
         OrderRelayer!ReconnectFails, RelayFacts!ReconnectFails, OrderRelayer!MarkFails,
         RelayFacts!MarkFails, OrderRelayer!Crash, RelayFacts!Crash,
         OrderRelayer!Publishing, RelayFacts!Publishing, OrderRelayer!Current,
         RelayFacts!Current, OrderRelayer!NextRow, RelayFacts!NextRow,
         OrderRelayer!SkipRow, RelayFacts!SkipRow, OrderRelayer!RetriesLeft,
         RelayFacts!RetriesLeft, OrderRelayer!txVars, RelayFacts!txVars,
         OrderRelayer!workerVars, RelayFacts!workerVars
<1> QED
  BY <1>1, <1>3 DEF OrderRelayer!vars, RelayFacts!vars, OrderRelayer!txVars,
         RelayFacts!txVars, OrderRelayer!workerVars, RelayFacts!workerVars

\* and the one product-service runs.
LEMMA SameProductRelayer ==
    /\ ProductRelayer!Init <=> RowFacts!Init
    /\ [ProductRelayer!Next]_(ProductRelayer!vars) <=> [RowFacts!Next]_(RowFacts!vars)
<1>1. ProductRelayer!Init <=> RowFacts!Init
  BY DEF ProductRelayer!Init, RowFacts!Init
<1>2. ProductRelayer!Fetch <=> RowFacts!Fetch
  <2>1. \A S : ProductRelayer!Cardinality(S) = RowFacts!Cardinality(S)
    BY DEF ProductRelayer!Cardinality, RowFacts!Cardinality
  <2> QED
    BY <2>1 DEF ProductRelayer!Fetch, RowFacts!Fetch, ProductRelayer!IsBatch,
         RowFacts!IsBatch, ProductRelayer!Unpublished, RowFacts!Unpublished,
         ProductRelayer!txVars, RowFacts!txVars
<1>3. ProductRelayer!Next <=> RowFacts!Next
  BY <1>2 DEF ProductRelayer!Next, RowFacts!Next, ProductRelayer!Relay, RowFacts!Relay,
         ProductRelayer!ConsumerReconnects, RowFacts!ConsumerReconnects,
         ProductRelayer!PublishSucceeds, RowFacts!PublishSucceeds,
         ProductRelayer!PublishRefused, RowFacts!PublishRefused,
         ProductRelayer!Reconnect, RowFacts!Reconnect, ProductRelayer!MarkPublished,
         RowFacts!MarkPublished, ProductRelayer!BeginTx, RowFacts!BeginTx,
         ProductRelayer!CommitTx, RowFacts!CommitTx, ProductRelayer!WriteTx,
         RowFacts!WriteTx, ProductRelayer!PublishBreaks, RowFacts!PublishBreaks,
         ProductRelayer!ReconnectFails, RowFacts!ReconnectFails,
         ProductRelayer!MarkFails, RowFacts!MarkFails, ProductRelayer!Crash,
         RowFacts!Crash, ProductRelayer!Publishing, RowFacts!Publishing,
         ProductRelayer!Current, RowFacts!Current, ProductRelayer!NextRow,
         RowFacts!NextRow, ProductRelayer!SkipRow, RowFacts!SkipRow,
         ProductRelayer!RetriesLeft, RowFacts!RetriesLeft, ProductRelayer!txVars,
         RowFacts!txVars, ProductRelayer!workerVars, RowFacts!workerVars
<1> QED
  BY <1>1, <1>3 DEF ProductRelayer!vars, RowFacts!vars, ProductRelayer!txVars,
         RowFacts!txVars, ProductRelayer!workerVars, RowFacts!workerVars

\* The consumer whose safety is proved is the one of product-service.
LEMMA SameStock ==
    /\ Stock!Init <=> StockFacts!Init
    /\ [Stock!Next]_(Stock!vars) <=> [StockFacts!Next]_(StockFacts!vars)
<1>1. Stock!Init <=> StockFacts!Init
  BY DEF Stock!Init, StockFacts!Init, Stock!Queue!QueueInit, StockFacts!Queue!QueueInit,
         Stock!Queue!Idle, StockFacts!Queue!Idle
<1>2. \A S : Stock!Queue!Cardinality(S) = StockFacts!Queue!Cardinality(S)
  BY DEF Stock!Queue!Cardinality, StockFacts!Queue!Cardinality
<1>3. Stock!Queue!Redelivered = StockFacts!Queue!Redelivered
  BY <1>2 DEF Stock!Queue!Redelivered, StockFacts!Queue!Redelivered,
         Stock!Queue!Holders, StockFacts!Queue!Holders, Stock!Queue!Live,
         StockFacts!Queue!Live
<1>4. \A w \in StockWorkers, o \in Orders : Stock!Receive(w, o) <=> StockFacts!Receive(w, o)
  BY <1>2 DEF Stock!Receive, StockFacts!Receive, Stock!dbVars, StockFacts!dbVars,
         Stock!Queue!Receive, StockFacts!Queue!Receive, Stock!Queue!At,
         StockFacts!Queue!At, Stock!Queue!Live, StockFacts!Queue!Live
<1>5. /\ Stock!DropConnection <=> StockFacts!DropConnection
      /\ Stock!Crash <=> StockFacts!Crash
  BY <1>3 DEF Stock!DropConnection, StockFacts!DropConnection, Stock!Crash,
         StockFacts!Crash, Stock!dbVars, StockFacts!dbVars, Stock!Queue!DropConnection,
         StockFacts!Queue!DropConnection, Stock!Queue!Crash, StockFacts!Queue!Crash,
         Stock!Queue!At, StockFacts!Queue!At, Stock!Queue!Live, StockFacts!Queue!Live,
         Stock!Queue!Idle, StockFacts!Queue!Idle
<1>6. \A w \in StockWorkers : Stock!Handle(w) <=> StockFacts!Handle(w)
  BY DEF Stock!Handle, StockFacts!Handle, Stock!SkipProcessed, StockFacts!SkipProcessed,
         Stock!PassCheck, StockFacts!PassCheck, Stock!HandlerFails,
         StockFacts!HandlerFails, Stock!CommitStockUpdate, StockFacts!CommitStockUpdate,
         Stock!CommitReplyLost, StockFacts!CommitReplyLost, Stock!AckHandled,
         StockFacts!AckHandled, Stock!RejectShort, StockFacts!RejectShort,
         Stock!UpdateStock, StockFacts!UpdateStock, Stock!Short, StockFacts!Short,
         Stock!Served, StockFacts!Served, Stock!Lines, StockFacts!Lines, Stock!OrderOf,
         StockFacts!OrderOf, Stock!At, StockFacts!At, Stock!dbVars, StockFacts!dbVars,
         Stock!Queue!Idle, StockFacts!Queue!Idle, Stock!Queue!Live,
         StockFacts!Queue!Live, Stock!Queue!Holders, StockFacts!Queue!Holders,
         Stock!Queue!At, StockFacts!Queue!At, Stock!Queue!Advance,
         StockFacts!Queue!Advance, Stock!Queue!Finish, StockFacts!Queue!Finish,
         Stock!Queue!Ack, StockFacts!Queue!Ack, Stock!Queue!NackRequeue,
         StockFacts!Queue!NackRequeue, Stock!Queue!NackDiscard,
         StockFacts!Queue!NackDiscard
<1>7. \A o \in Orders : Stock!Deliver(o) <=> StockFacts!Deliver(o)
  BY DEF Stock!Deliver, StockFacts!Deliver, Stock!dbVars, StockFacts!dbVars,
         Stock!Queue!Enqueue, StockFacts!Queue!Enqueue
<1>8. Stock!Next <=> StockFacts!Next
  BY <1>4, <1>5, <1>6, <1>7 DEF Stock!Next, StockFacts!Next
<1> QED
  BY <1>1, <1>8 DEF Stock!vars, StockFacts!vars, Stock!queueVars, StockFacts!queueVars,
         Stock!dbVars, StockFacts!dbVars

\* The checkout whose safety is proved is the one of order-service.
LEMMA SameOrder ==
    /\ Order!Init <=> OrderFacts!Init
    /\ [Order!Next]_(Order!vars) <=> [OrderFacts!Next]_(OrderFacts!vars)
<1>1. Order!Init <=> OrderFacts!Init
  BY DEF Order!Init, OrderFacts!Init, Order!FailedQueue!QueueInit,
         OrderFacts!FailedQueue!QueueInit, Order!FailedQueue!Idle,
         OrderFacts!FailedQueue!Idle, Order!Payments!PaymentInit,
         OrderFacts!Payments!PaymentInit
<1>2. \A S : Order!FailedQueue!Cardinality(S) = OrderFacts!FailedQueue!Cardinality(S)
  BY DEF Order!FailedQueue!Cardinality, OrderFacts!FailedQueue!Cardinality
<1>3. Order!FailedQueue!Redelivered = OrderFacts!FailedQueue!Redelivered
  BY <1>2 DEF Order!FailedQueue!Redelivered, OrderFacts!FailedQueue!Redelivered,
         Order!FailedQueue!Holders, OrderFacts!FailedQueue!Holders,
         Order!FailedQueue!Live, OrderFacts!FailedQueue!Live
<1>4. \A w \in Cancellers, o \in Orders : Order!ReceiveFailure(w, o) <=> OrderFacts!ReceiveFailure(w, o)
  BY <1>2 DEF Order!ReceiveFailure, OrderFacts!ReceiveFailure, Order!tables,
         OrderFacts!tables, Order!paymentVars, OrderFacts!paymentVars,
         Order!FailedQueue!Receive, OrderFacts!FailedQueue!Receive,
         Order!FailedQueue!At, OrderFacts!FailedQueue!At, Order!FailedQueue!Live,
         OrderFacts!FailedQueue!Live
<1>5. /\ Order!DropConnection <=> OrderFacts!DropConnection
      /\ Order!Crash <=> OrderFacts!Crash
  BY <1>3 DEF Order!DropConnection, OrderFacts!DropConnection, Order!Crash,
         OrderFacts!Crash, Order!Busy, OrderFacts!Busy, Order!InFlight,
         OrderFacts!InFlight, Order!tables, OrderFacts!tables, Order!paymentVars,
         OrderFacts!paymentVars, Order!FailedQueue!DropConnection,
         OrderFacts!FailedQueue!DropConnection, Order!FailedQueue!At,
         OrderFacts!FailedQueue!At, Order!FailedQueue!Live, OrderFacts!FailedQueue!Live,
         Order!FailedQueue!Idle, OrderFacts!FailedQueue!Idle
<1>6. \A w \in Cancellers : Order!HandleFailure(w) <=> OrderFacts!HandleFailure(w)
  BY DEF Order!HandleFailure, OrderFacts!HandleFailure, Order!SkipFailure,
         OrderFacts!SkipFailure, Order!ReadOrder, OrderFacts!ReadOrder,
         Order!CancelByFailure, OrderFacts!CancelByFailure, Order!CancelReplyLost,
         OrderFacts!CancelReplyLost, Order!FailureHandlerFails,
         OrderFacts!FailureHandlerFails, Order!AckFailure, OrderFacts!AckFailure,
         Order!SetCancelled, OrderFacts!SetCancelled, Order!OrderOf, OrderFacts!OrderOf,
         Order!tables, OrderFacts!tables, Order!paymentVars, OrderFacts!paymentVars,
         Order!FailedQueue!Idle, OrderFacts!FailedQueue!Idle, Order!FailedQueue!Live,
         OrderFacts!FailedQueue!Live, Order!FailedQueue!At, OrderFacts!FailedQueue!At,
         Order!FailedQueue!Advance, OrderFacts!FailedQueue!Advance,
         Order!FailedQueue!Finish, OrderFacts!FailedQueue!Finish, Order!FailedQueue!Ack,
         OrderFacts!FailedQueue!Ack, Order!FailedQueue!NackRequeue,
         OrderFacts!FailedQueue!NackRequeue, Order!FailedQueue!NackDiscard,
         OrderFacts!FailedQueue!NackDiscard
<1>7. \A o \in Orders :
        /\ Order!CreateOrder(o) <=> OrderFacts!CreateOrder(o)
        /\ Order!RelayerMarks(o) <=> OrderFacts!RelayerMarks(o)
  BY DEF Order!CreateOrder, OrderFacts!CreateOrder, Order!RelayerMarks,
         OrderFacts!RelayerMarks, Order!RejectRequest, OrderFacts!RejectRequest,
         Order!BeginOrderTx, OrderFacts!BeginOrderTx, Order!CommitOrderTx,
         OrderFacts!CommitOrderTx, Order!CommitReplyLost, OrderFacts!CommitReplyLost,
         Order!RollbackOrderTx, OrderFacts!RollbackOrderTx, Order!SendPayment,
         OrderFacts!SendPayment, Order!PaymentSucceeds, OrderFacts!PaymentSucceeds,
         Order!PaymentFails, OrderFacts!PaymentFails, Order!CancelOrder,
         OrderFacts!CancelOrder, Order!InsertOrder, OrderFacts!InsertOrder, Order!Goto,
         OrderFacts!Goto, Order!OrderStatusNames, OrderFacts!OrderStatusNames,
         Order!tables, OrderFacts!tables, Order!paymentVars, OrderFacts!paymentVars,
         Order!consumerVars, OrderFacts!consumerVars, Order!Payments!SendCall,
         OrderFacts!Payments!SendCall
<1>8. \A o \in Orders :
        /\ Order!PaymentStep(o) <=> OrderFacts!PaymentStep(o)
        /\ Order!FailureArrives(o) <=> OrderFacts!FailureArrives(o)
  BY DEF Order!PaymentStep, OrderFacts!PaymentStep, Order!FailureArrives,
         OrderFacts!FailureArrives, Order!FailedQueue!Enqueue,
         OrderFacts!FailedQueue!Enqueue, Order!tables, OrderFacts!tables,
         Order!paymentVars, OrderFacts!paymentVars, Order!consumerVars,
         OrderFacts!consumerVars, Order!Payments!ProcessPayment,
         OrderFacts!Payments!ProcessPayment, Order!Payments!CreatePayment,
         OrderFacts!Payments!CreatePayment, Order!Payments!CreatePaymentFails,
         OrderFacts!Payments!CreatePaymentFails, Order!Payments!UpdatePaymentStatus,
         OrderFacts!Payments!UpdatePaymentStatus,
         Order!Payments!UpdatePaymentStatusFails,
         OrderFacts!Payments!UpdatePaymentStatusFails
<1>9. Order!Next <=> OrderFacts!Next
  BY <1>4, <1>5, <1>6, <1>7, <1>8 DEF Order!Next, OrderFacts!Next
<1> QED
  BY <1>1, <1>9 DEF Order!vars, OrderFacts!vars, Order!tables, OrderFacts!tables,
         Order!paymentVars, OrderFacts!paymentVars, Order!consumerVars,
         OrderFacts!consumerVars

\* What the facts ask for.
LEMMA FactsAssumptions ==
    /\ RelayFacts!PoisonAssumption /\ RelayFacts!BatchSizeAssumption
    /\ RelayFacts!MaxRetriesAssumption /\ RelayFacts!MaxFaultsAssumption
    /\ RelayFacts!BrokerDropsAssumption
    /\ RowFacts!PoisonAssumption /\ RowFacts!BatchSizeAssumption
    /\ RowFacts!MaxRetriesAssumption /\ RowFacts!MaxFaultsAssumption
    /\ RowFacts!BrokerDropsAssumption
    /\ StockFacts!ItemsAssumption /\ StockFacts!InitialStocksAssumption
    /\ StockFacts!WorkersAssumption /\ StockFacts!MaxCopiesAssumption
    /\ StockFacts!NoOrderAssumption
    /\ OrderFacts!CancellersAssumption /\ OrderFacts!MaxFailedCopiesAssumption
BY PartsAssumption
   DEF Order!CancellersAssumption, OrderRelayer!BatchSizeAssumption,
       OrderRelayer!MaxRetriesAssumption, OrderRelayer!MaxFaultsAssumption,
       ProductRelayer!MaxFaultsAssumption, Stock!ItemsAssumption,
       Stock!InitialStocksAssumption, Stock!WorkersAssumption, Stock!NoOrderAssumption,
       RelayFacts!PoisonAssumption, RelayFacts!BatchSizeAssumption,
       RelayFacts!MaxRetriesAssumption, RelayFacts!MaxFaultsAssumption,
       RelayFacts!BrokerDropsAssumption,
       RowFacts!PoisonAssumption, RowFacts!BatchSizeAssumption,
       RowFacts!MaxRetriesAssumption, RowFacts!MaxFaultsAssumption,
       RowFacts!BrokerDropsAssumption,
       StockFacts!ItemsAssumption, StockFacts!InitialStocksAssumption,
       StockFacts!WorkersAssumption, StockFacts!MaxCopiesAssumption,
       StockFacts!NoOrderAssumption,
       OrderFacts!CancellersAssumption, OrderFacts!MaxFailedCopiesAssumption,
       Order!IsFiniteSet, OrderFacts!IsFiniteSet, Stock!IsFiniteSet, StockFacts!IsFiniteSet,
       MaxCopies

-----------------------------------------------------------------------------
(* The workers.                                                            *)

\* The steps of order-service leave its outbox rows alone unless the worker's
\* specification knows them: CancelOrder rolls back.
LEMMA CheckoutKeepsRows ==
    ASSUME NEW o \in Orders, CheckoutStep(o)
    PROVE UNCHANGED outbox
<1>1. ("CANCELED" \in Order!OrderStatusNames) = FALSE
  BY DEF Order!OrderStatusNames
<1>2. Order!CancelOrder(o) => UNCHANGED outbox
  BY <1>1 DEF Order!CancelOrder, Order!tables
<1> QED
  BY <1>2 DEF CheckoutStep, Order!RejectRequest, Order!RollbackOrderTx, Order!SendPayment,
              Order!PaymentSucceeds, Order!PaymentFails, Order!PaymentStep, Order!tables

\* Nor does the consumer of StockUpdateFailed touch them.
LEMMA FailuresKeepRows ==
    ASSUME HandleStockUpdateFailed
    PROVE UNCHANGED outbox
BY DEF HandleStockUpdateFailed, InFailureConsumer, Order!ReceiveFailure, Order!HandleFailure,
       Order!SkipFailure, Order!ReadOrder, Order!CancelByFailure, Order!CancelReplyLost,
       Order!FailureHandlerFails, Order!AckFailure, Order!DropConnection, Order!tables

\* The OrderCreated consumer only reads how many copies there are.
LEMMA StockKeepsSent ==
    ASSUME HandleOrderCreated
    PROVE UNCHANGED sent
BY DEF HandleOrderCreated, InStockConsumer, Stock!Receive, Stock!Handle, Stock!SkipProcessed,
       Stock!PassCheck, Stock!HandlerFails, Stock!CommitStockUpdate, Stock!CommitReplyLost,
       Stock!AckHandled, Stock!RejectShort, Stock!DropConnection

\* Every step of the saga is one of order-service's worker, or none of its.
LEMMA OrderRelayerStep ==
    ASSUME [Next]_vars
    PROVE [OrderRelayer!Next]_(OrderRelayer!vars)
<1> USE DEF relayVars, OrderRelayer!vars, OrderRelayer!txVars, OrderRelayer!workerVars
<1>1. ASSUME NEW o \in Orders, BeginOrder(o) \/ CommitOrder(o) PROVE OrderRelayer!Next
  BY <1>1 DEF BeginOrder, CommitOrder, OrderRelayer!Next
<1>2. CASE RelayOrder \/ \E o \in Orders : RelayOrderFails(o)
  BY <1>2 DEF RelayOrder, RelayOrderFails, OrderRelayer!Next
<1>3. CASE ReconnectOrderService
  BY <1>3 DEF ReconnectOrderService, OrderRelayer!Next
<1>4. CASE CrashOrderService
  BY <1>4 DEF CrashOrderService, OrderRelayer!Next, Order!Crash, Order!tables,
              OrderRelayer!Crash
<1>5. ASSUME UNCHANGED <<outbox, relayVars>>
      PROVE [OrderRelayer!Next]_(OrderRelayer!vars)
  BY <1>5
<1>6. ASSUME NEW o \in Orders, CheckoutStep(o) PROVE UNCHANGED <<outbox, relayVars>>
  BY <1>6, CheckoutKeepsRows DEF CheckoutStep
<1>7. CASE HandleStockUpdateFailed
  BY <1>5, <1>7, FailuresKeepRows DEF HandleStockUpdateFailed, InFailureConsumer
<1>8. CASE HandleOrderCreated
  BY <1>5, <1>8, StockKeepsSent DEF HandleOrderCreated, InStockConsumer
<1>9. CASE CrashProductService
  BY <1>5, <1>9 DEF CrashProductService, Stock!Crash
<1>10. CASE ReconnectProductService \/ RelayFailure \/ \E r \in FailureRows : RelayFailureFails(r)
  BY <1>5, <1>10 DEF ReconnectProductService, RelayFailure, RelayFailureFails
<1>11. CASE UNCHANGED vars
  BY <1>5, <1>11 DEF vars
<1> QED
  BY <1>1, <1>2, <1>3, <1>4, <1>5, <1>6, <1>7, <1>8, <1>9, <1>10, <1>11 DEF Next

\* The same for product-service's worker: the stock transaction is a
\* transaction of its own to it.
LEMMA ProductRelayerStep ==
    ASSUME [Next]_vars
    PROVE [ProductRelayer!Next]_(ProductRelayer!vars)
<1> USE DEF rowVars, ProductRelayer!vars, ProductRelayer!txVars, ProductRelayer!workerVars
<1>1. ASSUME UNCHANGED rowVars PROVE [ProductRelayer!Next]_(ProductRelayer!vars)
  BY <1>1
<1>2. CASE HandleOrderCreated
  <2>1. RecordFailure
    BY <1>2 DEF HandleOrderCreated, InStockConsumer
  <2>2. UNCHANGED rowVars \/ \E r \in FailureRows : ProductRelayer!WriteTx(r)
    BY <2>1 DEF RecordFailure, NewRows
  <2> QED BY <1>1, <2>2 DEF ProductRelayer!Next
<1>3. CASE RelayFailure \/ \E r \in FailureRows : RelayFailureFails(r)
  BY <1>3 DEF RelayFailure, RelayFailureFails, ProductRelayer!Next
<1>4. CASE ReconnectProductService
  BY <1>4 DEF ReconnectProductService, ProductRelayer!Next
<1>5. CASE CrashProductService
  BY <1>1, <1>5 DEF CrashProductService, ProductRelayer!Next
<1>6. ASSUME NEW o \in Orders, BeginOrder(o) \/ CommitOrder(o) \/ CheckoutStep(o)
      PROVE UNCHANGED rowVars
  BY <1>6 DEF BeginOrder, CommitOrder, CheckoutStep
<1>7. CASE \/ RelayOrder \/ \E o \in Orders : RelayOrderFails(o)
           \/ HandleStockUpdateFailed \/ ReconnectOrderService \/ CrashOrderService
           \/ UNCHANGED vars
  BY <1>1, <1>7 DEF RelayOrder, RelayOrderFails, HandleStockUpdateFailed, InFailureConsumer,
                    ReconnectOrderService, CrashOrderService, vars
<1> QED BY <1>1, <1>2, <1>3, <1>4, <1>5, <1>6, <1>7 DEF Next

\* What holds of both workers, whatever the rest of the saga does.
RelaysOK ==
    /\ RelayFacts!Structure /\ RelayFacts!DuplicatesArePaidFor /\ RelayFacts!PublishedWasSent
    /\ RelayFacts!OnlyCommittedSent
    /\ RowFacts!Structure /\ RowFacts!DuplicatesArePaidFor /\ RowFacts!PublishedWasSent
    /\ RowFacts!OnlyCommittedSent

\* Each worker keeps its specification and so the facts proved of it.
LEMMA WorkersKeepTheirSpecs ==
    Spec => OrderRelayer!Spec /\ ProductRelayer!Spec /\ []RelaysOK
<1>1. Init => OrderRelayer!Init /\ ProductRelayer!Init
  BY DEF Init
<1>2. Spec => OrderRelayer!Spec /\ ProductRelayer!Spec
  BY <1>1, OrderRelayerStep, ProductRelayerStep, PTL
     DEF Spec, OrderRelayer!Spec, ProductRelayer!Spec
<1>3. OrderRelayer!Spec => RelayFacts!Spec
  BY SameOrderRelayer, PTL DEF OrderRelayer!Spec, RelayFacts!Spec
<1>4. ProductRelayer!Spec => RowFacts!Spec
  BY SameProductRelayer, PTL DEF ProductRelayer!Spec, RowFacts!Spec
<1>5. RelayFacts!Spec => /\ []RelayFacts!Structure /\ []RelayFacts!DuplicatesArePaidFor
                            /\ []RelayFacts!PublishedWasSent
                            /\ []RelayFacts!OnlyCommittedSent
  <2>1. RelayFacts!Spec => []RelayFacts!Structure
    BY FactsAssumptions, RelayFacts!StructureIsInvariant
  <2>2. RelayFacts!Spec => []RelayFacts!DuplicatesArePaidFor
    BY FactsAssumptions, RelayFacts!DuplicatesArePaid
  <2>3. RelayFacts!Spec => []RelayFacts!PublishedWasSent
    BY FactsAssumptions, RelayFacts!PublishedIsSent
  <2>4. RelayFacts!Spec => []RelayFacts!OnlyCommittedSent
    BY FactsAssumptions, RelayFacts!SentWasCommitted
  <2> QED BY <2>1, <2>2, <2>3, <2>4
<1>6. RowFacts!Spec => /\ []RowFacts!Structure /\ []RowFacts!DuplicatesArePaidFor
                          /\ []RowFacts!PublishedWasSent
                          /\ []RowFacts!OnlyCommittedSent
  <2>1. RowFacts!Spec => []RowFacts!Structure
    BY FactsAssumptions, RowFacts!StructureIsInvariant
  <2>2. RowFacts!Spec => []RowFacts!DuplicatesArePaidFor
    BY FactsAssumptions, RowFacts!DuplicatesArePaid
  <2>3. RowFacts!Spec => []RowFacts!PublishedWasSent
    BY FactsAssumptions, RowFacts!PublishedIsSent
  <2>4. RowFacts!Spec => []RowFacts!OnlyCommittedSent
    BY FactsAssumptions, RowFacts!SentWasCommitted
  <2> QED BY <2>1, <2>2, <2>3, <2>4
<1> QED BY <1>2, <1>3, <1>4, <1>5, <1>6, PTL DEF RelaysOK

\* What the two workers' facts say of the rows and of the copies.
LEMMA Relayed ==
    ASSUME RelaysOK
    PROVE /\ sent \in [Orders -> Nat] /\ outbox \in [Orders -> {"none", "UNPUBLISHED", "PUBLISHED"}]
          /\ batch \subseteq Orders /\ \A o \in batch : outbox[o] = "UNPUBLISHED"
          /\ \A o \in Orders : /\ sent[o] <= MaxCopies
                               /\ outbox[o] = "PUBLISHED" => sent[o] > 0
                               /\ sent[o] > 0 => outbox[o] # "none"
          /\ rowSent \in [FailureRows -> Nat]
          /\ failureRow \in [FailureRows -> {"none", "UNPUBLISHED", "PUBLISHED"}]
          /\ rowCreatedAt \in [FailureRows -> Nat] /\ rowNow \in Nat \ {0}
          /\ rowBatch \subseteq FailureRows /\ \A r \in rowBatch : failureRow[r] = "UNPUBLISHED"
          /\ \A r \in FailureRows : /\ rowSent[r] <= MaxRowFaults + 1
                                    /\ failureRow[r] = "PUBLISHED" => rowSent[r] > 0
                                    /\ rowSent[r] > 0 => failureRow[r] # "none"
                                    /\ failureRow[r] # "none" => rowCreatedAt[r] > 0
<1>1. MaxFaults \in Nat /\ MaxRowFaults \in Nat
  BY PartsAssumption DEF OrderRelayer!MaxFaultsAssumption, ProductRelayer!MaxFaultsAssumption
<1>2. \A o \in Orders : faults[o] \in 0..MaxFaults /\ sent[o] <= faults[o] + 1 /\ sent[o] \in Nat
  BY DEF RelaysOK, RelayFacts!Structure, RelayFacts!TypeOK, RelayFacts!DuplicatesArePaidFor
<1>3. \A r \in FailureRows : /\ rowFaults[r] \in 0..MaxRowFaults
                             /\ rowSent[r] <= rowFaults[r] + 1 /\ rowSent[r] \in Nat
  BY DEF RelaysOK, RowFacts!Structure, RowFacts!TypeOK, RowFacts!DuplicatesArePaidFor
<1>4. \A o \in Orders : sent[o] <= MaxCopies
  BY <1>1, <1>2 DEF MaxCopies
<1>5. \A r \in FailureRows : rowSent[r] <= MaxRowFaults + 1
  BY <1>1, <1>3
<1>6. /\ sent \in [Orders -> Nat] /\ outbox \in [Orders -> {"none", "UNPUBLISHED", "PUBLISHED"}]
      /\ batch \subseteq Orders /\ \A o \in batch : outbox[o] = "UNPUBLISHED"
      /\ \A o \in Orders : /\ outbox[o] = "PUBLISHED" => sent[o] > 0
                           /\ sent[o] > 0 => outbox[o] # "none"
  BY DEF RelaysOK, RelayFacts!Structure, RelayFacts!TypeOK, RelayFacts!RowStatus,
         RelayFacts!BatchIsPending, RelayFacts!PublishedWasSent, RelayFacts!OnlyCommittedSent
<1>7. /\ rowSent \in [FailureRows -> Nat]
      /\ failureRow \in [FailureRows -> {"none", "UNPUBLISHED", "PUBLISHED"}]
      /\ rowCreatedAt \in [FailureRows -> Nat] /\ rowNow \in Nat \ {0}
      /\ rowBatch \subseteq FailureRows /\ \A r \in rowBatch : failureRow[r] = "UNPUBLISHED"
      /\ \A r \in FailureRows : /\ failureRow[r] = "PUBLISHED" => rowSent[r] > 0
                                /\ rowSent[r] > 0 => failureRow[r] # "none"
                                /\ failureRow[r] # "none" => rowCreatedAt[r] > 0
  BY DEF RelaysOK, RowFacts!Structure, RowFacts!TypeOK, RowFacts!RowStatus,
         RowFacts!DistinctTimes, RowFacts!BatchIsPending, RowFacts!PublishedWasSent,
         RowFacts!OnlyCommittedSent
<1> QED BY <1>4, <1>5, <1>6, <1>7

-----------------------------------------------------------------------------
(* The OrderCreated consumer.                                              *)

\* A step of order-service's worker gets one copy of one event through, or none.
LEMMA OneCopySent ==
    ASSUME RelaysOK, RelayOrder \/ \E o \in Orders : RelayOrderFails(o)
    PROVE \/ sent' = sent
          \/ \E o \in Orders : sent' = [sent EXCEPT ![o] = @ + 1]
<1>0. sent \in [Orders -> Nat]
  BY Relayed
<1>1. ASSUME NEW o \in Orders,
             OrderRelayer!PublishSucceeds(o) \/ OrderRelayer!PublishBreaks(o)
      PROVE sent' = sent \/ sent' = [sent EXCEPT ![o] = @ + 1]
  <2>1. PICK copies \in {0, 1} : sent' = [sent EXCEPT ![o] = @ + copies]
    BY <1>1 DEF OrderRelayer!PublishSucceeds, OrderRelayer!PublishBreaks
  <2>2. CASE copies = 0
    BY <1>0, <2>1, <2>2
  <2>3. CASE copies = 1
    BY <2>1, <2>3
  <2> QED BY <2>2, <2>3
<1> QED
  BY <1>1 DEF RelayOrder, RelayOrderFails, OrderRelayer!Relay, OrderRelayer!Fetch,
              OrderRelayer!PublishRefused, OrderRelayer!Reconnect, OrderRelayer!MarkPublished,
              OrderRelayer!ReconnectFails, OrderRelayer!MarkFails

\* A copy that gets through is a delivery, which is all the consumer sees of it.
LEMMA CopyIsDelivered ==
    ASSUME RelaysOK, RelaysOK', Stock!TypeOK,
           RelayOrder \/ \E o \in Orders : RelayOrderFails(o)
    PROVE (\E o \in Orders : Stock!Deliver(o)) \/ UNCHANGED Stock!vars
<1>0. /\ sent \in [Orders -> Nat] /\ \A o \in Orders : sent'[o] <= MaxCopies
      /\ MaxCopies \in Nat
  <2>1. MaxFaults \in Nat
    BY PartsAssumption DEF OrderRelayer!MaxFaultsAssumption
  <2>2. \A o \in Orders : /\ faults'[o] \in 0..MaxFaults
                          /\ sent'[o] <= faults'[o] + 1 /\ sent'[o] \in Nat
    BY DEF RelaysOK, RelayFacts!Structure, RelayFacts!TypeOK, RelayFacts!DuplicatesArePaidFor
  <2>3. \A o \in Orders : sent'[o] <= MaxCopies
    BY <2>1, <2>2 DEF MaxCopies
  <2> QED BY <2>1, <2>3, Relayed DEF MaxCopies
<1>1. /\ stockReady' = [o \in Orders |-> stockReady[o] + sent'[o] - sent[o]]
      /\ UNCHANGED <<stockWorker, stockDead, stock, processed, failures, taken>>
  BY DEF RelayOrder, RelayOrderFails, OrderCreatedFanout
<1>2. stockReady \in [Orders -> Nat]
  BY DEF Stock!TypeOK, Stock!Queue!QueueTypeOK
<1>3. CASE sent' = sent
  <2>1. stockReady' = stockReady
    BY <1>0, <1>1, <1>2, <1>3
  <2> QED
    BY <1>1, <1>3, <2>1 DEF Stock!vars, Stock!queueVars, Stock!dbVars
<1>4. ASSUME NEW o \in Orders, sent' = [sent EXCEPT ![o] = @ + 1] PROVE Stock!Deliver(o)
  <2>1. sent'[o] = sent[o] + 1 /\ sent[o] < MaxCopies
    BY <1>0, <1>4
  <2>2. stockReady' = [stockReady EXCEPT ![o] = @ + 1]
    <3>1. \A m \in Orders : stockReady[m] + sent'[m] - sent[m]
                              = IF m = o THEN stockReady[m] + 1 ELSE stockReady[m]
      <4> SUFFICES ASSUME NEW m \in Orders
                   PROVE stockReady[m] + sent'[m] - sent[m]
                           = IF m = o THEN stockReady[m] + 1 ELSE stockReady[m]
        OBVIOUS
      <4>1. sent'[m] = IF m = o THEN sent[m] + 1 ELSE sent[m]
        BY <1>0, <1>4
      <4>2. sent[m] \in Nat /\ stockReady[m] \in Nat
        BY <1>0, <1>2
      <4> QED BY <4>1, <4>2
    <3> QED BY <1>1, <1>2, <3>1
  <2> QED
    BY <1>1, <1>4, <2>1, <2>2 DEF Stock!Deliver, Stock!Queue!Enqueue, Stock!dbVars
<1> QED BY <1>3, <1>4, OneCopySent

\* Every step of the saga is one of the consumer, or none of its.
LEMMA StockStep ==
    ASSUME RelaysOK, RelaysOK', Stock!TypeOK, [Next]_vars
    PROVE [Stock!Next]_(Stock!vars)
<1> USE DEF stockVars, Stock!vars, Stock!queueVars, Stock!dbVars
<1>1. CASE RelayOrder \/ \E o \in Orders : RelayOrderFails(o)
  BY <1>1, CopyIsDelivered DEF Stock!Next
<1>2. CASE HandleOrderCreated
  BY <1>2 DEF HandleOrderCreated, InStockConsumer, Stock!Next
<1>3. CASE CrashProductService
  BY <1>3 DEF CrashProductService, Stock!Next
<1>4. ASSUME UNCHANGED <<stockVars, sent>> PROVE [Stock!Next]_(Stock!vars)
  BY <1>4
<1>5. ASSUME NEW o \in Orders, BeginOrder(o) \/ CommitOrder(o) \/ CheckoutStep(o)
      PROVE UNCHANGED <<stockVars, sent>>
  BY <1>5 DEF BeginOrder, CommitOrder, CheckoutStep, relayVars, OrderRelayer!BeginTx,
              OrderRelayer!CommitTx
<1>6. CASE HandleStockUpdateFailed \/ ReconnectOrderService \/ CrashOrderService
  BY <1>4, <1>6 DEF HandleStockUpdateFailed, InFailureConsumer, ReconnectOrderService,
                    CrashOrderService, relayVars, OrderRelayer!ConsumerReconnects,
                    OrderRelayer!Crash
<1>7. CASE \/ ReconnectProductService \/ RelayFailure
           \/ \E r \in FailureRows : RelayFailureFails(r)
           \/ UNCHANGED vars
  BY <1>4, <1>7 DEF ReconnectProductService, RelayFailure, RelayFailureFails, relayVars, vars
<1> QED BY <1>1, <1>2, <1>3, <1>4, <1>5, <1>6, <1>7 DEF Next

\* The types of the consumer, under both names.
LEMMA SameStockTypes ==
    /\ Stock!TypeOK <=> StockFacts!TypeOK
    /\ Stock!TypeOK' <=> StockFacts!TypeOK'
BY DEF Stock!TypeOK, StockFacts!TypeOK, Stock!Queue!QueueTypeOK, StockFacts!Queue!QueueTypeOK,
       Stock!Queue!Idle, StockFacts!Queue!Idle

\* What holds of the consumer, whatever the rest of the saga does.
StockOK ==
    /\ Stock!TypeOK /\ StockFacts!Delivered /\ StockFacts!FailureIffShort
    /\ StockFacts!TakenWithin /\ StockFacts!NoEventLost

\* The consumer keeps its specification, and so what was proved of it.
LEMMA StockKeepsItsSpec == Spec => Stock!Spec /\ []StockOK
<1>1. Init => Stock!Init /\ Stock!TypeOK
  <2> SUFFICES ASSUME Init PROVE Stock!TypeOK
    BY DEF Init
  <2>1. MaxCopies \in Nat /\ InitialStocks \subseteq [Products -> Nat]
    BY FactsAssumptions DEF StockFacts!MaxCopiesAssumption, StockFacts!InitialStocksAssumption
  <2> QED
    BY <2>1 DEF Init, Stock!Init, Stock!TypeOK, Stock!Queue!QueueInit,
                Stock!Queue!QueueTypeOK, MaxCopies
<1>2. Stock!TypeOK /\ [Stock!Next]_(Stock!vars) => Stock!TypeOK'
  BY SameStock, SameStockTypes, FactsAssumptions, StockFacts!TypeStep
<1>3. Spec => Stock!Spec /\ []Stock!TypeOK
  BY <1>1, <1>2, StockStep, WorkersKeepTheirSpecs, PTL DEF Spec, Stock!Spec
<1>4. Stock!Spec => StockFacts!Spec
  BY SameStock, PTL DEF Stock!Spec, StockFacts!Spec
<1>5. StockFacts!Spec => []StockFacts!Delivered
  BY FactsAssumptions, StockFacts!ProcessedWasDelivered
<1>6. StockFacts!Spec => [](StockFacts!FailureIffShort /\ StockFacts!TakenWithin)
  BY FactsAssumptions, StockFacts!FailuresAreExact
<1>7. StockFacts!Spec => []StockFacts!NoEventLost
  BY FactsAssumptions, StockFacts!NoEventIsLost
<1> QED BY <1>3, <1>4, <1>5, <1>6, <1>7, PTL DEF StockOK

-----------------------------------------------------------------------------
(* The StockUpdateFailed rows and their copies.                            *)

\* The k-th row of an order is there once its k-th failure was recorded.
Rows ==
    \A r \in FailureRows :
        /\ rowCreatedAt[r] = 0 <=> failures[r[1]] < r[2]
        /\ failureRow[r] # "none" <=> rowCreatedAt[r] > 0

\* The copies of an order's rows that got through: number, and which one of it.
Copies(o) ==
    {x \in (1..MaxFailures) \X (1..(MaxRowFaults + 1)) : x[2] <= rowSent[<<o, x[1]>>]}

\* What reached order-service's queue is what product-service's worker sent.
Counted == \A o \in Orders : failedDelivered[o] = Cardinality(Copies(o))

\* A row of outbox_events comes with its order.
Ordered == \A o \in Orders : outbox[o] # "none" => orders[o] # "none"

\* The stock transaction records at most one failure, of one order.
LEMMA OneFailure ==
    ASSUME Stock!TypeOK, HandleOrderCreated
    PROVE \/ failures' = failures
          \/ \E o \in Orders : failures' = [failures EXCEPT ![o] = @ + 1]
<1>1. ASSUME NEW w \in StockWorkers, Stock!At(w, "updating") PROVE Stock!OrderOf(w) \in Orders
  BY <1>1 DEF Stock!TypeOK, Stock!Queue!QueueTypeOK, Stock!Queue!Idle, Stock!At,
              Stock!Queue!At, Stock!OrderOf
<1>2. ASSUME NEW w \in StockWorkers, Stock!Handle(w)
      PROVE \/ failures' = failures
            \/ \E o \in Orders : failures' = [failures EXCEPT ![o] = @ + 1]
  BY <1>1, <1>2 DEF Stock!Handle, Stock!SkipProcessed, Stock!PassCheck, Stock!HandlerFails,
                    Stock!CommitStockUpdate, Stock!CommitReplyLost, Stock!AckHandled,
                    Stock!RejectShort, Stock!UpdateStock, Stock!dbVars
<1>3. ASSUME Stock!DropConnection \/ \E w \in StockWorkers, o \in Orders : Stock!Receive(w, o)
      PROVE failures' = failures
  BY <1>3 DEF Stock!DropConnection, Stock!Receive, Stock!dbVars
<1> QED BY <1>2, <1>3 DEF HandleOrderCreated, InStockConsumer

\* The stock transaction and its row.
LEMMA FailureIsRecorded ==
    ASSUME RelaysOK, Stock!TypeOK, Rows, HandleOrderCreated
    PROVE Rows'
<1>0. /\ failures \in [Orders -> Nat] /\ RecordFailure
      /\ rowCreatedAt \in [FailureRows -> Nat] /\ rowNow \in Nat \ {0}
      /\ failureRow \in [FailureRows -> {"none", "UNPUBLISHED", "PUBLISHED"}]
  BY Relayed DEF Stock!TypeOK, HandleOrderCreated, InStockConsumer
<1>1. \A r \in FailureRows : r[1] \in Orders /\ r[2] \in 1..MaxFailures /\ r = <<r[1], r[2]>>
  BY DEF FailureRows
<1>2. MaxFailures \in Nat
  BY PartsAssumption
<1>3. CASE failures' = failures
  <2>1. NewRows = {}
    BY <1>0, <1>1, <1>2, <1>3 DEF NewRows
  <2> QED BY <1>0, <1>3, <2>1 DEF RecordFailure, Rows, rowVars
<1>4. ASSUME NEW o \in Orders, failures' = [failures EXCEPT ![o] = @ + 1] PROVE Rows'
  <2>1. /\ failures'[o] = failures[o] + 1 /\ failures[o] \in Nat
        /\ \A m \in Orders : m # o => failures'[m] = failures[m]
    BY <1>0, <1>4
  <2>2. \A r \in FailureRows : r \in NewRows <=> r = <<o, failures[o] + 1>>
    BY <1>0, <1>1, <1>2, <2>1 DEF NewRows
  <2>3. CASE NewRows = {}
    <3>1. \A r \in FailureRows : r[1] = o => r[2] # failures[o] + 1
      BY <1>1, <2>2, <2>3
    <3>2. \A r \in FailureRows : failures'[r[1]] < r[2] <=> failures[r[1]] < r[2]
      BY <1>0, <1>1, <1>2, <2>1, <3>1
    <3> QED BY <1>0, <2>3, <3>2 DEF RecordFailure, Rows, rowVars
  <2>4. CASE NewRows # {}
    <3>1. PICK r \in NewRows : ProductRelayer!WriteTx(r)
      BY <1>0, <2>4 DEF RecordFailure
    <3>2. r \in FailureRows /\ r[1] = o /\ r[2] = failures[o] + 1
      BY <2>2, <3>1 DEF NewRows
    <3>3. /\ rowCreatedAt' = [rowCreatedAt EXCEPT ![r] = rowNow]
          /\ failureRow' = [failureRow EXCEPT ![r] = "UNPUBLISHED"]
      BY <3>1 DEF ProductRelayer!WriteTx
    <3>4. ASSUME NEW q \in FailureRows, q # r
          PROVE failures'[q[1]] < q[2] <=> failures[q[1]] < q[2]
      <4>1. q[1] # o \/ q[2] # failures[o] + 1
        BY <1>1, <3>2, <3>4
      <4> QED BY <1>0, <1>1, <1>2, <2>1, <4>1
    <3>5. ASSUME NEW q \in FailureRows, q # r
          PROVE rowCreatedAt'[q] = rowCreatedAt[q] /\ failureRow'[q] = failureRow[q]
      BY <1>0, <3>3, <3>5
    <3>6. /\ rowCreatedAt'[r] = rowNow /\ failureRow'[r] = "UNPUBLISHED"
          /\ ~(failures'[r[1]] < r[2])
      BY <1>0, <2>1, <3>2, <3>3
    <3> QED BY <1>0, <3>4, <3>5, <3>6 DEF Rows
  <2> QED BY <2>3, <2>4
<1> QED BY <1>3, <1>4, OneFailure

\* Every other step leaves the failures and their rows where they are, but for
\* the worker, which marks rows that are there.
LEMMA RowsStep ==
    ASSUME RelaysOK, Stock!TypeOK, Rows, [Next]_vars
    PROVE Rows'
<1>1. ASSUME UNCHANGED <<failures, rowCreatedAt, failureRow>> PROVE Rows'
  BY <1>1 DEF Rows
<1>2. CASE RelayFailure \/ \E r \in FailureRows : RelayFailureFails(r)
  <2>1. UNCHANGED <<failures, rowCreatedAt>>
    BY <1>2 DEF RelayFailure, RelayFailureFails, stockVars, ProductRelayer!Relay,
                ProductRelayer!Fetch, ProductRelayer!PublishSucceeds,
                ProductRelayer!PublishRefused, ProductRelayer!Reconnect,
                ProductRelayer!MarkPublished, ProductRelayer!PublishBreaks,
                ProductRelayer!ReconnectFails, ProductRelayer!MarkFails,
                ProductRelayer!txVars
  <2>2. CASE failureRow' = failureRow
    BY <1>1, <2>1, <2>2
  <2>3. ASSUME NEW r \in FailureRows, ProductRelayer!MarkPublished(r) PROVE Rows'
    <3>1. failureRow' = [failureRow EXCEPT ![r] = "PUBLISHED"] /\ failureRow[r] # "none"
      BY <2>3, Relayed DEF ProductRelayer!MarkPublished, ProductRelayer!Current
    <3> QED BY <2>1, <3>1, Relayed DEF Rows
  <2> QED
    BY <1>2, <2>2, <2>3
       DEF RelayFailure, RelayFailureFails, ProductRelayer!Relay,
           ProductRelayer!Fetch, ProductRelayer!PublishSucceeds,
           ProductRelayer!PublishRefused, ProductRelayer!Reconnect,
           ProductRelayer!PublishBreaks, ProductRelayer!ReconnectFails,
           ProductRelayer!MarkFails, ProductRelayer!txVars
<1>3. CASE ReconnectProductService \/ CrashProductService
  BY <1>1, <1>3 DEF ReconnectProductService, CrashProductService, stockVars, rowVars,
                    ProductRelayer!ConsumerReconnects, ProductRelayer!Crash,
                    ProductRelayer!txVars, Stock!Crash, Stock!dbVars
<1>4. ASSUME NEW o \in Orders, BeginOrder(o) \/ CommitOrder(o) \/ CheckoutStep(o)
      PROVE Rows'
  BY <1>1, <1>4 DEF BeginOrder, CommitOrder, CheckoutStep, stockVars, rowVars
<1>5. CASE RelayOrder \/ \E o \in Orders : RelayOrderFails(o)
  BY <1>1, <1>5 DEF RelayOrder, RelayOrderFails, OrderCreatedFanout, rowVars
<1>6. CASE HandleStockUpdateFailed \/ ReconnectOrderService \/ CrashOrderService
           \/ UNCHANGED vars
  BY <1>1, <1>6 DEF HandleStockUpdateFailed, InFailureConsumer, ReconnectOrderService,
                    CrashOrderService, stockVars, rowVars, vars
<1> QED BY <1>2, <1>3, <1>4, <1>5, <1>6, FailureIsRecorded DEF Next

\* There are no more copies of an order's rows than the two bounds allow.
LEMMA CopiesAreFinite ==
    ASSUME NEW C \in SUBSET ((1..MaxFailures) \X (1..(MaxRowFaults + 1)))
    PROVE /\ IsFiniteSet(C) /\ Cardinality(C) \in Nat
          /\ Cardinality(C) <= MaxFailures * (MaxRowFaults + 1)
<1>1. MaxFailures \in Nat /\ MaxRowFaults + 1 \in Nat
  BY PartsAssumption DEF ProductRelayer!MaxFaultsAssumption
<1>2. /\ IsFiniteSet(1..MaxFailures) /\ Cardinality(1..MaxFailures) = MaxFailures
      /\ IsFiniteSet(1..(MaxRowFaults + 1))
      /\ Cardinality(1..(MaxRowFaults + 1)) = MaxRowFaults + 1
  <2>1. ASSUME NEW n \in Nat PROVE IsFiniteSet(1..n) /\ Cardinality(1..n) = n
    <3>1. IsFiniteSet(1..n) /\ Cardinality(1..n) = IF 1 > n THEN 0 ELSE n - 1 + 1
      BY FS_Interval
    <3>2. (IF 1 > n THEN 0 ELSE n - 1 + 1) = n
      OBVIOUS
    <3> QED BY <3>1, <3>2
  <2>2. IsFiniteSet(1..MaxFailures) /\ Cardinality(1..MaxFailures) = MaxFailures
    BY <1>1, <2>1
  <2> DEFINE m == MaxRowFaults + 1
  <2>3. m \in Nat
    BY <1>1
  <2> HIDE DEF m
  <2>4. IsFiniteSet(1..m) /\ Cardinality(1..m) = m
    BY <2>1, <2>3
  <2> QED BY <2>2, <2>4 DEF m
<1>3. /\ IsFiniteSet((1..MaxFailures) \X (1..(MaxRowFaults + 1)))
      /\ Cardinality((1..MaxFailures) \X (1..(MaxRowFaults + 1)))
           = MaxFailures * (MaxRowFaults + 1)
  BY <1>2, FS_Product
<1>4. IsFiniteSet(C) /\ Cardinality(C) <= MaxFailures * (MaxRowFaults + 1)
  BY <1>3, FS_Subset
<1> QED BY <1>4, FS_CardinalityType

\* A step of product-service's worker gets one copy of one row of its batch
\* through, or none.
LEMMA OneRowSent ==
    ASSUME RelaysOK, RelayFailure \/ \E r \in FailureRows : RelayFailureFails(r)
    PROVE \/ rowSent' = rowSent
          \/ \E r \in rowBatch : rowSent' = [rowSent EXCEPT ![r] = @ + 1]
<1>0. rowSent \in [FailureRows -> Nat]
  BY Relayed
<1>1. ASSUME NEW r \in FailureRows,
             ProductRelayer!PublishSucceeds(r) \/ ProductRelayer!PublishBreaks(r)
      PROVE rowSent' = rowSent \/ (r \in rowBatch /\ rowSent' = [rowSent EXCEPT ![r] = @ + 1])
  <2>1. PICK copies \in {0, 1} : rowSent' = [rowSent EXCEPT ![r] = @ + copies]
    BY <1>1 DEF ProductRelayer!PublishSucceeds, ProductRelayer!PublishBreaks
  <2>2. r \in rowBatch
    BY <1>1 DEF ProductRelayer!PublishSucceeds, ProductRelayer!PublishBreaks,
                ProductRelayer!Publishing, ProductRelayer!Current
  <2>3. CASE copies = 0
    BY <1>0, <2>1, <2>3
  <2>4. CASE copies = 1
    BY <2>1, <2>2, <2>4
  <2> QED BY <2>3, <2>4
<1> QED
  BY <1>1 DEF RelayFailure, RelayFailureFails, ProductRelayer!Relay, ProductRelayer!Fetch,
              ProductRelayer!PublishRefused, ProductRelayer!Reconnect,
              ProductRelayer!MarkPublished, ProductRelayer!ReconnectFails,
              ProductRelayer!MarkFails

\* That copy is the only new one.
LEMMA NewCopy ==
    ASSUME RelaysOK, RelaysOK', NEW r \in FailureRows, NEW o \in Orders,
           rowSent' = [rowSent EXCEPT ![r] = @ + 1]
    PROVE /\ NewCopies(o) = IF o = r[1] THEN 1 ELSE 0
          /\ Cardinality(Copies(o))' = Cardinality(Copies(o)) + NewCopies(o)
<1>0. /\ rowSent \in [FailureRows -> Nat] /\ MaxRowFaults \in Nat /\ MaxFailures \in Nat
      /\ r = <<r[1], r[2]>> /\ r[1] \in Orders /\ r[2] \in 1..MaxFailures
  BY Relayed, PartsAssumption DEF ProductRelayer!MaxFaultsAssumption, FailureRows
<1>1. rowSent'[r] = rowSent[r] + 1 /\ rowSent'[r] <= MaxRowFaults + 1
  <2>1. /\ rowFaults'[r] \in 0..MaxRowFaults
        /\ rowSent'[r] <= rowFaults'[r] + 1 /\ rowSent'[r] \in Nat
    BY DEF RelaysOK, RowFacts!Structure, RowFacts!TypeOK, RowFacts!DuplicatesArePaidFor
  <2> QED BY <1>0, <2>1
<1>2. \A q \in FailureRows : q # r => rowSent'[q] = rowSent[q]
  BY <1>0
<1>3. \A q \in FailureRows : rowSent'[q] > rowSent[q] <=> q = r
  BY <1>0, <1>1, <1>2
<1>4. \A k \in 1..MaxFailures : <<o, k>> \in FailureRows
  BY DEF FailureRows
<1>5. CASE o # r[1]
  <2>1. {q \in FailureRows : q[1] = o /\ rowSent'[q] > rowSent[q]} = {}
    BY <1>3, <1>5
  <2>2. NewCopies(o) = 0
    BY <2>1, FS_EmptySet DEF NewCopies
  <2>3. Copies(o)' = Copies(o)
    <3>1. \A k \in 1..MaxFailures : rowSent'[<<o, k>>] = rowSent[<<o, k>>]
      BY <1>0, <1>2, <1>4, <1>5
    <3> QED BY <3>1 DEF Copies
  <2>4. Cardinality(Copies(o)) \in Nat
    BY CopiesAreFinite DEF Copies
  <2> QED BY <1>5, <2>2, <2>3, <2>4
<1>6. CASE o = r[1]
  <2> DEFINE c == <<r[2], rowSent[r] + 1>>
  <2>1. {q \in FailureRows : q[1] = o /\ rowSent'[q] > rowSent[q]} = {r}
    BY <1>3, <1>6
  <2>2. NewCopies(o) = 1
    BY <2>1, FS_Singleton DEF NewCopies
  <2>3. Copies(o)' = Copies(o) \cup {c}
    <3>1. ASSUME NEW k \in 1..MaxFailures, NEW n \in 1..(MaxRowFaults + 1)
          PROVE n <= rowSent'[<<o, k>>]
                  <=> n <= rowSent[<<o, k>>] \/ <<k, n>> = c
      <4>1. CASE k = r[2]
        <5>1. <<o, k>> = r
          BY <1>0, <1>6, <4>1
        <5> QED BY <1>0, <1>1, <4>1, <5>1
      <4>2. CASE k # r[2]
        <5>1. <<o, k>> # r
          BY <1>0, <4>2
        <5> QED BY <1>2, <1>4, <4>2, <5>1
      <4> QED BY <4>1, <4>2
    <3>2. c \in (1..MaxFailures) \X (1..(MaxRowFaults + 1))
      <4>1. rowSent[r] + 1 \in 1..(MaxRowFaults + 1)
        BY <1>0, <1>1
      <4> QED BY <1>0, <4>1
    <3>3. ASSUME NEW x \in (1..MaxFailures) \X (1..(MaxRowFaults + 1))
          PROVE x \in Copies(o)' <=> x \in Copies(o) \cup {c}
      <4>1. x = <<x[1], x[2]>> /\ x[1] \in 1..MaxFailures /\ x[2] \in 1..(MaxRowFaults + 1)
        OBVIOUS
      <4>2. x[2] <= rowSent'[<<o, x[1]>>] <=> x[2] <= rowSent[<<o, x[1]>>] \/ x = c
        BY <3>1, <4>1
      <4> QED BY <4>2 DEF Copies
    <3>4. /\ Copies(o) \subseteq (1..MaxFailures) \X (1..(MaxRowFaults + 1))
          /\ Copies(o)' \subseteq (1..MaxFailures) \X (1..(MaxRowFaults + 1))
      BY DEF Copies
    <3> QED BY <3>2, <3>3, <3>4
  <2>4. c \notin Copies(o)
    <3>1. c[1] = r[2] /\ c[2] = rowSent[r] + 1 /\ <<o, c[1]>> = r
      BY <1>0, <1>6
    <3>2. ~(c[2] <= rowSent[<<o, c[1]>>])
      BY <1>0, <3>1
    <3> QED BY <3>2 DEF Copies
  <2>5. Cardinality(Copies(o) \cup {c}) = Cardinality(Copies(o)) + 1
    <3>1. IsFiniteSet(Copies(o))
      BY CopiesAreFinite DEF Copies
    <3> QED BY <2>4, <3>1, FS_AddElement
  <2> QED BY <1>6, <2>2, <2>3, <2>5
<1> QED BY <1>5, <1>6

\* Only product-service's worker sends copies and only then they arrive.
LEMMA CountedStep ==
    ASSUME RelaysOK, RelaysOK', Counted, failedDelivered \in [Orders -> Nat], [Next]_vars
    PROVE Counted'
<1>1. ASSUME UNCHANGED <<failedDelivered, rowSent>> PROVE Counted'
  BY <1>1 DEF Counted, Copies
<1>2. CASE RelayFailure \/ \E r \in FailureRows : RelayFailureFails(r)
  <2>1. failedDelivered' = [o \in Orders |-> failedDelivered[o] + NewCopies(o)]
    BY <1>2 DEF RelayFailure, RelayFailureFails, StockUpdateFailedFanout
  <2>2. CASE rowSent' = rowSent
    <3>1. \A o \in Orders : NewCopies(o) = 0
      <4>1. \A o \in Orders : {r \in FailureRows : r[1] = o /\ rowSent'[r] > rowSent[r]} = {}
        BY <2>2, Relayed
      <4> QED BY <4>1, FS_EmptySet DEF NewCopies
    <3> QED BY <1>1, <2>1, <2>2, <3>1
  <2>3. ASSUME NEW r \in rowBatch, rowSent' = [rowSent EXCEPT ![r] = @ + 1] PROVE Counted'
    <3>1. r \in FailureRows
      BY Relayed
    <3>2. \A o \in Orders : Cardinality(Copies(o))' = Cardinality(Copies(o)) + NewCopies(o)
      BY <2>3, <3>1, NewCopy
    <3> QED BY <2>1, <3>2 DEF Counted
  <2> QED BY <1>2, <2>2, <2>3, OneRowSent
<1>3. CASE HandleOrderCreated
  <2>1. RecordFailure /\ UNCHANGED orderVars
    BY <1>3 DEF HandleOrderCreated, InStockConsumer
  <2>2. UNCHANGED rowSent
    BY <2>1 DEF RecordFailure, rowVars, ProductRelayer!WriteTx
  <2> QED BY <1>1, <2>1, <2>2 DEF orderVars
<1>4. CASE ReconnectProductService \/ CrashProductService
  BY <1>1, <1>4 DEF ReconnectProductService, CrashProductService, orderVars, rowVars,
                    ProductRelayer!ConsumerReconnects, ProductRelayer!Crash
<1>5. ASSUME NEW o \in Orders, BeginOrder(o) \/ CommitOrder(o) \/ CheckoutStep(o)
      PROVE Counted'
  BY <1>1, <1>5
     DEF BeginOrder, CommitOrder, CheckoutStep, rowVars, Order!BeginOrderTx,
         Order!CommitOrderTx, Order!CommitReplyLost, Order!RejectRequest,
         Order!RollbackOrderTx, Order!SendPayment, Order!PaymentSucceeds,
         Order!PaymentFails, Order!CancelOrder, Order!PaymentStep, Order!consumerVars
<1>6. CASE HandleStockUpdateFailed
  BY <1>1, <1>6
     DEF HandleStockUpdateFailed, InFailureConsumer, rowVars, Order!ReceiveFailure,
         Order!HandleFailure, Order!SkipFailure, Order!ReadOrder, Order!CancelByFailure,
         Order!CancelReplyLost, Order!FailureHandlerFails, Order!AckFailure,
         Order!DropConnection
<1>7. CASE CrashOrderService
  BY <1>1, <1>7 DEF CrashOrderService, orderVars, rowVars, Order!Crash
<1>8. CASE \/ RelayOrder \/ ReconnectOrderService \/ UNCHANGED vars
           \/ \E o \in Orders : RelayOrderFails(o)
  BY <1>1, <1>8 DEF RelayOrder, RelayOrderFails, ReconnectOrderService, orderVars, rowVars,
                    vars
<1> QED BY <1>2, <1>3, <1>4, <1>5, <1>6, <1>7, <1>8 DEF Next

-----------------------------------------------------------------------------
(* order-service.                                                          *)

\* Its worker marks a row that is there, or touches none.
LEMMA OneRowMarked ==
    ASSUME RelaysOK, RelayOrder \/ \E o \in Orders : RelayOrderFails(o)
    PROVE \/ outbox' = outbox
          \/ \E o \in Orders : /\ outbox[o] = "UNPUBLISHED"
                               /\ outbox' = [outbox EXCEPT ![o] = "PUBLISHED"]
<1>1. ASSUME NEW o \in Orders, OrderRelayer!MarkPublished(o)
      PROVE outbox[o] = "UNPUBLISHED" /\ outbox' = [outbox EXCEPT ![o] = "PUBLISHED"]
  BY <1>1, Relayed DEF OrderRelayer!MarkPublished, OrderRelayer!Current
<1> QED
  BY <1>1 DEF RelayOrder, RelayOrderFails, OrderRelayer!Relay, OrderRelayer!Fetch,
              OrderRelayer!PublishSucceeds, OrderRelayer!PublishRefused,
              OrderRelayer!Reconnect, OrderRelayer!PublishBreaks,
              OrderRelayer!ReconnectFails, OrderRelayer!MarkFails, OrderRelayer!txVars

\* The types of order-service, under both names.
LEMMA SameOrderTypes ==
    /\ Order!TypeOK <=> OrderFacts!TypeOK
    /\ Order!TypeOK' <=> OrderFacts!TypeOK'
BY DEF Order!TypeOK, OrderFacts!TypeOK, Order!InFlight, OrderFacts!InFlight,
       Order!OrderStatusNames, OrderFacts!OrderStatusNames,
       Order!Payments!PaymentTypeOK, OrderFacts!Payments!PaymentTypeOK,
       Order!FailedQueue!QueueTypeOK, OrderFacts!FailedQueue!QueueTypeOK,
       Order!FailedQueue!Idle, OrderFacts!FailedQueue!Idle

\* An order is recorded with its row, and not deleted after.
LEMMA OrderedStep ==
    ASSUME RelaysOK, Order!TypeOK, Ordered, [Next]_vars
    PROVE Ordered'
<1>0. /\ orders \in [Orders -> {"none"} \cup Order!OrderStatusNames]
      /\ outbox \in [Orders -> {"none", "UNPUBLISHED", "PUBLISHED"}]
  BY Relayed DEF Order!TypeOK
<1>1. ASSUME UNCHANGED <<orders, outbox>> PROVE Ordered'
  BY <1>1 DEF Ordered
<1>2. ASSUME NEW o \in Orders, CommitOrder(o) PROVE Ordered'
  BY <1>0, <1>2 DEF CommitOrder, Order!CommitOrderTx, Order!CommitReplyLost,
                    Order!InsertOrder, Ordered
<1>3. ASSUME NEW o \in Orders, BeginOrder(o) \/ CheckoutStep(o) PROVE Ordered'
  <2>1. ("CANCELED" \in Order!OrderStatusNames) = FALSE
    BY DEF Order!OrderStatusNames
  <2>2. Order!CancelOrder(o) => UNCHANGED <<orders, outbox>>
    BY <2>1 DEF Order!CancelOrder, Order!tables
  <2> QED
    BY <1>1, <1>3, <2>2
       DEF BeginOrder, CheckoutStep, Order!BeginOrderTx, Order!RejectRequest,
           Order!RollbackOrderTx, Order!SendPayment, Order!PaymentSucceeds,
           Order!PaymentFails, Order!PaymentStep, Order!tables
<1>4. CASE RelayOrder \/ \E o \in Orders : RelayOrderFails(o)
  <2>1. orders' = orders
    BY <1>4 DEF RelayOrder, RelayOrderFails, orderVars
  <2>2. ASSUME NEW o \in Orders, outbox[o] = "UNPUBLISHED",
               outbox' = [outbox EXCEPT ![o] = "PUBLISHED"]
        PROVE Ordered'
    BY <1>0, <2>1, <2>2 DEF Ordered
  <2> QED BY <1>1, <1>4, <2>1, <2>2, OneRowMarked
<1>5. CASE HandleStockUpdateFailed
  <2>1. outbox' = outbox
    BY <1>5, FailuresKeepRows
  <2>2. orders' = orders \/ \E w \in Cancellers : Order!SetCancelled(w)
    BY <1>5
       DEF HandleStockUpdateFailed, InFailureConsumer, Order!ReceiveFailure,
           Order!HandleFailure, Order!SkipFailure, Order!ReadOrder, Order!CancelByFailure,
           Order!CancelReplyLost, Order!FailureHandlerFails, Order!AckFailure,
           Order!DropConnection, Order!tables
  <2>3. ASSUME NEW o \in Orders, orders[o] # "none" PROVE orders'[o] # "none"
    BY <1>0, <2>2, <2>3 DEF Order!SetCancelled
  <2> QED BY <2>1, <2>3 DEF Ordered
<1>6. CASE CrashOrderService
  BY <1>1, <1>6 DEF CrashOrderService, Order!Crash, Order!tables, orderVars
<1>7. CASE \/ ReconnectOrderService \/ HandleOrderCreated
           \/ ReconnectProductService \/ CrashProductService
           \/ UNCHANGED vars
  BY <1>1, <1>7 DEF ReconnectOrderService, HandleOrderCreated, InStockConsumer,
                    ReconnectProductService, CrashProductService, orderVars, vars,
                    OrderRelayer!ConsumerReconnects, OrderRelayer!txVars
<1>8. CASE RelayFailure \/ \E r \in FailureRows : RelayFailureFails(r)
  BY <1>1, <1>8 DEF RelayFailure, RelayFailureFails, StockUpdateFailedFanout
<1> QED BY <1>2, <1>3, <1>4, <1>5, <1>6, <1>7, <1>8 DEF Next

\* A failure row is about an order that is there: it was written by the
\* transaction that processed the order's OrderCreated event.
LEMMA FailedWasOrdered ==
    ASSUME RelaysOK, StockOK, Ordered, Rows, NEW r \in FailureRows, failureRow[r] # "none"
    PROVE orders[r[1]] # "none"
<1>0. r[1] \in Orders /\ r[2] \in 1..MaxFailures /\ MaxFailures \in Nat
  BY PartsAssumption DEF FailureRows
<1>1. /\ processed[r[1]] \in Nat /\ failures[r[1]] \in Nat
      /\ \A p \in Products : taken[r[1]][p] \in Nat /\ Items[r[1]][p] \in Nat
  BY <1>0, PartsAssumption DEF StockOK, Stock!TypeOK, Stock!ItemsAssumption
<1>2. failures[r[1]] > 0
  <2>1. ~(failures[r[1]] < r[2])
    BY Relayed DEF Rows
  <2> QED BY <1>0, <1>1, <2>1
<1>3. processed[r[1]] > 0
  <2>1. PICK p \in Products : taken[r[1]][p] < processed[r[1]] * Items[r[1]][p]
    BY <1>0, <1>2 DEF StockOK, StockFacts!FailureIffShort
  <2>2. CASE processed[r[1]] = 0
    BY <1>1, <2>1, <2>2
  <2> QED BY <1>1, <2>2
<1>4. sent[r[1]] > 0
  BY <1>0, <1>3 DEF StockOK, StockFacts!Delivered
<1> QED BY <1>0, <1>4, Relayed DEF Ordered

\* A copy of a failure row that gets through is a report that arrives.
LEMMA CopyIsReport ==
    ASSUME RelaysOK, RelaysOK', StockOK, Order!TypeOK, Ordered, Rows, Counted, Counted',
           RelayFailure \/ \E r \in FailureRows : RelayFailureFails(r)
    PROVE (\E o \in Orders : Order!FailureArrives(o)) \/ UNCHANGED Order!vars
<1>0. /\ failedReady' = [o \in Orders |-> failedReady[o] + NewCopies(o)]
      /\ failedDelivered' = [o \in Orders |-> failedDelivered[o] + NewCopies(o)]
      /\ UNCHANGED <<request, orders, call, payment, canceller, failedDead, outbox>>
      /\ failedReady \in [Orders -> Nat] /\ failedDelivered \in [Orders -> Nat]
  <2>1. failedReady \in [Orders -> Nat]
    BY DEF Order!TypeOK, Order!FailedQueue!QueueTypeOK
  <2>2. failedDelivered \in [Orders -> Nat]
    BY FactsAssumptions DEF Order!TypeOK, OrderFacts!MaxFailedCopiesAssumption
  <2> QED
    BY <2>1, <2>2 DEF RelayFailure, RelayFailureFails, StockUpdateFailedFanout
<1>1. CASE rowSent' = rowSent
  <2>1. \A o \in Orders : {r \in FailureRows : r[1] = o /\ rowSent'[r] > rowSent[r]} = {}
    BY <1>1, Relayed
  <2>2. \A o \in Orders : NewCopies(o) = 0
    BY <2>1, FS_EmptySet DEF NewCopies
  <2>3. failedReady' = failedReady /\ failedDelivered' = failedDelivered
    BY <1>0, <2>2
  <2> QED
    BY <1>0, <2>3 DEF Order!vars, Order!tables, Order!paymentVars, Order!consumerVars
<1>2. ASSUME NEW r \in rowBatch, rowSent' = [rowSent EXCEPT ![r] = @ + 1]
      PROVE Order!FailureArrives(r[1])
  <2>1. r \in FailureRows /\ failureRow[r] # "none"
    BY Relayed
  <2>2. r[1] \in Orders /\ orders[r[1]] # "none"
    BY <2>1, FailedWasOrdered DEF FailureRows
  <2>3. \A o \in Orders : NewCopies(o) = IF o = r[1] THEN 1 ELSE 0
    BY <1>2, <2>1, NewCopy
  <2>4. /\ failedReady' = [failedReady EXCEPT ![r[1]] = @ + 1]
        /\ failedDelivered' = [failedDelivered EXCEPT ![r[1]] = @ + 1]
    <3>1. \A o \in Orders :
            /\ failedReady[o] + NewCopies(o)
                 = IF o = r[1] THEN failedReady[o] + 1 ELSE failedReady[o]
            /\ failedDelivered[o] + NewCopies(o)
                 = IF o = r[1] THEN failedDelivered[o] + 1 ELSE failedDelivered[o]
      BY <1>0, <2>3
    <3> QED BY <1>0, <2>2, <3>1
  <2>5. failedDelivered[r[1]] < MaxFailures * (MaxRowFaults + 1)
    <3>1. failedDelivered[r[1]] = Cardinality(Copies(r[1]))
      BY <2>2 DEF Counted
    <3>2. Cardinality(Copies(r[1]))' = Cardinality(Copies(r[1])) + 1
      BY <1>2, <2>1, <2>2, <2>3, NewCopy
    <3>3. Cardinality(Copies(r[1]))' <= MaxFailures * (MaxRowFaults + 1)
      BY CopiesAreFinite DEF Copies
    <3>4. MaxFailures * (MaxRowFaults + 1) \in Nat
      BY FactsAssumptions DEF OrderFacts!MaxFailedCopiesAssumption
    <3>5. Cardinality(Copies(r[1])) \in Nat
      BY CopiesAreFinite DEF Copies
    <3> QED BY <2>2, <3>1, <3>2, <3>3, <3>4, <3>5
  <2> QED
    BY <1>0, <2>2, <2>4, <2>5
       DEF Order!FailureArrives, Order!FailedQueue!Enqueue, Order!tables, Order!paymentVars
<1> QED
  <2>1. CASE rowSent' = rowSent
    BY <1>1, <2>1
  <2>2. ASSUME NEW r \in rowBatch, rowSent' = [rowSent EXCEPT ![r] = @ + 1]
        PROVE \E o \in Orders : Order!FailureArrives(o)
    BY <1>2, <2>2, Relayed DEF FailureRows
  <2> QED BY <2>1, <2>2, OneRowSent

\* Every step of the saga is one of order-service, or none of its.
LEMMA OrderStep ==
    ASSUME RelaysOK, RelaysOK', StockOK, Order!TypeOK, Ordered, Rows, Counted, Counted',
           [Next]_vars
    PROVE [Order!Next]_(Order!vars)
<1> USE DEF orderVars, Order!vars, Order!tables, Order!paymentVars, Order!consumerVars
<1>1. ASSUME NEW o \in Orders, BeginOrder(o) \/ CommitOrder(o) PROVE Order!Next
  BY <1>1 DEF BeginOrder, CommitOrder, Order!CreateOrder, Order!Next
<1>2. ASSUME NEW o \in Orders, CheckoutStep(o) PROVE Order!Next
  BY <1>2 DEF CheckoutStep, Order!CreateOrder, Order!Next
<1>3. CASE RelayOrder \/ \E o \in Orders : RelayOrderFails(o)
  <2>1. UNCHANGED orderVars
    BY <1>3 DEF RelayOrder, RelayOrderFails
  <2>2. ASSUME NEW o \in Orders, outbox[o] = "UNPUBLISHED",
               outbox' = [outbox EXCEPT ![o] = "PUBLISHED"]
        PROVE Order!Next
    <3>1. Order!RelayerMarks(o)
      BY <2>1, <2>2 DEF Order!RelayerMarks
    <3> QED BY <3>1 DEF Order!Next
  <2>3. CASE outbox' = outbox
    BY <2>1, <2>3
  <2> QED BY <1>3, <2>2, <2>3, OneRowMarked
<1>4. CASE HandleStockUpdateFailed
  BY <1>4 DEF HandleStockUpdateFailed, InFailureConsumer, Order!Next
<1>5. CASE CrashOrderService
  BY <1>5 DEF CrashOrderService, Order!Next
<1>6. CASE \/ ReconnectOrderService \/ HandleOrderCreated
           \/ ReconnectProductService \/ CrashProductService
           \/ UNCHANGED vars
  BY <1>6 DEF ReconnectOrderService, HandleOrderCreated, InStockConsumer,
              ReconnectProductService, CrashProductService, vars,
              OrderRelayer!ConsumerReconnects, OrderRelayer!txVars
<1>7. CASE RelayFailure \/ \E r \in FailureRows : RelayFailureFails(r)
  BY <1>7, CopyIsReport DEF Order!Next
<1> QED BY <1>1, <1>2, <1>3, <1>4, <1>5, <1>6, <1>7 DEF Next

\* The strengthening: the rows and copies of failures are counted, and every
\* row of order-service's outbox is about an order.
SagaInv == Order!TypeOK /\ Ordered /\ Rows /\ Counted

\* No event has been written and no copy sent at the start.
LEMMA SagaInvAtStart == Init => SagaInv
<1> SUFFICES ASSUME Init PROVE SagaInv
  OBVIOUS
<1>1. Order!TypeOK
  <2>1. MaxFailures * (MaxRowFaults + 1) \in Nat
    BY FactsAssumptions DEF OrderFacts!MaxFailedCopiesAssumption
  <2> QED
    BY <2>1 DEF Init, Order!Init, Order!TypeOK, Order!Payments!PaymentInit,
                Order!Payments!PaymentTypeOK, Order!FailedQueue!QueueInit,
                Order!FailedQueue!QueueTypeOK
<1>2. Ordered
  BY DEF Init, Order!Init, Ordered
<1>3. Rows
  BY DEF Init, ProductRelayer!Init, Stock!Init, Rows, FailureRows
<1>4. ASSUME NEW o \in Orders PROVE failedDelivered[o] = Cardinality(Copies(o))
  <2>1. \A k \in 1..MaxFailures : rowSent[<<o, k>>] = 0
    BY DEF Init, ProductRelayer!Init, FailureRows
  <2>2. Copies(o) = {}
    BY <2>1 DEF Copies
  <2> QED BY <2>2, FS_EmptySet DEF Init, Order!Init
<1> QED BY <1>1, <1>2, <1>3, <1>4 DEF SagaInv, Counted

\* A step keeps it, whichever part it is of.
LEMMA SagaInvStep ==
    ASSUME RelaysOK, RelaysOK', StockOK, SagaInv, [Next]_vars
    PROVE /\ SagaInv'
          /\ [Order!Next]_(Order!vars)
<1>1. failedDelivered \in [Orders -> Nat]
  BY FactsAssumptions DEF SagaInv, Order!TypeOK, OrderFacts!MaxFailedCopiesAssumption
<1>2. Ordered' /\ Rows' /\ Counted'
  BY <1>1, OrderedStep, RowsStep, CountedStep DEF SagaInv, StockOK
<1>3. [Order!Next]_(Order!vars)
  BY <1>2, OrderStep DEF SagaInv
<1>4. Order!TypeOK'
  BY <1>3, SameOrder, SameOrderTypes, FactsAssumptions, OrderFacts!TypeStep DEF SagaInv
<1> QED BY <1>2, <1>3, <1>4 DEF SagaInv

\* What holds of order-service, whatever the rest of the saga does.
OrderOK == OrderFacts!OrderInv /\ OrderFacts!NoFailureLost /\ OrderFacts!Reports

\* order-service keeps its specification, and so what was proved of it.
LEMMA OrderKeepsItsSpec == Spec => Order!Spec /\ []SagaInv /\ []OrderOK
<1>1. Init => Order!Init
  BY DEF Init
<1>2. Spec => Order!Spec /\ []SagaInv
  BY <1>1, SagaInvAtStart, SagaInvStep, WorkersKeepTheirSpecs, StockKeepsItsSpec, PTL
     DEF Spec, Order!Spec
<1>3. Order!Spec => OrderFacts!Spec
  BY SameOrder, PTL DEF Order!Spec, OrderFacts!Spec
<1>4. OrderFacts!Spec => []OrderFacts!OrderInv
  BY FactsAssumptions, OrderFacts!OrderInvariant
<1>5. OrderFacts!Spec => []OrderFacts!NoFailureLost
  BY FactsAssumptions, OrderFacts!NoFailureIsLost
<1>6. OrderFacts!Spec => []OrderFacts!Reports
  BY FactsAssumptions, OrderFacts!CancelledWasReported
<1> QED BY <1>2, <1>3, <1>4, <1>5, <1>6, PTL DEF OrderOK

-----------------------------------------------------------------------------
(* The saga.                                                               *)

\* The four parts keep their own specifications with each other as their
\* environment: what the queue, the worker and the consumer on either side
\* assume of the rest is what the rest does.
THEOREM PartsKeepSpecs == Spec => PartsKeepTheirSpecs
BY WorkersKeepTheirSpecs, StockKeepsItsSpec, OrderKeepsItsSpec DEF PartsKeepTheirSpecs

\* Everything that holds of the saga and its parts at any time.
SagaOK == RelaysOK /\ StockOK /\ SagaInv /\ OrderOK

\* It is an invariant.
LEMMA SagaIsOK == Spec => []SagaOK
BY WorkersKeepTheirSpecs, StockKeepsItsSpec, OrderKeepsItsSpec, PTL DEF SagaOK

\* A report that arrived is of a failure the stock transaction recorded.
LEMMA ReportedWasShort ==
    ASSUME SagaOK, NEW o \in Orders, failedDelivered[o] > 0
    PROVE failures[o] > 0
<1>1. Copies(o) # {}
  <2>1. failedDelivered[o] = Cardinality(Copies(o))
    BY DEF SagaOK, SagaInv, Counted
  <2> QED BY <2>1, FS_EmptySet
<1>2. PICK k \in 1..MaxFailures, n \in 1..(MaxRowFaults + 1) : n <= rowSent[<<o, k>>]
  BY <1>1 DEF Copies
<1>3. /\ <<o, k>> \in FailureRows /\ <<o, k>>[1] = o /\ <<o, k>>[2] = k
      /\ MaxFailures \in Nat /\ MaxRowFaults \in Nat
  BY PartsAssumption DEF FailureRows, ProductRelayer!MaxFaultsAssumption
<1>4. rowSent[<<o, k>>] > 0
  BY <1>2, <1>3, Relayed DEF SagaOK
<1>5. rowCreatedAt[<<o, k>>] > 0 /\ rowCreatedAt[<<o, k>>] # 0
  BY <1>3, <1>4, Relayed DEF SagaOK
<1>6. ~(failures[o] < k)
  BY <1>3, <1>5 DEF SagaOK, SagaInv, Rows
<1>7. failures[o] \in Nat
  BY DEF SagaOK, StockOK, Stock!TypeOK
<1> QED BY <1>3, <1>6, <1>7

\* Only an order whose stock product-service could not take is cancelled,
\* although the two are five steps and two queues apart.
THEOREM CancelledWereShort == Spec => []CancelledWasShort
<1>1. SagaOK => CancelledWasShort
  <2> SUFFICES ASSUME SagaOK, NEW o \in Orders, orders[o] = "CANCELLED"
               PROVE failures[o] > 0
    BY DEF CancelledWasShort
  <2>1. failedDelivered[o] > 0
    BY DEF SagaOK, OrderOK, OrderFacts!Reports
  <2> QED BY <2>1, ReportedWasShort
<1> QED BY <1>1, SagaIsOK, PTL

\* Stock is only ever taken for an order that was recorded.
THEOREM StockIsForOrders == Spec => []StockOnlyForOrders
<1>1. SagaOK => StockOnlyForOrders
  <2> SUFFICES ASSUME SagaOK, NEW o \in Orders, processed[o] > 0
               PROVE orders[o] # "none"
    BY DEF StockOnlyForOrders
  <2>1. sent[o] > 0
    BY DEF SagaOK, StockOK, StockFacts!Delivered
  <2> QED BY <2>1, Relayed DEF SagaOK, SagaInv, Ordered
<1> QED BY <1>1, SagaIsOK, PTL

\* When nothing is under way, nobody holds a message.
LEMMA SettledHoldsNothing ==
    ASSUME SagaOK, Settled, NEW o \in Orders
    PROVE StockFacts!Queue!Holders(o) = {} /\ OrderFacts!FailedQueue!Holders(o) = {}
<1>1. ASSUME NEW w \in StockWorkers PROVE ~stockWorker[w].live
  BY DEF SagaOK, StockOK, Stock!TypeOK, Stock!Queue!QueueTypeOK, Stock!Queue!Idle, Settled,
         Stock!Busy, Stock!At, Stock!Queue!At
<1>2. ASSUME NEW w \in Cancellers PROVE ~canceller[w].live
  BY DEF SagaOK, SagaInv, Order!TypeOK, Order!FailedQueue!QueueTypeOK,
         Order!FailedQueue!Idle, Settled, Order!Busy, Order!FailedQueue!At
<1> QED
  BY <1>1, <1>2 DEF StockFacts!Queue!Holders, StockFacts!Queue!Live,
                    OrderFacts!FailedQueue!Holders, OrderFacts!FailedQueue!Live

\* When the saga has settled, an order has all its lines or is cancelled, and
\* not both, whatever was lost, sent twice, retried or crashed before.
THEOREM SettledAgrees == Spec => []SettledIsConsistent
<1>1. SagaOK => SettledIsConsistent
  <2> SUFFICES ASSUME SagaOK, Settled, NEW o \in Orders, orders[o] # "none"
               PROVE /\ processed[o] > 0
                     /\ orders[o] = "CREATED" <=>
                          \A p \in Products : taken[o][p] = processed[o] * Items[o][p]
    BY DEF SettledIsConsistent
  <2>1. processed[o] > 0
    <3>1. outbox[o] # "none"
      BY DEF SagaOK, OrderOK, OrderFacts!OrderInv, OrderFacts!Consistent
    <3>2. outbox[o] = "PUBLISHED"
      BY <3>1, Relayed DEF SagaOK, Settled
    <3>3. sent[o] > 0
      BY <3>2, Relayed DEF SagaOK
    <3>4. stockReady[o] = 0 /\ StockFacts!Queue!Holders(o) = {}
      BY SettledHoldsNothing DEF Settled
    <3> QED BY <3>3, <3>4 DEF SagaOK, StockOK, StockFacts!NoEventLost
  <2>2. /\ processed[o] \in Nat /\ failures[o] \in Nat
        /\ \A p \in Products : /\ taken[o][p] \in Nat /\ Items[o][p] \in Nat
                               /\ processed[o] * Items[o][p] \in Nat
    BY PartsAssumption DEF SagaOK, StockOK, Stock!TypeOK, Stock!ItemsAssumption
  <2>3. failures[o] = 0 <=> \A p \in Products : taken[o][p] = processed[o] * Items[o][p]
    <3>1. failures[o] > 0 <=> \E p \in Products : taken[o][p] < processed[o] * Items[o][p]
      BY DEF SagaOK, StockOK, StockFacts!FailureIffShort
    <3>2. \A p \in Products : taken[o][p] <= processed[o] * Items[o][p]
      BY DEF SagaOK, StockOK, StockFacts!TakenWithin
    <3> QED BY <2>2, <3>1, <3>2
  <2>4. orders[o] = "CANCELLED" => failures[o] > 0
    BY ReportedWasShort DEF SagaOK, OrderOK, OrderFacts!Reports
  <2>5. ASSUME failures[o] > 0 PROVE orders[o] = "CANCELLED"
    <3>1. /\ <<o, 1>> \in FailureRows /\ <<o, 1>>[1] = o /\ <<o, 1>>[2] = 1
          /\ 1 \in 1..MaxFailures /\ 1 \in 1..(MaxRowFaults + 1)
      BY PartsAssumption DEF FailureRows, ProductRelayer!MaxFaultsAssumption
    <3>2. failureRow[<<o, 1>>] # "none"
      <4>1. rowCreatedAt[<<o, 1>>] # 0 /\ rowCreatedAt[<<o, 1>>] \in Nat
        BY <2>2, <2>5, <3>1, Relayed DEF SagaOK, SagaInv, Rows
      <4> QED BY <3>1, <4>1 DEF SagaOK, SagaInv, Rows
    <3>3. failureRow[<<o, 1>>] = "PUBLISHED"
      BY <3>1, <3>2, Relayed DEF SagaOK, Settled
    <3>4. rowSent[<<o, 1>>] > 0 /\ rowSent[<<o, 1>>] \in Nat
      BY <3>1, <3>3, Relayed DEF SagaOK
    <3>5. <<1, 1>> \in Copies(o)
      BY <3>1, <3>4 DEF Copies
    <3>6. IsFiniteSet(Copies(o)) /\ Cardinality(Copies(o)) \in Nat
      BY CopiesAreFinite DEF Copies
    <3>7. failedDelivered[o] > 0
      BY <3>5, <3>6, FS_EmptySet DEF SagaOK, SagaInv, Counted
    <3>8. failedReady[o] = 0 /\ OrderFacts!FailedQueue!Holders(o) = {}
      BY SettledHoldsNothing DEF Settled
    <3> QED BY <3>7, <3>8 DEF SagaOK, OrderOK, OrderFacts!NoFailureLost
  <2>6. orders[o] \in {"CREATED", "CANCELLED"}
    BY DEF SagaOK, OrderOK, OrderFacts!Reports
  <2> QED BY <2>1, <2>2, <2>3, <2>4, <2>5, <2>6
<1> QED BY <1>1, SagaIsOK, PTL

=============================================================================
