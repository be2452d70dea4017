------------------------------ MODULE Checkout ------------------------------
(***************************************************************************)
(* The order saga end to end: order-service with payment-service, the      *)
(* outbox worker of order-service, the OrderCreated exchange, the consumer *)
(* of product-service, the outbox worker of product-service and the        *)
(* StockUpdateFailed exchange that leads back to order-service.  Each part *)
(* is its own module; this one joins the variables they share and replaces *)
(* the environment each of them assumes by the parts that play it:         *)
(*   - a row order-service commits is a row its worker may read;           *)
(*   - a copy a worker gets through is a copy in the consumer's queue;     *)
(*   - a StockUpdateFailed row of the stock transaction is a row           *)
(*     product-service's worker may read;                                  *)
(*   - a crash of a service stops its handlers and its worker together.    *)
(***************************************************************************)
EXTENDS Naturals, FiniteSets

CONSTANTS
    Orders, Products, Items, InitialStocks,
    Cancellers, StockWorkers, Prefetch, NoOrder,
    BatchSize, MaxRetries,
    MaxFaults,      \* bound: transient faults of order-service's worker per row
    MaxRowFaults,   \* bound: transient faults of product-service's worker per row
    MaxFailures     \* bound: StockUpdateFailed rows of one order

VARIABLES
    request, orders, outbox, call, payment,
    failedReady, canceller, failedDead, failedDelivered,
    createdAt, now, batch, phase, attempt, channel, sent, faults,
    stockReady, stockWorker, stockDead, stock, processed, failures, taken,
    failureRow, rowCreatedAt, rowNow, rowBatch, rowPhase, rowAttempt,
    rowChannel, rowSent, rowFaults

orderVars == <<request, orders, call, payment,
               failedReady, canceller, failedDead, failedDelivered>>
relayVars == <<createdAt, now, batch, phase, attempt, channel, sent, faults>>
stockVars == <<stockReady, stockWorker, stockDead, stock, processed, failures, taken>>
rowVars == <<failureRow, rowCreatedAt, rowNow, rowBatch, rowPhase, rowAttempt,
             rowChannel, rowSent, rowFaults>>
vars == <<orderVars, outbox, relayVars, stockVars, rowVars>>

\* No more copies of one event reach a queue than the worker's faults allow.
MaxCopies == MaxFaults + 1

\* The k-th StockUpdateFailed row of an order.
FailureRows == Orders \X (1..MaxFailures)

Order == INSTANCE OrderService WITH MaxFailedCopies <- MaxFailures * (MaxRowFaults + 1)

OrderRelayer == INSTANCE OutboxRelayer WITH
    Events <- Orders, Poison <- {}, BrokerDrops <- FALSE

Stock == INSTANCE StockConsumer WITH
    Workers <- StockWorkers, ready <- stockReady, worker <- stockWorker,
    dead <- stockDead, delivered <- sent

ProductRelayer == INSTANCE OutboxRelayer WITH
    Events <- FailureRows, Poison <- {}, BrokerDrops <- FALSE, MaxFaults <- MaxRowFaults,
    outbox <- failureRow, createdAt <- rowCreatedAt, now <- rowNow, batch <- rowBatch,
    phase <- rowPhase, attempt <- rowAttempt, channel <- rowChannel,
    sent <- rowSent, faults <- rowFaults

\* What the parts ask of the constants; a short order has a row.
ASSUME PartsAssumption ==
    /\ Order!CancellersAssumption
    /\ OrderRelayer!BatchSizeAssumption
    /\ OrderRelayer!MaxRetriesAssumption
    /\ OrderRelayer!MaxFaultsAssumption
    /\ ProductRelayer!MaxFaultsAssumption
    /\ Stock!ItemsAssumption
    /\ Stock!InitialStocksAssumption
    /\ Stock!WorkersAssumption
    /\ Stock!NoOrderAssumption
    /\ MaxFailures \in Nat \ {0}

Init ==
    /\ Order!Init
    /\ OrderRelayer!Init
    /\ Stock!Init
    /\ ProductRelayer!Init

-----------------------------------------------------------------------------
(* order-service and its worker.                                           *)

BeginOrder(o) ==
    /\ Order!BeginOrderTx(o)
    /\ OrderRelayer!BeginTx(o)
    /\ UNCHANGED <<stockVars, rowVars>>

\* The order's outbox row becomes visible to the worker.
CommitOrder(o) ==
    /\ Order!CommitOrderTx(o) \/ Order!CommitReplyLost(o)
    /\ OrderRelayer!CommitTx(o)
    /\ UNCHANGED <<stockVars, rowVars>>

\* The steps that touch nothing outside order-service and payment-service.
CheckoutStep(o) ==
    /\ \/ Order!RejectRequest(o) \/ Order!RollbackOrderTx(o)
       \/ Order!SendPayment(o) \/ Order!PaymentSucceeds(o) \/ Order!PaymentFails(o)
       \/ Order!CancelOrder(o) \/ Order!PaymentStep(o)
    /\ UNCHANGED <<relayVars, stockVars, rowVars>>

BugOrderCreatedFanout == UNCHANGED stockVars

\* The fanout exchange puts every copy the worker got through into product_queue.
OrderCreatedFanout ==
    /\ stockReady' = [o \in Orders |-> stockReady[o] + sent'[o] - sent[o]]
    /\ UNCHANGED <<stockWorker, stockDead, stock, processed, failures, taken>>

RelayOrder ==
    /\ OrderRelayer!Relay
    /\ OrderCreatedFanout
    /\ UNCHANGED <<orderVars, rowVars>>

RelayOrderFails(o) ==
    /\ \/ OrderRelayer!PublishBreaks(o) \/ OrderRelayer!ReconnectFails(o)
       \/ OrderRelayer!MarkFails(o)
    /\ OrderCreatedFanout
    /\ UNCHANGED <<orderVars, rowVars>>

\* A step of the StockUpdateFailed consumer.
InFailureConsumer(Step) ==
    /\ Step
    /\ UNCHANGED <<relayVars, stockVars, rowVars>>

HandleStockUpdateFailed ==
    \/ \E w \in Cancellers, o \in Orders : InFailureConsumer(Order!ReceiveFailure(w, o))
    \/ \E w \in Cancellers : InFailureConsumer(Order!HandleFailure(w))
    \/ InFailureConsumer(Order!DropConnection)

ReconnectOrderService ==
    /\ OrderRelayer!ConsumerReconnects
    /\ UNCHANGED <<orderVars, stockVars, rowVars>>

\* A crash of the process loses the worker's batch as well.
CrashOrderService ==
    /\ IF Order!Busy THEN Order!Crash ELSE UNCHANGED <<orderVars, outbox>>
    /\ IF batch = {} THEN UNCHANGED relayVars
       ELSE \E o \in Orders : OrderRelayer!Crash(o)
    /\ UNCHANGED <<stockVars, rowVars>>

-----------------------------------------------------------------------------
(* product-service and its worker.                                         *)

BugNewRows == {r \in FailureRows : r[2] = processed[r[1]] + 1 /\ r[2] = processed'[r[1]]}

\* The row the stock transaction wrote, if it wrote one.
NewRows == {r \in FailureRows : r[2] = failures[r[1]] + 1 /\ r[2] = failures'[r[1]]}

BugRecordFailure == UNCHANGED rowVars

\* Seen from product-service's worker it is a transaction of its own.
RecordFailure ==
    IF NewRows = {} THEN UNCHANGED rowVars
    ELSE \E r \in NewRows : ProductRelayer!WriteTx(r)

\* A step of the OrderCreated consumer.
InStockConsumer(Step) ==
    /\ Step
    /\ RecordFailure
    /\ UNCHANGED <<orderVars, outbox, createdAt, now, batch, phase, attempt, channel, faults>>

HandleOrderCreated ==
    \/ \E w \in StockWorkers, o \in Orders : InStockConsumer(Stock!Receive(w, o))
    \/ \E w \in StockWorkers : InStockConsumer(Stock!Handle(w))
    \/ InStockConsumer(Stock!DropConnection)

ReconnectProductService ==
    /\ ProductRelayer!ConsumerReconnects
    /\ UNCHANGED <<orderVars, outbox, relayVars, stockVars>>

CrashProductService ==
    /\ IF Stock!Busy THEN Stock!Crash ELSE UNCHANGED <<stockVars, sent>>
    /\ IF rowBatch = {} THEN UNCHANGED rowVars
       ELSE \E r \in FailureRows : ProductRelayer!Crash(r)
    /\ UNCHANGED <<orderVars, outbox, createdAt, now, batch, phase, attempt, channel,
                   faults>>

\* Copies of order o's StockUpdateFailed events that get through in this step.
NewCopies(o) ==
    Cardinality({r \in FailureRows : r[1] = o /\ rowSent'[r] > rowSent[r]})

\* The fanout exchange puts them into order_stock_update_failed_queue.
StockUpdateFailedFanout ==
    /\ failedReady' = [o \in Orders |-> failedReady[o] + NewCopies(o)]
    /\ failedDelivered' = [o \in Orders |-> failedDelivered[o] + NewCopies(o)]
    /\ UNCHANGED <<request, orders, call, payment, canceller, failedDead>>

RelayFailure ==
    /\ ProductRelayer!Relay
    /\ StockUpdateFailedFanout
    /\ UNCHANGED <<outbox, relayVars, stockVars>>

RelayFailureFails(r) ==
    /\ \/ ProductRelayer!PublishBreaks(r) \/ ProductRelayer!ReconnectFails(r)
       \/ ProductRelayer!MarkFails(r)
    /\ StockUpdateFailedFanout
    /\ UNCHANGED <<outbox, relayVars, stockVars>>

-----------------------------------------------------------------------------

Next ==
    \/ \E o \in Orders : BeginOrder(o) \/ CommitOrder(o) \/ CheckoutStep(o)
    \/ RelayOrder
    \/ \E o \in Orders : RelayOrderFails(o)
    \/ HandleStockUpdateFailed
    \/ ReconnectOrderService \/ CrashOrderService
    \/ HandleOrderCreated
    \/ ReconnectProductService \/ CrashProductService
    \/ RelayFailure
    \/ \E r \in FailureRows : RelayFailureFails(r)

Spec == Init /\ [][Next]_vars

\* Both workers and both consumers make progress, as in their own modules;
\* nothing is assumed of the callers, of payment-service or of the handlers.
FairSpec ==
    /\ Spec
    /\ WF_vars(RelayOrder)
    /\ WF_vars(RelayFailure)
    /\ \A o \in Orders :
        /\ SF_vars(\E w \in StockWorkers : InStockConsumer(Stock!Receive(w, o)))
        /\ SF_vars(InStockConsumer(Stock!On(o, Stock!PassCheck)))
        /\ SF_vars(InStockConsumer(Stock!On(o, Stock!CommitStockUpdate)))
        /\ SF_vars(\E w \in Cancellers : InFailureConsumer(Order!ReceiveFailure(w, o)))
        /\ SF_vars(InFailureConsumer(Order!On(o, Order!ReadOrder)))
        /\ SF_vars(InFailureConsumer(Order!On(o, Order!CancelByFailure)))
    /\ \A w \in StockWorkers : WF_vars(InStockConsumer(
        Stock!SkipProcessed(w) \/ Stock!AckHandled(w) \/ Stock!RejectShort(w)))
    /\ \A w \in Cancellers : WF_vars(InFailureConsumer(
        Order!SkipFailure(w) \/ Order!AckFailure(w)))

-----------------------------------------------------------------------------
(* Properties.                                                             *)

\* The parts keep their own specifications when the others are their
\* environment: what each assumes of it is what the others do.
PartsKeepTheirSpecs ==
    Order!Spec /\ OrderRelayer!Spec /\ Stock!Spec /\ ProductRelayer!Spec

\* Only an order whose stock product-service could not take is cancelled.
CancelledWasShort == \A o \in Orders : orders[o] = "CANCELLED" => failures[o] > 0

\* Stock is only ever taken for an order that was recorded.
StockOnlyForOrders == \A o \in Orders : processed[o] > 0 => orders[o] # "none"

\* Nothing is under way any more in either service or between them.
Settled ==
    /\ ~Order!Busy /\ ~Stock!Busy
    /\ \A o \in Orders :
        /\ outbox[o] # "UNPUBLISHED"
        /\ stockReady[o] = 0
        /\ failedReady[o] = 0
    /\ \A r \in FailureRows : failureRow[r] # "UNPUBLISHED"

\* When the saga has settled every order that was not cancelled got all its
\* lines, and every cancelled one lacks some: the two databases agree.
SettledIsConsistent ==
    Settled => \A o \in Orders :
        orders[o] # "none" =>
            /\ processed[o] > 0
            /\ orders[o] = "CREATED" <=>
                \A p \in Products : taken[o][p] = processed[o] * Items[o][p]

\* An OrderCreated event reaches the broker only after the order's payment
\* succeeded.
EventOnlyAfterPayment ==
    \A o \in Orders : sent[o] > 0 => payment[o] = "SUCCEEDED"

\* Every recorded order is processed by product-service, and cancelled if its
\* stock could not be taken.
SagaCompletes ==
    \A o \in Orders :
        orders[o] # "none" ~>
            /\ processed[o] > 0
            /\ failures[o] > 0 => orders[o] = "CANCELLED"

=============================================================================
