---------------------------- MODULE OrderService ----------------------------
(***************************************************************************)
(* order-service: the CreateOrder handler, which orchestrates the checkout *)
(* (cart and user lookups, one transaction that writes the order and its   *)
(* OrderCreated outbox row, the payment call, CancelOrder when the payment *)
(* failed), and the consumer of StockUpdateFailed, which cancels an order  *)
(* whose stock could not be taken.  payment-service, its synchronous       *)
(* callee, is part of this module's behaviours.                            *)
(*                                                                         *)
(* An order is one CreateOrder request: every request makes a row of its   *)
(* own, there is no idempotency key.                                       *)
(***************************************************************************)
EXTENDS Naturals, FiniteSets

CONSTANTS
    Orders,
    Cancellers,     \* goroutines of the StockUpdateFailed consumer
    Prefetch,
    NoOrder,
    MaxFailedCopies \* bound: copies of one StockUpdateFailed the broker delivers

ASSUME CancellersAssumption == IsFiniteSet(Cancellers)
ASSUME MaxFailedCopiesAssumption == MaxFailedCopies \in Nat

VARIABLES
    request,        \* the CreateOrder handler of each request
    orders,         \* orders.status, "none" without a row
    outbox,         \* outbox_events.status of the order's row
    call, payment,  \* payment-service
    failedReady, canceller, failedDead,  \* order_stock_update_failed_queue
    failedDelivered \* copies of StockUpdateFailed that reached the queue

paymentVars == <<call, payment>>
consumerVars == <<failedReady, canceller, failedDead, failedDelivered>>
tables == <<orders, outbox>>
vars == <<request, tables, paymentVars, consumerVars>>

Payments == INSTANCE PaymentService
FailedQueue == INSTANCE RabbitQueue WITH
    Messages <- Orders, Workers <- Cancellers, NoMessage <- NoOrder,
    ready <- failedReady, worker <- canceller, dead <- failedDead

Init ==
    /\ request = [o \in Orders |-> "idle"]
    /\ orders = [o \in Orders |-> "none"]
    /\ outbox = [o \in Orders |-> "none"]
    /\ Payments!PaymentInit
    /\ FailedQueue!QueueInit
    /\ failedDelivered = [o \in Orders |-> 0]

BugOrderStatusNames == {"CREATED", "DELIVERED"}

\* The rows migration 000001 puts into order_statuses.
OrderStatusNames == {"CREATED", "DELIVERED", "CANCELLED"}

-----------------------------------------------------------------------------
(* The CreateOrder handler.                                                *)

Goto(o, from, to) ==
    /\ request[o] \in from
    /\ request' = [request EXCEPT ![o] = to]

\* Cancelled context, no user, no or an empty cart, cart or user service down.
RejectRequest(o) ==
    /\ Goto(o, {"idle"}, "rejected")
    /\ UNCHANGED <<tables, paymentVars, consumerVars>>

BeginOrderTx(o) ==
    /\ Goto(o, {"idle"}, "inTx")
    /\ UNCHANGED <<tables, paymentVars, consumerVars>>

BugInsertEvent(o) ==
    /\ outbox' = [outbox EXCEPT ![o] = "UNPUBLISHED"]
    /\ UNCHANGED orders

\* repository.CreateOrder commits: the order and its event, together.
InsertOrder(o) ==
    /\ orders' = [orders EXCEPT ![o] = "CREATED"]
    /\ outbox' = [outbox EXCEPT ![o] = "UNPUBLISHED"]

CommitOrderTx(o) ==
    /\ Goto(o, {"inTx"}, "ordered")
    /\ InsertOrder(o)
    /\ UNCHANGED <<paymentVars, consumerVars>>

\* The commit takes effect, the handler is told that it failed.
CommitReplyLost(o) ==
    /\ Goto(o, {"inTx"}, "failed")
    /\ InsertOrder(o)
    /\ UNCHANGED <<paymentVars, consumerVars>>

RollbackOrderTx(o) ==
    /\ Goto(o, {"inTx"}, "failed")
    /\ UNCHANGED <<tables, paymentVars, consumerVars>>

BugSendPayment(o) ==
    /\ Goto(o, {"idle"}, "paying")
    /\ Payments!SendCall(o)
    /\ UNCHANGED <<tables, consumerVars>>

SendPayment(o) ==
    /\ Goto(o, {"ordered"}, "paying")
    /\ Payments!SendCall(o)
    /\ UNCHANGED <<tables, consumerVars>>

BugPaymentSucceeds(o) ==
    /\ Goto(o, {"paying"}, "succeeded")
    /\ call[o] \in {"created", "replied"}
    /\ UNCHANGED <<tables, paymentVars, consumerVars>>

BugConfirmOrder(o) ==
    /\ Goto(o, {"paying"}, "succeeded")
    /\ call[o] = "replied"
    /\ orders' = [orders EXCEPT ![o] = "CREATED"]
    /\ UNCHANGED <<outbox, paymentVars, consumerVars>>

PaymentSucceeds(o) ==
    /\ Goto(o, {"paying"}, "succeeded")
    /\ call[o] = "replied"
    /\ UNCHANGED <<tables, paymentVars, consumerVars>>

\* The call returned an error: payment-service's own, or the client's, whose
\* deadline, cancellation or broken connection says nothing of what
\* payment-service did or will still do with the request.
PaymentFails(o) ==
    /\ Goto(o, {"ordered", "paying"}, "compensating")
    /\ UNCHANGED <<tables, paymentVars, consumerVars>>

\* repository.CancelOrder: one transaction, rolled back unless the status it
\* looks up is a row of order_statuses, and also when the request's context,
\* under which it runs, is already over.  The handler returns in any case.
CancelOrder(o) ==
    /\ Goto(o, {"compensating"}, "compensated")
    /\ \E committed \in {FALSE, "CANCELED" \in OrderStatusNames} :
        IF committed
        THEN /\ orders' = [orders EXCEPT ![o] = "CANCELLED"]
             /\ outbox' = [outbox EXCEPT ![o] = "CANCELLED"]
        ELSE UNCHANGED tables
    /\ UNCHANGED <<paymentVars, consumerVars>>

\* The outbox worker of the same process marks the row (module OutboxRelayer).
RelayerMarks(o) ==
    /\ outbox[o] = "UNPUBLISHED"
    /\ outbox' = [outbox EXCEPT ![o] = "PUBLISHED"]
    /\ UNCHANGED <<request, orders, paymentVars, consumerVars>>

PaymentStep(o) ==
    /\ Payments!ProcessPayment(o)
    /\ UNCHANGED <<request, tables, consumerVars>>

-----------------------------------------------------------------------------
(* The StockUpdateFailed consumer.                                         *)

OrderOf(w) == canceller[w].msg

\* product-service's relayer published the event, for the first time or again.
FailureArrives(o) ==
    /\ orders[o] # "none"
    /\ failedDelivered[o] < MaxFailedCopies
    /\ failedDelivered' = [failedDelivered EXCEPT ![o] = @ + 1]
    /\ FailedQueue!Enqueue(o, 1)
    /\ UNCHANGED <<request, tables, paymentVars>>

ReceiveFailure(w, o) ==
    /\ FailedQueue!Receive(w, o)
    /\ UNCHANGED <<request, tables, paymentVars, failedDelivered>>

\* GetOrderById: no such order, or already cancelled: acknowledged.
SkipFailure(w) ==
    /\ FailedQueue!At(w, "received")
    /\ orders[OrderOf(w)] \in {"none", "CANCELLED"}
    /\ FailedQueue!Ack(w)
    /\ UNCHANGED <<request, tables, paymentVars, failedDelivered>>

ReadOrder(w) ==
    /\ FailedQueue!At(w, "received")
    /\ orders[OrderOf(w)] \notin {"none", "CANCELLED"}
    /\ FailedQueue!Advance(w, "updating")
    /\ UNCHANGED <<request, tables, paymentVars, failedDelivered>>

BugSetCancelled(w) == UNCHANGED orders

SetCancelled(w) == orders' = [orders EXCEPT ![OrderOf(w)] = "CANCELLED"]

\* UpdateOrderStatus succeeds.
CancelByFailure(w) ==
    /\ FailedQueue!At(w, "updating")
    /\ SetCancelled(w)
    /\ FailedQueue!Advance(w, "acking")
    /\ UNCHANGED <<request, outbox, paymentVars, failedDelivered>>

\* The update takes effect, the handler is told that it failed.
CancelReplyLost(w) ==
    /\ FailedQueue!At(w, "updating")
    /\ SetCancelled(w)
    /\ FailedQueue!NackRequeue(w)
    /\ UNCHANGED <<request, outbox, paymentVars, failedDelivered>>

BugFailureHandlerFails(w) ==
    /\ FailedQueue!At(w, "received") \/ FailedQueue!At(w, "updating")
    /\ FailedQueue!NackDiscard(w)
    /\ UNCHANGED <<request, tables, paymentVars, failedDelivered>>

\* GetOrderById or UpdateOrderStatus fails.
FailureHandlerFails(w) ==
    /\ FailedQueue!At(w, "received") \/ FailedQueue!At(w, "updating")
    /\ FailedQueue!NackRequeue(w)
    /\ UNCHANGED <<request, tables, paymentVars, failedDelivered>>

AckFailure(w) ==
    /\ FailedQueue!At(w, "acking")
    /\ FailedQueue!Ack(w)
    /\ UNCHANGED <<request, tables, paymentVars, failedDelivered>>

DropConnection ==
    /\ FailedQueue!DropConnection
    /\ UNCHANGED <<request, tables, paymentVars, failedDelivered>>

-----------------------------------------------------------------------------

\* The process stops: its requests are never answered, an open transaction is
\* rolled back, deliveries go back to the queue.  payment-service runs on.
InFlight == {"inTx", "ordered", "paying", "compensating"}

Busy ==
    \/ \E o \in Orders : request[o] \in InFlight
    \/ \E w \in Cancellers : ~FailedQueue!At(w, "idle")

Crash ==
    /\ Busy
    /\ request' = [o \in Orders |->
                     IF request[o] \in InFlight THEN "crashed" ELSE request[o]]
    /\ failedReady' = FailedQueue!Redelivered
    /\ canceller' = [w \in Cancellers |-> FailedQueue!Idle]
    /\ UNCHANGED <<tables, paymentVars, failedDead, failedDelivered>>

CreateOrder(o) ==
    \/ RejectRequest(o) \/ BeginOrderTx(o)
    \/ CommitOrderTx(o) \/ CommitReplyLost(o) \/ RollbackOrderTx(o)
    \/ SendPayment(o) \/ PaymentSucceeds(o) \/ PaymentFails(o) \/ CancelOrder(o)

HandleFailure(w) ==
    \/ SkipFailure(w) \/ ReadOrder(w) \/ CancelByFailure(w) \/ CancelReplyLost(w)
    \/ FailureHandlerFails(w) \/ AckFailure(w)

Next ==
    \/ \E o \in Orders :
        CreateOrder(o) \/ RelayerMarks(o) \/ PaymentStep(o) \/ FailureArrives(o)
    \/ \E w \in Cancellers, o \in Orders : ReceiveFailure(w, o)
    \/ \E w \in Cancellers : HandleFailure(w)
    \/ DropConnection
    \/ Crash

Spec == Init /\ [][Next]_vars

On(o, Step(_)) == \E w \in Cancellers : OrderOf(w) = o /\ Step(w)

\* A started handler runs on; the database and the connection may fail for
\* ever, but not at every single attempt to cancel an order.
CancelFairness ==
    /\ \A o \in Orders :
        /\ SF_vars(\E w \in Cancellers : ReceiveFailure(w, o))
        /\ SF_vars(On(o, ReadOrder))
        /\ SF_vars(On(o, CancelByFailure))
    /\ \A w \in Cancellers : WF_vars(SkipFailure(w) \/ AckFailure(w))

FairSpec == Spec /\ CancelFairness

-----------------------------------------------------------------------------
(* Properties.                                                             *)

\* Every variable has its type.
TypeOK ==
    /\ request \in [Orders -> InFlight \cup {"idle", "rejected", "failed",
                                "succeeded", "compensated", "crashed"}]
    /\ orders \in [Orders -> {"none"} \cup OrderStatusNames]
    /\ outbox \in [Orders -> {"none", "UNPUBLISHED", "PUBLISHED", "CANCELLED"}]
    /\ Payments!PaymentTypeOK
    /\ FailedQueue!QueueTypeOK({"received", "updating", "acking"})
    /\ failedDelivered \in [Orders -> 0..MaxFailedCopies]

\* The caller is told that the checkout succeeded only when the order is
\* recorded and the money was taken.
ConfirmedIsPaid ==
    \A o \in Orders :
        request[o] = "succeeded" => orders[o] # "none" /\ payment[o] = "SUCCEEDED"

\* Nobody is charged without an order and its event, and nobody who was told
\* that no order was made is ever charged: not by a payment handler that runs
\* on after its caller, nor after a lost commit reply or a crash.
NoOrphanPayment ==
    \A o \in Orders :
        payment[o] # "none" =>
            /\ orders[o] # "none" /\ outbox[o] # "none"
            /\ request[o] \notin {"rejected", "failed"}

\* No failure report is lost: until its order is cancelled it is in the queue
\* or in the hands of a goroutine that can still return it.
NoFailureLost ==
    \A o \in Orders :
        failedDelivered[o] > 0 =>
            \/ orders[o] = "CANCELLED"
            \/ failedReady[o] > 0
            \/ FailedQueue!Holders(o) # {}

\* A cancelled order stays cancelled, also when its stock failure overtakes
\* the payment its CreateOrder handler is still waiting for.
CancelledIsFinal ==
    [][\A o \in Orders : orders[o] = "CANCELLED" => orders'[o] = "CANCELLED"]_orders

\* The orders product-service reports short are eventually cancelled.
ShortOrderIsCancelled ==
    \A o \in Orders : failedDelivered[o] > 0 ~> orders[o] = "CANCELLED"

\* Once the handler has compensated a failed payment, the order is cancelled.
FailedPaymentCancels ==
    \A o \in Orders : request[o] = "compensated" => orders[o] = "CANCELLED"

=============================================================================
