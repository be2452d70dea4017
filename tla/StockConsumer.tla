---------------------------- MODULE StockConsumer ----------------------------
(***************************************************************************)
(* product-service as a consumer of OrderCreated: it takes the stock of an *)
(* order's lines and records the event as processed in one transaction,    *)
(* which also writes a StockUpdateFailed row into the outbox when some     *)
(* line could not be served.  The lines that could be served stay taken.   *)
(* A message is skipped when the event was already recorded as processed,  *)
(* but the check is a query of its own, before that transaction, and       *)
(* product-service's processed_events table has no uniqueness constraint.  *)
(***************************************************************************)
EXTENDS Naturals, FiniteSets

CONSTANTS
    Orders, Products,
    Items,          \* Items[o][p]: the quantity of p that order o asks for
    InitialStocks,  \* the stocks the products table may start with
    Workers,        \* handler goroutines that may be running at one time
    Prefetch,
    NoOrder,
    MaxCopies       \* bound: copies of one OrderCreated the broker delivers

ASSUME ItemsAssumption == Items \in [Orders -> [Products -> Nat]]
ASSUME InitialStocksAssumption == InitialStocks \subseteq [Products -> Nat]
ASSUME WorkersAssumption == IsFiniteSet(Workers)
ASSUME MaxCopiesAssumption == MaxCopies \in Nat
ASSUME NoOrderAssumption == NoOrder \notin Orders

VARIABLES
    ready, worker, dead,   \* the queue product_queue and its handlers
    delivered,   \* copies of each OrderCreated the broker has put in the queue
    stock,       \* products.stock_quantity
    processed,   \* rows of each order in processed_events
    failures,    \* StockUpdateFailed rows of each order in outbox_events
    taken        \* history: quantity of each product taken for each order

queueVars == <<ready, worker, dead>>
dbVars == <<stock, processed, failures, taken>>
vars == <<queueVars, delivered, dbVars>>

Queue == INSTANCE RabbitQueue WITH Messages <- Orders, NoMessage <- NoOrder

Init ==
    /\ Queue!QueueInit
    /\ delivered = [o \in Orders |-> 0]
    /\ stock \in InitialStocks
    /\ processed = [o \in Orders |-> 0]
    /\ failures = [o \in Orders |-> 0]
    /\ taken = [o \in Orders |-> [p \in Products |-> 0]]

At(w, pc) == Queue!At(w, pc)
OrderOf(w) == worker[w].msg

-----------------------------------------------------------------------------
(* The transaction PostgreSQLOrderCreatedConsumerRepository.UpdateStockBatch *)

Lines(o) == {p \in Products : Items[o][p] > 0}

BugServed(o) == {p \in Lines(o) : stock[p] > 0}

\* The rows that UPDATE products ... WHERE stock_quantity >= quantity changes.
Served(o) == {p \in Lines(o) : stock[p] >= Items[o][p]}

BugShort(o) == Served(o) = {}

\* rowsAffected != expectedRows
Short(o) == Served(o) # Lines(o)

BugUpdateStock(o) ==
    /\ stock' = [p \in Products |-> IF p \in Served(o) THEN stock[p] - Items[o][p]
                                    ELSE stock[p]]
    /\ taken' = [taken EXCEPT ![o] =
                   [p \in Products |-> @[p] + (IF p \in Served(o) THEN Items[o][p] ELSE 0)]]
    /\ processed' = IF Short(o) THEN processed ELSE [processed EXCEPT ![o] = @ + 1]
    /\ failures' = IF Short(o) THEN [failures EXCEPT ![o] = @ + 1] ELSE failures

UpdateStock(o) ==
    /\ stock' = [p \in Products |-> IF p \in Served(o) THEN stock[p] - Items[o][p]
                                    ELSE stock[p]]
    /\ taken' = [taken EXCEPT ![o] =
                   [p \in Products |-> @[p] + (IF p \in Served(o) THEN Items[o][p] ELSE 0)]]
    /\ processed' = [processed EXCEPT ![o] = @ + 1]
    /\ failures' = IF Short(o) THEN [failures EXCEPT ![o] = @ + 1] ELSE failures

-----------------------------------------------------------------------------
(* The broker and the handler.                                             *)

\* order-service's relayer published the event, for the first time or again.
Deliver(o) ==
    /\ delivered[o] < MaxCopies
    /\ delivered' = [delivered EXCEPT ![o] = @ + 1]
    /\ Queue!Enqueue(o, 1)
    /\ UNCHANGED dbVars

Receive(w, o) ==
    /\ Queue!Receive(w, o)
    /\ UNCHANGED <<delivered, dbVars>>

\* shouldSkipProcessing: acknowledged without reprocessing.
SkipProcessed(w) ==
    /\ At(w, "received")
    /\ processed[OrderOf(w)] > 0
    /\ Queue!Ack(w)
    /\ UNCHANGED <<delivered, dbVars>>

BugPassCheck(w) ==
    /\ At(w, "received")
    /\ Queue!Advance(w, "updating")
    /\ UNCHANGED <<delivered, dbVars>>

PassCheck(w) ==
    /\ At(w, "received")
    /\ processed[OrderOf(w)] = 0
    /\ Queue!Advance(w, "updating")
    /\ UNCHANGED <<delivered, dbVars>>

BugHandlerFails(w) ==
    /\ At(w, "received") \/ At(w, "updating")
    /\ Queue!NackDiscard(w)
    /\ UNCHANGED <<delivered, dbVars>>

BugHandlerAcks(w) ==
    /\ At(w, "received") \/ At(w, "updating")
    /\ Queue!Ack(w)
    /\ UNCHANGED <<delivered, dbVars>>

\* The query or the transaction fails, or the handler's 30 seconds are over.
HandlerFails(w) ==
    /\ At(w, "received") \/ At(w, "updating")
    /\ Queue!NackRequeue(w)
    /\ UNCHANGED <<delivered, dbVars>>

CommitStockUpdate(w) ==
    /\ At(w, "updating")
    /\ UpdateStock(OrderOf(w))
    /\ Queue!Advance(w, IF Short(OrderOf(w)) THEN "rejecting" ELSE "acking")
    /\ UNCHANGED delivered

\* The transaction commits, but the handler is told that it failed.
CommitReplyLost(w) ==
    /\ At(w, "updating")
    /\ UpdateStock(OrderOf(w))
    /\ Queue!NackRequeue(w)
    /\ UNCHANGED delivered

AckHandled(w) ==
    /\ At(w, "acking")
    /\ Queue!Ack(w)
    /\ UNCHANGED <<delivered, dbVars>>

\* validateStockUpdate: fewer rows than lines, the message is dead-lettered.
RejectShort(w) ==
    /\ At(w, "rejecting")
    /\ Queue!NackDiscard(w)
    /\ UNCHANGED <<delivered, dbVars>>

DropConnection == Queue!DropConnection /\ UNCHANGED <<delivered, dbVars>>

Crash == Queue!Crash /\ UNCHANGED <<delivered, dbVars>>

Busy == \E w \in Workers : ~At(w, "idle")

Handle(w) ==
    \/ SkipProcessed(w) \/ PassCheck(w) \/ HandlerFails(w)
    \/ CommitStockUpdate(w) \/ CommitReplyLost(w)
    \/ AckHandled(w) \/ RejectShort(w)

Next ==
    \/ \E o \in Orders : Deliver(o)
    \/ \E w \in Workers, o \in Orders : Receive(w, o)
    \/ \E w \in Workers : Handle(w)
    \/ DropConnection
    \/ Crash

Spec == Init /\ [][Next]_vars

\* The steps of the handlers that are about order o.
On(o, Step(_)) == \E w \in Workers : OrderOf(w) = o /\ Step(w)

\* The broker keeps delivering and a started goroutine runs.  Failures and
\* reconnections may happen for ever, but no step of an order's handlers is
\* kept from happening by them every single time it could.
HandlerFairness ==
    /\ \A o \in Orders :
        /\ SF_vars(\E w \in Workers : Receive(w, o))
        /\ SF_vars(On(o, PassCheck))
        /\ SF_vars(On(o, CommitStockUpdate))
    /\ \A w \in Workers :
        WF_vars(SkipProcessed(w) \/ AckHandled(w) \/ RejectShort(w))

FairSpec == Spec /\ HandlerFairness

-----------------------------------------------------------------------------
(* Properties.                                                             *)

\* Every variable has its type; in particular no stock is ever negative.
TypeOK ==
    /\ Queue!QueueTypeOK({"received", "updating", "acking", "rejecting"})
    /\ delivered \in [Orders -> 0..MaxCopies]
    /\ stock \in [Products -> Nat]
    /\ processed \in [Orders -> Nat]
    /\ failures \in [Orders -> Nat]
    /\ taken \in [Orders -> [Products -> Nat]]

\* An OrderCreated that reached the queue is processed, or some copy of it is
\* still in the queue or in the hands of a goroutine that can still return it:
\* no error path, reconnection or restart loses an order.
NoEventLost ==
    \A o \in Orders :
        delivered[o] > 0 =>
            \/ processed[o] > 0
            \/ ready[o] > 0
            \/ Queue!Holders(o) # {}

\* The stock of one order is taken at most once per concurrent handler: with a
\* single handler it is taken exactly once however often the message is
\* delivered, and only handlers of the same order racing each other between
\* the check and the transaction take it again.
TakenOncePerHandler == \A o \in Orders : processed[o] <= Cardinality(Workers)

\* StockUpdateFailed is recorded exactly for the orders some line of which was
\* not served, a partly served order included.
FailureIffShort ==
    \A o \in Orders :
        failures[o] > 0 <=>
            \E p \in Products : taken[o][p] < processed[o] * Items[o][p]

\* A message ends in the dead-letter queue only if the outbox holds the event
\* that makes order-service cancel the order.
DeadLetterIsCompensated == \A o \in Orders : dead[o] > 0 => failures[o] > 0

\* The stock of an order is taken at most once (the consumer's log message:
\* "event already processed, acknowledging without reprocessing").
TakenAtMostOnce ==
    \A o \in Orders, p \in Products : taken[o][p] <= Items[o][p]

\* Every OrderCreated that reaches the queue is eventually processed.
DeliveredIsProcessed ==
    \A o \in Orders : delivered[o] > 0 ~> processed[o] > 0

=============================================================================
