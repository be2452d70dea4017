# The microservices repository: TLA+ models, checks and proofs

The repository is an online shop of Go services that talk gRPC among each
other and events over RabbitMQ, each with its own PostgreSQL database. Its core
is the checkout: an order is written together with an outbox event, paid,
published, served from stock by another service and cancelled by an event that
comes back when the stock does not suffice. The modules here model that saga
with its workers and consumers, and around it the services a customer meets:
the gateway with its logins, the cart and its cache, the catalogue and the
search index, the mails, and the connection manager they all share.

## 1. Inventory

| Component | State | Operations | Hard behaviour | What makes it correct |
|---|---|---|---|---|
| order-service | `orders`, `outbox_events` | `CreateOrder` (transaction, payment, `CancelOrder`), consumer of `StockUpdateFailed`, outbox worker | three actors on one order row; the payment's answer may be lost; commit replies may be lost | an event exactly for each order; confirmed means paid; a cancelled order stays cancelled; a short order gets cancelled |
| payment-service | `payments` | `ProcessPayment` (two statements), `GetPayment` | outlives its caller; partial failure between the statements | no payment without its order |
| product-service, consumer | `products`, `processed_events`, `outbox_events` | `handleOrderCreatedEvent` | one goroutine per delivery, check outside the transaction, redelivery while the old handler runs, partly served orders | no event lost, compensation exactly for short orders, stock taken once |
| outbox worker (`shared/events/worker`) | rows' status, the batch of a tick | `processEvents` | crash between publish and mark, retries, rows that never succeed | implements the outbox contract, healthy rows get published |
| `shared/rabbitmq` | connection, channel | `Publish`, `Subscribe`, `reconnect` | two fields replaced by worker and consumer without a lock, acks on a dead channel, no confirms, a process that exits for good | nothing a handler could still return is lost; a subscription ends only where a reconnect would not have helped |
| product-service, catalogue | `products`, `product_categories`, `outbox_events`, Redis | reads, create, update, delete, `UpdateStockBatch`, categories | detached refills and deletions race each other and the writes; writes that no handler brings to the copies | a stale copy has a repair under way or a known cause |
| cart-service | `carts`, `carts_products`, `processed_events`, Redis | get or create, add, remove, clear, delete, consumer of `OrderCreated` | get-then-create, expiry in two statements, detached cache writes | an order empties one cart; a fresh cart is not lost; a stale copy has a known cause |
| search-service | OpenSearch index | indexing consumer, search | concurrent unversioned writes, reordered and repeated events, delete of a missing document | no event lost; a stale document has a known cause |
| notification-service | none | consumer of `OrderCreated` | duplicates, retries, no restart | an e-mail per order, to its buyer |
| api-gateway | token in the client's cookie, rate limits in Redis | limiter, `authMiddleware`, handlers, login, logout | tokens that expire or are replaced between check and use | a guarded request stems from a login of its client |
| user-service | `users`, two Redis caches | `CreateUser`, `AuthorizeUser`, `GetUserByID` | two caches that are written and expire apart | its answers are those of the table |
| `shared/auth`, `web` | none | tokens, status codes | expiry with leeway | part of the gateway's |
| `shared/logs`, `postgres`, `tools`, `protos`/`gen`, `tests` | none | | | |

Interaction: api-gateway calls `CreateOrder` and every other service;
order-service calls cart-, user- and payment-service synchronously; its outbox
worker publishes to the fanout `order_created_exchange`, read by product-,
cart- and notification-service; product-service writes `StockUpdateFailed` into
its own outbox, whose worker publishes to `stock_update_failed_exchange`, read
by order-service. Product events go through the same outbox to a topic exchange
read by search-service. `PROJECT.json` lists the components with their status
and every hazard at its line.

## 2. Modules

| Module | Models |
|---|---|
| `OutboxContract` | abstract: what a transactional outbox promises |
| `OutboxRelayer` | the outbox worker and its publisher; implements `OutboxContract` |
| `RabbitQueue` | one durable queue and the goroutines that handle its deliveries; used through INSTANCE by the consumers |
| `StockConsumer` | product-service's consumer of `OrderCreated` |
| `PaymentService` | payment-service's `ProcessPayment` |
| `OrderService` | order-service; contains `PaymentService` and a `RabbitQueue` |
| `Checkout` | the saga: `OrderService`, two `OutboxRelayer`s and `StockConsumer` joined by the two exchanges |
| `CartService` | the cart of one user, its cached copy, the consumer of `OrderCreated` |
| `ProductCatalogue` | the tables of products and categories and their copies in Redis |
| `SearchIndex` | the events of products from the outbox to the documents of search-service |
| `ProductSearch` | `ProductCatalogue` and `SearchIndex` joined by the transaction that writes row and event |
| `RabbitConnection` | the connection manager and the goroutines of one process that share it |
| `NotificationService` | the mailing consumer with its own `RabbitConnection` |
| `UserService`, `ApiGateway` | users and logins; requests, limits and tokens |
| `Storefront` | the customer's way: `ApiGateway`, `UserService`, order-service's outbox and connection, `NotificationService` |
| `*_proofs` | theorems about the module of that name, and the lemmas they rest on |
| `MC*` | constants for TLC |

A module that is only used through INSTANCE states what it assumes of its
constants as a definition (`IndexAssumption`, `NumbersAssumption`); the module
that composes it assumes the conjunction (`PartsAssumption` of `Checkout`,
`ProductSearch` and `Storefront`), where TLC evaluates it and the proofs use it.
Where a composition starts in the middle of a history, what the history must
satisfy is an assumption too: `CreatedFirst` in `CatalogueAssumption` (only a
product that was created is deleted) and `StartsAssumption` of `Storefront` (a
row has a password, an address has one row, an order has its buyer's address:
the NOT NULL and UNIQUE columns of the users migration, and the look-up
`CreateOrder` makes before it writes).

How state and actions correspond to the code:

- *OutboxRelayer.* `batch` is the slice `processEvents` still has to walk,
  `phase` the statement it is at, `attempt` the loop variable of
  `retryWithReconnect`. `createdAt` is `NOW()`, the start of the business
  transaction (`BeginTx`), while a row is visible from `CommitTx` on: the two
  orders differ. `WriteTx` is a transaction that begins and commits with no other
  in between, which is how `Checkout` writes a `StockUpdateFailed` row. `now` is the database clock, read once per transaction, so no two
  rows have the same `createdAt`. `channel` is the channel the publisher
  shares with the consumer of its service. A message the broker refuses
  (`Poison`) closes it without an error `isConnectionError` knows, so the
  publisher returns at once and only the next attempt reconnects. A broken
  attempt may or may not have reached the broker. `sent` counts what the
  broker took; `faults` charges each transient fault to the row it hit. The
  worker of product-service uses a topic client for product events and the
  fanout publisher for the saga's; their retry loop is the same code.
- *RabbitQueue.* `worker[w].live` says whether the broker still counts the
  delivery as unacknowledged. A lost channel clears it and requeues the message
  while the goroutine runs on (`consumeMessages` starts `go handler` and never
  waits); what it acks later is ignored. `Crash` ends the goroutines too.
  `Workers` bounds the goroutines running at one time: `Prefetch` limits live
  deliveries only, the code has no bound on the others.
- *StockConsumer.* `PassCheck` is the query, `CommitStockUpdate` the
  transaction. The transaction is one step because its `UPDATE` holds the rows'
  locks until commit; one PostgreSQL aborts is `HandlerFails`.
  `CommitReplyLost` is a commit whose reply is lost. `taken` is a history
  variable. `Items` has at most one line per product, as the cart's UNIQUE
  constraint gives it. Messages are well-formed: they come from
  `json.Marshal` in the other service, and the branches for undecodable ones
  are left out.
- *OrderService.* `request` is the control point of each `CreateOrder` call.
  A call to payment-service can end in an error at any time after the order was
  committed, whatever payment-service did or will do. `CancelOrder` looks up
  the literal the code looks up in the set of names the migration inserts, and
  returns in any case. `RelayerMarks` is the outbox worker as far as the order's
  row is concerned; `Checkout` replaces it by the real one.
- *Checkout.* Each action is a step of one part joined with what it does to the
  next: a publish of order-service's worker appears in `stockReady`, a
  `StockUpdateFailed` row becomes visible to product-service's worker in the
  step that commits it, and so on. A crash of a service takes its worker's
  batch with it.
- *CartService.* Every statement of a handler is a step (`request[r].pc`), as
  none shares a transaction with another: looking the cart up, deleting an
  expired one *by user*, inserting the new one, reading its rows, changing them.
  `raced` marks a refill whose cart changed after it was read, `missed` a change
  whose invalidation will not come: Redis failed, the reply of the database was
  lost, or the process stopped. `CommitDelete` is the consumer's transaction;
  `processed_events` is UNIQUE here, so a second insert aborts
  (`DuplicateRejected`).
- *ProductCatalogue.* A row is the sequence of writes committed to it, its
  length the version a reader sees; amounts and names are not told apart
  further. What follows a write differs by handler and is the point: a detached
  goroutine writes the new version (`CreateProduct`, `UpdateProduct`), the
  handler deletes the copy before it answers (`DeleteProduct`,
  `DeleteProductCategory`), a detached goroutine deletes it (stock fully served,
  category created or changed), or nobody does (a partly served order, the
  products of a deleted category, whose `category_id` the database sets to
  NULL). `UpdateStockBatch` marshals `"id"` where the SQL reads `"productId"`:
  the statement matches no row and the handler only invalidates.
- *SearchIndex, ProductSearch.* `kind` is what each event says; in the
  composition it is derived from the catalogue's log, and `CommitEvents` writes
  the rows in the step that commits the writes. The outbox worker appears as
  `OutboxContract`, which `OutboxRelayer` implements. `overtaken` records that
  an event was executed while an older one could still follow.
- *RabbitConnection.* Each dial opens a connection with one channel, so a
  number names both; `connection` and `channel` are the two fields, assigned in
  separate steps. `mistaken` is the exit on an error that is judged by the state
  of a connection it did not come from; `gaveUp` the exit after the last dial.
  `overtaken` records that the publisher assigned a field in the middle of the
  consumer's set-up.
- *UserService, ApiGateway, Storefront.* `call` is the one gRPC call a client's
  request makes; `known` remembers whether the row was there when it began. The
  limiter is modelled enabled (a deployment may disable it). Requests to cart-,
  product- and search-service are answered in any way their handlers may answer;
  those to user- and order-service run in `Storefront` step by step.

Operators whose name starts with `Bug` are not part of any specification. They
are forms of a neighbouring definition with a plausible mistake, kept to show
that each property fails when the code does.

## 3. What TLC checks

| Run | Instance | Distinct states | Result |
|---|---|---|---|
| `outbox_relayer` | 3 rows, one always refused; batch 2; 2 attempts; 2 faults per row | 41 000 | pass |
| `outbox_lossy` | the same, no faults, a broker that may drop | | `PublishedWasSent` violated |
| `stock_consumer` | 2 orders, 2 products, stock for either; 2 handlers; 2 copies of each event | 17 000 | pass |
| `stock_race` | the same, prefetch 1, one copy of each event | | `TakenAtMostOnce` violated |
| `order_service` | 1 order, 2 failure handlers, 2 copies of the failure | 9 800 | pass |
| `order_compensation` | the same | | `FailedPaymentCancels` violated |
| `checkout` | 1 order of 2 lines, stock for one, 2 stock handlers, one fault of the order worker | 507 000 | pass |
| `checkout_live` | 1 order, sufficient or short stock, 1 handler, one fault of the product worker | 68 000 | pass |
| `checkout_payment` | 1 order, no faults | | `EventOnlyAfterPayment` violated |
| `cart_service` | 2 handlers, 3 calls, 2 carts, 1 order delivered twice to 2 goroutines | 380 000 | pass |
| `product_search` | 1 product, 2 handlers, up to 4 writes and 3 copies of events, 2 goroutines | 209 000 | pass |
| `storefront` | 2 clients, 2 users, 2 passwords, 1 order, up to 3 faults, started from seven situations | 499 000 | pass |

Outbox worker: a row marked PUBLISHED was accepted by the broker
(`PublishedWasSent`); duplicates need faults of the same event
(`DuplicatesArePaidFor`); the worker implements `OutboxContract`
(`ImplementsContract`): a settled row is never sent again; every healthy row is
eventually published even behind one that never will be
(`HealthyEventsGetPublished`). The last one needs fewer refused rows than a
batch holds: `LIMIT` would otherwise return the same refused rows for ever.

Stock consumer: `NoEventLost`, `FailureIffShort`, `DeadLetterIsCompensated`,
`TakenOncePerHandler` (double processing needs as many concurrent handlers) and
`DeliveredIsProcessed`. The stock of a partly served order stays taken, also
after the order is cancelled: that is the code's behaviour, not one of its
promises.

Order service: the caller is told of success only when the order is recorded and
paid (`ConfirmedIsPaid`), nobody is charged without an order or after being told
that none was made (`NoOrphanPayment`), no failure report is lost
(`NoFailureLost`), a cancelled order stays cancelled although its payment may
still be running (`CancelledIsFinal`), and a short order is eventually
cancelled (`ShortOrderIsCancelled`).

Saga: the parts are each other's assumed environment (`PartsKeepTheirSpecs`:
the composition refines the specifications of order-service, of both outbox
workers and of the stock consumer); only a short order is cancelled, stock is only taken for an
order, when nothing is under way the two databases agree
(`SettledIsConsistent`), and every recorded order is processed and, if short,
cancelled (`SagaCompletes`).

Cart: a cached cart that is not the one in the table has a deletion under way,
or was refilled while the cart changed, or its deletion was lost
(`StaleCacheIsExplained`); a call that replaces an expired cart hits a fresh one
only if another call replaced it first (`FreshCartLostOnlyToRace`); however
often `OrderCreated` is delivered, the order empties one cart
(`OrderEmptiesOneCart`), is never forgotten (`NoOrderLost`) and is eventually
processed (`OrderedCartIsEmptied`).

Catalogue and search: `StaleCopyIsExplained` is the same for the copies of
products and categories. `NoEventLost`: an event whose row is settled was
executed or can still be. `StaleDocumentIsExplained`: once a product's events
are through, the index holds what the last of them says unless one overtook an
older one. `EndlessDeletionIsSpare`: OpenSearch answers the deletion of a
missing document with an error and the consumer requeues it at once, so such an
event circulates for ever; it does so only if a deletion of the product was
executed before. `PartsKeepTheirSpecs`: the composition refines both parts.

Storefront: whatever the caches hold, logins are those of the table
(`AnswersAreExact`); a guarded request stems from a login of its client no older
than a token lives (`GuardedRequestsHaveALogin`); a mail goes to the address of
the user who ordered (`MailsGoToBuyers`); a subscription that ends on a curable
error or runs without a prefetch limit was overtaken by its own process's
publisher (`SubscriptionFaultsAreRaces`); an order is mailed unless one of the
two processes gave its subscription up (`MailedOrStopped`).

### Disagreements found

1. `outbox_lossy`: the README promises that events are published "if and only
   if" the transaction succeeded; without publisher confirms an event can be
   lost after its row was marked (`fannout_exchange.go:57`).
2. `stock_race`: "event already processed, acknowledging without reprocessing"
   does not hold for two deliveries handled at once; the check is outside the
   transaction and product-service's `processed_events`, unlike
   cart-service's, has no UNIQUE constraint.
3. `order_compensation`: `CancelOrder` looks up `CANCELED`, the migration
   inserts `CANCELLED`: an order whose payment failed is never cancelled.
4. `checkout_payment`: the README says `OrderCreated` is published on
   successful payment; its row commits with the order, before the payment.

### Bounds

- `MaxRetries` 2 stands for the code's 3: first, last and the transition
  between them all occur (the theorems hold for every value above 1).
- `MaxFaults` bounds the faults of one row, `MaxCopies`/`MaxFailedCopies` the
  copies a broker delivers: two suffice for every race of a copy with another.
  `MaxFailures` 1 in `Checkout` is the number of `StockUpdateFailed` rows of an
  order; with `MCStocksForOne` the order's first pass succeeds and a racing
  second one is short.
- Three rows and batches of two: a batch that is full, one that is not, and a
  refused row before, between and after healthy ones.
- Requests of `OrderService` share no state but the process, so one order is
  enough there; `StockConsumer` has two, which compete for stock. `Checkout`
  has one: two orders exceed what TLC can enumerate in minutes, and the
  interactions of orders are those of `StockConsumer`.
- `Checkout` is split into a safety and a liveness run for the same reason:
  racing handlers and faults of the first worker in one, short stock and faults
  of the second in the other.
- `CartService` has one user: carts of different users share neither rows nor
  keys. Two carts and three calls let a cart expire, be replaced by one call
  under another and be changed; with four calls the run still passes (9.0 million
  states).
- `ProductSearch` splits its budget by starting situations (`MCStarts`): four
  calls on the caches without events, two calls with two copies, a history of
  two writes still in the outbox, and a doubly deleted product with three
  copies. One product is enough: rows, copies and documents of products are
  independent but for a deleted category, which reaches the products one by one.
- `Storefront` does the same: two clients racing with and without a user, one
  client with three requests, one with time for a token to expire, faults of
  either connection. `Burst` 2 refuses the third request unless time refilled the
  bucket in between. `MaxDials` 7 is more than the faults of any start can use up.
  Instances with more faults pass as well.
- Deadlock is not checked where all requests may be finished and all queues
  empty; it is in `MCOutboxRelayer`, whose refused row keeps the worker busy.

### Fairness

- The worker (`WF_vars(Relay)`): the ticker keeps firing, a started loop runs.
- The consumers: the broker keeps delivering and a started goroutine runs (weak
  fairness of the steps that need only the goroutine). The steps that need the
  database have strong fairness per order: errors and lost connections may
  happen infinitely often, but an order's message, which is redelivered for
  ever, does not fail at every single attempt.
- `CartService`: as the consumers above. `Storefront`: the worker publishes and a
  publish on a working connection succeeds eventually, `reconnect` and the
  set-up of a subscription go on, deliveries reach the mailing consumer and a
  mail is sent. All weak, as faults are bounded there: a mail server that fails
  for ever is not one the property speaks about.
- Nothing is assumed of callers, of payment-service or of the `CreateOrder`
  handler, and no fault ever has to happen or to stop.

## 4. What is proved

`OutboxRelayer_proofs`, for every finite or infinite set of events, batch size,
number of retries and of faults:

- `TypeCorrect`, and `StructureIsInvariant`: `createdAt` values are distinct
  and below `now`, so the row the loop is at is unique (`CurrentIsUnique`);
  rows of the batch are pending; a row being marked was sent.
- `PublishedIsSent` and `RelayerImplementsContract` assume
  `BrokerDrops = FALSE`, which `outbox_lossy` shows to be necessary. The
  refinement proof maps `MarkPublished` to `Settle`, which is where "a row
  being marked was sent" is needed.
- `DuplicatesArePaid`: the invariant counts one copy more while the row is
  being marked, which only the mark or a fault pays back.
- `SentWasCommitted`: only a row whose transaction committed is ever sent.

`StockConsumer_proofs`, for every set of orders and products, quantities,
initial stocks and finite set of handlers:

- `TypeCorrect` (no stock is ever negative).
- `DeadLettersAreCompensated`: a handler that is about to reject has its
  failure recorded.
- `NoEventIsLost`: the copies of an unprocessed order never leave both the
  queue and the live handlers.
- `FailuresAreExact`: `taken` stays within what the processed copies
  ask for, and a failure is recorded exactly when one falls behind.
- `ProcessedOncePerHandler`: once an order is processed no further handler
  passes the check, so the processed copies plus the handlers past the check
  never exceed the handlers there are. `OneHandlerTakesOnce` follows for a
  single handler: the race needs two.
- `ProcessedWasDelivered`: what waits, is handled or was processed was delivered.

`OrderService_proofs`, for every set of orders, of failure handlers that can
cancel, and number of copies: `TypeCorrect`; `ConfirmedOrdersArePaid` and
`PaymentsHaveOrders` from one invariant, `OrderInv`, which ties the control
point of each `CreateOrder` call to what its order, its event and its payment
can be, also after the caller is gone; `CancellationIsFinal`, an action property
that needs it (only an uncancelled order is overwritten); `NoFailureIsLost`;
`CancelledWasReported` (an order is cancelled only after a failure of it
arrived, as the compensation of a failed payment cancels nothing).

`Checkout_proofs`, for any orders, items, stocks, batch sizes, retries and
faults and any finite sets of handlers. `PartsKeepSpecs` comes first: each part
takes a step of its own specification or stutters in every step of the whole, so
what the three modules above prove of a part holds of it here, and their
invariants need no second proof. Two parts assume something of the rest. The
stock consumer is handed an event only if the order's row was sent, and
order-service a failure only if a `StockUpdateFailed` row was; and the latter
assumes a bound on the copies. `SagaInv` has what these need: an event's row
exists only for a recorded order (`Ordered`), the k-th failure row exists exactly
if k failures were recorded (`Rows`), and the copies delivered are the copies sent
(`Counted`), of which `DuplicatesArePaid` allows at most `MaxRowFaults + 1` for
each of the `MaxFailures` rows. From there:

- `CancelledWereShort`: cancelled, hence reported, hence sent by product-service's
  worker, hence committed with a short stock transaction.
- `StockIsForOrders`: processed, hence delivered, sent, committed with the order.
- `SettledAgrees`: when nothing is under way every row is PUBLISHED, so it was
  sent (`PublishedIsSent`), so it was delivered, and as both queues and all
  handlers are empty it was processed (`NoEventIsLost`) or has cancelled its
  order (`NoFailureIsLost`); `FailuresAreExact` then relates the stock an order
  got to whether it is cancelled.
, for any number of handlers, carts, products and orders:
`TypeCorrect`; `StaleCopiesAreExplained` and `FreshCartsAreLostToRaces` from
`CartInv`: ids of carts are given once and grow, a handler that found a cart
knows a current or an older id, and a refill nobody raced carries the cart as it
is; `OneCartPerOrder` and `NoOrderIsLost` from `OrderInv`: a delivery about to
be acknowledged is of a processed order.

`ProductSearch_proofs`, for any products, callers, histories and finite set of
goroutines: `TypeCorrect`; `StaleCopiesAreExplained` from `CatalogueInv`: a
refill that no write overtook carries the row as it is. Every step of the
catalogue is first shown to be of one form (`StepOK`: a write to some rows, in
which the other handlers are at most overtaken), and the form to keep the
invariant. `NoEventIsLost` from `SearchInv`: a settled row was sent, and a copy
that was sent is executed or pending. `PartsKeepSpecs`: a transaction of the
catalogue records at most one event, so it is one commit of the outbox or none.
`StaleDocumentsAreExplained` and `EndlessDeletionsAreSpare` need two invariants
more:

- `LogInv`: a product's writes only get more, and a product is deleted only
  after it was created, by a handler that read the row. With `CreatedFirst` for
  the history, a deletion is never the only event of a product.
- `DocumentsInv`: what was touched has an event (`RecordInv`); as long as nothing
  was overtaken, the executed events of a product come before all that can still
  be executed, and its document is what the last of them says; and a document is
  missing after some event was executed only if a deletion was. Executing an
  event while a copy of an older one can still come is what sets `overtaken`, so
  repeats and requeues need no bookkeeping of their own.

`RabbitConnection_proofs`: `FaultsAreRaces`, for either kind of process and any
number of dials, attempts and retries. The invariant says of each point of the
consumer's set-up which connection it works on, as long as nobody overtook it.

`Storefront_proofs`, for any clients, users, limits, starts, faults and finite
set of mailing goroutines:

- `RequestsHaveLogins` from `GatewayInv`: a cookie stems from a login, a checked
  request from a token that was valid.
- `FaultsAreRaces` for both connections, by instantiating the lemmas of
  `RabbitConnection_proofs`.
- `AnswersAreThoseOfTheTable` from `UserInv`: rows are only added and an address
  stays unique, each of the two caches holds copies of rows, and a call under way
  has found no more than there is (`Sound`). That `known` was read when the call
  began and the table only grew since is what makes a refusal exact.
- `MailsReachBuyers` from `FrontInv` and `OrdersInv`. The first joins gateway
  and services: a pending call belongs to a request that is with its handler, has
  the operation of that request's route and, for an order, the subject of its
  token (`Joined`); without it the order could be another user's. The second
  carries the buyer from there: the buyer of an order is recorded before its
  event is committed, sent, queued or mailed, and is a user with that address.
- `StoreIsTyped` collects the types the four invariants keep.

Every invariant and every action property of the passing runs is the statement of
one of these theorems. Only model-checked are the six liveness properties,
`HealthyEventsGetPublished`, `DeliveredIsProcessed`, `ShortOrderIsCancelled`,
`SagaCompletes`, `OrderedCartIsEmptied` and `MailedOrStopped`: liveness under
fairness, and the ENABLED it is defined with, are out of the proof system's
reach. So is induction over data; no module has a definition that needs it, nor
a RECURSIVE operator. The four disagreements are counterexamples TLC finds; the
first two are also why `PublishedIsSent` assumes `BrokerDrops = FALSE` and why
`ProcessedOncePerHandler` bounds by the handlers instead of by one.

## 5. Not modelled, and what could follow

- Amounts, prices, addresses and stock levels beyond what a property needs. The
  absolute stock an update of a product writes, which undoes decrements made in
  between, is therefore not visible in `ProductCatalogue` (it is listed with the
  hazards).
- A queue that is not declared yet: what is published before a consumer service
  ran for the first time is lost by the broker. `outbox_lossy` covers it as a
  message the broker drops.
- The dead-letter exchange is a fanout named after the exchange, so a message
  one consumer rejects appears in the dead-letter queues of all of them. Nothing
  in the repository reads those queues; `dead` counts what was rejected.
- Two orders from one cart: every `CreateOrder` call is an order by design, and
  nothing says which of the two would be wrong.
- A search, a listing and the health checks read and answer; logging, the set-up
  of connections to PostgreSQL, server start and shutdown (a stop is a crash
  here), `tools`, generated code and the tests have no protocol state.
  Signatures and password hashes are taken to work.

What could follow: two orders in a run of `Checkout`, which the theorems cover
but TLC cannot enumerate; the absolute stock of a product's update; and the
arguments behind the liveness properties as far as they are safety: for each of
them the step that stays enabled, and the count that falls with it. The
components' notes in `PROJECT.json` give the reasons one by one.
