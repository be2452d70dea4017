---------------------------- MODULE CartService ----------------------------
(***************************************************************************)
(* cart-service: the gRPC handlers on the cart of one user, the Redis copy *)
(* of the GetCart response, and the consumer of OrderCreated, which throws *)
(* the cart away once it was ordered.  Carts of different users share      *)
(* neither rows nor keys.                                                  *)
(*                                                                         *)
(* Every statement of a handler is a step of its own: none runs in a       *)
(* transaction with another, except in the consumer.  The copy is written  *)
(* and deleted by detached goroutines that outlive their request.          *)
(*                                                                         *)
(* The answer of product-service is an error or complete: a product it no  *)
(* longer knows would be left out of the response.                         *)
(***************************************************************************)
EXTENDS Naturals, FiniteSets

CONSTANTS
    Requests,     \* handlers that may run at a time
    Products,
    Quantities,   \* quantities a call may ask for
    Orders,       \* orders of the user
    Workers,      \* goroutines of the OrderCreated consumer
    Prefetch,
    NoOrder,
    MaxCopies,    \* bound: copies of one OrderCreated the broker delivers
    MaxCarts,     \* bound: rows of carts the user ever gets
    MaxCalls      \* bound: gRPC calls made

ASSUME QuantitiesAssumption == Quantities \subseteq Nat \ {0}
ASSUME WorkersAssumption == IsFiniteSet(Workers)
ASSUME MaxCopiesAssumption == MaxCopies \in Nat
ASSUME MaxCartsAssumption == MaxCarts \in Nat
ASSUME MaxCallsAssumption == MaxCalls \in Nat

VARIABLES
    cart,         \* the row of carts with its rows of carts_products
    created,      \* carts created so far, also the id of the newest
    request,      \* the running handlers
    calls,        \* gRPC calls so far
    shown,        \* order-service was shown a cart with something in it
    cache,        \* the cached response, raced if the cart changed under its refill
    deletions,    \* deleteCartCache goroutines that have not run yet
    missed,       \* a change since the cached response will not be followed by a deletion
    ready, worker, dead,  \* cart_order_created_queue
    delivered,    \* copies of each OrderCreated that reached the queue
    processed,    \* processed_events has the row of the order
    emptied       \* committed transactions that deleted the cart for the order

cartVars == <<cart, created>>
callVars == <<calls, shown>>
cacheVars == <<cache, deletions, missed>>
serverVars == <<cartVars, request, callVars, cacheVars>>
queueVars == <<ready, worker, dead>>
consumerVars == <<queueVars, delivered, processed, emptied>>
vars == <<serverVars, consumerVars>>

Queue == INSTANCE RabbitQueue WITH Messages <- Orders, NoMessage <- NoOrder

Items == [Products -> Quantities \cup {0}]
NoItems == [p \in Products |-> 0]

NoCart == [id |-> 0, expired |-> FALSE, items |-> NoItems]
NoEntry == [id |-> 0, items |-> NoItems, raced |-> FALSE]
Ops == {"get", "add", "remove", "clear", "delete"}

Fresh == [pc |-> "idle", op |-> "get", id |-> 0, items |-> NoItems, raced |-> FALSE]

Init ==
    /\ cart = NoCart
    /\ created = 0
    /\ request = [r \in Requests |-> Fresh]
    /\ calls = 0
    /\ shown = FALSE
    /\ cache = NoEntry
    /\ deletions = 0
    /\ missed = FALSE
    /\ Queue!QueueInit
    /\ delivered = [o \in Orders |-> 0]
    /\ processed = [o \in Orders |-> FALSE]
    /\ emptied = [o \in Orders |-> 0]

-----------------------------------------------------------------------------
(* The tables and the copy.                                                *)

At(r, pc) == request[r].pc = pc

\* Handlers that have read the cart and will write what they read to the cache.
Refilling == {r \in Requests : At(r, "refilling")}

\* The handler of r moves on to the record next.  When the step changes the
\* cart, the refills under way no longer carry what the table holds.
Proceed(r, next, changed) ==
    request' = [q \in Requests |->
        IF q = r THEN next
        ELSE IF changed /\ q \in Refilling THEN [request[q] EXCEPT !.raced = TRUE]
        ELSE request[q]]

Goto(r, pc) == Proceed(r, [request[r] EXCEPT !.pc = pc], FALSE)

\* The call of r is over, with a response or an error.
Return(r, changed) == Proceed(r, Fresh, changed)

\* The cart has become new.
SetCart(new) == cart' = new

BugInvalidate == UNCHANGED cacheVars

\* go deleteCartCache
Invalidate ==
    /\ deletions' = deletions + 1
    /\ UNCHANGED <<cache, missed>>

\* A change nobody will delete the copy for.
NotInvalidated ==
    /\ missed' = (missed \/ cache # NoEntry)
    /\ UNCHANGED <<cache, deletions>>

DeleteCache ==
    /\ deletions > 0
    /\ deletions' = deletions - 1
    /\ cache' = NoEntry
    /\ missed' = FALSE
    /\ UNCHANGED <<cartVars, request, callVars, consumerVars>>

\* Redis is away: the error is logged.
DeleteCacheFails ==
    /\ deletions > 0
    /\ deletions' = deletions - 1
    /\ missed' = (missed \/ cache # NoEntry)
    /\ UNCHANGED <<cartVars, request, callVars, cache, consumerVars>>

\* redisCacheTTL is over.
CacheExpires ==
    /\ cache # NoEntry
    /\ cache' = NoEntry
    /\ missed' = FALSE
    /\ UNCHANGED <<cartVars, request, callVars, deletions, consumerVars>>

\* CART_TTL_HOURS have passed since the cart was created.
CartExpires ==
    /\ cart # NoCart
    /\ ~cart.expired
    /\ cart' = [cart EXCEPT !.expired = TRUE]
    /\ UNCHANGED <<created, request, callVars, cacheVars, consumerVars>>

-----------------------------------------------------------------------------
(* getOrCreateCartByUserID, which every handler runs first.                *)

\* The call arrives; GetCart asks the cache before anything else and goes on
\* when there is no copy or Redis is away.
Begin(r, op) ==
    /\ At(r, "idle")
    /\ calls < MaxCalls
    /\ calls' = calls + 1
    /\ Proceed(r, [request[r] EXCEPT !.pc = "lookup", !.op = op], FALSE)
    /\ UNCHANGED <<cartVars, shown, cacheVars, consumerVars>>

CacheHit(r) ==
    /\ At(r, "idle")
    /\ cache # NoEntry
    /\ calls < MaxCalls
    /\ calls' = calls + 1
    /\ shown' = (shown \/ cache.items # NoItems)
    /\ UNCHANGED <<cartVars, request, cacheVars, consumerVars>>

BugIsExpired(row) == row # NoCart

IsExpired(row) == row.expired

\* GetCartByUserID and what follows from the row it returns.
LookUp(r) ==
    /\ At(r, "lookup")
    /\ Proceed(r, [request[r] EXCEPT
                     !.id = cart.id,
                     !.pc = IF cart = NoCart THEN "creating"
                            ELSE IF IsExpired(cart) THEN "deleting"
                            ELSE "found"], FALSE)
    /\ UNCHANGED <<cartVars, callVars, cacheVars, consumerVars>>

\* A statement, a call of product-service or the context fails.
HandlerFails(r) ==
    /\ request[r].pc \in {"lookup", "found", "creating", "created"}
    /\ Return(r, FALSE)
    /\ UNCHANGED <<cartVars, callVars, cacheVars, consumerVars>>

\* DeleteCartByUserID deletes whatever cart the user has by now.
DeleteExpired(r) ==
    /\ At(r, "deleting")
    /\ SetCart(NoCart)
    /\ Proceed(r, [request[r] EXCEPT !.pc = "recreating"], cart # NoCart)
    /\ UNCHANGED <<created, callVars, cacheVars, consumerVars>>

\* deleteExpiredCartAndCreateNewOne returns an error, the copy is deleted all
\* the same; the deletion of the cart may have been executed.
ReplaceFails(r) ==
    /\ request[r].pc \in {"deleting", "recreating"}
    /\ \E row \in (IF At(r, "deleting") THEN {cart, NoCart} ELSE {cart}) :
        /\ SetCart(row)
        /\ Return(r, row # cart)
    /\ Invalidate
    /\ UNCHANGED <<created, callVars, consumerVars>>

\* CreateCart.  user_id is UNIQUE: the second of two concurrent calls fails.
CreateCart(r) ==
    /\ request[r].pc \in {"creating", "recreating"}
    /\ IF cart = NoCart
       THEN /\ created < MaxCarts
            /\ SetCart([NoCart EXCEPT !.id = created + 1])
            /\ created' = created + 1
            /\ Proceed(r, [request[r] EXCEPT !.pc = "created", !.id = created + 1], TRUE)
       ELSE /\ Return(r, FALSE)
            /\ UNCHANGED cartVars
    /\ IF At(r, "recreating") THEN Invalidate ELSE UNCHANGED cacheVars
    /\ UNCHANGED <<callVars, consumerVars>>

\* The cart is created, the handler is told that it failed.
CreateReplyLost(r) ==
    /\ request[r].pc \in {"creating", "recreating"}
    /\ cart = NoCart
    /\ created < MaxCarts
    /\ SetCart([NoCart EXCEPT !.id = created + 1])
    /\ created' = created + 1
    /\ Return(r, TRUE)
    /\ IF At(r, "recreating") THEN Invalidate ELSE UNCHANGED cacheVars
    /\ UNCHANGED <<callVars, consumerVars>>

-----------------------------------------------------------------------------
(* The handlers.                                                           *)

\* GetCartProductsByCartID and product-service answer; the response is sent
\* and a goroutine is left to cache it.
ReadCart(r) ==
    /\ request[r].op = "get"
    /\ request[r].pc \in {"found", "created"}
    /\ Proceed(r, [request[r] EXCEPT
                     !.pc = "refilling",
                     !.items = IF cart.id = request[r].id THEN cart.items ELSE NoItems,
                     !.raced = cart.id # request[r].id], FALSE)
    /\ shown' = (shown \/ (cart.id = request[r].id /\ cart.items # NoItems))
    /\ UNCHANGED <<cartVars, calls, cacheVars, consumerVars>>

\* cacheGetCartResponse
RefillCache(r) ==
    /\ At(r, "refilling")
    /\ cache' = [id |-> request[r].id, items |-> request[r].items, raced |-> request[r].raced]
    /\ missed' = FALSE
    /\ Return(r, FALSE)
    /\ UNCHANGED <<cartVars, callVars, deletions, consumerVars>>

RefillFails(r) ==
    /\ At(r, "refilling")
    /\ Return(r, FALSE)
    /\ UNCHANGED <<cartVars, callVars, cacheVars, consumerVars>>

\* The first check of AddProductToCart on a cart it created itself: another
\* call has already put something into it.
AbortAdd(r) ==
    /\ request[r].op = "add"
    /\ At(r, "created")
    /\ cart.id = request[r].id
    /\ cart.items # NoItems
    /\ Return(r, FALSE)
    /\ UNCHANGED <<cartVars, callVars, cacheVars, consumerVars>>

VerifyNewCart(r) ==
    /\ request[r].op = "add"
    /\ At(r, "created")
    /\ cart.id = request[r].id => cart.items = NoItems
    /\ Goto(r, "found")
    /\ UNCHANGED <<cartVars, callVars, cacheVars, consumerVars>>

\* Clear, delete and remove have nothing to do on a cart they created.
SkipNewCart(r) ==
    /\ request[r].op \in {"remove", "clear", "delete"}
    /\ At(r, "created")
    /\ Return(r, FALSE)
    /\ UNCHANGED <<cartVars, callVars, cacheVars, consumerVars>>

BugChanged(r) ==
    CASE request[r].op = "add" ->
            {[cart EXCEPT !.items[p] = @ + n] : p \in Products, n \in Quantities}
      [] OTHER -> {NoCart}

\* The rows the handler of r may leave behind: AddOrUpdateProductInCart is by
\* cart id, the others are by user id and take the cart the user has by now.
Changed(r) ==
    CASE request[r].op = "add" ->
            {[cart EXCEPT !.items[p] = n] : p \in Products, n \in Quantities}
      [] request[r].op = "remove" -> {[cart EXCEPT !.items[p] = 0] : p \in Products}
      [] request[r].op = "clear"  -> {[cart EXCEPT !.items = NoItems]}
      [] request[r].op = "delete" -> {NoCart}
      [] OTHER -> {}

\* cart_id REFERENCES carts(id): a product is not added to a cart that is gone.
CartIsThere(r) == request[r].op = "add" => cart.id = request[r].id

AddFails(r) ==
    /\ At(r, "found")
    /\ ~CartIsThere(r)
    /\ Return(r, FALSE)
    /\ UNCHANGED <<cartVars, callVars, cacheVars, consumerVars>>

ChangeCart(r) ==
    /\ At(r, "found")
    /\ CartIsThere(r)
    /\ \E row \in Changed(r) :
        /\ SetCart(row)
        /\ Return(r, row # cart)
    /\ Invalidate
    /\ UNCHANGED <<created, callVars, consumerVars>>

\* The statement is executed, the handler is told that it failed.
ChangeReplyLost(r) ==
    /\ At(r, "found")
    /\ CartIsThere(r)
    /\ \E row \in Changed(r) :
        /\ row # cart
        /\ SetCart(row)
        /\ Return(r, TRUE)
    /\ NotInvalidated
    /\ UNCHANGED <<created, callVars, consumerVars>>

-----------------------------------------------------------------------------
(* The OrderCreated consumer.                                              *)

OrderOf(w) == worker[w].msg

\* order-service was given a cart with something in it, made an order of it,
\* and its worker publishes OrderCreated, for the first time or again.
OrderArrives(o) ==
    /\ shown
    /\ delivered[o] < MaxCopies
    /\ delivered' = [delivered EXCEPT ![o] = @ + 1]
    /\ Queue!Enqueue(o, 1)
    /\ UNCHANGED <<serverVars, processed, emptied>>

ReceiveOrder(w, o) ==
    /\ Queue!Receive(w, o)
    /\ UNCHANGED <<serverVars, delivered, processed, emptied>>

SkipProcessed(w) ==
    /\ Queue!At(w, "received")
    /\ processed[OrderOf(w)]
    /\ Queue!Ack(w)
    /\ UNCHANGED <<serverVars, delivered, processed, emptied>>

PassCheck(w) ==
    /\ Queue!At(w, "received")
    /\ ~processed[OrderOf(w)]
    /\ Queue!Advance(w, "deleting")
    /\ UNCHANGED <<serverVars, delivered, processed, emptied>>

BugHandlerFails(w) ==
    /\ Queue!At(w, "received") \/ Queue!At(w, "deleting")
    /\ Queue!Ack(w)
    /\ UNCHANGED <<serverVars, delivered, processed, emptied>>

\* The check or the transaction fails: returned to the queue.
ConsumerFails(w) ==
    /\ Queue!At(w, "received") \/ Queue!At(w, "deleting")
    /\ Queue!NackRequeue(w)
    /\ UNCHANGED <<serverVars, delivered, processed, emptied>>

BugInsertProcessed(o) == processed' = [processed EXCEPT ![o] = TRUE]

\* CreateProcessedEvent: UNIQUE(aggregate_id, event_name).
InsertProcessed(o) ==
    /\ ~processed[o]
    /\ processed' = [processed EXCEPT ![o] = TRUE]

\* DeleteCartAndCreateProcessedEvent commits.
CommitDelete(o) ==
    /\ InsertProcessed(o)
    /\ SetCart(NoCart)
    /\ emptied' = [emptied EXCEPT ![o] = @ + 1]
    /\ request' = [q \in Requests |->
                     IF cart # NoCart /\ q \in Refilling
                     THEN [request[q] EXCEPT !.raced = TRUE] ELSE request[q]]
    /\ UNCHANGED <<created, callVars, delivered>>

DeleteOrderedCart(w) ==
    /\ Queue!At(w, "deleting")
    /\ CommitDelete(OrderOf(w))
    /\ Invalidate
    /\ Queue!Advance(w, "acking")

\* The transaction commits, the handler is told that it failed: the redelivery
\* is skipped, and nobody deletes the copy.
DeleteReplyLost(w) ==
    /\ Queue!At(w, "deleting")
    /\ CommitDelete(OrderOf(w))
    /\ NotInvalidated
    /\ Queue!NackRequeue(w)

\* The row of processed_events is there already: the transaction is rolled back.
DuplicateRejected(w) ==
    /\ Queue!At(w, "deleting")
    /\ processed[OrderOf(w)]
    /\ Queue!NackRequeue(w)
    /\ UNCHANGED <<serverVars, delivered, processed, emptied>>

AckOrder(w) ==
    /\ Queue!At(w, "acking")
    /\ Queue!Ack(w)
    /\ UNCHANGED <<serverVars, delivered, processed, emptied>>

DropConnection ==
    /\ Queue!DropConnection
    /\ UNCHANGED <<serverVars, delivered, processed, emptied>>

-----------------------------------------------------------------------------

Busy ==
    \/ \E r \in Requests : ~At(r, "idle")
    \/ \E w \in Workers : ~Queue!At(w, "idle")
    \/ deletions > 0

\* Somebody has changed the cart and will delete the copy.
OwesDeletion == deletions > 0 \/ \E r \in Requests : At(r, "recreating")

\* The process stops with its handlers and detached goroutines, and restarts.
Crash ==
    /\ Busy
    /\ request' = [r \in Requests |-> Fresh]
    /\ deletions' = 0
    /\ missed' = (missed \/ (cache # NoEntry /\ OwesDeletion))
    /\ ready' = Queue!Redelivered
    /\ worker' = [w \in Workers |-> Queue!Idle]
    /\ UNCHANGED <<cartVars, callVars, cache, dead, delivered, processed, emptied>>

GetOrCreate(r) ==
    \/ LookUp(r) \/ DeleteExpired(r) \/ ReplaceFails(r) \/ CreateCart(r)
    \/ CreateReplyLost(r) \/ HandlerFails(r)

Handle(r) ==
    \/ \E op \in Ops : Begin(r, op)
    \/ CacheHit(r)
    \/ ReadCart(r) \/ RefillCache(r) \/ RefillFails(r)
    \/ AbortAdd(r) \/ VerifyNewCart(r) \/ SkipNewCart(r)
    \/ AddFails(r) \/ ChangeCart(r) \/ ChangeReplyLost(r)

HandleOrder(w) ==
    \/ SkipProcessed(w) \/ PassCheck(w) \/ ConsumerFails(w) \/ DeleteOrderedCart(w)
    \/ DeleteReplyLost(w) \/ DuplicateRejected(w) \/ AckOrder(w)

Next ==
    \/ \E r \in Requests : GetOrCreate(r) \/ Handle(r)
    \/ DeleteCache \/ DeleteCacheFails \/ CacheExpires \/ CartExpires
    \/ \E o \in Orders : OrderArrives(o)
    \/ \E w \in Workers, o \in Orders : ReceiveOrder(w, o)
    \/ \E w \in Workers : HandleOrder(w)
    \/ DropConnection
    \/ Crash

Spec == Init /\ [][Next]_vars

On(o, Step(_)) == \E w \in Workers : OrderOf(w) = o /\ Step(w)

\* A started consumer goroutine runs on; the database and the connection may
\* fail for ever, but not at every single attempt for one order.
ConsumerFairness ==
    /\ \A o \in Orders :
        /\ SF_vars(\E w \in Workers : ReceiveOrder(w, o))
        /\ SF_vars(On(o, PassCheck))
        /\ SF_vars(On(o, DeleteOrderedCart))
    /\ \A w \in Workers : WF_vars(SkipProcessed(w) \/ DuplicateRejected(w) \/ AckOrder(w))

FairSpec == Spec /\ ConsumerFairness

-----------------------------------------------------------------------------
(* Properties.                                                             *)

\* Every variable has its type.
TypeOK ==
    /\ calls \in 0..MaxCalls
    /\ shown \in BOOLEAN
    /\ cart \in [id : 0..MaxCarts, expired : BOOLEAN, items : Items]
    /\ created \in 0..MaxCarts
    /\ request \in [Requests -> [pc : {"idle", "lookup", "deleting", "recreating", "creating",
                                         "created", "found", "refilling"},
                                 op : Ops, id : 0..MaxCarts, items : Items, raced : BOOLEAN]]
    /\ cache \in [id : 0..MaxCarts, items : Items, raced : BOOLEAN]
    /\ deletions \in Nat
    /\ missed \in BOOLEAN
    /\ Queue!QueueTypeOK({"received", "deleting", "acking"})
    /\ delivered \in [Orders -> 0..MaxCopies]
    /\ processed \in [Orders -> BOOLEAN]
    /\ emptied \in [Orders -> Nat]

\* Every way a handler or the consumer has to change the cart is followed by a
\* deletion of the cached response.  A response that differs from the cart is
\* still to be deleted, or its refill overlapped the change, or the deletion
\* was lost to a crash, to Redis or to a lost database reply.
StaleCacheIsExplained ==
    cache # NoEntry /\ (cache.id # cart.id \/ cache.items # cart.items) =>
        \/ OwesDeletion
        \/ cache.raced
        \/ missed

\* However often OrderCreated is delivered and to however many goroutines at
\* once, the order throws away one cart: what the user collects afterwards is
\* safe from its redeliveries.
OrderEmptiesOneCart ==
    \A o \in Orders : emptied[o] = (IF processed[o] THEN 1 ELSE 0)

\* No delivered order is forgotten before its cart was thrown away.
NoOrderLost ==
    \A o \in Orders :
        delivered[o] > 0 =>
            \/ processed[o]
            \/ ready[o] > 0
            \/ Queue!Holders(o) # {}

\* A call that replaces an expired cart deletes by user: it hits a cart that
\* is not expired only if another call has replaced the expired one meanwhile.
FreshCartLostOnlyToRace ==
    \A r \in Requests :
        At(r, "deleting") /\ cart # NoCart /\ ~cart.expired => cart.id > request[r].id

\* Every delivered order eventually throws the cart away.
OrderedCartIsEmptied == \A o \in Orders : delivered[o] > 0 ~> processed[o]

=============================================================================
