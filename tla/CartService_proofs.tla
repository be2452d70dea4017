------------------------- MODULE CartService_proofs -------------------------
(***************************************************************************)
(* The safety of one user's cart, for any number of concurrent handlers,   *)
(* any products and quantities, any orders and any finite number of        *)
(* goroutines of the OrderCreated consumer.                                *)
(***************************************************************************)
EXTENDS CartService, FiniteSetTheorems, TLAPS

Pcs == {"received", "deleting", "acking"}

QueueOK == Queue!QueueTypeOK(Pcs)

-----------------------------------------------------------------------------
(* The queue.                                                              *)

\* A goroutine's delivery while it handles one.
Delivery == [pc : Pcs, msg : Orders, live : BOOLEAN]

\* m can still be handled: it waits, or a goroutine can return it.
Pending(m) == ready[m] > 0 \/ Queue!Holders(m) # {}

HandlerStep(w) ==
    Queue!Ack(w) \/ Queue!NackRequeue(w) \/ Queue!NackDiscard(w)
      \/ \E pc \in Pcs : Queue!Advance(w, pc)

\* The process stops: what that does to the queue, whoever else was busy.
Restart ==
    /\ ready' = Queue!Redelivered
    /\ worker' = [w \in Workers |-> Queue!Idle]
    /\ UNCHANGED dead

BrokerMoves ==
    \/ \E m \in Orders : Queue!Enqueue(m, 1)
    \/ \E w \in Workers, m \in Orders : Queue!Receive(w, m)
    \/ Queue!DropConnection
    \/ Restart

\* A goroutine that is not idle has a message.
LEMMA BusyDelivery ==
    ASSUME QueueOK, NEW w \in Workers, ~Queue!At(w, "idle")
    PROVE worker[w] \in Delivery /\ worker[w].msg \in Orders
BY DEF QueueOK, Queue!QueueTypeOK, Queue!Idle, Queue!At, Delivery

\* A step of one handler leaves the others where they are; the handler is done
\* or goes on with the same message.
LEMMA ConsumerMoves ==
    ASSUME QueueOK, NEW w \in Workers, ~Queue!At(w, "idle"), HandlerStep(w)
    PROVE /\ \A v \in Workers : v # w => worker'[v] = worker[v]
          /\ \/ worker'[w] = Queue!Idle
             \/ \E pc \in Pcs : /\ Queue!Advance(w, pc)
                                /\ worker'[w] = [worker[w] EXCEPT !.pc = pc]
                                /\ worker'[w] \in Delivery
<1>1. worker[w] \in Delivery
  BY BusyDelivery
<1>2. \A pc \in Pcs : [worker[w] EXCEPT !.pc = pc] \in Delivery
  BY <1>1 DEF Delivery
<1>3. CASE Queue!Ack(w) \/ Queue!NackRequeue(w) \/ Queue!NackDiscard(w)
  BY <1>3 DEF QueueOK, Queue!QueueTypeOK, Queue!Ack, Queue!NackRequeue, Queue!NackDiscard,
              Queue!Finish
<1>4. ASSUME NEW pc \in Pcs, Queue!Advance(w, pc)
      PROVE /\ \A v \in Workers : v # w => worker'[v] = worker[v]
            /\ worker'[w] = [worker[w] EXCEPT !.pc = pc]
  BY <1>4 DEF QueueOK, Queue!QueueTypeOK, Queue!Advance
<1> QED BY <1>2, <1>3, <1>4 DEF HandlerStep

\* What a handler does to its delivery keeps the queue's type.
LEMMA HandlerKeepsType ==
    ASSUME QueueOK, NEW w \in Workers, ~Queue!At(w, "idle"), HandlerStep(w)
    PROVE QueueOK'
<1>1. worker[w] \in Delivery
  BY BusyDelivery
<1>2. ready \in [Orders -> Nat] /\ dead \in [Orders -> Nat]
      /\ worker \in [Workers -> {Queue!Idle} \cup Delivery]
  BY DEF QueueOK, Queue!QueueTypeOK, Delivery
<1>3. worker' \in [Workers -> {Queue!Idle} \cup Delivery]
  <2>1. \A v \in Workers : worker'[v] \in {Queue!Idle} \cup Delivery
    BY <1>2, ConsumerMoves
  <2>2. worker' = [v \in Workers |-> worker'[v]]
    BY <1>2 DEF HandlerStep, Queue!Ack, Queue!NackRequeue, Queue!NackDiscard,
                Queue!Finish, Queue!Advance
  <2> QED BY <2>1, <2>2
<1>4. ready' \in [Orders -> Nat] /\ dead' \in [Orders -> Nat]
  BY <1>1, <1>2 DEF HandlerStep, Queue!Ack, Queue!NackRequeue, Queue!NackDiscard,
                    Queue!Advance, Delivery
<1> QED BY <1>3, <1>4 DEF QueueOK, Queue!QueueTypeOK, Delivery

\* Redelivery counts the messages.
LEMMA HoldersAreFinite ==
    ASSUME NEW m
    PROVE /\ Queue!Cardinality(Queue!Holders(m)) \in Nat
          /\ Queue!Holders(m) # {} <=> Queue!Cardinality(Queue!Holders(m)) > 0
<1>1. Queue!Holders(m) \in SUBSET Workers
  BY DEF Queue!Holders
<1>2. IsFiniteSet(Queue!Holders(m))
  BY <1>1, WorkersAssumption, FS_Subset
<1>3. Queue!Cardinality(Queue!Holders(m)) = Cardinality(Queue!Holders(m))
  BY DEF Queue!Cardinality, Cardinality
<1> QED BY <1>2, <1>3, FS_CardinalityType, FS_EmptySet

\* The connection goes: a goroutine keeps its message but not its delivery.
LEMMA DropConnectionMoves ==
    ASSUME QueueOK, Queue!DropConnection, NEW w \in Workers
    PROVE \/ worker'[w] = worker[w]
          \/ /\ worker[w] \in Delivery /\ worker'[w] \in Delivery
             /\ worker'[w].pc = worker[w].pc /\ worker'[w].msg = worker[w].msg
<1>1. CASE Queue!Live(w)
  <2>1. worker[w] \in Delivery
    BY <1>1 DEF QueueOK, Queue!QueueTypeOK, Queue!Live, Queue!Idle, Delivery
  <2> QED BY <1>1, <2>1 DEF Queue!DropConnection, Delivery
<1>2. CASE ~Queue!Live(w)
  BY <1>2 DEF Queue!DropConnection
<1> QED BY <1>1, <1>2

\* The broker's own steps keep the queue's type.
LEMMA BrokerKeepsType ==
    ASSUME QueueOK, BrokerMoves
    PROVE QueueOK'
<1> USE DEF QueueOK, Queue!QueueTypeOK
<1>1. ASSUME NEW m \in Orders, Queue!Enqueue(m, 1) PROVE QueueOK'
  BY <1>1 DEF Queue!Enqueue
<1>2. ASSUME NEW w \in Workers, NEW m \in Orders, Queue!Receive(w, m) PROVE QueueOK'
  BY <1>2 DEF Queue!Receive, Pcs
<1>3. Queue!Redelivered \in [Orders -> Nat]
  BY HoldersAreFinite DEF Queue!Redelivered
<1>4. CASE Queue!DropConnection
  <2>1. \A w \in Workers : worker'[w] \in {Queue!Idle} \cup Delivery
    BY <1>4, DropConnectionMoves DEF Delivery
  <2> QED BY <1>3, <1>4, <2>1 DEF Queue!DropConnection, Delivery
<1>5. CASE Restart
  BY <1>3, <1>5 DEF Restart
<1> QED BY <1>1, <1>2, <1>4, <1>5 DEF BrokerMoves

\* The broker loses nothing: it takes, hands out and takes back.
LEMMA BrokerKeepsPending ==
    ASSUME QueueOK, BrokerMoves, NEW m \in Orders, Pending(m)
    PROVE Pending(m)'
<1>1. ready \in [Orders -> Nat]
  BY DEF QueueOK, Queue!QueueTypeOK
<1>2. ASSUME NEW n \in Orders, Queue!Enqueue(n, 1) PROVE Pending(m)'
  BY <1>1, <1>2 DEF Queue!Enqueue, Pending, Queue!Holders, Queue!Live
<1>3. ASSUME NEW w \in Workers, NEW n \in Orders, Queue!Receive(w, n) PROVE Pending(m)'
  <2>1. worker'[w] = [pc |-> "received", msg |-> n, live |-> TRUE]
    BY <1>3 DEF Queue!Receive, QueueOK, Queue!QueueTypeOK
  <2>2. CASE n = m
    BY <2>1, <2>2 DEF Pending, Queue!Holders, Queue!Live
  <2>3. CASE n # m /\ ready[m] > 0
    BY <1>1, <1>3, <2>3 DEF Queue!Receive, Pending
  <2>4. CASE ready[m] = 0
    <3>1. PICK v \in Workers : Queue!Live(v) /\ worker[v].msg = m
      BY <1>1, <2>4 DEF Pending, Queue!Holders
    <3>2. (n # m /\ v # w) \/ n = m
      BY <1>1, <1>3, <2>4, <3>1
         DEF Queue!Receive, Queue!At, QueueOK, Queue!QueueTypeOK, Queue!Idle, Queue!Live, Pcs
    <3>3. v # w => worker'[v] = worker[v]
      BY <1>3 DEF Queue!Receive, QueueOK, Queue!QueueTypeOK
    <3> QED BY <2>2, <3>1, <3>2, <3>3 DEF Pending, Queue!Holders, Queue!Live
  <2> QED BY <1>1, <2>2, <2>3, <2>4
<1>4. Queue!Redelivered[m] > 0
  BY <1>1, HoldersAreFinite DEF Queue!Redelivered, Pending
<1> QED BY <1>2, <1>3, <1>4 DEF BrokerMoves, Queue!DropConnection, Restart, Pending

\* A handler can only lose the message it acknowledges or discards.
LEMMA HandlerKeepsPending ==
    ASSUME QueueOK, NEW w \in Workers, ~Queue!At(w, "idle"), HandlerStep(w),
           NEW m \in Orders, Pending(m),
           \/ worker[w].msg # m
           \/ Queue!NackRequeue(w) \/ \E pc \in Pcs : Queue!Advance(w, pc)
    PROVE Pending(m)'
<1> USE DEF Queue!NackRequeue, Queue!Advance
<1>1. ready \in [Orders -> Nat] /\ worker[w] \in Delivery
  BY BusyDelivery DEF QueueOK, Queue!QueueTypeOK
<1>2. ready'[m] >= ready[m]
  BY <1>1 DEF HandlerStep, Queue!Ack, Queue!NackDiscard, Delivery
<1>3. CASE ready[m] > 0
  BY <1>1, <1>2, <1>3 DEF HandlerStep, Queue!Ack, Queue!NackDiscard, Delivery, Pending
<1>4. ASSUME NEW v \in Queue!Holders(m) PROVE Pending(m)'
  <2>1. v \in Workers /\ worker[v].live /\ worker[v].msg = m
    BY <1>4 DEF Queue!Holders, Queue!Live
  <2>2. CASE v # w
    <3>1. worker'[v] = worker[v]
      BY <2>1, <2>2, ConsumerMoves
    <3> QED BY <2>1, <3>1 DEF Pending, Queue!Holders, Queue!Live
  <2>3. CASE v = w /\ Queue!NackRequeue(w)
    <3>1. ready'[m] = ready[m] + 1
      BY <1>1, <2>1, <2>3 DEF Queue!Live
    <3> QED BY <1>1, <3>1 DEF Pending
  <2>4. ASSUME v = w, NEW pc \in Pcs, Queue!Advance(w, pc) PROVE Pending(m)'
    <3>1. worker'[w] = [worker[w] EXCEPT !.pc = pc]
      BY <2>4 DEF QueueOK, Queue!QueueTypeOK
    <3>2. worker'[w].live /\ worker'[w].msg = m
      BY <1>1, <2>1, <2>4, <3>1 DEF Delivery
    <3> QED BY <2>1, <2>4, <3>2 DEF Pending, Queue!Holders, Queue!Live
  <2> QED BY <2>1, <2>2, <2>3, <2>4
<1> QED BY <1>1, <1>3, <1>4 DEF Pending, Queue!Holders

-----------------------------------------------------------------------------
(* The types.                                                              *)

CartRow == [id : 0..MaxCarts, expired : BOOLEAN, items : Items]

Handler == [pc : {"idle", "lookup", "deleting", "recreating", "creating", "created",
                  "found", "refilling"},
            op : Ops, id : 0..MaxCarts, items : Items, raced : BOOLEAN]

CartOK == cart \in CartRow /\ created \in 0..MaxCarts

RequestsOK == request \in [Requests -> Handler]

CacheOK ==
    /\ cache \in [id : 0..MaxCarts, items : Items, raced : BOOLEAN]
    /\ deletions \in Nat
    /\ missed \in BOOLEAN

CallsOK == calls \in 0..MaxCalls /\ shown \in BOOLEAN

OrdersOK ==
    /\ delivered \in [Orders -> 0..MaxCopies]
    /\ processed \in [Orders -> BOOLEAN]
    /\ emptied \in [Orders -> Nat]

\* The types, in parts.
LEMMA TypeParts ==
    /\ TypeOK <=> CartOK /\ RequestsOK /\ CacheOK /\ CallsOK /\ QueueOK /\ OrdersOK
    /\ TypeOK' <=> CartOK' /\ RequestsOK' /\ CacheOK' /\ CallsOK' /\ QueueOK' /\ OrdersOK'
BY DEF TypeOK, CartOK, RequestsOK, CacheOK, CallsOK, OrdersOK, CartRow, Handler, QueueOK, Pcs

\* The constant rows and copies, and a row with one product changed, have their types.
LEMMA ItemsFacts ==
    /\ NoItems \in Items
    /\ \A items \in Items, p \in Products, n \in Quantities \cup {0} :
         [items EXCEPT ![p] = n] \in Items
    /\ NoCart \in CartRow
    /\ NoEntry \in [id : 0..MaxCarts, items : Items, raced : BOOLEAN]
    /\ Fresh \in Handler
BY MaxCartsAssumption DEF NoItems, Items, NoCart, NoEntry, Fresh, CartRow, Handler, Ops

\* What a step of one handler does to it and to the others.
LEMMA ProceedMoves ==
    ASSUME RequestsOK, NEW r \in Requests, NEW next, NEW changed, Proceed(r, next, changed),
           NEW q \in Requests
    PROVE request'[q] = IF q = r THEN next
                        ELSE IF changed /\ request[q].pc = "refilling"
                        THEN [request[q] EXCEPT !.raced = TRUE] ELSE request[q]
BY DEF Proceed, Refilling, At

\* A handler that moves on keeps the types of all of them.
LEMMA ProceedKeepsType ==
    ASSUME RequestsOK, NEW r \in Requests, NEW next \in Handler, NEW changed,
           Proceed(r, next, changed)
    PROVE RequestsOK'
<1>1. ASSUME NEW q \in Requests PROVE request'[q] \in Handler
  <2>1. request[q] \in Handler
    BY DEF RequestsOK
  <2>2. [request[q] EXCEPT !.raced = TRUE] \in Handler
    BY <2>1 DEF Handler
  <2> QED BY <2>1, <2>2, ProceedMoves
<1> QED BY <1>1 DEF RequestsOK, Proceed

\* A handler keeps its type when only its place changes.
LEMMA HandlerFields ==
    ASSUME RequestsOK, NEW r \in Requests
    PROVE /\ request[r] \in Handler
          /\ \A pc \in {"idle", "lookup", "deleting", "recreating", "creating", "created",
                        "found", "refilling"} : [request[r] EXCEPT !.pc = pc] \in Handler
<1>1. request[r] \in Handler
  BY DEF RequestsOK
<1> QED BY <1>1 DEF Handler

\* What becomes of the copy after a change keeps its type.
LEMMA CacheSteps ==
    ASSUME CacheOK, Invalidate \/ NotInvalidated \/ UNCHANGED cacheVars
    PROVE CacheOK'
<1>1. CASE Invalidate
  BY <1>1 DEF CacheOK, Invalidate
<1>2. CASE NotInvalidated
  <2>1. missed' \in BOOLEAN
    BY <1>2 DEF NotInvalidated
  <2> QED BY <1>2, <2>1 DEF CacheOK, NotInvalidated
<1>3. CASE UNCHANGED cacheVars
  BY <1>3 DEF CacheOK, cacheVars
<1> QED BY <1>1, <1>2, <1>3

ServerOK == CartOK /\ RequestsOK /\ CacheOK /\ CallsOK

\* The rows a handler may leave behind are rows.
LEMMA ChangedRows ==
    ASSUME CartOK, NEW r \in Requests, NEW row \in Changed(r)
    PROVE row \in CartRow
<1>1. cart \in CartRow /\ cart.items \in Items
  BY DEF CartOK, CartRow
<1>2. \A items \in Items : [cart EXCEPT !.items = items] \in CartRow
  BY <1>1 DEF CartRow
<1>3. CASE request[r].op = "add"
  <2>1. PICK p \in Products, n \in Quantities : row = [cart EXCEPT !.items[p] = n]
    BY <1>3 DEF Changed
  <2>2. row = [cart EXCEPT !.items = [cart.items EXCEPT ![p] = n]]
    BY <2>1
  <2> QED BY <1>1, <1>2, <2>2, ItemsFacts
<1>4. CASE request[r].op = "remove"
  <2>1. PICK p \in Products : row = [cart EXCEPT !.items[p] = 0]
    BY <1>4 DEF Changed
  <2>2. row = [cart EXCEPT !.items = [cart.items EXCEPT ![p] = 0]]
    BY <2>1
  <2> QED BY <1>1, <1>2, <2>2, ItemsFacts
<1>5. CASE request[r].op = "clear"
  BY <1>2, <1>5, ItemsFacts DEF Changed
<1>6. CASE request[r].op = "delete"
  BY <1>6, ItemsFacts DEF Changed
<1> QED BY <1>3, <1>4, <1>5, <1>6 DEF Changed

\* The handlers keep the types.
LEMMA HandlerTypeStep ==
    ASSUME ServerOK, NEW r \in Requests, GetOrCreate(r) \/ Handle(r)
    PROVE ServerOK'
<1>0. CartOK /\ RequestsOK /\ CacheOK /\ CallsOK /\ request[r] \in Handler
  BY HandlerFields DEF ServerOK
<1>c. UNCHANGED <<cart, created>> => CartOK'
  BY <1>0 DEF CartOK
<1>d. UNCHANGED <<calls, shown>> => CallsOK'
  BY <1>0 DEF CallsOK
<1>1. ASSUME NEW op \in Ops, Begin(r, op) PROVE ServerOK'
  <2>1. [request[r] EXCEPT !.pc = "lookup", !.op = op] \in Handler
    BY <1>0, <1>1 DEF Handler
  <2>2. RequestsOK'
    BY <1>0, <1>1, <2>1, ProceedKeepsType DEF Begin
  <2>3. CallsOK'
    BY <1>0, <1>1, MaxCallsAssumption DEF Begin, CallsOK
  <2> QED BY <1>0, <1>1, <1>c, <2>2, <2>3, CacheSteps DEF Begin, cartVars, ServerOK
<1>2. CASE CacheHit(r)
  <2>1. shown' \in BOOLEAN
    BY <1>2 DEF CacheHit
  <2>2. CallsOK'
    BY <1>0, <1>2, <2>1, MaxCallsAssumption DEF CacheHit, CallsOK
  <2>3. RequestsOK'
    BY <1>0, <1>2 DEF CacheHit, RequestsOK
  <2> QED BY <1>0, <1>2, <1>c, <2>2, <2>3, CacheSteps DEF CacheHit, cartVars, ServerOK
<1>3. CASE LookUp(r)
  <2>1. cart.id \in 0..MaxCarts
    BY <1>0 DEF CartOK, CartRow
  <2>2. PICK pc \in {"creating", "deleting", "found"} :
          Proceed(r, [request[r] EXCEPT !.id = cart.id, !.pc = pc], FALSE)
    BY <1>3 DEF LookUp
  <2>3. [request[r] EXCEPT !.id = cart.id, !.pc = pc] \in Handler
    BY <1>0, <2>1 DEF Handler
  <2>4. RequestsOK'
    BY <1>0, <2>2, <2>3, ProceedKeepsType
  <2> QED BY <1>0, <1>3, <1>c, <1>d, <2>4, CacheSteps DEF LookUp, cartVars, callVars, ServerOK
<1>4. CASE HandlerFails(r) \/ RefillFails(r) \/ AbortAdd(r) \/ SkipNewCart(r) \/ AddFails(r)
  <2>1. Return(r, FALSE)
    BY <1>4 DEF HandlerFails, RefillFails, AbortAdd, SkipNewCart, AddFails
  <2>2. RequestsOK'
    BY <1>0, <2>1, ItemsFacts, ProceedKeepsType DEF Return
  <2> QED
    BY <1>0, <1>4, <1>c, <1>d, <2>2, CacheSteps
       DEF HandlerFails, RefillFails, AbortAdd, SkipNewCart, AddFails, cartVars, callVars,
           ServerOK
<1>5. CASE VerifyNewCart(r)
  <2>1. RequestsOK'
    BY <1>0, <1>5, HandlerFields, ProceedKeepsType DEF VerifyNewCart, Goto
  <2> QED BY <1>0, <1>5, <1>c, <1>d, <2>1, CacheSteps
          DEF VerifyNewCart, cartVars, callVars, ServerOK
<1>6. CASE DeleteExpired(r)
  <2>1. RequestsOK'
    BY <1>0, <1>6, HandlerFields, ProceedKeepsType DEF DeleteExpired
  <2>2. CartOK'
    BY <1>0, <1>6, ItemsFacts DEF DeleteExpired, SetCart, CartOK
  <2> QED BY <1>0, <1>6, <1>d, <2>1, <2>2, CacheSteps DEF DeleteExpired, callVars, ServerOK
<1>7. CASE ReplaceFails(r)
  <2>1. PICK row \in {cart, NoCart} : SetCart(row) /\ Return(r, row # cart)
    BY <1>7 DEF ReplaceFails
  <2>2. RequestsOK'
    BY <1>0, <2>1, ItemsFacts, ProceedKeepsType DEF Return
  <2>3. CartOK'
    BY <1>0, <1>7, <2>1, ItemsFacts DEF ReplaceFails, SetCart, CartOK
  <2> QED BY <1>0, <1>7, <1>d, <2>2, <2>3, CacheSteps DEF ReplaceFails, callVars, ServerOK
<1>8. CASE CreateCart(r) \/ CreateReplyLost(r)
  <2>1. CASE cart = NoCart
    <3>0. /\ created < MaxCarts /\ created' = created + 1
          /\ cart' = [NoCart EXCEPT !.id = created + 1]
      BY <1>8, <2>1 DEF CreateCart, CreateReplyLost, SetCart
    <3>1. created + 1 \in 0..MaxCarts
      BY <1>0, <3>0, MaxCartsAssumption DEF CartOK
    <3>2. CartOK'
      BY <3>0, <3>1, ItemsFacts DEF CartOK, CartRow
    <3>3. [request[r] EXCEPT !.pc = "created", !.id = created + 1] \in Handler
      BY <1>0, <3>1 DEF Handler
    <3>4. \/ Proceed(r, [request[r] EXCEPT !.pc = "created", !.id = created + 1], TRUE)
          \/ Return(r, TRUE)
      BY <1>8, <2>1 DEF CreateCart, CreateReplyLost
    <3>5. RequestsOK'
      BY <1>0, <3>3, <3>4, ItemsFacts, ProceedKeepsType DEF Return
    <3> QED BY <1>0, <1>8, <1>d, <3>2, <3>5, CacheSteps
            DEF CreateCart, CreateReplyLost, callVars, ServerOK
  <2>2. CASE cart # NoCart
    <3>1. Return(r, FALSE) /\ UNCHANGED <<cart, created>>
      BY <1>8, <2>2 DEF CreateCart, CreateReplyLost, cartVars
    <3>2. RequestsOK'
      BY <1>0, <3>1, ItemsFacts, ProceedKeepsType DEF Return
    <3> QED BY <1>0, <1>8, <1>c, <1>d, <3>1, <3>2, CacheSteps
            DEF CreateCart, CreateReplyLost, callVars, ServerOK
  <2> QED BY <2>1, <2>2
<1>9. CASE ReadCart(r)
  <2> DEFINE next == [request[r] EXCEPT
                        !.pc = "refilling",
                        !.items = IF cart.id = request[r].id THEN cart.items ELSE NoItems,
                        !.raced = cart.id # request[r].id]
  <2>1. next \in Handler
    BY <1>0, ItemsFacts DEF Handler, CartOK, CartRow
  <2>2. RequestsOK'
    BY <1>0, <1>9, <2>1, ProceedKeepsType DEF ReadCart
  <2>3. shown' \in BOOLEAN
    BY <1>9 DEF ReadCart
  <2>4. CallsOK'
    BY <1>0, <1>9, <2>3 DEF ReadCart, CallsOK
  <2> QED BY <1>0, <1>9, <1>c, <2>2, <2>4, CacheSteps DEF ReadCart, cartVars, ServerOK
<1>10. CASE RefillCache(r)
  <2>1. RequestsOK'
    BY <1>0, <1>10, ItemsFacts, ProceedKeepsType DEF RefillCache, Return
  <2>2. CacheOK'
    BY <1>0, <1>10 DEF RefillCache, CacheOK, Handler
  <2> QED BY <1>0, <1>10, <1>c, <1>d, <2>1, <2>2 DEF RefillCache, cartVars, callVars, ServerOK
<1>11. CASE ChangeCart(r) \/ ChangeReplyLost(r)
  <2>1. PICK row \in Changed(r), changed \in BOOLEAN :
          cart' = row /\ Return(r, changed) /\ UNCHANGED <<created, calls, shown>>
    BY <1>11 DEF ChangeCart, ChangeReplyLost, SetCart, callVars
  <2>2. RequestsOK'
    BY <1>0, <2>1, ItemsFacts, ProceedKeepsType DEF Return
  <2>3. CartOK'
    BY <1>0, <2>1, ChangedRows DEF CartOK
  <2> QED BY <1>0, <1>11, <1>d, <2>1, <2>2, <2>3, CacheSteps
          DEF ChangeCart, ChangeReplyLost, ServerOK
<1> QED
  BY <1>1, <1>2, <1>3, <1>4, <1>5, <1>6, <1>7, <1>8, <1>9, <1>10, <1>11
     DEF GetOrCreate, Handle

\* The consumer's steps, and the broker's, as steps of the queue.
LEMMA ConsumerStep ==
    ASSUME NEW w \in Workers, HandleOrder(w)
    PROVE ~Queue!At(w, "idle") /\ HandlerStep(w)
<1>1. ~Queue!At(w, "idle")
  BY DEF HandleOrder, SkipProcessed, PassCheck, ConsumerFails, DeleteOrderedCart,
         DeleteReplyLost, DuplicateRejected, AckOrder, Queue!At
<1>2. Queue!Ack(w) \/ Queue!NackRequeue(w) \/ \E pc \in Pcs : Queue!Advance(w, pc)
  BY DEF HandleOrder, SkipProcessed, PassCheck, ConsumerFails, DeleteOrderedCart,
         DeleteReplyLost, DuplicateRejected, AckOrder, Pcs
<1> QED BY <1>1, <1>2 DEF HandlerStep

\* What the broker, the connection and a restart do to the queue.
LEMMA BrokerStep ==
    ASSUME \/ \E o \in Orders : OrderArrives(o)
           \/ \E w \in Workers, o \in Orders : ReceiveOrder(w, o)
           \/ DropConnection \/ Crash
    PROVE BrokerMoves
<1>1. CASE Crash
  BY <1>1 DEF Crash, Restart, BrokerMoves
<1>2. CASE ~Crash
  BY <1>2 DEF OrderArrives, ReceiveOrder, DropConnection, BrokerMoves
<1> QED BY <1>1, <1>2

\* The handlers and the cache leave the consumer alone.
LEMMA ServerStep ==
    ASSUME \/ \E r \in Requests : GetOrCreate(r) \/ Handle(r)
           \/ DeleteCache \/ DeleteCacheFails \/ CacheExpires \/ CartExpires
    PROVE UNCHANGED consumerVars
BY DEF GetOrCreate, Handle, Begin, CacheHit, LookUp, HandlerFails, DeleteExpired,
       ReplaceFails, CreateCart, CreateReplyLost, ReadCart, RefillCache, RefillFails,
       AbortAdd, VerifyNewCart, SkipNewCart, AddFails, ChangeCart, ChangeReplyLost,
       DeleteCache, DeleteCacheFails, CacheExpires, CartExpires

\* Every step keeps the type of the queue.
LEMMA QueueTypeStep ==
    ASSUME QueueOK, [Next]_vars
    PROVE QueueOK'
<1>1. ASSUME NEW w \in Workers, HandleOrder(w) PROVE QueueOK'
  BY <1>1, ConsumerStep, HandlerKeepsType
<1>2. ASSUME \/ \E o \in Orders : OrderArrives(o)
             \/ \E w \in Workers, o \in Orders : ReceiveOrder(w, o)
             \/ DropConnection \/ Crash
      PROVE QueueOK'
  BY <1>2, BrokerStep, BrokerKeepsType
<1>3. ASSUME UNCHANGED consumerVars PROVE QueueOK'
  BY <1>3 DEF consumerVars, queueVars, QueueOK, Queue!QueueTypeOK
<1> QED BY <1>1, <1>2, <1>3, ServerStep DEF Next, vars

\* A transaction of the consumer that deletes the cart.
LEMMA CommitDeleteStep ==
    ASSUME NEW w \in Workers, DeleteOrderedCart(w) \/ DeleteReplyLost(w)
    PROVE /\ Queue!At(w, "deleting") /\ ~Queue!At(w, "idle")
          /\ CommitDelete(OrderOf(w))
          /\ Invalidate \/ NotInvalidated
BY DEF DeleteOrderedCart, DeleteReplyLost, Queue!At

\* What the consumer's other steps leave alone.
LEMMA ConsumerKeeps ==
    ASSUME NEW w \in Workers, HandleOrder(w), ~DeleteOrderedCart(w), ~DeleteReplyLost(w)
    PROVE UNCHANGED <<serverVars, delivered, processed, emptied>>
BY DEF HandleOrder, SkipProcessed, PassCheck, ConsumerFails, DuplicateRejected, AckOrder

\* The consumer keeps the types of the server's variables and of its own.
LEMMA ConsumerTypeStep ==
    ASSUME ServerOK, OrdersOK, QueueOK, NEW w \in Workers, HandleOrder(w)
    PROVE ServerOK' /\ OrdersOK'
<1>0. CartOK /\ RequestsOK /\ CacheOK /\ CallsOK
  BY DEF ServerOK
<1>1. CASE DeleteOrderedCart(w) \/ DeleteReplyLost(w)
  <2>1. OrderOf(w) \in Orders /\ CommitDelete(OrderOf(w)) /\ (Invalidate \/ NotInvalidated)
    BY <1>1, CommitDeleteStep, BusyDelivery DEF OrderOf
  <2>2. CacheOK'
    BY <1>0, <2>1, CacheSteps
  <2>3. CartOK'
    BY <1>0, <2>1, ItemsFacts DEF CommitDelete, SetCart, CartOK
  <2>4. CallsOK'
    BY <1>0, <2>1 DEF CommitDelete, callVars, CallsOK
  <2>5. RequestsOK'
    <3>1. ASSUME NEW q \in Requests PROVE request'[q] \in Handler
      <4>1. request[q] \in Handler
        BY <1>0, HandlerFields
      <4>2. [request[q] EXCEPT !.raced = TRUE] \in Handler
        BY <4>1 DEF Handler
      <4> QED BY <2>1, <4>1, <4>2 DEF CommitDelete
    <3> QED BY <2>1, <3>1 DEF CommitDelete, RequestsOK
  <2>6. processed' \in [Orders -> BOOLEAN]
    BY <2>1 DEF CommitDelete, InsertProcessed, OrdersOK
  <2>7. emptied' \in [Orders -> Nat] /\ delivered' = delivered
    BY <2>1 DEF CommitDelete, OrdersOK
  <2> QED BY <2>2, <2>3, <2>4, <2>5, <2>6, <2>7 DEF ServerOK, OrdersOK
<1>2. CASE ~(DeleteOrderedCart(w) \/ DeleteReplyLost(w))
  <2>1. UNCHANGED <<serverVars, delivered, processed, emptied>>
    BY <1>2, ConsumerKeeps
  <2> QED BY <1>0, <2>1 DEF serverVars, cartVars, callVars, cacheVars, CartOK, RequestsOK,
                            CacheOK, CallsOK, ServerOK, OrdersOK
<1> QED BY <1>1, <1>2

\* Redis, time and a crash keep the types.
LEMMA SurroundingsTypeStep ==
    ASSUME ServerOK, DeleteCache \/ DeleteCacheFails \/ CacheExpires \/ CartExpires \/ Crash
    PROVE ServerOK'
<1>0. CartOK /\ RequestsOK /\ CacheOK /\ CallsOK
  BY DEF ServerOK
<1>1. CASE DeleteCache \/ CacheExpires
  <2>0. missed' \in BOOLEAN
    BY <1>1 DEF DeleteCache, CacheExpires
  <2>1. CacheOK'
    BY <1>0, <1>1, <2>0, ItemsFacts DEF DeleteCache, CacheExpires, CacheOK
  <2> QED BY <1>0, <1>1, <2>1 DEF DeleteCache, CacheExpires, cartVars, callVars, CartOK,
                                  RequestsOK, CallsOK, ServerOK
<1>2. CASE DeleteCacheFails
  <2>1. missed' \in BOOLEAN
    BY <1>2 DEF DeleteCacheFails
  <2>2. CacheOK'
    BY <1>0, <1>2, <2>1 DEF DeleteCacheFails, CacheOK
  <2> QED BY <1>0, <1>2, <2>2 DEF DeleteCacheFails, cartVars, callVars, CartOK, RequestsOK,
                                  CallsOK, ServerOK
<1>3. CASE CartExpires
  <2>1. CartOK'
    BY <1>0, <1>3 DEF CartExpires, CartOK, CartRow
  <2> QED BY <1>0, <1>3, <2>1 DEF CartExpires, callVars, cacheVars, RequestsOK, CacheOK,
                                  CallsOK, ServerOK
<1>4. CASE Crash
  <2>1. missed' \in BOOLEAN
    BY <1>4 DEF Crash
  <2>2. CacheOK'
    BY <1>0, <1>4, <2>1 DEF Crash, CacheOK
  <2>3. RequestsOK'
    BY <1>4, ItemsFacts DEF Crash, RequestsOK
  <2> QED BY <1>0, <1>4, <2>2, <2>3 DEF Crash, cartVars, callVars, CartOK, CallsOK, ServerOK
<1> QED BY <1>1, <1>2, <1>3, <1>4

\* Every variable keeps its type.
THEOREM TypeCorrect == Spec => []TypeOK
<1>1. Init => TypeOK
  <2> SUFFICES ASSUME Init PROVE TypeOK
    OBVIOUS
  <2>0. shown \in BOOLEAN
    BY DEF Init
  <2>1. CartOK /\ CallsOK
    BY <2>0, ItemsFacts, MaxCartsAssumption, MaxCallsAssumption DEF Init, CartOK, CallsOK
  <2>2. RequestsOK /\ CacheOK
    BY ItemsFacts DEF Init, RequestsOK, CacheOK
  <2>3. OrdersOK
    BY MaxCopiesAssumption DEF Init, OrdersOK
  <2>4. QueueOK
    BY DEF Init, Queue!QueueInit, Queue!Idle, QueueOK, Queue!QueueTypeOK
  <2> QED BY <2>1, <2>2, <2>3, <2>4, TypeParts
<1>2. TypeOK /\ [Next]_vars => TypeOK'
  <2> SUFFICES ASSUME TypeOK, [Next]_vars PROVE ServerOK' /\ OrdersOK'
    BY TypeParts, QueueTypeStep DEF ServerOK
  <2>0. ServerOK /\ OrdersOK /\ QueueOK
    BY TypeParts DEF ServerOK
  <2>s. UNCHANGED serverVars => ServerOK'
    BY <2>0 DEF serverVars, cartVars, callVars, cacheVars, CartOK, RequestsOK, CacheOK,
                CallsOK, ServerOK
  <2>o. UNCHANGED <<delivered, processed, emptied>> => OrdersOK'
    BY <2>0 DEF OrdersOK
  <2>1. ASSUME NEW r \in Requests, GetOrCreate(r) \/ Handle(r) PROVE ServerOK' /\ OrdersOK'
    BY <2>0, <2>1, <2>o, HandlerTypeStep, ServerStep DEF consumerVars
  <2>2. CASE DeleteCache \/ DeleteCacheFails \/ CacheExpires \/ CartExpires
    BY <2>0, <2>2, <2>o, SurroundingsTypeStep, ServerStep DEF consumerVars
  <2>3. ASSUME NEW o \in Orders, OrderArrives(o) PROVE ServerOK' /\ OrdersOK'
    <3>1. delivered' \in [Orders -> 0..MaxCopies] /\ UNCHANGED <<processed, emptied>>
      BY <2>0, <2>3, MaxCopiesAssumption DEF OrderArrives, OrdersOK
    <3> QED BY <2>0, <2>3, <2>s, <3>1 DEF OrderArrives, OrdersOK
  <2>4. ASSUME NEW w \in Workers, HandleOrder(w) PROVE ServerOK' /\ OrdersOK'
    BY <2>0, <2>4, ConsumerTypeStep
  <2>5. CASE Crash
    BY <2>0, <2>5, <2>o, SurroundingsTypeStep DEF Crash
  <2>6. ASSUME UNCHANGED <<serverVars, delivered, processed, emptied>>
        PROVE ServerOK' /\ OrdersOK'
    BY <2>6, <2>s, <2>o
  <2> QED
    BY <2>1, <2>2, <2>3, <2>4, <2>5, <2>6
       DEF Next, ReceiveOrder, DropConnection, vars, consumerVars
<1> QED BY <1>1, <1>2, PTL DEF Spec

-----------------------------------------------------------------------------

\* The newest cart is the only one there can be.
Rows ==
    /\ cart.id = 0 => cart = NoCart
    /\ cart.id # 0 => cart.id = created

\* What a handler knows of the cart it has read.
Knows(r) ==
    /\ request[r].pc \in {"deleting", "found", "created", "refilling"}
         => request[r].id \in 1..created
    /\ request[r].pc = "deleting" /\ cart.id = request[r].id => cart.expired
    /\ request[r].pc = "refilling"
         /\ (request[r].id # cart.id \/ request[r].items # cart.items) => request[r].raced

\* A copy is of a cart there has been.
Copied == cache = NoEntry \/ cache.id \in 1..created

\* The ways a step changes the cart.
CartStep ==
    \/ /\ created' = created /\ cart'.id = cart.id
       /\ cart.id = 0 => cart' = NoCart
       /\ cart.expired => cart'.expired
    \/ created' = created /\ cart' = NoCart
    \/ /\ cart = NoCart /\ created' = created + 1
       /\ cart' = [NoCart EXCEPT !.id = created + 1]

\* Handler q does not move, but is marked if its refill has been overtaken.
Stays(q) ==
    /\ request'[q].pc = request[q].pc
    /\ request'[q].id = request[q].id
    /\ request'[q].items = request[q].items
    /\ request[q].raced => request'[q].raced
    /\ request[q].pc = "refilling" /\ (cart'.id # cart.id \/ cart'.items # cart.items)
         => request'[q].raced

\* A handler's step leaves the other handlers where they are.
LEMMA OthersStay ==
    ASSUME RequestsOK, NEW r \in Requests, NEW next, NEW changed, Proceed(r, next, changed),
           changed \/ cart' = cart, NEW q \in Requests, q # r
    PROVE Stays(q)
<1>1. request[q] \in Handler
  BY HandlerFields
<1>2. request'[q] = IF changed /\ request[q].pc = "refilling"
                    THEN [request[q] EXCEPT !.raced = TRUE] ELSE request[q]
  BY ProceedMoves
<1> QED BY <1>1, <1>2 DEF Handler, Stays

\* However the cart changes, only the newest one can be there.
LEMMA RowsStep ==
    ASSUME CartOK, Rows, CartStep
    PROVE Rows' /\ created' >= created
BY DEF CartOK, CartRow, Rows, CartStep, NoCart

\* What a handler knows outlives the steps of the others.
LEMMA StaysKnows ==
    ASSUME CartOK, RequestsOK, Rows, CartStep, NEW q \in Requests, Knows(q), Stays(q)
    PROVE Knows(q)'
<1>0. request[q] \in Handler
  BY HandlerFields
<1>1. request[q].id \in Nat /\ created \in Nat /\ cart.id \in Nat
  BY <1>0, MaxCartsAssumption DEF CartOK, CartRow, Handler
<1>2. request[q].pc \in {"deleting", "found", "created", "refilling"}
        => request'[q].id \in 1..created'
  BY <1>1, RowsStep DEF Knows, Stays, CartStep
<1>3. request[q].pc = "deleting" /\ cart'.id = request[q].id => cart'.expired
  BY <1>1 DEF Knows, CartStep, NoCart
<1>4. request[q].pc = "refilling"
        /\ (request'[q].id # cart'.id \/ request'[q].items # cart'.items) => request'[q].raced
  BY DEF Knows, Stays
<1> QED BY <1>2, <1>3, <1>4 DEF Knows, Stays

\* A change by a handler is one of the cart it found, or of whatever the user has.
LEMMA ChangedStep ==
    ASSUME CartOK, Rows, NEW r \in Requests, NEW row \in Changed(r), CartIsThere(r),
           request[r].id # 0, cart' = row, created' = created
    PROVE CartStep
<1>1. cart \in CartRow
  BY DEF CartOK
<1>2. CASE request[r].op = "add"
  BY <1>1, <1>2 DEF Changed, CartIsThere, CartStep, CartRow
<1>3. CASE request[r].op = "remove"
  <2>1. PICK p \in Products : cart' = [cart EXCEPT !.items[p] = 0]
    BY <1>3 DEF Changed
  <2>2. cart'.id = cart.id /\ cart'.expired = cart.expired
    BY <1>1, <2>1 DEF CartRow
  <2>3. ASSUME cart = NoCart PROVE cart' = NoCart
    <3>1. [NoItems EXCEPT ![p] = 0] = NoItems
      BY DEF NoItems
    <3> QED BY <2>1, <2>3, <3>1 DEF NoCart
  <2> QED BY <2>2, <2>3 DEF CartStep, Rows
<1>4. CASE request[r].op = "clear"
  <2>1. cart' = [cart EXCEPT !.items = NoItems]
    BY <1>4 DEF Changed
  <2>2. cart'.id = cart.id /\ cart'.expired = cart.expired
    BY <1>1, <2>1 DEF CartRow
  <2>3. ASSUME cart = NoCart PROVE cart' = NoCart
    BY <2>1, <2>3 DEF NoCart
  <2> QED BY <2>2, <2>3 DEF CartStep, Rows
<1>5. CASE request[r].op = "delete"
  BY <1>5 DEF Changed, CartStep
<1> QED BY <1>2, <1>3, <1>4, <1>5 DEF Changed

\* A handler that has returned knows nothing.
LEMMA ReturnKnows ==
    ASSUME RequestsOK, NEW r \in Requests, NEW changed, Return(r, changed)
    PROVE Knows(r)' /\ request'[r].pc = "idle"
<1>1. request'[r] = Fresh
  BY ProceedMoves DEF Return
<1> QED BY <1>1 DEF Fresh, Knows

\* A copy that is not of the cart in the table.
Stale == cache # NoEntry /\ (cache.id # cart.id \/ cache.items # cart.items)

\* What a handler does about the copy.
CopyMove(r) ==
    \/ Invalidate
    \/ NotInvalidated
    \/ RefillCache(r)
    \/ UNCHANGED cacheVars /\ request'[r].pc = "recreating"
    \/ UNCHANGED cacheVars /\ request[r].pc # "recreating" /\ (Stale' => Stale)

HandlerMove(r) ==
    /\ CartStep
    /\ \A q \in Requests \ {r} : Stays(q)
    /\ Knows(r)'
    /\ CopyMove(r)

\* A handler that only reads changes neither the cart nor the copy.
LEMMA ReadMove ==
    ASSUME ServerOK, Rows, NEW r \in Requests, NEW next, Proceed(r, next, FALSE),
           UNCHANGED <<cart, created>>, UNCHANGED cacheVars, request[r].pc # "recreating",
           Knows(r)'
    PROVE HandlerMove(r)
<1>1. \A q \in Requests \ {r} : Stays(q)
  BY OthersStay DEF ServerOK
<1>2. CartStep
  BY DEF CartStep, Rows
<1>3. Stale' => Stale
  BY DEF Stale, cacheVars
<1> QED BY <1>1, <1>2, <1>3 DEF HandlerMove, CopyMove

\* GetCartByUserID tells the handler which cart there is.
LEMMA LookUpMoves ==
    ASSUME ServerOK, Rows, NEW r \in Requests, LookUp(r)
    PROVE HandlerMove(r)
<1>0. RequestsOK /\ CartOK /\ request[r] \in Handler
  BY HandlerFields DEF ServerOK
<1>1. PICK pc \in {"creating", "deleting", "found"} :
        /\ Proceed(r, [request[r] EXCEPT !.id = cart.id, !.pc = pc], FALSE)
        /\ pc # "creating" => cart # NoCart
        /\ pc = "deleting" => cart.expired
  BY DEF LookUp, IsExpired
<1>2. request'[r] = [request[r] EXCEPT !.id = cart.id, !.pc = pc]
  BY <1>0, <1>1, ProceedMoves
<1>3. request'[r].pc = pc /\ request'[r].id = cart.id
  BY <1>0, <1>2 DEF Handler
<1>4. cart # NoCart => cart.id \in 1..created
  BY <1>0, MaxCartsAssumption DEF Rows, CartOK, CartRow
<1>5. UNCHANGED <<cart, created>> /\ UNCHANGED cacheVars /\ request[r].pc # "recreating"
  BY DEF LookUp, cartVars, At
<1>6. Knows(r)'
  BY <1>1, <1>3, <1>4, <1>5 DEF Knows
<1> QED BY <1>1, <1>5, <1>6, ReadMove

\* What ReadCart takes along is the cart, or is marked.
LEMMA ReadCartMoves ==
    ASSUME ServerOK, Rows, NEW r \in Requests, Knows(r), ReadCart(r)
    PROVE HandlerMove(r)
<1> DEFINE next == [request[r] EXCEPT
                      !.pc = "refilling",
                      !.items = IF cart.id = request[r].id THEN cart.items ELSE NoItems,
                      !.raced = cart.id # request[r].id]
<1>0. RequestsOK /\ CartOK /\ request[r] \in Handler
  BY HandlerFields DEF ServerOK
<1>1. Proceed(r, next, FALSE) /\ request[r].pc \in {"found", "created"}
  BY DEF ReadCart
<1>2. request'[r] = next
  BY <1>0, <1>1, ProceedMoves
<1>3. /\ request'[r].pc = "refilling" /\ request'[r].id = request[r].id
      /\ request'[r].raced = (cart.id # request[r].id)
      /\ cart.id = request[r].id => request'[r].items = cart.items
  BY <1>0, <1>2 DEF Handler
<1>5. UNCHANGED <<cart, created>> /\ UNCHANGED cacheVars /\ request[r].pc # "recreating"
  BY <1>1 DEF ReadCart, cartVars
<1>6. Knows(r)'
  BY <1>1, <1>3, <1>5 DEF Knows
<1> QED BY <1>1, <1>5, <1>6, ReadMove

\* A handler that creates a cart knows the newest; one that fails knows nothing.
LEMMA CreateMoves ==
    ASSUME ServerOK, Rows, Copied, NEW r \in Requests, CreateCart(r) \/ CreateReplyLost(r)
    PROVE HandlerMove(r)
<1>0. RequestsOK /\ CartOK /\ request[r] \in Handler
  BY HandlerFields DEF ServerOK
<1>1. CASE cart = NoCart
  <2>0. /\ created' = created + 1 /\ cart' = [NoCart EXCEPT !.id = created + 1]
        /\ \/ Proceed(r, [request[r] EXCEPT !.pc = "created", !.id = created + 1], TRUE)
           \/ Return(r, TRUE)
        /\ IF At(r, "recreating") THEN Invalidate ELSE UNCHANGED cacheVars
    BY <1>1 DEF CreateCart, CreateReplyLost, SetCart
  <2>1. CartStep
    BY <1>1, <2>0 DEF CartStep
  <2>2. \A q \in Requests \ {r} : Stays(q)
    BY <1>0, <2>0, OthersStay DEF Return
  <2>3. ASSUME Return(r, TRUE) PROVE Knows(r)'
    BY <1>0, <2>3, ReturnKnows
  <2>4. ASSUME Proceed(r, [request[r] EXCEPT !.pc = "created", !.id = created + 1], TRUE)
        PROVE  Knows(r)'
    <3>1. request'[r] = [request[r] EXCEPT !.pc = "created", !.id = created + 1]
      BY <1>0, <2>4, ProceedMoves
    <3>2. request'[r].pc = "created" /\ request'[r].id = created'
      BY <1>0, <2>0, <3>1 DEF Handler
    <3>3. created' \in 1..created'
      BY <1>0, <2>0, MaxCartsAssumption DEF CartOK
    <3> QED BY <3>2, <3>3 DEF Knows
  <2>5. cache # NoEntry => cache.id # cart.id
    BY <1>1, MaxCartsAssumption DEF Copied, NoCart
  <2>6. UNCHANGED cacheVars => (Stale' => Stale)
    BY <2>5 DEF Stale, cacheVars
  <2>7. CopyMove(r)
    BY <2>0, <2>6 DEF CopyMove, At
  <2> QED BY <2>0, <2>1, <2>2, <2>3, <2>4, <2>7 DEF HandlerMove
<1>2. CASE cart # NoCart
  <2>0. /\ Return(r, FALSE) /\ UNCHANGED <<cart, created>>
        /\ IF At(r, "recreating") THEN Invalidate ELSE UNCHANGED cacheVars
    BY <1>2 DEF CreateCart, CreateReplyLost, cartVars
  <2>1. CartStep
    BY <2>0 DEF CartStep, Rows
  <2>2. \A q \in Requests \ {r} : Stays(q)
    BY <1>0, <2>0, OthersStay DEF Return
  <2>3. Knows(r)'
    BY <1>0, <2>0, ReturnKnows
  <2>4. UNCHANGED cacheVars => (Stale' => Stale)
    BY <2>0 DEF Stale, cacheVars
  <2>5. CopyMove(r)
    BY <2>0, <2>4 DEF CopyMove, At
  <2> QED BY <2>1, <2>2, <2>3, <2>5 DEF HandlerMove
<1> QED BY <1>1, <1>2

\* The copy of a deleted cart is owed its deletion while the handler recreates.
LEMMA DeleteExpiredMoves ==
    ASSUME ServerOK, Rows, NEW r \in Requests, DeleteExpired(r)
    PROVE HandlerMove(r)
<1>0. RequestsOK /\ request[r] \in Handler
  BY HandlerFields DEF ServerOK
<1>1. /\ cart' = NoCart /\ created' = created /\ UNCHANGED cacheVars
      /\ Proceed(r, [request[r] EXCEPT !.pc = "recreating"], cart # NoCart)
  BY DEF DeleteExpired, SetCart
<1>2. request'[r] = [request[r] EXCEPT !.pc = "recreating"]
  BY <1>0, <1>1, ProceedMoves
<1>3. request'[r].pc = "recreating"
  BY <1>0, <1>2 DEF Handler
<1>4. \A q \in Requests \ {r} : Stays(q)
  BY <1>0, <1>1, OthersStay
<1> QED BY <1>1, <1>3, <1>4 DEF HandlerMove, CartStep, Knows, CopyMove

\* Whether or not the deletion was executed, the copy is deleted.
LEMMA ReplaceFailsMoves ==
    ASSUME ServerOK, Rows, NEW r \in Requests, ReplaceFails(r)
    PROVE HandlerMove(r)
<1>0. RequestsOK /\ request[r] \in Handler
  BY HandlerFields DEF ServerOK
<1>1. PICK row \in {cart, NoCart} : cart' = row /\ Return(r, row # cart)
  BY DEF ReplaceFails, SetCart
<1>2. created' = created /\ Invalidate
  BY DEF ReplaceFails
<1>3. \A q \in Requests \ {r} : Stays(q)
  BY <1>0, <1>1, OthersStay DEF Return
<1>4. Knows(r)'
  BY <1>0, <1>1, ReturnKnows
<1>5. CartStep
  BY <1>1, <1>2 DEF CartStep, Rows
<1> QED BY <1>2, <1>3, <1>4, <1>5 DEF HandlerMove, CopyMove

\* A change of the cart is followed by a deletion, or recorded as missed.
LEMMA ChangeMoves ==
    ASSUME ServerOK, Rows, NEW r \in Requests, Knows(r), ChangeCart(r) \/ ChangeReplyLost(r)
    PROVE HandlerMove(r)
<1>0. RequestsOK /\ CartOK /\ request[r] \in Handler
  BY HandlerFields DEF ServerOK
<1>1. PICK row \in Changed(r), changed \in BOOLEAN :
        cart' = row /\ Return(r, changed) /\ (changed \/ cart' = cart)
  BY DEF ChangeCart, ChangeReplyLost, SetCart
<1>2. /\ created' = created /\ CartIsThere(r) /\ request[r].pc = "found"
      /\ Invalidate \/ NotInvalidated
  BY DEF ChangeCart, ChangeReplyLost, At
<1>3. request[r].id # 0
  BY <1>0, <1>2, MaxCartsAssumption DEF Knows, CartOK
<1>4. CartStep
  BY <1>0, <1>1, <1>2, <1>3, ChangedStep
<1>5. \A q \in Requests \ {r} : Stays(q)
  BY <1>0, <1>1, OthersStay DEF Return
<1>6. Knows(r)'
  BY <1>0, <1>1, ReturnKnows
<1> QED BY <1>2, <1>4, <1>5, <1>6 DEF HandlerMove, CopyMove

\* Every step of a handler, except a response out of the cache, which changes nothing.
LEMMA HandlerMoves ==
    ASSUME ServerOK, Rows, Copied, NEW r \in Requests, Knows(r), GetOrCreate(r) \/ Handle(r),
           ~CacheHit(r)
    PROVE HandlerMove(r)
<1>0. RequestsOK /\ CartOK /\ request[r] \in Handler
  BY HandlerFields DEF ServerOK
<1>1. ASSUME NEW op \in Ops, Begin(r, op) PROVE HandlerMove(r)
  <2>1. /\ Proceed(r, [request[r] EXCEPT !.pc = "lookup", !.op = op], FALSE)
        /\ UNCHANGED <<cart, created>> /\ UNCHANGED cacheVars /\ request[r].pc # "recreating"
    BY <1>1 DEF Begin, cartVars, At
  <2>2. request'[r] = [request[r] EXCEPT !.pc = "lookup", !.op = op]
    BY <1>0, <2>1, ProceedMoves
  <2>3. request'[r].pc = "lookup"
    BY <1>0, <2>2 DEF Handler
  <2> QED BY <2>1, <2>3, ReadMove DEF Knows
<1>2. CASE HandlerFails(r) \/ RefillFails(r) \/ AbortAdd(r) \/ SkipNewCart(r) \/ AddFails(r)
  <2>1. /\ Return(r, FALSE) /\ UNCHANGED <<cart, created>> /\ UNCHANGED cacheVars
        /\ request[r].pc # "recreating"
    BY <1>2 DEF HandlerFails, RefillFails, AbortAdd, SkipNewCart, AddFails, cartVars, At
  <2> QED BY <1>0, <2>1, ReturnKnows, ReadMove DEF Return
<1>3. CASE VerifyNewCart(r)
  <2>1. /\ Proceed(r, [request[r] EXCEPT !.pc = "found"], FALSE)
        /\ UNCHANGED <<cart, created>> /\ UNCHANGED cacheVars /\ request[r].pc = "created"
    BY <1>3 DEF VerifyNewCart, Goto, cartVars, At
  <2>2. request'[r] = [request[r] EXCEPT !.pc = "found"]
    BY <1>0, <2>1, ProceedMoves
  <2>3. request'[r].pc = "found" /\ request'[r].id = request[r].id
    BY <1>0, <2>2 DEF Handler
  <2> QED BY <2>1, <2>3, ReadMove DEF Knows
<1>4. CASE RefillCache(r)
  <2>1. Return(r, FALSE) /\ UNCHANGED <<cart, created>>
    BY <1>4 DEF RefillCache, cartVars
  <2>2. Knows(r)' /\ \A q \in Requests \ {r} : Stays(q)
    BY <1>0, <2>1, ReturnKnows, OthersStay DEF Return
  <2> QED BY <1>4, <2>1, <2>2 DEF HandlerMove, CopyMove, CartStep, Rows
<1> QED
  BY <1>1, <1>2, <1>3, <1>4, LookUpMoves, ReadCartMoves, CreateMoves, DeleteExpiredMoves,
     ReplaceFailsMoves, ChangeMoves
     DEF GetOrCreate, Handle

-----------------------------------------------------------------------------

CartInv ==
    /\ Rows
    /\ \A r \in Requests : Knows(r)
    /\ Copied
    /\ StaleCacheIsExplained

Explained == OwesDeletion \/ cache.raced \/ missed

\* StaleCacheIsExplained in the words used here.
LEMMA Explanation == (StaleCacheIsExplained <=> (Stale => Explained))
                     /\ (StaleCacheIsExplained' <=> (Stale' => Explained'))
BY DEF StaleCacheIsExplained, Stale, Explained

\* A change that is followed by a deletion, or recorded as missed, is explained.
LEMMA DutyKept ==
    ASSUME CacheOK, CartOK, Copied, created' \in Nat, created' >= created,
           Invalidate \/ NotInvalidated
    PROVE StaleCacheIsExplained' /\ Copied'
<1>0. created \in Nat
  BY MaxCartsAssumption DEF CartOK
<1>1. cache' = cache
  BY DEF Invalidate, NotInvalidated
<1>2. Copied'
  BY <1>0, <1>1 DEF Copied, NoEntry
<1>3. CASE Invalidate
  <2>1. deletions' > 0
    BY <1>3 DEF Invalidate, CacheOK
  <2> QED BY <1>2, <2>1, Explanation DEF Explained, OwesDeletion
<1>4. CASE NotInvalidated
  <2>1. cache' # NoEntry => missed'
    BY <1>1, <1>4 DEF NotInvalidated
  <2> QED BY <1>2, <2>1, Explanation DEF Explained, Stale, NoEntry
<1> QED BY <1>3, <1>4

\* When the copy stays, whoever owed its deletion still does.
LEMMA CopyKept ==
    ASSUME CartOK, Copied, StaleCacheIsExplained, UNCHANGED cacheVars,
           created' \in Nat, created' >= created, Stale' => Stale,
           \A q \in Requests : At(q, "recreating") => At(q, "recreating")'
    PROVE StaleCacheIsExplained' /\ Copied'
<1>0. created \in Nat
  BY MaxCartsAssumption DEF CartOK
<1>1. Copied'
  BY <1>0 DEF Copied, cacheVars, NoEntry
<1>2. Explained => Explained'
  BY DEF Explained, OwesDeletion, cacheVars
<1> QED BY <1>1, <1>2, Explanation

\* The handlers keep the invariant.
LEMMA HandlerInvStep ==
    ASSUME ServerOK, CartInv, NEW r \in Requests, GetOrCreate(r) \/ Handle(r), ServerOK'
    PROVE CartInv'
<1>0. /\ CartOK /\ RequestsOK /\ CacheOK /\ CartOK' /\ Rows /\ Copied
      /\ StaleCacheIsExplained /\ \A q \in Requests : Knows(q)
  BY DEF ServerOK, CartInv
<1>1. CASE CacheHit(r)
  <2>1. UNCHANGED <<cart, created, request, cache, deletions, missed>>
    BY <1>1 DEF CacheHit, cartVars, cacheVars
  <2>2. Rows' /\ Copied' /\ \A q \in Requests : Knows(q)'
    BY <1>0, <2>1 DEF Rows, Copied, Knows
  <2>3. StaleCacheIsExplained'
    BY <1>0, <2>1 DEF StaleCacheIsExplained, OwesDeletion, At
  <2> QED BY <2>2, <2>3 DEF CartInv
<1>2. CASE ~CacheHit(r)
  <2>1. CartStep /\ (\A q \in Requests \ {r} : Stays(q)) /\ Knows(r)' /\ CopyMove(r)
    BY <1>0, <1>2, HandlerMoves DEF HandlerMove
  <2>2. Rows' /\ created' >= created /\ created' \in Nat
    BY <1>0, <2>1, RowsStep, MaxCartsAssumption DEF CartOK
  <2>3. \A q \in Requests : Knows(q)'
    BY <1>0, <2>1, StaysKnows
  <2>4. StaleCacheIsExplained' /\ Copied'
    <3>1. CASE Invalidate \/ NotInvalidated
      BY <1>0, <2>2, <3>1, DutyKept
    <3>2. CASE RefillCache(r)
      <4>1. /\ cache' = [id |-> request[r].id, items |-> request[r].items,
                         raced |-> request[r].raced]
            /\ request[r].pc = "refilling" /\ UNCHANGED <<cart, created>>
        BY <3>2 DEF RefillCache, At, cartVars
      <4>2. request[r].id \in 1..created
        BY <1>0, <4>1 DEF Knows
      <4>3. /\ cache'.id = request[r].id /\ cache'.items = request[r].items
            /\ cache'.raced = request[r].raced
        BY <4>1
      <4>4. Stale' => cache'.raced
        BY <1>0, <4>1, <4>3 DEF Stale, Knows
      <4>5. Copied'
        BY <4>1, <4>2, <4>3 DEF Copied
      <4> QED BY <4>4, <4>5, Explanation DEF Explained
    <3>3. CASE UNCHANGED cacheVars /\ request'[r].pc = "recreating"
      <4>1. Copied'
        BY <1>0, <2>2, <3>3, MaxCartsAssumption DEF Copied, cacheVars, CartOK
      <4>2. Explained'
        BY <3>3 DEF Explained, OwesDeletion, At
      <4> QED BY <4>1, <4>2, Explanation
    <3>4. CASE UNCHANGED cacheVars /\ request[r].pc # "recreating" /\ (Stale' => Stale)
      <4>1. \A q \in Requests : At(q, "recreating") => At(q, "recreating")'
        BY <2>1, <3>4 DEF At, Stays
      <4> QED BY <1>0, <2>2, <3>4, <4>1, CopyKept
    <3> QED BY <2>1, <3>1, <3>2, <3>3, <3>4 DEF CopyMove
  <2> QED BY <2>2, <2>3, <2>4 DEF CartInv
<1> QED BY <1>1, <1>2

\* The consumer keeps the invariant when it throws the cart away.
LEMMA CommitInvStep ==
    ASSUME ServerOK, CartInv, ServerOK', NEW o \in Orders, CommitDelete(o),
           Invalidate \/ NotInvalidated
    PROVE CartInv'
<1>0. /\ CartOK /\ RequestsOK /\ CacheOK /\ CartOK' /\ Rows /\ Copied
      /\ \A q \in Requests : Knows(q)
  BY DEF ServerOK, CartInv
<1>1. cart' = NoCart /\ created' = created
  BY DEF CommitDelete, SetCart
<1>2. CartStep
  BY <1>1 DEF CartStep
<1>3. Rows' /\ created' >= created /\ created' \in Nat
  BY <1>0, <1>2, RowsStep, MaxCartsAssumption DEF CartOK
<1>4. ASSUME NEW q \in Requests PROVE Stays(q)
  <2>1. request[q] \in Handler
    BY <1>0, HandlerFields
  <2>2. request'[q] = IF cart # NoCart /\ request[q].pc = "refilling"
                      THEN [request[q] EXCEPT !.raced = TRUE] ELSE request[q]
    BY DEF CommitDelete, Refilling, At
  <2> QED BY <1>1, <2>1, <2>2 DEF Handler, Stays
<1>5. \A q \in Requests : Knows(q)'
  BY <1>0, <1>2, <1>4, StaysKnows
<1>6. StaleCacheIsExplained' /\ Copied'
  BY <1>0, <1>3, DutyKept
<1> QED BY <1>3, <1>5, <1>6 DEF CartInv

\* Redis, time and a crash keep the invariant.
LEMMA SurroundingsInvStep ==
    ASSUME ServerOK, CartInv, ServerOK',
           DeleteCache \/ DeleteCacheFails \/ CacheExpires \/ CartExpires \/ Crash
    PROVE CartInv'
<1>0. /\ CartOK /\ RequestsOK /\ CacheOK /\ CartOK' /\ Rows /\ Copied
      /\ StaleCacheIsExplained /\ \A q \in Requests : Knows(q)
  BY DEF ServerOK, CartInv
<1>1. CASE DeleteCache \/ CacheExpires
  <2>1. UNCHANGED <<cart, created, request>> /\ cache' = NoEntry
    BY <1>1 DEF DeleteCache, CacheExpires, cartVars
  <2>2. Rows' /\ Copied' /\ \A q \in Requests : Knows(q)'
    BY <1>0, <2>1 DEF Rows, Copied, Knows
  <2>3. StaleCacheIsExplained'
    BY <2>1 DEF StaleCacheIsExplained, NoEntry
  <2> QED BY <2>2, <2>3 DEF CartInv
<1>2. CASE DeleteCacheFails
  <2>1. /\ UNCHANGED <<cart, created, request, cache>>
        /\ cache # NoEntry => missed'
    BY <1>2 DEF DeleteCacheFails, cartVars
  <2>2. Rows' /\ Copied' /\ \A q \in Requests : Knows(q)'
    BY <1>0, <2>1 DEF Rows, Copied, Knows
  <2>3. StaleCacheIsExplained'
    BY <2>1 DEF StaleCacheIsExplained, NoEntry
  <2> QED BY <2>2, <2>3 DEF CartInv
<1>3. CASE CartExpires
  <2>1. /\ cart' = [cart EXCEPT !.expired = TRUE] /\ cart # NoCart /\ created' = created
        /\ request' = request /\ UNCHANGED cacheVars
    BY <1>3 DEF CartExpires
  <2>2. cart'.id = cart.id /\ cart'.items = cart.items /\ cart'.expired
    BY <1>0, <2>1 DEF CartOK, CartRow
  <2>3. CartStep
    BY <1>0, <2>1, <2>2 DEF CartStep, Rows
  <2>4. Rows' /\ created' >= created /\ created' \in Nat
    BY <1>0, <2>3, RowsStep, MaxCartsAssumption DEF CartOK
  <2>5. \A q \in Requests : Stays(q)
    BY <2>1, <2>2 DEF Stays
  <2>6. \A q \in Requests : Knows(q)'
    BY <1>0, <2>3, <2>5, StaysKnows
  <2>7. Stale' => Stale
    BY <2>1, <2>2 DEF Stale, cacheVars
  <2>8. StaleCacheIsExplained' /\ Copied'
    BY <1>0, <2>1, <2>4, <2>7, CopyKept DEF At
  <2> QED BY <2>4, <2>6, <2>8 DEF CartInv
<1>4. CASE Crash
  <2>1. /\ UNCHANGED <<cart, created, cache>> /\ request' = [r \in Requests |-> Fresh]
        /\ missed' = (missed \/ (cache # NoEntry /\ OwesDeletion))
    BY <1>4 DEF Crash, cartVars
  <2>2. \A q \in Requests : Knows(q)'
    BY <2>1 DEF Knows, Fresh
  <2>3. Rows' /\ Copied'
    BY <1>0, <2>1 DEF Rows, Copied
  <2>4. Stale => OwesDeletion \/ cache.raced \/ missed
    BY <1>0, Explanation DEF Explained
  <2>5. Stale' => Stale /\ cache # NoEntry
    BY <2>1 DEF Stale
  <2>6. Stale' => missed' \/ cache.raced
    BY <2>1, <2>4, <2>5
  <2>7. StaleCacheIsExplained'
    BY <2>1, <2>6, Explanation DEF Explained
  <2> QED BY <2>2, <2>3, <2>7 DEF CartInv
<1> QED BY <1>1, <1>2, <1>3, <1>4

\* The invariant holds initially and every step keeps it.
LEMMA CartInvariant == Spec => []CartInv
<1>1. Init => CartInv
  BY DEF Init, NoCart, NoEntry, Fresh, CartInv, Rows, Knows, Copied, StaleCacheIsExplained
<1>2. TypeOK /\ CartInv /\ [Next]_vars /\ TypeOK' => CartInv'
  <2> SUFFICES ASSUME TypeOK, CartInv, [Next]_vars, TypeOK' PROVE CartInv'
    OBVIOUS
  <2>0. ServerOK /\ ServerOK' /\ QueueOK
    BY TypeParts DEF ServerOK
  <2>1. ASSUME NEW r \in Requests, GetOrCreate(r) \/ Handle(r) PROVE CartInv'
    BY <2>0, <2>1, HandlerInvStep
  <2>2. CASE DeleteCache \/ DeleteCacheFails \/ CacheExpires \/ CartExpires \/ Crash
    BY <2>0, <2>2, SurroundingsInvStep
  <2>3. ASSUME UNCHANGED serverVars PROVE CartInv'
    <3>1. UNCHANGED <<cart, created, request, cache, deletions, missed>>
      BY <2>3 DEF serverVars, cartVars, cacheVars
    <3>2. Rows' /\ Copied' /\ \A q \in Requests : Knows(q)'
      BY <3>1 DEF CartInv, Rows, Copied, Knows
    <3>3. StaleCacheIsExplained'
      BY <3>1 DEF CartInv, StaleCacheIsExplained, OwesDeletion, At
    <3> QED BY <3>2, <3>3 DEF CartInv
  <2>4. ASSUME NEW w \in Workers, HandleOrder(w) PROVE CartInv'
    <3>1. CASE DeleteOrderedCart(w) \/ DeleteReplyLost(w)
      BY <2>0, <3>1, CommitDeleteStep, BusyDelivery, CommitInvStep DEF OrderOf
    <3>2. CASE ~(DeleteOrderedCart(w) \/ DeleteReplyLost(w))
      BY <2>3, <2>4, <3>2, ConsumerKeeps
    <3> QED BY <3>1, <3>2
  <2> QED
    BY <2>1, <2>2, <2>3, <2>4 DEF Next, OrderArrives, ReceiveOrder, DropConnection, vars
<1> QED BY <1>1, <1>2, TypeCorrect, PTL DEF Spec

\* A cached response that is not of the cart is about to be deleted, overlapped
\* the change, or its deletion was lost.
THEOREM StaleCopiesAreExplained == Spec => []StaleCacheIsExplained
BY CartInvariant, PTL DEF CartInv

\* Only a cart another call has just created is hit by the deletion of an
\* expired one.
THEOREM FreshCartsAreLostToRaces == Spec => []FreshCartLostOnlyToRace
<1>1. TypeOK /\ CartInv => FreshCartLostOnlyToRace
  <2> SUFFICES ASSUME TypeOK, CartInv, NEW r \in Requests, request[r].pc = "deleting",
                      cart # NoCart, ~cart.expired
               PROVE  cart.id > request[r].id
    BY DEF FreshCartLostOnlyToRace, At
  <2>1. CartOK /\ Rows /\ Knows(r)
    BY TypeParts DEF CartInv
  <2>2. cart.id = created /\ request[r].id \in 1..created /\ cart.id # request[r].id
    BY <2>1 DEF Rows, Knows
  <2> QED BY <2>1, <2>2, MaxCartsAssumption DEF CartOK
<1> QED BY <1>1, TypeCorrect, CartInvariant, PTL

-----------------------------------------------------------------------------

\* A goroutine that acknowledges an order has thrown its cart away, and an
\* order is pending until then.
OrderInv ==
    /\ OrderEmptiesOneCart
    /\ \A w \in Workers : worker[w].pc = "acking" => processed[worker[w].msg]
    /\ \A o \in Orders : delivered[o] > 0 => processed[o] \/ Pending(o)

\* Only the transaction of the consumer writes processed_events.
LEMMA ProcessedStep ==
    ASSUME OrdersOK, QueueOK, OrderEmptiesOneCart, NEW w \in Workers, HandleOrder(w)
    PROVE /\ \A o \in Orders : processed[o] => processed'[o]
          /\ delivered' = delivered
          /\ OrderEmptiesOneCart'
<1>1. CASE DeleteOrderedCart(w) \/ DeleteReplyLost(w)
  <2>1. CommitDelete(OrderOf(w)) /\ OrderOf(w) \in Orders
    BY <1>1, CommitDeleteStep, BusyDelivery DEF OrderOf
  <2>2. ~processed[OrderOf(w)] /\ processed' = [processed EXCEPT ![OrderOf(w)] = TRUE]
    BY <2>1 DEF CommitDelete, InsertProcessed
  <2>3. emptied' = [emptied EXCEPT ![OrderOf(w)] = @ + 1] /\ delivered' = delivered
    BY <2>1 DEF CommitDelete
  <2>4. emptied[OrderOf(w)] = 0
    BY <2>1, <2>2 DEF OrderEmptiesOneCart
  <2>5. processed'[OrderOf(w)] /\ \A o \in Orders \ {OrderOf(w)} : processed'[o] = processed[o]
    BY <2>1, <2>2 DEF OrdersOK
  <2>6. emptied'[OrderOf(w)] = 1 /\ \A o \in Orders \ {OrderOf(w)} : emptied'[o] = emptied[o]
    BY <2>1, <2>3, <2>4 DEF OrdersOK
  <2> QED BY <2>3, <2>5, <2>6 DEF OrderEmptiesOneCart
<1>2. CASE ~(DeleteOrderedCart(w) \/ DeleteReplyLost(w))
  BY <1>2, ConsumerKeeps DEF OrderEmptiesOneCart
<1> QED BY <1>1, <1>2

\* A goroutine gets as far as the acknowledgement only by its transaction.
LEMMA AckingStep ==
    ASSUME OrdersOK, QueueOK, OrderInv, [Next]_vars, NEW w \in Workers,
           worker'[w].pc = "acking",
           \A o \in Orders : processed[o] => processed'[o]
    PROVE processed'[worker'[w].msg]
<1>1. ASSUME worker[w].pc = "acking", worker'[w].msg = OrderOf(w)
      PROVE processed'[worker'[w].msg]
  <2>1. OrderOf(w) \in Orders
    BY <1>1, BusyDelivery DEF Queue!At, OrderOf
  <2> QED BY <1>1, <2>1 DEF OrderInv, OrderOf
<1>2. ASSUME NEW v \in Workers, HandleOrder(v), v # w PROVE processed'[worker'[w].msg]
  <2>1. worker'[w] = worker[w]
    BY <1>2, ConsumerStep, ConsumerMoves
  <2> QED BY <1>1, <2>1 DEF OrderOf
<1>3. ASSUME HandleOrder(w) PROVE processed'[worker'[w].msg]
  <2>1. worker[w] \in Delivery /\ OrderOf(w) \in Orders
    BY <1>3, ConsumerStep, BusyDelivery DEF OrderOf
  <2>2. CASE DeleteOrderedCart(w)
    <3>1. worker'[w] = [worker[w] EXCEPT !.pc = "acking"]
      BY <2>2 DEF DeleteOrderedCart, Queue!Advance, QueueOK, Queue!QueueTypeOK
    <3>2. worker'[w].msg = OrderOf(w)
      BY <2>1, <3>1 DEF Delivery, OrderOf
    <3>3. processed' = [processed EXCEPT ![OrderOf(w)] = TRUE]
      BY <2>2 DEF DeleteOrderedCart, CommitDelete, InsertProcessed
    <3>4. processed'[OrderOf(w)]
      BY <2>1, <3>3 DEF OrdersOK
    <3> QED BY <3>2, <3>4
  <2>3. CASE ~DeleteOrderedCart(w)
    <3>1. worker'[w].pc # "acking"
      BY <1>3, <2>1, <2>3
         DEF HandleOrder, SkipProcessed, PassCheck, ConsumerFails, DeleteReplyLost,
             DuplicateRejected, AckOrder, Queue!Ack, Queue!NackRequeue, Queue!Advance,
             Queue!Finish, Queue!Idle, QueueOK, Queue!QueueTypeOK, Delivery
    <3> QED BY <3>1
  <2> QED BY <2>2, <2>3
<1>4. ASSUME NEW v \in Workers, NEW o \in Orders, ReceiveOrder(v, o)
      PROVE processed'[worker'[w].msg]
  <2>1. worker'[w] = worker[w] \/ worker'[w].pc = "received"
    BY <1>4 DEF ReceiveOrder, Queue!Receive, QueueOK, Queue!QueueTypeOK
  <2> QED BY <1>1, <2>1 DEF OrderOf
<1>5. CASE DropConnection
  <2>1. Queue!DropConnection
    BY <1>5 DEF DropConnection
  <2>2. worker'[w].pc = worker[w].pc /\ worker'[w].msg = worker[w].msg
    BY <2>1, DropConnectionMoves
  <2> QED BY <1>1, <2>2 DEF OrderOf
<1>6. CASE Crash
  BY <1>6 DEF Crash, Queue!Idle
<1>7. ASSUME UNCHANGED worker PROVE processed'[worker'[w].msg]
  BY <1>1, <1>7 DEF OrderOf
<1>8. UNCHANGED consumerVars => UNCHANGED worker
  BY DEF consumerVars, queueVars
<1>9. \A o \in Orders : OrderArrives(o) => UNCHANGED worker
  BY DEF OrderArrives, Queue!Enqueue
<1> QED BY <1>2, <1>3, <1>4, <1>5, <1>6, <1>7, <1>8, <1>9, ServerStep DEF Next, vars

\* An order that was delivered is processed or pending after every step.
LEMMA PendingStep ==
    ASSUME OrdersOK, QueueOK, OrderInv, [Next]_vars, NEW o \in Orders, delivered'[o] > 0,
           processed[o] => processed'[o]
    PROVE processed'[o] \/ Pending(o)'
<1>1. ASSUME delivered'[o] = delivered[o], Pending(o) => Pending(o)' \/ processed[o]
      PROVE processed'[o] \/ Pending(o)'
  BY <1>1 DEF OrderInv
<1>2. CASE OrderArrives(o)
  <2>1. ready'[o] > 0
    BY <1>2 DEF OrderArrives, Queue!Enqueue, QueueOK, Queue!QueueTypeOK
  <2> QED BY <2>1 DEF Pending
<1>3. ASSUME NEW w \in Workers, HandleOrder(w) PROVE processed'[o] \/ Pending(o)'
  <2>1. delivered'[o] = delivered[o]
    BY <1>3, ProcessedStep DEF OrderInv
  <2>2. \/ worker[w].msg # o
        \/ Queue!NackRequeue(w)
        \/ \E pc \in Pcs : Queue!Advance(w, pc)
        \/ processed[o]
    BY <1>3 DEF HandleOrder, SkipProcessed, PassCheck, ConsumerFails, DeleteOrderedCart,
                DeleteReplyLost, DuplicateRejected, AckOrder, Queue!At, OrderOf, OrderInv, Pcs
  <2>3. Pending(o) => Pending(o)' \/ processed[o]
    BY <1>3, <2>2, ConsumerStep, HandlerKeepsPending
  <2> QED BY <1>1, <2>1, <2>3
<1>4. ASSUME \/ \E m \in Orders : OrderArrives(m) /\ m # o
             \/ \E w \in Workers, m \in Orders : ReceiveOrder(w, m)
             \/ DropConnection \/ Crash
      PROVE processed'[o] \/ Pending(o)'
  <2>1. delivered'[o] = delivered[o]
    BY <1>4 DEF OrderArrives, ReceiveOrder, DropConnection, Crash, OrdersOK
  <2>2. BrokerMoves
    BY <1>4, BrokerStep
  <2>3. Pending(o) => Pending(o)'
    BY <2>2, BrokerKeepsPending
  <2> QED BY <1>1, <2>1, <2>3
<1>5. ASSUME UNCHANGED consumerVars PROVE processed'[o] \/ Pending(o)'
  <2>1. delivered'[o] = delivered[o] /\ (Pending(o) => Pending(o)')
    BY <1>5 DEF consumerVars, queueVars, Pending, Queue!Holders, Queue!Live
  <2> QED BY <1>1, <2>1
<1> QED BY <1>2, <1>3, <1>4, <1>5, ServerStep DEF Next, vars

\* The invariant of the consumer.
LEMMA OrderInvariant == Spec => []OrderInv
<1>1. Init => OrderInv
  BY DEF Init, Queue!QueueInit, Queue!Idle, OrderInv, OrderEmptiesOneCart
<1>2. TypeOK /\ OrderInv /\ [Next]_vars => OrderInv'
  <2> SUFFICES ASSUME TypeOK, OrderInv, [Next]_vars PROVE OrderInv'
    OBVIOUS
  <2>0. OrdersOK /\ QueueOK /\ OrderEmptiesOneCart
    BY TypeParts DEF OrderInv
  <2>1. ASSUME UNCHANGED <<processed, emptied>>
        PROVE (\A o \in Orders : processed[o] => processed'[o]) /\ OrderEmptiesOneCart'
    BY <2>0, <2>1 DEF OrderEmptiesOneCart
  <2>2. UNCHANGED consumerVars => UNCHANGED <<processed, emptied>>
    BY DEF consumerVars
  <2>3. (\A o \in Orders : processed[o] => processed'[o]) /\ OrderEmptiesOneCart'
    BY <2>0, <2>1, <2>2, ProcessedStep, ServerStep
       DEF Next, OrderArrives, ReceiveOrder, DropConnection, Crash, vars
  <2>4. \A w \in Workers : worker'[w].pc = "acking" => processed'[worker'[w].msg]
    BY <2>0, <2>3, AckingStep
  <2>5. \A o \in Orders : delivered'[o] > 0 => processed'[o] \/ Pending(o)'
    BY <2>0, <2>3, PendingStep
  <2> QED BY <2>3, <2>4, <2>5 DEF OrderInv
<1> QED BY <1>1, <1>2, TypeCorrect, PTL DEF Spec

\* However often OrderCreated is delivered, the order throws away one cart.
THEOREM OneCartPerOrder == Spec => []OrderEmptiesOneCart
BY OrderInvariant, PTL DEF OrderInv

\* No delivered order is forgotten before its cart was thrown away.
THEOREM NoOrderIsLost == Spec => []NoOrderLost
<1>1. OrderInv => NoOrderLost
  BY DEF OrderInv, NoOrderLost, Pending
<1> QED BY <1>1, OrderInvariant, PTL

=============================================================================
