-------------------------- MODULE ProductCatalogue --------------------------
(***************************************************************************)
(* product-service as a catalogue: the tables of products and of their     *)
(* categories, and the copies the service keeps in Redis, one of every     *)
(* product and one of the list of all categories.                          *)
(*                                                                         *)
(* A row is the sequence of the writes that were committed to it; its      *)
(* length is the version a reader sees.  What happens to the copy after a  *)
(* write depends on the handler: a detached goroutine writes the new       *)
(* version (products) or deletes the copy (categories, stock), a deletion  *)
(* deletes it before it answers, and some writes leave it alone.           *)
(*                                                                         *)
(* ListProducts and GetProductsByCategoryID read the tables only.  A call  *)
(* that fails before its transaction commits changes nothing.              *)
(***************************************************************************)
EXTENDS Naturals, Sequences

CONSTANTS
    Products,       \* ids that CreateProduct will draw
    AllCategories,  \* the key product_categories:all
    Callers,        \* handlers that may run at a time
    MaxCalls,       \* bound: calls and stock transactions
    Histories       \* bound: the writes of each product committed before

VARIABLES
    log,        \* the writes committed to each row, the category table being one
    caller,     \* the running handlers
    cache,      \* the copies, raced if the row changed between read and refill
    deletions,  \* detached deletions of each copy that have not run yet
    missed,     \* a write since the copy was made will not be brought to it
    callsLeft

vars == <<log, caller, cache, deletions, missed, callsLeft>>

Keys == Products \cup {AllCategories}

Writes == {"create", "update", "delete", "stock", "uncategorised", "change"}

\* DeleteProduct deletes only what it found: a create comes before every delete.
CreatedFirst(writes) ==
    \A v \in 1..Len(writes) :
        writes[v] = "delete" => \E u \in 1..(v - 1) : writes[u] = "create"

CatalogueAssumption ==
    /\ AllCategories \notin Products
    /\ MaxCalls \in Nat
    /\ Histories \subseteq [Products -> Seq(Writes)]
    /\ \A h \in Histories, p \in Products : CreatedFirst(h[p])

\* The writes that put an event into the outbox, in the same transaction.
Evented == {"create", "update", "delete"}

NoCopy == [full |-> FALSE, ver |-> 0, raced |-> FALSE]

Idle == [pc |-> "idle", key |-> AllCategories, ver |-> 0, owed |-> FALSE, raced |-> FALSE]

Init ==
    /\ \E h \in Histories : log = [k \in Keys |-> IF k = AllCategories THEN <<>> ELSE h[k]]
    /\ caller = [c \in Callers |-> Idle]
    /\ cache = [k \in Keys |-> NoCopy]
    /\ deletions = [k \in Keys |-> 0]
    /\ missed = [k \in Keys |-> FALSE]
    /\ callsLeft \in 0..MaxCalls

-----------------------------------------------------------------------------
(* Rows and copies.                                                        *)

At(c, pc) == caller[c].pc = pc

WritesTo(p, kind) == \E v \in 1..Len(log[p]) : log[p][v] = kind

\* A query for the row finds it.
Live(k) == k = AllCategories \/ (WritesTo(k, "create") /\ ~WritesTo(k, "delete"))

Fresh(k) == Live(k) /\ cache[k].ver = Len(log[k])

\* A handler with a goroutine that will write ver to the copy of k.
Refilling(k, ver, owed) ==
    [pc |-> "refilling", key |-> k, ver |-> ver, owed |-> owed, raced |-> FALSE]

\* The refills of K under way no longer carry the last version.
Overtake(d, K) ==
    IF At(d, "refilling") /\ caller[d].key \in K THEN [caller[d] EXCEPT !.raced = TRUE]
    ELSE caller[d]

\* The transaction that appends a write to the row of k commits, and the
\* handler goes on to next.
Commit(c, k, kind, next) ==
    /\ log' = [log EXCEPT ![k] = Append(@, kind)]
    /\ caller' = [d \in Callers |-> IF d = c THEN next ELSE Overtake(d, {k})]

\* Nobody brings the write to the copies of K.
Miss(K) == missed' = [k \in Keys |-> missed[k] \/ (k \in K /\ cache[k].full)]

\* go delete...Cache
DeleteLater(k) == deletions' = [deletions EXCEPT ![k] = @ + 1]

Spend == callsLeft > 0 /\ callsLeft' = callsLeft - 1

Call(c) == At(c, "idle") /\ Spend

-----------------------------------------------------------------------------
(* Reads: GetProduct, GetProductsByIDs, GetProductCategories.              *)

\* The copy is not there or Redis is away: the answer comes from the table and
\* a goroutine is left to cache it.  A hit changes nothing.
ReadRow(c, k) ==
    /\ Call(c)
    /\ Live(k)
    /\ caller' = [caller EXCEPT ![c] = Refilling(k, Len(log[k]), FALSE)]
    /\ UNCHANGED <<log, cache, deletions, missed>>

\* cacheProduct, cacheProductCategories
Refill(c) ==
    /\ At(c, "refilling")
    /\ cache' = [cache EXCEPT ![caller[c].key] =
                   [full |-> TRUE, ver |-> caller[c].ver, raced |-> caller[c].raced]]
    /\ missed' = [missed EXCEPT ![caller[c].key] = FALSE]
    /\ caller' = [caller EXCEPT ![c] = Idle]
    /\ UNCHANGED <<log, deletions, callsLeft>>

RefillFails(c) ==
    /\ At(c, "refilling")
    /\ Miss(IF caller[c].owed THEN {caller[c].key} ELSE {})
    /\ caller' = [caller EXCEPT ![c] = Idle]
    /\ UNCHANGED <<log, cache, deletions, callsLeft>>

-----------------------------------------------------------------------------
(* Writes to products.                                                     *)

CreateProduct(c, p) ==
    /\ Call(c)
    /\ log[p] = <<>>
    /\ Commit(c, p, "create", Refilling(p, 1, TRUE))
    /\ UNCHANGED <<cache, deletions, missed>>

BugUpdated(p) == Idle

\* The handler of UpdateProduct once its transaction has committed.
Updated(p) == Refilling(p, Len(log[p]) + 1, TRUE)

UpdateProduct(c, p) ==
    /\ Call(c)
    /\ Live(p)
    /\ Commit(c, p, "update", Updated(p))
    /\ UNCHANGED <<cache, deletions, missed>>

\* The transaction commits, the handler is told that it failed.
WriteReplyLost(c, p) ==
    /\ Call(c)
    /\ IF log[p] = <<>> THEN Commit(c, p, "create", Idle)
       ELSE Live(p) /\ Commit(c, p, "update", Idle)
    /\ Miss({p})
    /\ UNCHANGED <<cache, deletions>>

\* DeleteProduct looks the product up ...
CheckProduct(c, p) ==
    /\ Call(c)
    /\ Live(p)
    /\ caller' = [caller EXCEPT ![c] = [Idle EXCEPT !.pc = "deleting", !.key = p]]
    /\ UNCHANGED <<log, cache, deletions, missed>>

\* ... and deletes it.  A DELETE that finds no row any more is no error, and
\* the event is written all the same.
DeleteProduct(c) ==
    /\ At(c, "deleting")
    /\ Commit(c, caller[c].key, "delete", [caller[c] EXCEPT !.pc = "dropping"])
    /\ UNCHANGED <<cache, deletions, missed, callsLeft>>

DeleteReplyLost(c) ==
    /\ At(c, "deleting")
    /\ Commit(c, caller[c].key, "delete", Idle)
    /\ Miss({caller[c].key})
    /\ UNCHANGED <<cache, deletions, callsLeft>>

DeleteFails(c) ==
    /\ At(c, "deleting")
    /\ caller' = [caller EXCEPT ![c] = Idle]
    /\ UNCHANGED <<log, cache, deletions, missed, callsLeft>>

\* The copy is deleted before DeleteProduct or DeleteProductCategory answers.
DropCopy(c) ==
    /\ At(c, "dropping")
    /\ cache' = [cache EXCEPT ![caller[c].key] = NoCopy]
    /\ missed' = [missed EXCEPT ![caller[c].key] = FALSE]
    /\ caller' = [caller EXCEPT ![c] = Idle]
    /\ UNCHANGED <<log, deletions, callsLeft>>

DropFails(c) ==
    /\ At(c, "dropping")
    /\ Miss({caller[c].key})
    /\ caller' = [caller EXCEPT ![c] = Idle]
    /\ UNCHANGED <<log, cache, deletions, callsLeft>>

\* UpdateStockBatch sends its updates as {"id", "quantity"} to a statement that
\* reads "productId": it matches no row.  The copy is deleted nevertheless.
UpdateStockBatch(c, p) ==
    /\ Call(c)
    /\ DeleteLater(p)
    /\ UNCHANGED <<log, caller, cache, missed>>

\* The transaction of the OrderCreated consumer takes stock of p.  Only when
\* every line of the order was served does a goroutine delete the copies.
TakeStock(p, served) ==
    /\ Spend
    /\ Live(p)
    /\ log' = [log EXCEPT ![p] = Append(@, "stock")]
    /\ caller' = [d \in Callers |-> Overtake(d, {p})]
    /\ IF served THEN DeleteLater(p) /\ UNCHANGED missed
       ELSE Miss({p}) /\ UNCHANGED deletions
    /\ UNCHANGED cache

-----------------------------------------------------------------------------
(* Writes to categories.                                                   *)

\* CreateProductCategory, UpdateProductCategory
ChangeCategory(c) ==
    /\ Call(c)
    /\ Commit(c, AllCategories, "change", Idle)
    /\ DeleteLater(AllCategories)
    /\ UNCHANGED <<cache, missed>>

\* category_id ... ON DELETE SET NULL: a row of categories goes, and the rows
\* of its products change with it, without an event.
CommitDeletion(c, members, next) ==
    /\ log' = [k \in Keys |->
                 IF k = AllCategories THEN Append(log[k], "change")
                 ELSE IF k \in members /\ Live(k) THEN Append(log[k], "uncategorised")
                 ELSE log[k]]
    /\ caller' = [d \in Callers |->
                    IF d = c THEN next ELSE Overtake(d, members \cup {AllCategories})]

\* Nobody looks after the copies of the products.
DeleteCategory(c, members) ==
    /\ Call(c)
    /\ CommitDeletion(c, members, [Idle EXCEPT !.pc = "dropping"])
    /\ Miss(members)
    /\ UNCHANGED <<cache, deletions>>

CategoryReplyLost(c, members) ==
    /\ Call(c)
    /\ CommitDeletion(c, members, Idle)
    /\ Miss(members \cup {AllCategories})
    /\ UNCHANGED <<cache, deletions>>

-----------------------------------------------------------------------------
(* Redis and the process.                                                  *)

DeleteCopy(k) ==
    /\ deletions[k] > 0
    /\ deletions' = [deletions EXCEPT ![k] = @ - 1]
    /\ cache' = [cache EXCEPT ![k] = NoCopy]
    /\ missed' = [missed EXCEPT ![k] = FALSE]
    /\ UNCHANGED <<log, caller, callsLeft>>

DeleteCopyFails(k) ==
    /\ deletions[k] > 0
    /\ deletions' = [deletions EXCEPT ![k] = @ - 1]
    /\ Miss({k})
    /\ UNCHANGED <<log, caller, cache, callsLeft>>

\* cacheExpirationTime is over.
CopyExpires(k) ==
    /\ cache[k].full
    /\ cache' = [cache EXCEPT ![k] = NoCopy]
    /\ missed' = [missed EXCEPT ![k] = FALSE]
    /\ UNCHANGED <<log, caller, deletions, callsLeft>>

\* A handler or a goroutine still has to bring a write to the copy of k.
Owed(k) ==
    \/ deletions[k] > 0
    \/ \E c \in Callers : caller[c].key = k /\ (At(c, "dropping") \/ caller[c].owed)

Busy ==
    \/ \E c \in Callers : ~At(c, "idle")
    \/ \E k \in Keys : deletions[k] > 0

Crash ==
    /\ Busy
    /\ Miss({k \in Keys : Owed(k)})
    /\ caller' = [c \in Callers |-> Idle]
    /\ deletions' = [k \in Keys |-> 0]
    /\ UNCHANGED <<log, cache, callsLeft>>

-----------------------------------------------------------------------------

\* The steps that commit no write.
CopyStep ==
    \/ \E c \in Callers, k \in Keys : ReadRow(c, k)
    \/ \E c \in Callers, p \in Products : CheckProduct(c, p) \/ UpdateStockBatch(c, p)
    \/ \E c \in Callers :
        Refill(c) \/ RefillFails(c) \/ DeleteFails(c) \/ DropCopy(c) \/ DropFails(c)
    \/ \E k \in Keys : DeleteCopy(k) \/ DeleteCopyFails(k) \/ CopyExpires(k)
    \/ Crash

WriteStep ==
    \/ \E c \in Callers, p \in Products :
        CreateProduct(c, p) \/ UpdateProduct(c, p) \/ WriteReplyLost(c, p)
    \/ \E p \in Products, served \in BOOLEAN : TakeStock(p, served)
    \/ \E c \in Callers : DeleteProduct(c) \/ DeleteReplyLost(c) \/ ChangeCategory(c)
    \/ \E c \in Callers, members \in SUBSET Products :
        DeleteCategory(c, members) \/ CategoryReplyLost(c, members)

Next == CopyStep \/ WriteStep

Spec == Init /\ [][Next]_vars

-----------------------------------------------------------------------------
(* Properties.                                                             *)

\* Every variable has its type.
TypeOK ==
    /\ log \in [Keys -> Seq(Writes)]
    /\ caller \in [Callers -> [pc : {"idle", "refilling", "deleting", "dropping"}, key : Keys,
                               ver : Nat, owed : BOOLEAN, raced : BOOLEAN]]
    /\ cache \in [Keys -> [full : BOOLEAN, ver : Nat, raced : BOOLEAN]]
    /\ deletions \in [Keys -> Nat]
    /\ missed \in [Keys -> BOOLEAN]
    /\ callsLeft \in 0..MaxCalls

\* A copy that is not the row as it is now is about to be replaced or deleted,
\* or its refill overlapped a write, or the last write was one that nobody
\* brings to the copy: a partly served order, a deleted category, a lost reply
\* of the database, a failure of Redis, a crash.
StaleCopyIsExplained ==
    \A k \in Keys :
        cache[k].full /\ ~Fresh(k) => Owed(k) \/ cache[k].raced \/ missed[k]

=============================================================================
