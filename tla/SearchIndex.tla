---------------------------- MODULE SearchIndex ----------------------------
(***************************************************************************)
(* The way of a product's events from the outbox of product-service to the *)
(* documents of search-service.  The outbox worker is the one of           *)
(* OutboxContract: while a row is pending it may send it, again and in any *)
(* order, which is what OutboxRelayer does.  The events carry the whole    *)
(* product but no version, and the consumer writes what it is handed.      *)
(***************************************************************************)
EXTENDS Naturals, FiniteSets

CONSTANTS
    Products,
    MaxVersion,   \* bound: writes to one product
    Workers,      \* goroutines of the consumer
    Prefetch,
    NoEvent,
    MaxCopies,    \* bound: copies the outbox worker sends, of all events together
    Backlogs      \* bound: the events that wait in the outbox at first

\* The event of the v-th write to p.
Events == Products \X (1..MaxVersion)

Kinds == {"none", "create", "update", "delete"}

IndexAssumption ==
    /\ MaxVersion \in Nat /\ MaxCopies \in Nat
    /\ IsFiniteSet(Workers)
    /\ NoEvent \notin Events
    /\ Backlogs \subseteq [Events -> Kinds]

VARIABLES
    kind,         \* what the write of each event was, "none" if there is no event
    row, copies,  \* outbox_events of product-service and what was sent of it
    copiesLeft,
    ready, worker, dead,  \* search_product_events_queue
    index,        \* the version in the index, 0 if there is no document
    applied,      \* history: the events OpenSearch has executed
    overtaken     \* history: an event of the product was executed while an older
                  \* one could still follow

queueVars == <<ready, worker, dead>>
rowVars == <<kind, row, copies, copiesLeft>>
indexVars == <<index, applied, overtaken>>
vars == <<rowVars, queueVars, indexVars>>

Outbox == INSTANCE OutboxContract
Queue == INSTANCE RabbitQueue WITH Messages <- Events, NoMessage <- NoEvent

Init ==
    /\ kind \in Backlogs
    /\ row = [e \in Events |-> IF kind[e] = "none" THEN "absent" ELSE "pending"]
    /\ copies = [e \in Events |-> 0]
    /\ copiesLeft \in 0..MaxCopies
    /\ Queue!QueueInit
    /\ index = [p \in Products |-> 0]
    /\ applied = [e \in Events |-> FALSE]
    /\ overtaken = [p \in Products |-> FALSE]

EventOf(w) == worker[w].msg

-----------------------------------------------------------------------------
(* The outbox.                                                             *)

\* A write to the product commits, with its event.
Record(e, k) ==
    /\ kind[e] = "none"
    /\ kind' = [kind EXCEPT ![e] = k]
    /\ Outbox!Commit(e)
    /\ UNCHANGED <<copiesLeft, queueVars, indexVars>>

\* DelegatingPublisher takes "products.events:product.updated" apart into the
\* topic exchange and its routing key; the queue is bound to "product.#".
Publish(e) ==
    /\ copiesLeft > 0
    /\ copiesLeft' = copiesLeft - 1
    /\ Outbox!Send(e)
    /\ Queue!Enqueue(e, 1)
    /\ UNCHANGED <<kind, indexVars>>

Settle(e) ==
    /\ Outbox!Settle(e)
    /\ UNCHANGED <<kind, copiesLeft, queueVars, indexVars>>

-----------------------------------------------------------------------------
(* handleProductCreatedEvent, for all three routing keys.                  *)

\* The event may still be executed, for the first time or again.
Coming(e) ==
    \/ row[e] = "pending"
    \/ ready[e] > 0
    \/ Queue!Holders(e) # {}
    \/ \E w \in Workers : EventOf(w) = e /\ Queue!At(w, "received")

Older(e) == {f \in Events : f[1] = e[1] /\ f[2] < e[2]}

BugExecute(e) ==
    /\ index' = [index EXCEPT ![e[1]] = e[2]]
    /\ applied' = [applied EXCEPT ![e] = TRUE]
    /\ overtaken' = [overtaken EXCEPT ![e[1]] = @ \/ \E f \in Older(e) : Coming(f)]

\* OpenSearch replaces or deletes the document, whatever it holds.
Execute(e) ==
    /\ index' = [index EXCEPT ![e[1]] = IF kind[e] = "delete" THEN 0 ELSE e[2]]
    /\ applied' = [applied EXCEPT ![e] = TRUE]
    /\ overtaken' = [overtaken EXCEPT ![e[1]] = @ \/ \E f \in Older(e) : Coming(f)]

\* An event that is not a deletion is indexed, a deletion finds its document.
Executable(e) == kind[e] = "delete" => index[e[1]] # 0

ReceiveEvent(w, e) ==
    /\ Queue!Receive(w, e)
    /\ UNCHANGED <<rowVars, indexVars>>

\* indexProduct, deleteProduct
ApplyEvent(w) ==
    /\ Queue!At(w, "received")
    /\ Executable(EventOf(w))
    /\ Execute(EventOf(w))
    /\ Queue!Advance(w, "acking")
    /\ UNCHANGED rowVars

\* OpenSearch executes the request, but the answer is lost.
ApplyReplyLost(w) ==
    /\ Queue!At(w, "received")
    /\ Executable(EventOf(w))
    /\ Execute(EventOf(w))
    /\ Queue!NackRequeue(w)
    /\ UNCHANGED rowVars

BugRefused(w) ==
    /\ Queue!At(w, "received")
    /\ Queue!NackDiscard(w)
    /\ UNCHANGED <<rowVars, indexVars>>

\* OpenSearch is away or answers with an error; a deletion without a document
\* is one (404), and is returned to the queue like any other.
Refused(w) ==
    /\ Queue!At(w, "received")
    /\ Queue!NackRequeue(w)
    /\ UNCHANGED <<rowVars, indexVars>>

AckEvent(w) ==
    /\ Queue!At(w, "acking")
    /\ Queue!Ack(w)
    /\ UNCHANGED <<rowVars, indexVars>>

DropConnection == Queue!DropConnection /\ UNCHANGED <<rowVars, indexVars>>

Crash == Queue!Crash /\ UNCHANGED <<rowVars, indexVars>>

IndexStep ==
    \/ \E w \in Workers, e \in Events : ReceiveEvent(w, e)
    \/ \E w \in Workers : ApplyEvent(w) \/ ApplyReplyLost(w) \/ Refused(w) \/ AckEvent(w)
    \/ DropConnection
    \/ Crash

Next ==
    \/ \E e \in Events : \/ \E k \in {"create", "update", "delete"} : Record(e, k)
                         \/ Publish(e) \/ Settle(e)
    \/ IndexStep

Spec == Init /\ [][Next]_vars

-----------------------------------------------------------------------------
(* Properties.                                                             *)

\* Every variable has its type.
TypeOK ==
    /\ kind \in [Events -> Kinds]
    /\ row \in [Events -> {"absent", "pending", "settled"}]
    /\ copies \in [Events -> Nat]
    /\ copiesLeft \in 0..MaxCopies
    /\ Queue!QueueTypeOK({"received", "acking"})
    /\ index \in [Products -> 0..MaxVersion]
    /\ applied \in [Events -> BOOLEAN]
    /\ overtaken \in [Products -> BOOLEAN]

\* An event the outbox is done with was executed, or a copy of it is in the
\* queue or with a goroutine whose delivery the broker still counts.
NoEventLost ==
    \A e \in Events :
        row[e] = "settled" => applied[e] \/ ready[e] > 0 \/ Queue!Holders(e) # {}

\* No event of p can be executed any more.
Quiet(p) == \A e \in Events : e[1] = p => ~Coming(e)

\* The version the last event of p leaves in the index.
Expected(p) ==
    LET sent == {v \in 1..MaxVersion : kind[<<p, v>>] # "none"}
    IN  IF \E v \in sent : (\A u \in sent : u <= v) /\ kind[<<p, v>>] # "delete"
        THEN CHOOSE v \in sent : \A u \in sent : u <= v
        ELSE 0

\* Once its events are through, the index holds what the last of them says,
\* unless one of them was executed while an older one was still coming: the
\* duplicates, retries and restarts alone leave no product behind.
StaleDocumentIsExplained ==
    \A p \in Products : Quiet(p) /\ index[p] # Expected(p) => overtaken[p]

\* OpenSearch refuses to delete what it does not have (404), and the consumer
\* returns every refused event to the queue.  A deletion that no later delivery
\* can bring to an end is one too many: a deletion of its product was executed.
EndlessDeletionIsSpare ==
    \A e \in Events :
        /\ kind[e] = "delete" /\ ready[e] > 0 /\ index[e[1]] = 0
        /\ \A f \in Events : f[1] = e[1] /\ kind[f] # "delete" => ~Coming(f)
        => \E f \in Events : f[1] = e[1] /\ kind[f] = "delete" /\ applied[f]

=============================================================================
