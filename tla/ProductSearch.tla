--------------------------- MODULE ProductSearch ---------------------------
(***************************************************************************)
(* The catalogue and the search index together: a write of product-service *)
(* that has an event commits the event's row in the same transaction, and  *)
(* a write that has none - stock taken by an order, a category deleted -   *)
(* leaves the index behind until the next event of the product.            *)
(***************************************************************************)
EXTENDS Naturals, Sequences, FiniteSets

CONSTANTS
    Products, AllCategories, Callers, MaxCalls,
    Workers, Prefetch, NoEvent, MaxCopies,
    Starts    \* bound: what was written before, and the calls and copies still to
              \* be spent together

ASSUME StartsAssumption ==
    Starts \subseteq [history : [Products -> Seq(STRING)], calls : 0..MaxCalls,
                     copies : 0..MaxCopies]

VARIABLES
    log, caller, cache, deletions, missed, callsLeft,
    row, copies, copiesLeft, ready, worker, dead, index, applied, overtaken

catalogueVars == <<log, caller, cache, deletions, missed, callsLeft>>
searchVars == <<row, copies, copiesLeft, ready, worker, dead, index, applied, overtaken>>
vars == <<catalogueVars, searchVars>>

Catalogue == INSTANCE ProductCatalogue WITH Histories <- {s.history : s \in Starts}

BugEventIn(writes, v) == IF v <= Len(writes) THEN writes[v] ELSE "none"

\* What the v-th of the writes is as an event.
EventIn(writes, v) ==
    IF v <= Len(writes) /\ writes[v] \in Catalogue!Evented THEN writes[v] ELSE "none"

kind == [e \in Products \X (1..MaxCalls) |-> EventIn(log[e[1]], e[2])]

Search == INSTANCE SearchIndex WITH
    MaxVersion <- MaxCalls,
    Backlogs <- [Products \X (1..MaxCalls) -> {"none", "create", "update", "delete"}]

ASSUME PartsAssumption == Catalogue!CatalogueAssumption /\ Search!IndexAssumption

Init ==
    /\ Catalogue!Init
    /\ Search!Init
    /\ \E s \in Starts :
        /\ \A p \in Products : log[p] = s.history[p]
        /\ callsLeft = s.calls
        /\ copiesLeft = s.copies

-----------------------------------------------------------------------------

BugCommitEvents == UNCHANGED row

\* withProductTx, withTx: the rows of the events the transaction writes.
CommitEvents ==
    row' = [e \in Search!Events |->
              IF EventIn(log'[e[1]], e[2]) # EventIn(log[e[1]], e[2]) THEN "pending"
              ELSE row[e]]

Write ==
    /\ Catalogue!WriteStep
    /\ CommitEvents
    /\ UNCHANGED <<copies, copiesLeft, ready, worker, dead, index, applied, overtaken>>

Copy == Catalogue!CopyStep /\ UNCHANGED searchVars

Publish(e) == UNCHANGED catalogueVars /\ Search!Publish(e)

Settle(e) == UNCHANGED catalogueVars /\ Search!Settle(e)

InSearch(Step) == UNCHANGED catalogueVars /\ Step

Next ==
    \/ Write
    \/ Copy
    \/ \E e \in Search!Events : Publish(e) \/ Settle(e)
    \/ InSearch(Search!IndexStep)

Spec == Init /\ [][Next]_vars

-----------------------------------------------------------------------------
(* Properties.                                                             *)

\* Every variable has its type.
TypeOK == Catalogue!TypeOK /\ Search!TypeOK

\* The two parts keep their own specifications when composed: whatever the
\* catalogue commits is a row the outbox worker may read, with its event.
PartsKeepTheirSpecs == Catalogue!Spec /\ Search!Spec

\* ProductCatalogue's property of the copies in Redis.
StaleCopyIsExplained == Catalogue!StaleCopyIsExplained

\* SearchIndex's properties of the events and of the index.
NoEventLost == Search!NoEventLost
StaleDocumentIsExplained == Search!StaleDocumentIsExplained
EndlessDeletionIsSpare == Search!EndlessDeletionIsSpare

=============================================================================
