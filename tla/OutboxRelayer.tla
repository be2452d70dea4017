---------------------------- MODULE OutboxRelayer ----------------------------
(***************************************************************************)
(* The outbox worker of shared/events/worker, run by order-service and by  *)
(* product-service: one goroutine that at every tick reads the oldest      *)
(* UNPUBLISHED rows, publishes them one after the other through the        *)
(* retrying publisher of shared/rabbitmq and marks each published row.     *)
(*                                                                         *)
(* A row is written by a business transaction: its created_at is NOW(),    *)
(* the time the transaction began, and it is visible once the transaction  *)
(* commits, so the order of created_at is not the order of the commits.    *)
(***************************************************************************)
EXTENDS Naturals, FiniteSets

CONSTANTS
    Events,       \* outbox rows the business transactions may write
    Poison,       \* rows the broker refuses at every attempt (exchange of another type)
    BatchSize,    \* MESSAGE_RELAYER_BATCH_SIZE
    MaxRetries,   \* attempts of one Publish call
    MaxFaults,    \* bound: transient faults of one event
    BrokerDrops   \* may a publish that returned no error still be lost?

ASSUME PoisonAssumption == Poison \subseteq Events
ASSUME BatchSizeAssumption == BatchSize \in Nat \ {0}
ASSUME MaxRetriesAssumption == MaxRetries \in Nat \ {0, 1}
ASSUME MaxFaultsAssumption == MaxFaults \in Nat
ASSUME BrokerDropsAssumption == BrokerDrops \in BOOLEAN

VARIABLES
    outbox,     \* status of each row, "none" until its transaction commits
    createdAt,  \* the row's created_at, 0 before its transaction began
    now,        \* the database clock
    batch,      \* rows of the current tick not yet dealt with
    phase,      \* what the worker does with the oldest of them
    attempt,    \* the attempt of the current Publish call
    channel,    \* the channel shared with the service's consumer
    sent,       \* copies of each event the broker accepted
    faults      \* transient faults charged to each event

txVars == <<outbox, createdAt, now>>
workerVars == <<batch, phase, attempt, channel>>
vars == <<txVars, workerVars, sent, faults>>

RowStatus == {"none", "UNPUBLISHED", "PUBLISHED"}

Init ==
    /\ outbox = [e \in Events |-> "none"]
    /\ createdAt = [e \in Events |-> 0]
    /\ now = 1
    /\ batch = {}
    /\ phase = "idle"
    /\ attempt = 1
    /\ channel = "open"
    /\ sent = [e \in Events |-> 0]
    /\ faults = [e \in Events |-> 0]

-----------------------------------------------------------------------------
(* The business transactions that write the rows.                          *)

BeginTx(e) ==
    /\ createdAt[e] = 0
    /\ createdAt' = [createdAt EXCEPT ![e] = now]
    /\ now' = now + 1
    /\ UNCHANGED <<outbox, workerVars, sent, faults>>

CommitTx(e) ==
    /\ createdAt[e] > 0
    /\ outbox[e] = "none"
    /\ outbox' = [outbox EXCEPT ![e] = "UNPUBLISHED"]
    /\ UNCHANGED <<createdAt, now, workerVars, sent, faults>>

\* A transaction within which no other begins or commits, in one step.
WriteTx(e) ==
    /\ createdAt[e] = 0
    /\ createdAt' = [createdAt EXCEPT ![e] = now]
    /\ now' = now + 1
    /\ outbox' = [outbox EXCEPT ![e] = "UNPUBLISHED"]
    /\ UNCHANGED <<workerVars, sent, faults>>

-----------------------------------------------------------------------------
(* The worker.                                                             *)

BugUnpublished == {e \in Events : createdAt[e] > 0 /\ outbox[e] # "PUBLISHED"}

Unpublished == {e \in Events : outbox[e] = "UNPUBLISHED"}

\* ORDER BY created_at ASC LIMIT BatchSize
IsBatch(B) ==
    /\ Cardinality(B) <= BatchSize
    /\ B = Unpublished \/ Cardinality(B) = BatchSize
    /\ \A e \in B, f \in Unpublished \ B : createdAt[e] <= createdAt[f]

\* A tick whose query fails or returns no row changes nothing.
Fetch ==
    /\ phase = "idle"
    /\ \E B \in SUBSET Unpublished :
        /\ B # {}
        /\ IsBatch(B)
        /\ batch' = B
    /\ phase' = "publishing"
    /\ attempt' = 1
    /\ UNCHANGED <<txVars, channel, sent, faults>>

\* The loop variable: the rows are dealt with in the order of the query.
Current(e) ==
    /\ e \in batch
    /\ \A f \in batch : createdAt[e] <= createdAt[f]

\* The loop goes on with the next row, or waits for the next tick.
NextRow(e) ==
    /\ batch' = batch \ {e}
    /\ phase' = IF batch \ {e} = {} THEN "idle" ELSE "publishing"
    /\ attempt' = 1

BugSkipRow(e) ==
    /\ batch' = {}
    /\ phase' = "idle"
    /\ attempt' = 1

BugSwallowError(e) ==
    /\ phase' = "marking"
    /\ UNCHANGED <<batch, attempt>>

\* Publish returned an error: the row is left for a later tick, the loop continues.
SkipRow(e) == NextRow(e)

BugRetriesLeft == attempt <= MaxRetries

RetriesLeft == attempt < MaxRetries

\* An attempt to publish row e is made.
Publishing(e) ==
    /\ phase = "publishing"
    /\ Current(e)

\* The attempt returned no error.  Without publisher confirms the broker may
\* still never see the message.
PublishSucceeds(e) ==
    /\ Publishing(e)
    /\ channel = "open"
    /\ e \notin Poison
    /\ \E copies \in (IF BrokerDrops THEN {0, 1} ELSE {1}) :
        sent' = [sent EXCEPT ![e] = @ + copies]
    /\ phase' = "marking"
    /\ UNCHANGED <<txVars, batch, attempt, channel, faults>>

\* The broker refuses the message and closes the channel: not an error the
\* publisher reconnects on.
PublishRefused(e) ==
    /\ Publishing(e)
    /\ channel = "open"
    /\ e \in Poison
    /\ SkipRow(e)
    /\ channel' = "closed"
    /\ UNCHANGED <<txVars, sent, faults>>

\* The connection breaks during the attempt, before or after the broker got
\* the message.  retryWithReconnect reconnects and tries again, unless this
\* was the last attempt or the reconnection failed too.
PublishBreaks(e) ==
    /\ Publishing(e)
    /\ channel = "open"
    /\ faults[e] < MaxFaults
    /\ faults' = [faults EXCEPT ![e] = @ + 1]
    /\ \E copies \in (IF e \in Poison THEN {0} ELSE {0, 1}) :
        sent' = [sent EXCEPT ![e] = @ + copies]
    /\ \/ /\ RetriesLeft
          /\ attempt' = attempt + 1
          /\ UNCHANGED <<batch, phase, channel>>
       \/ /\ SkipRow(e)
          /\ channel' = "closed"
    /\ UNCHANGED txVars

\* The attempt finds the channel closed, reconnects and tries again.
Reconnect(e) ==
    /\ Publishing(e)
    /\ channel = "closed"
    /\ RetriesLeft
    /\ attempt' = attempt + 1
    /\ channel' = "open"
    /\ UNCHANGED <<txVars, batch, phase, sent, faults>>

\* All of reconnect's dials fail.
ReconnectFails(e) ==
    /\ Publishing(e)
    /\ channel = "closed"
    /\ faults[e] < MaxFaults
    /\ faults' = [faults EXCEPT ![e] = @ + 1]
    /\ SkipRow(e)
    /\ UNCHANGED <<txVars, channel, sent>>

\* The consumer of the same process reconnects, for both of them.
ConsumerReconnects ==
    /\ channel = "closed"
    /\ channel' = "open"
    /\ UNCHANGED <<txVars, batch, phase, attempt, sent, faults>>

BugMarkPublished(e) ==
    /\ phase = "marking"
    /\ Current(e)
    /\ NextRow(e)
    /\ UNCHANGED <<txVars, channel, sent, faults>>

MarkPublished(e) ==
    /\ phase = "marking"
    /\ Current(e)
    /\ outbox' = [outbox EXCEPT ![e] = "PUBLISHED"]
    /\ NextRow(e)
    /\ UNCHANGED <<createdAt, now, channel, sent, faults>>

\* UpdateOutboxEventStatus fails: the event was sent, its row stays UNPUBLISHED.
MarkFails(e) ==
    /\ phase = "marking"
    /\ Current(e)
    /\ faults[e] < MaxFaults
    /\ faults' = [faults EXCEPT ![e] = @ + 1]
    /\ NextRow(e)
    /\ UNCHANGED <<txVars, channel, sent>>

\* The service stops in the middle of a tick and starts again.
Crash(e) ==
    /\ Current(e)
    /\ faults[e] < MaxFaults
    /\ faults' = [faults EXCEPT ![e] = @ + 1]
    /\ batch' = {}
    /\ phase' = "idle"
    /\ attempt' = 1
    /\ channel' = "open"
    /\ UNCHANGED <<txVars, sent>>

Relay ==
    \/ Fetch
    \/ \E e \in Events :
        PublishSucceeds(e) \/ PublishRefused(e) \/ Reconnect(e) \/ MarkPublished(e)

Next ==
    \/ Relay
    \/ \E e \in Events : BeginTx(e) \/ CommitTx(e) \/ WriteTx(e)
    \/ \E e \in Events : PublishBreaks(e) \/ ReconnectFails(e) \/ MarkFails(e) \/ Crash(e)
    \/ ConsumerReconnects

Spec == Init /\ [][Next]_vars

\* The ticker keeps firing and the goroutine keeps running: a step of the
\* worker that stays possible is taken.
FairSpec == Spec /\ WF_vars(Relay)

-----------------------------------------------------------------------------
(* Properties.                                                             *)

\* Every variable has its type.
TypeOK ==
    /\ outbox \in [Events -> RowStatus]
    /\ createdAt \in [Events -> Nat]
    /\ now \in Nat \ {0}
    /\ batch \subseteq Events
    /\ phase \in {"idle", "publishing", "marking"}
    /\ attempt \in 1..MaxRetries
    /\ channel \in {"open", "closed"}
    /\ sent \in [Events -> Nat]
    /\ faults \in [Events -> 0..MaxFaults]

\* A row marked PUBLISHED was handed to the broker: no event is dropped by the
\* worker's error paths, its retries or a restart.
PublishedWasSent == \A e \in Events : outbox[e] = "PUBLISHED" => sent[e] > 0

\* Every copy of an event beyond the first is paid for by a fault of that very
\* event (a broken attempt, a failed mark, a crash in between): the polling
\* loop by itself never sends an event twice.
DuplicatesArePaidFor == \A e \in Events : sent[e] <= faults[e] + 1

\* The outbox contract: only events of committed transactions are sent, rows
\* are settled after a send, and a settled row is never sent again.
Contract == INSTANCE OutboxContract WITH
    row <- [e \in Events |-> IF outbox[e] = "none" THEN "absent"
                             ELSE IF outbox[e] = "UNPUBLISHED" THEN "pending"
                             ELSE "settled"],
    copies <- sent

ImplementsContract == Contract!Spec

\* Every committed event the broker does not refuse is eventually marked
\* PUBLISHED, even behind refused ones that stay UNPUBLISHED at the head of
\* the table for ever (as long as they do not fill a whole batch).
HealthyEventsGetPublished ==
    \A e \in Events \ Poison :
        outbox[e] = "UNPUBLISHED" ~> outbox[e] = "PUBLISHED"

=============================================================================
