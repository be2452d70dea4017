------------------------ MODULE OutboxRelayer_proofs ------------------------
(***************************************************************************)
(* The safety of the outbox worker for any set of rows, any batch size,    *)
(* any number of attempts and any number of faults.                        *)
(***************************************************************************)
EXTENDS OutboxRelayer, TLAPS

\* The row a step of the worker is about is unique: no two transactions that
\* have begun share a created_at, and a committed row has one.
DistinctTimes ==
    /\ \A e \in Events : createdAt[e] < now
    /\ \A e, f \in Events : createdAt[e] = createdAt[f] /\ createdAt[e] > 0 => e = f
    /\ \A e \in Events : outbox[e] # "none" => createdAt[e] > 0

\* The worker's batch is stale only in what it misses: no row in it has been
\* marked, since no other worker runs beside this one.
BatchIsPending == \A e \in batch : outbox[e] = "UNPUBLISHED"

Structure == TypeOK /\ DistinctTimes /\ BatchIsPending

\* Between the publish and the mark the row's copy has been accepted.
MarkingWasSent == phase = "marking" => \A e \in Events : Current(e) => sent[e] > 0

\* The one copy of e that no fault has to pay for.
Free(e) == IF outbox[e] = "PUBLISHED" \/ (phase = "marking" /\ Current(e)) THEN 1 ELSE 0

CopiesArePaid == \A e \in Events : sent[e] <= faults[e] + Free(e)

-----------------------------------------------------------------------------

\* Every variable keeps its type.
THEOREM TypeCorrect == Spec => []TypeOK
<1>1. Init => TypeOK
  BY MaxRetriesAssumption, MaxFaultsAssumption DEF Init, TypeOK, RowStatus
<1>2. TypeOK /\ [Next]_vars => TypeOK'
  <2> SUFFICES ASSUME TypeOK, [Next]_vars PROVE TypeOK'
    OBVIOUS
  <2> USE MaxRetriesAssumption, MaxFaultsAssumption
  <2>1. ASSUME NEW e \in Events, BeginTx(e) PROVE TypeOK'
    BY <2>1 DEF TypeOK, BeginTx, workerVars
  <2>2. ASSUME NEW e \in Events, CommitTx(e) \/ WriteTx(e) PROVE TypeOK'
    BY <2>2 DEF TypeOK, CommitTx, WriteTx, workerVars, RowStatus
  <2>3. CASE Fetch
    BY <2>3 DEF TypeOK, Fetch, Unpublished, txVars
  <2>4. ASSUME NEW e \in Events, PublishSucceeds(e) PROVE TypeOK'
    BY <2>4 DEF TypeOK, PublishSucceeds, Publishing, txVars
  <2>5. ASSUME NEW e \in Events, PublishRefused(e) PROVE TypeOK'
    BY <2>5 DEF TypeOK, PublishRefused, SkipRow, NextRow, txVars
  <2>6. ASSUME NEW e \in Events, PublishBreaks(e) PROVE TypeOK'
    <3>1. faults' \in [Events -> 0..MaxFaults] /\ sent' \in [Events -> Nat]
      BY <2>6 DEF TypeOK, PublishBreaks
    <3>2. /\ batch' \subseteq Events
          /\ phase' \in {"idle", "publishing", "marking"}
          /\ attempt' \in 1..MaxRetries
          /\ channel' \in {"open", "closed"}
      BY <2>6 DEF TypeOK, PublishBreaks, SkipRow, NextRow, RetriesLeft
    <3> QED BY <2>6, <3>1, <3>2 DEF TypeOK, PublishBreaks, txVars
  <2>7. ASSUME NEW e \in Events, MarkPublished(e) PROVE TypeOK'
    BY <2>7 DEF TypeOK, MarkPublished, NextRow, RowStatus
  <2>8. ASSUME NEW e \in Events, MarkFails(e) PROVE TypeOK'
    BY <2>8 DEF TypeOK, MarkFails, NextRow, txVars
  <2>9. ASSUME NEW e \in Events, Crash(e) PROVE TypeOK'
    BY <2>9 DEF TypeOK, Crash, txVars
  <2>10. ASSUME NEW e \in Events, Reconnect(e) \/ ReconnectFails(e) PROVE TypeOK'
    BY <2>10 DEF TypeOK, Reconnect, ReconnectFails, RetriesLeft, SkipRow, NextRow, txVars
  <2>11. CASE ConsumerReconnects
    BY <2>11 DEF TypeOK, ConsumerReconnects, txVars
  <2>12. CASE UNCHANGED vars
    BY <2>12 DEF TypeOK, vars, txVars, workerVars
  <2> QED
    BY <2>1, <2>2, <2>3, <2>4, <2>5, <2>6, <2>7, <2>8, <2>9, <2>10, <2>11, <2>12
       DEF Next, Relay
<1> QED BY <1>1, <1>2, PTL DEF Spec

\* Business transactions and the worker keep the rows and the batch in order:
\* created_at tells committed rows apart, and no row of the batch is settled.
THEOREM StructureIsInvariant == Spec => []Structure
<1>1. Init => Structure
  BY MaxRetriesAssumption, MaxFaultsAssumption
     DEF Init, Structure, TypeOK, RowStatus, DistinctTimes, BatchIsPending
<1>2. Structure /\ TypeOK' /\ [Next]_vars => Structure'
  <2> SUFFICES ASSUME Structure, TypeOK', [Next]_vars
               PROVE DistinctTimes' /\ BatchIsPending'
    BY DEF Structure
  <2> USE DEF Structure
  <2>1. ASSUME NEW e \in Events, BeginTx(e) PROVE DistinctTimes' /\ BatchIsPending'
    BY <2>1 DEF BeginTx, workerVars, DistinctTimes, BatchIsPending, TypeOK
  <2>2. ASSUME NEW e \in Events, CommitTx(e) \/ WriteTx(e)
        PROVE DistinctTimes' /\ BatchIsPending'
    BY <2>2 DEF CommitTx, WriteTx, workerVars, DistinctTimes, BatchIsPending, TypeOK
  <2>3. CASE Fetch
    BY <2>3 DEF Fetch, Unpublished, txVars, DistinctTimes, BatchIsPending
  <2>4. ASSUME NEW e \in Events, PublishSucceeds(e)
        PROVE DistinctTimes' /\ BatchIsPending'
    BY <2>4 DEF PublishSucceeds, txVars, DistinctTimes, BatchIsPending
  <2>5. ASSUME NEW e \in Events, PublishRefused(e)
        PROVE DistinctTimes' /\ BatchIsPending'
    BY <2>5 DEF PublishRefused, Publishing, SkipRow, NextRow, txVars, DistinctTimes, BatchIsPending
  <2>6. ASSUME NEW e \in Events, PublishBreaks(e)
        PROVE DistinctTimes' /\ BatchIsPending'
    BY <2>6 DEF PublishBreaks, Publishing, SkipRow, NextRow, txVars, DistinctTimes, BatchIsPending
  <2>7. ASSUME NEW e \in Events, MarkPublished(e)
        PROVE DistinctTimes' /\ BatchIsPending'
    BY <2>7 DEF MarkPublished, Current, NextRow, DistinctTimes, BatchIsPending, TypeOK
  <2>8. ASSUME NEW e \in Events, MarkFails(e) PROVE DistinctTimes' /\ BatchIsPending'
    BY <2>8 DEF MarkFails, NextRow, txVars, DistinctTimes, BatchIsPending
  <2>9. ASSUME NEW e \in Events, Crash(e) PROVE DistinctTimes' /\ BatchIsPending'
    BY <2>9 DEF Crash, txVars, DistinctTimes, BatchIsPending
  <2>10. ASSUME NEW e \in Events, Reconnect(e) \/ ReconnectFails(e)
         PROVE DistinctTimes' /\ BatchIsPending'
    BY <2>10 DEF Reconnect, ReconnectFails, SkipRow, NextRow, txVars, DistinctTimes,
                BatchIsPending
  <2>11. CASE ConsumerReconnects
    BY <2>11 DEF ConsumerReconnects, txVars, DistinctTimes, BatchIsPending
  <2>12. CASE UNCHANGED vars
    BY <2>12 DEF vars, txVars, workerVars, DistinctTimes, BatchIsPending
  <2> QED
    BY <2>1, <2>2, <2>3, <2>4, <2>5, <2>6, <2>7, <2>8, <2>9, <2>10, <2>11, <2>12
       DEF Next, Relay
<1> QED BY <1>1, <1>2, TypeCorrect, PTL DEF Spec

\* The loop is about one row at a time.
LEMMA CurrentIsUnique ==
    ASSUME Structure, NEW e \in Events, NEW f \in Events, Current(e), Current(f)
    PROVE e = f
<1>1. createdAt[e] = createdAt[f]
  BY DEF Structure, TypeOK, Current
<1>2. createdAt[e] > 0
  BY DEF Structure, BatchIsPending, DistinctTimes, Current
<1> QED BY <1>1, <1>2 DEF Structure, DistinctTimes

\* A transaction that begins does not change which row the loop is about: its
\* own row is not in the batch.
LEMMA BeginKeepsCurrent ==
    ASSUME Structure, NEW g \in Events, BeginTx(g) \/ WriteTx(g), NEW e \in Events
    PROVE Current(e)' <=> Current(e)
<1>1. g \notin batch
  BY DEF Structure, BeginTx, WriteTx, BatchIsPending, DistinctTimes
<1>2. batch' = batch /\ \A f \in batch : f \in Events /\ createdAt'[f] = createdAt[f]
  BY <1>1 DEF Structure, TypeOK, BeginTx, WriteTx, workerVars
<1> QED BY <1>2 DEF Current

-----------------------------------------------------------------------------

\* The inductive form of PublishedWasSent: a row about to be marked was sent too.
LEMMA MarkingIsSent ==
    ASSUME BrokerDrops = FALSE
    PROVE Spec => [](MarkingWasSent /\ PublishedWasSent)
<1> DEFINE Inv == MarkingWasSent /\ PublishedWasSent
<1>1. Init => Inv
  BY DEF Init, MarkingWasSent, PublishedWasSent
<1>2. Structure /\ Structure' /\ Inv /\ [Next]_vars => Inv'
  <2> SUFFICES ASSUME Structure, Structure', Inv, [Next]_vars PROVE Inv'
    OBVIOUS
  <2>0. TypeOK /\ TypeOK'
    BY DEF Structure
  <2>1. ASSUME NEW g \in Events, BeginTx(g) PROVE Inv'
    <3>1. phase' = phase /\ sent' = sent /\ outbox' = outbox
      BY <2>1 DEF BeginTx, workerVars
    <3>2. \A e \in Events : Current(e)' => Current(e)
      BY <2>1, BeginKeepsCurrent
    <3> QED BY <3>1, <3>2 DEF MarkingWasSent, PublishedWasSent
  <2>2. ASSUME NEW e \in Events, CommitTx(e) PROVE Inv'
    BY <2>2, <2>0 DEF CommitTx, workerVars, MarkingWasSent, PublishedWasSent, TypeOK, Current
  <2>w. ASSUME NEW g \in Events, WriteTx(g) PROVE Inv'
    <3>1. phase' = phase /\ sent' = sent /\ outbox' = [outbox EXCEPT ![g] = "UNPUBLISHED"]
      BY <2>w DEF WriteTx, workerVars
    <3>2. \A e \in Events : Current(e)' => Current(e)
      BY <2>w, BeginKeepsCurrent
    <3> QED BY <2>0, <3>1, <3>2 DEF MarkingWasSent, PublishedWasSent, TypeOK
  <2>3. CASE Fetch
    BY <2>3 DEF Fetch, txVars, MarkingWasSent, PublishedWasSent
  <2>4. ASSUME NEW e \in Events, PublishSucceeds(e) PROVE Inv'
    <3>1. sent' = [sent EXCEPT ![e] = @ + 1] /\ sent'[e] > 0
      BY <2>4, <2>0 DEF PublishSucceeds, TypeOK
    <3>2. UNCHANGED <<outbox, createdAt, batch>> /\ Current(e)
      BY <2>4 DEF PublishSucceeds, Publishing, txVars
    <3>3. \A f \in Events : Current(f)' => Current(f)
      BY <3>2 DEF Current
    <3>4. MarkingWasSent'
      BY <3>1, <3>2, <3>3, CurrentIsUnique DEF MarkingWasSent
    <3>5. PublishedWasSent'
      BY <3>1, <3>2, <2>0 DEF PublishedWasSent, TypeOK
    <3> QED BY <3>4, <3>5
  <2>5. ASSUME NEW e \in Events, PublishRefused(e) PROVE Inv'
    BY <2>5 DEF PublishRefused, Publishing, SkipRow, NextRow, txVars, MarkingWasSent, PublishedWasSent
  <2>6. ASSUME NEW e \in Events, PublishBreaks(e) PROVE Inv'
    <3>1. phase' # "marking" /\ outbox' = outbox
      BY <2>6 DEF PublishBreaks, Publishing, SkipRow, NextRow, txVars
    <3>2. \A f \in Events : sent'[f] >= sent[f]
      BY <2>6, <2>0 DEF PublishBreaks, TypeOK
    <3> QED BY <3>1, <3>2, <2>0 DEF MarkingWasSent, PublishedWasSent, TypeOK
  <2>7. ASSUME NEW e \in Events, MarkPublished(e) PROVE Inv'
    BY <2>7, <2>0
       DEF MarkPublished, NextRow, MarkingWasSent, PublishedWasSent, TypeOK
  <2>8. ASSUME NEW e \in Events, MarkFails(e) PROVE Inv'
    BY <2>8 DEF MarkFails, NextRow, txVars, MarkingWasSent, PublishedWasSent
  <2>9. ASSUME NEW e \in Events, Crash(e) PROVE Inv'
    BY <2>9 DEF Crash, txVars, MarkingWasSent, PublishedWasSent
  <2>10. ASSUME NEW e \in Events, Reconnect(e) \/ ReconnectFails(e) PROVE Inv'
    BY <2>10 DEF Reconnect, ReconnectFails, Publishing, SkipRow, NextRow, txVars,
                MarkingWasSent, PublishedWasSent
  <2>11. CASE ConsumerReconnects
    BY <2>11 DEF ConsumerReconnects, txVars, MarkingWasSent, PublishedWasSent, Current
  <2>12. CASE UNCHANGED vars
    BY <2>12 DEF vars, txVars, workerVars, MarkingWasSent, PublishedWasSent, Current
  <2> QED
    BY <2>1, <2>2, <2>w, <2>3, <2>4, <2>5, <2>6, <2>7, <2>8, <2>9, <2>10, <2>11, <2>12
       DEF Next, Relay
<1> QED BY <1>1, <1>2, StructureIsInvariant, PTL DEF Spec

\* If a publish without an error reaches the broker, then a row is PUBLISHED
\* only after a copy of its event was accepted, whatever fails and however
\* often the worker is restarted.
THEOREM PublishedIsSent ==
    ASSUME BrokerDrops = FALSE
    PROVE Spec => []PublishedWasSent
BY MarkingIsSent, PTL

\* A copy beyond the first is paid for by a fault charged to the same event.
THEOREM DuplicatesArePaid == Spec => []DuplicatesArePaidFor
<1>1. Init => CopiesArePaid
  BY DEF Init, CopiesArePaid, Free
<1>2. Structure /\ Structure' /\ CopiesArePaid /\ [Next]_vars => CopiesArePaid'
  <2> SUFFICES ASSUME Structure, Structure', CopiesArePaid, [Next]_vars,
                      NEW e \in Events
               PROVE (sent[e] <= faults[e] + Free(e))'
    BY DEF CopiesArePaid
  <2>0. TypeOK /\ TypeOK' /\ sent[e] <= faults[e] + Free(e)
    BY DEF Structure, CopiesArePaid
  <2>u. \A g \in Events : Current(g) => g \in batch /\ outbox[g] = "UNPUBLISHED"
    BY DEF Structure, BatchIsPending, Current
  <2>1. ASSUME NEW g \in Events, BeginTx(g) PROVE (sent[e] <= faults[e] + Free(e))'
    <3>1. UNCHANGED <<outbox, phase, sent, faults>>
      BY <2>1 DEF BeginTx, workerVars
    <3>2. Current(e)' <=> Current(e)
      BY <2>1, BeginKeepsCurrent
    <3> QED BY <2>0, <3>1, <3>2 DEF Free
  <2>2. ASSUME NEW g \in Events, CommitTx(g) PROVE (sent[e] <= faults[e] + Free(e))'
    <3>1. UNCHANGED <<phase, sent, faults>> /\ (Current(e)' <=> Current(e))
      BY <2>2 DEF CommitTx, workerVars, Current
    <3>2. outbox'[e] = "PUBLISHED" <=> outbox[e] = "PUBLISHED"
      BY <2>2, <2>0 DEF CommitTx, TypeOK
    <3> QED BY <2>0, <3>1, <3>2 DEF Free
  <2>w. ASSUME NEW g \in Events, WriteTx(g) PROVE (sent[e] <= faults[e] + Free(e))'
    <3>1. UNCHANGED <<phase, sent, faults>> /\ (Current(e)' <=> Current(e))
      BY <2>w, BeginKeepsCurrent DEF WriteTx, workerVars
    <3>2. outbox'[e] = "PUBLISHED" <=> outbox[e] = "PUBLISHED"
      BY <2>w, <2>0 DEF WriteTx, TypeOK, Structure, DistinctTimes
    <3> QED BY <2>0, <3>1, <3>2 DEF Free
  <2>3. CASE Fetch
    <3>1. UNCHANGED <<outbox, sent, faults>> /\ phase = "idle"
      BY <2>3 DEF Fetch, txVars
    <3>2. phase' = "publishing"
      BY <2>3 DEF Fetch
    <3> QED BY <2>0, <3>1, <3>2 DEF Free
  <2>4. ASSUME NEW g \in Events, PublishSucceeds(g)
        PROVE (sent[e] <= faults[e] + Free(e))'
    <3>1. /\ UNCHANGED <<outbox, faults>> /\ phase = "publishing" /\ phase' = "marking"
          /\ Current(e)' <=> Current(e)
          /\ Current(g)
      BY <2>4 DEF PublishSucceeds, Publishing, txVars, Current
    <3>2. sent'[e] = sent[e] \/ (e = g /\ sent'[e] = sent[e] + 1)
      BY <2>4, <2>0 DEF PublishSucceeds, TypeOK
    <3>3. CASE e = g
      BY <3>1, <3>2, <3>3, <2>0, <2>u DEF Free, TypeOK
    <3>4. CASE e # g
      BY <3>1, <3>2, <3>4, <2>0 DEF Free, TypeOK
    <3> QED BY <3>3, <3>4
  <2>5. ASSUME NEW g \in Events, PublishRefused(g)
        PROVE (sent[e] <= faults[e] + Free(e))'
    <3>1. UNCHANGED <<outbox, sent, faults>> /\ phase = "publishing" /\ phase' # "marking"
      BY <2>5 DEF PublishRefused, Publishing, SkipRow, NextRow, txVars
    <3> QED BY <2>0, <3>1 DEF Free
  <2>6. ASSUME NEW g \in Events, PublishBreaks(g)
        PROVE (sent[e] <= faults[e] + Free(e))'
    <3>1. UNCHANGED outbox /\ phase = "publishing" /\ phase' # "marking"
      BY <2>6 DEF PublishBreaks, Publishing, SkipRow, NextRow, txVars
    <3>2. \/ e # g /\ sent'[e] = sent[e] /\ faults'[e] = faults[e]
          \/ e = g /\ sent'[e] <= sent[e] + 1 /\ faults'[e] = faults[e] + 1
      BY <2>6, <2>0 DEF PublishBreaks, TypeOK
    <3> QED BY <2>0, <3>1, <3>2 DEF Free, TypeOK
  <2>7. ASSUME NEW g \in Events, MarkPublished(g)
        PROVE (sent[e] <= faults[e] + Free(e))'
    <3>1. /\ UNCHANGED <<sent, faults>> /\ phase' # "marking" /\ Current(g)
          /\ outbox' = [outbox EXCEPT ![g] = "PUBLISHED"]
      BY <2>7 DEF MarkPublished, NextRow
    <3>2. CASE e = g
      BY <3>1, <3>2, <2>0 DEF Free, TypeOK
    <3>3. CASE e # g
      <4>1. ~Current(e)
        BY <3>1, <3>3, CurrentIsUnique
      <4> QED BY <3>1, <3>3, <4>1, <2>0 DEF Free, TypeOK
    <3> QED BY <3>2, <3>3
  <2>8. ASSUME NEW g \in Events, MarkFails(g) PROVE (sent[e] <= faults[e] + Free(e))'
    <3>1. /\ UNCHANGED <<outbox, sent>> /\ phase' # "marking" /\ Current(g)
          /\ faults' = [faults EXCEPT ![g] = @ + 1]
      BY <2>8 DEF MarkFails, NextRow, txVars
    <3>2. CASE e = g
      BY <3>1, <3>2, <2>0, <2>u DEF Free, TypeOK
    <3>3. CASE e # g
      <4>1. ~Current(e)
        BY <3>1, <3>3, CurrentIsUnique
      <4> QED BY <3>1, <3>3, <4>1, <2>0 DEF Free, TypeOK
    <3> QED BY <3>2, <3>3
  <2>9. ASSUME NEW g \in Events, Crash(g) PROVE (sent[e] <= faults[e] + Free(e))'
    <3>1. /\ UNCHANGED <<outbox, sent>> /\ phase' # "marking" /\ Current(g)
          /\ faults' = [faults EXCEPT ![g] = @ + 1]
      BY <2>9 DEF Crash, txVars
    <3>2. CASE e = g
      BY <3>1, <3>2, <2>0, <2>u DEF Free, TypeOK
    <3>3. CASE e # g
      <4>1. ~Current(e)
        BY <3>1, <3>3, CurrentIsUnique
      <4> QED BY <3>1, <3>3, <4>1, <2>0 DEF Free, TypeOK
    <3> QED BY <3>2, <3>3
  <2>10. ASSUME NEW g \in Events, Reconnect(g) \/ ReconnectFails(g)
         PROVE (sent[e] <= faults[e] + Free(e))'
    <3>1. /\ UNCHANGED <<outbox, sent>> /\ phase = "publishing" /\ phase' # "marking"
          /\ faults'[e] >= faults[e]
      BY <2>10, <2>0 DEF Reconnect, ReconnectFails, Publishing, SkipRow, NextRow, txVars,
                        TypeOK
    <3> QED BY <2>0, <3>1 DEF Free, TypeOK
  <2>11. CASE ConsumerReconnects
    BY <2>11, <2>0 DEF ConsumerReconnects, txVars, Free, Current
  <2>12. CASE UNCHANGED vars
    BY <2>12, <2>0 DEF vars, txVars, workerVars, Free, Current
  <2> QED
    BY <2>1, <2>2, <2>w, <2>3, <2>4, <2>5, <2>6, <2>7, <2>8, <2>9, <2>10, <2>11, <2>12
       DEF Next, Relay
<1>3. Structure /\ CopiesArePaid => DuplicatesArePaidFor
  BY DEF Structure, TypeOK, CopiesArePaid, DuplicatesArePaidFor, Free
<1> QED BY <1>1, <1>2, <1>3, StructureIsInvariant, PTL DEF Spec

-----------------------------------------------------------------------------

OnlyCommittedSent == \A e \in Events : sent[e] > 0 => outbox[e] # "none"

\* Nothing is sent of a row whose transaction has not committed, a broken
\* attempt included: the worker only reads committed rows.
THEOREM SentWasCommitted == Spec => []OnlyCommittedSent
<1> DEFINE Inv == OnlyCommittedSent
<1> USE DEF OnlyCommittedSent
<1>1. Init => Inv
  BY DEF Init
<1>2. Structure /\ Inv /\ [Next]_vars => Inv'
  <2> SUFFICES ASSUME Structure, Inv, [Next]_vars PROVE Inv'
    OBVIOUS
  <2>0. TypeOK /\ \A g \in Events : Current(g) => outbox[g] # "none"
    BY DEF Structure, BatchIsPending, Current
  <2>1. ASSUME NEW g \in Events, PublishSucceeds(g) \/ PublishBreaks(g) PROVE Inv'
    <3>1. outbox' = outbox /\ outbox[g] # "none"
      BY <2>0, <2>1 DEF PublishSucceeds, PublishBreaks, Publishing, txVars
    <3>2. \A e \in Events : e # g => sent'[e] = sent[e]
      BY <2>0, <2>1 DEF PublishSucceeds, PublishBreaks, TypeOK
    <3> QED BY <3>1, <3>2
  <2>2. ASSUME NEW g \in Events, CommitTx(g) \/ WriteTx(g) \/ MarkPublished(g) PROVE Inv'
    BY <2>0, <2>2 DEF CommitTx, WriteTx, MarkPublished, TypeOK
  <2>3. ASSUME UNCHANGED <<outbox, sent>> PROVE Inv'
    BY <2>3
  <2> QED
    BY <2>1, <2>2, <2>3
       DEF Next, Relay, Fetch, PublishRefused, Reconnect, ReconnectFails, MarkFails, Crash,
           BeginTx, ConsumerReconnects, txVars, vars
<1> QED BY <1>1, <1>2, StructureIsInvariant, PTL DEF Spec

-----------------------------------------------------------------------------

\* What the contract's row variable is for one event.
RowOf(status) == IF status = "none" THEN "absent"
                 ELSE IF status = "UNPUBLISHED" THEN "pending"
                 ELSE "settled"

\* The worker with its batches, retries, faults and restarts implements the
\* outbox contract: each of its steps commits, sends or settles one row of it,
\* or does nothing the contract can see.
THEOREM RelayerImplementsContract ==
    ASSUME BrokerDrops = FALSE
    PROVE Spec => ImplementsContract
<1> DEFINE Row == [e \in Events |-> RowOf(outbox[e])]
<1>1. Init => Contract!Init
  BY DEF Init, Contract!Init
<1>2. Structure /\ Structure' /\ MarkingWasSent /\ [Next]_vars
        => [Contract!Next]_(Contract!contractVars)
  <2> SUFFICES ASSUME Structure, MarkingWasSent, [Next]_vars
               PROVE Contract!Next \/ (Row' = Row /\ sent' = sent)
    BY DEF Contract!contractVars, RowOf
  <2>0. TypeOK
    BY DEF Structure
  <2>u. \A g \in Events : Current(g) => outbox[g] = "UNPUBLISHED"
    BY DEF Structure, BatchIsPending, Current
  <2>s. ASSUME NEW g \in Events, Current(g), outbox' = outbox,
               sent' = [sent EXCEPT ![g] = @ + 1]
        PROVE Contract!Next
    BY <2>s, <2>u DEF Contract!Next, Contract!Send
  <2>1. ASSUME UNCHANGED <<outbox, sent>> PROVE Row' = Row /\ sent' = sent
    BY <2>1
  <2>2. ASSUME NEW g \in Events, CommitTx(g) PROVE Contract!Next
    <3>1. outbox[g] = "none" /\ outbox' = [outbox EXCEPT ![g] = "UNPUBLISHED"] /\ sent' = sent
      BY <2>2 DEF CommitTx
    <3>2. Contract!Commit(g)
      BY <3>1, <2>0 DEF Contract!Commit, TypeOK
    <3> QED BY <3>2 DEF Contract!Next
  <2>w. ASSUME NEW g \in Events, WriteTx(g) PROVE Contract!Next
    <3>1. outbox[g] = "none" /\ outbox' = [outbox EXCEPT ![g] = "UNPUBLISHED"] /\ sent' = sent
      BY <2>w, <2>0 DEF WriteTx, Structure, DistinctTimes, TypeOK
    <3>2. Contract!Commit(g)
      BY <3>1, <2>0 DEF Contract!Commit, TypeOK
    <3> QED BY <3>2 DEF Contract!Next
  <2>3. ASSUME NEW g \in Events, PublishSucceeds(g) PROVE Contract!Next
    BY <2>3, <2>s DEF PublishSucceeds, Publishing, txVars
  <2>4. ASSUME NEW g \in Events, PublishBreaks(g)
        PROVE Contract!Next \/ (Row' = Row /\ sent' = sent)
    <3>1. outbox' = outbox /\ Current(g)
      BY <2>4 DEF PublishBreaks, Publishing, txVars
    <3>2. PICK copies \in {0, 1} : sent' = [sent EXCEPT ![g] = @ + copies]
      BY <2>4 DEF PublishBreaks
    <3>3. CASE copies = 0
      <4>1. sent' = sent
        BY <3>2, <3>3, <2>0 DEF TypeOK
      <4> QED BY <3>1, <4>1, <2>1
    <3>4. CASE copies = 1
      BY <3>1, <3>2, <3>4, <2>s
    <3> QED BY <3>3, <3>4
  <2>5. ASSUME NEW g \in Events, MarkPublished(g) PROVE Contract!Next
    <3>1. /\ phase = "marking" /\ Current(g) /\ sent' = sent
          /\ outbox' = [outbox EXCEPT ![g] = "PUBLISHED"]
      BY <2>5 DEF MarkPublished
    <3>2. sent[g] > 0 /\ outbox[g] = "UNPUBLISHED"
      BY <3>1, <2>u DEF MarkingWasSent
    <3>3. Contract!Settle(g)
      BY <3>1, <3>2, <2>0 DEF Contract!Settle, TypeOK
    <3> QED BY <3>3 DEF Contract!Next
  <2>6. CASE Fetch \/ ConsumerReconnects
    BY <2>6, <2>1 DEF Fetch, ConsumerReconnects, txVars
  <2>7. ASSUME NEW g \in Events,
               \/ BeginTx(g) \/ PublishRefused(g) \/ Reconnect(g) \/ ReconnectFails(g)
               \/ MarkFails(g) \/ Crash(g)
        PROVE Row' = Row /\ sent' = sent
    BY <2>7, <2>1 DEF BeginTx, PublishRefused, Reconnect, ReconnectFails, MarkFails, Crash,
                     txVars
  <2>8. CASE UNCHANGED vars
    BY <2>8, <2>1 DEF vars, txVars
  <2> QED
    BY <2>2, <2>w, <2>3, <2>4, <2>5, <2>6, <2>7, <2>8 DEF Next, Relay
<1>3. Spec => []MarkingWasSent
  BY MarkingIsSent, PTL
<1> QED
  BY <1>1, <1>2, <1>3, StructureIsInvariant, PTL DEF Spec, ImplementsContract, Contract!Spec

=============================================================================
