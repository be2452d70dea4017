------------------------ MODULE ProductSearch_proofs ------------------------
(***************************************************************************)
(* The copies of the catalogue and the events of its products, for any     *)
(* products and callers, any history, any number of calls, any finite      *)
(* number of goroutines of the indexing consumer and any prefetch limit.   *)
(***************************************************************************)
EXTENDS ProductSearch, FiniteSetTheorems, TLAPS

Keys == Catalogue!Keys

Log == [Keys -> Seq(Catalogue!Writes)]

Handler == [pc : {"idle", "refilling", "deleting", "dropping"}, key : Keys,
            ver : Nat, owed : BOOLEAN, raced : BOOLEAN]

LogOK == log \in Log

CallersOK == caller \in [Callers -> Handler]

CopiesOK ==
    /\ cache \in [Keys -> [full : BOOLEAN, ver : Nat, raced : BOOLEAN]]
    /\ deletions \in [Keys -> Nat]
    /\ missed \in [Keys -> BOOLEAN]

CallsOK == callsLeft \in 0..MaxCalls

\* The types of the catalogue, in parts.
LEMMA CatalogueParts ==
    /\ Catalogue!TypeOK <=> LogOK /\ CallersOK /\ CopiesOK /\ CallsOK
    /\ Catalogue!TypeOK' <=> LogOK' /\ CallersOK' /\ CopiesOK' /\ CallsOK'
BY DEF Catalogue!TypeOK, LogOK, CallersOK, CopiesOK, CallsOK, Log, Handler, Keys

\* What the model starts from has the types its parts ask for.
LEMMA Assumptions ==
    /\ AllCategories \notin Products /\ AllCategories \in Keys
    /\ MaxCalls \in Nat /\ MaxCopies \in Nat
    /\ Products \subseteq Keys
    /\ \A s \in Starts : s.history \in [Products -> Seq(Catalogue!Writes)]
BY PartsAssumption DEF Catalogue!CatalogueAssumption, Search!IndexAssumption, Keys,
                       Catalogue!Keys

\* A handler that does nothing, one that will refill a copy, and no copy.
LEMMA HandlerFacts ==
    /\ Catalogue!Idle \in Handler
    /\ \A k \in Keys, v \in Nat, owed \in BOOLEAN : Catalogue!Refilling(k, v, owed) \in Handler
    /\ Catalogue!NoCopy \in [full : BOOLEAN, ver : Nat, raced : BOOLEAN]
BY Assumptions DEF Catalogue!Idle, Catalogue!Refilling, Catalogue!NoCopy, Handler

\* A write that overtakes a refill changes nothing else about its handler.
LEMMA OvertakeFacts ==
    ASSUME CallersOK, NEW d \in Callers, NEW K
    PROVE LET h == Catalogue!Overtake(d, K)
          IN  /\ h \in Handler
              /\ h.pc = caller[d].pc /\ h.key = caller[d].key
              /\ h.ver = caller[d].ver /\ h.owed = caller[d].owed
              /\ caller[d].raced => h.raced
              /\ caller[d].pc = "refilling" /\ caller[d].key \in K => h.raced
<1>1. caller[d] \in Handler
  BY DEF CallersOK
<1> QED BY <1>1 DEF Catalogue!Overtake, Catalogue!At, Handler

\* A write to the log of the keys K, in which all handlers but those of D go on.
Moves(D, K) ==
    /\ \A d \in Callers \ D : caller'[d] = Catalogue!Overtake(d, K)
    /\ \A k \in Keys : k \notin K => log'[k] = log[k]

\* A step that commits nothing and leaves the handlers but those of D alone.
LEMMA QuietMoves ==
    ASSUME UNCHANGED log, NEW D, \A d \in Callers \ D : caller'[d] = caller[d]
    PROVE Moves(D, {})
BY DEF Catalogue!Overtake, Moves

\* One handler's step that commits nothing.
LEMMA OneMoves ==
    ASSUME CallersOK, UNCHANGED log, NEW c \in Callers, NEW next \in Handler,
           caller' = [caller EXCEPT ![c] = next]
    PROVE Moves({c}, {}) /\ caller'[c] = next /\ CallersOK'
<1>1. \A d \in Callers \ {c} : caller'[d] = caller[d]
  BY DEF CallersOK
<1> QED BY <1>1, QuietMoves DEF CallersOK

\* The transaction of a handler that appends to one row.
LEMMA CommitMoves ==
    ASSUME CallersOK, LogOK, NEW c \in Callers, NEW k \in Keys, NEW write \in Catalogue!Writes,
           NEW next \in Handler, Catalogue!Commit(c, k, write, next)
    PROVE /\ Moves({c}, {k}) /\ caller'[c] = next
          /\ log'[k] = Append(log[k], write)
          /\ CallersOK' /\ LogOK'
<1>1. \A d \in Callers : Catalogue!Overtake(d, {k}) \in Handler
  BY OvertakeFacts
<1>2. log[k] \in Seq(Catalogue!Writes)
  BY DEF LogOK, Log
<1>3. Append(log[k], write) \in Seq(Catalogue!Writes)
  BY <1>2
<1> QED BY <1>1, <1>3 DEF Catalogue!Commit, Moves, CallersOK, LogOK, Log

\* The transaction that deletes a category, with the rows of its products.
LEMMA CommitDeletionMoves ==
    ASSUME CallersOK, LogOK, NEW c \in Callers, NEW members \in SUBSET Products,
           NEW next \in Handler, Catalogue!CommitDeletion(c, members, next)
    PROVE /\ Moves({c}, members \cup {AllCategories}) /\ caller'[c] = next
          /\ CallersOK' /\ LogOK'
<1>1. \A d \in Callers : Catalogue!Overtake(d, members \cup {AllCategories}) \in Handler
  BY OvertakeFacts
<1>2. \A k \in Keys : log[k] \in Seq(Catalogue!Writes)
  BY DEF LogOK, Log
<1>3. "change" \in Catalogue!Writes /\ "uncategorised" \in Catalogue!Writes
  BY DEF Catalogue!Writes
<1>4. \A k \in Keys : /\ Append(log[k], "change") \in Seq(Catalogue!Writes)
                      /\ Append(log[k], "uncategorised") \in Seq(Catalogue!Writes)
  BY <1>2, <1>3
<1>5. log' \in [Keys -> Seq(Catalogue!Writes)]
  BY <1>2, <1>4 DEF Catalogue!CommitDeletion, Keys
<1>6. \A k \in Keys : k \notin members \cup {AllCategories} => log'[k] = log[k]
  BY DEF Catalogue!CommitDeletion, Keys
<1>7. caller' = [d \in Callers |-> IF d = c THEN next
                   ELSE Catalogue!Overtake(d, members \cup {AllCategories})]
  BY DEF Catalogue!CommitDeletion
<1> QED BY <1>1, <1>5, <1>6, <1>7 DEF Moves, CallersOK, LogOK, Log

\* A bookkeeping of the copies keeps its types; only that of K is written off.
LEMMA MissFacts ==
    ASSUME CopiesOK, NEW K, Catalogue!Miss(K)
    PROVE /\ missed' \in [Keys -> BOOLEAN]
          /\ \A k \in Keys : /\ missed[k] => missed'[k]
                             /\ k \in K /\ cache[k].full => missed'[k]
<1>1. \A k \in Keys : missed[k] \in BOOLEAN /\ cache[k].full \in BOOLEAN
  BY DEF CopiesOK
<1>2. missed' = [k \in Keys |-> missed[k] \/ (k \in K /\ cache[k].full)]
  BY DEF Catalogue!Miss, Keys
<1>3. \A k \in Keys : (missed[k] \/ (k \in K /\ cache[k].full)) \in BOOLEAN
  BY <1>1, Zenon
<1> QED BY <1>2, <1>3

\* A goroutine that will delete the copy of k.
LEMMA DeleteLaterFacts ==
    ASSUME CopiesOK, NEW k \in Keys, Catalogue!DeleteLater(k)
    PROVE /\ deletions' \in [Keys -> Nat]
          /\ deletions'[k] > 0
          /\ \A l \in Keys : deletions[l] > 0 => deletions'[l] > 0
BY DEF Catalogue!DeleteLater, CopiesOK

-----------------------------------------------------------------------------
(* The copies.                                                             *)

\* The handler d is to bring a write to the copy of k.
Owes(d, k) == caller[d].key = k /\ (caller[d].pc = "dropping" \/ caller[d].owed)

\* Only a refill is owed; one that no write overtook carries the row as it is.
HandlerInv(d) ==
    /\ caller[d].owed => caller[d].pc = "refilling"
    /\ caller[d].pc = "refilling" /\ ~caller[d].raced =>
         caller[d].ver = Len(log[caller[d].key]) /\ Catalogue!Live(caller[d].key)

CopyInv(k) ==
    cache[k].full /\ ~Catalogue!Fresh(k) => Catalogue!Owed(k) \/ cache[k].raced \/ missed[k]

CatalogueInv ==
    /\ Catalogue!TypeOK
    /\ \A d \in Callers : HandlerInv(d)
    /\ \A k \in Keys : CopyInv(k)

\* After a step in which only the handlers of D did something, the copy of k
\* will be seen to.
SeenTo(D, k) ==
    ~cache[k].full \/ missed'[k] \/ deletions'[k] > 0 \/ \E d \in D : Owes(d, k)'

\* What a step that writes K may do about the copy of k.
CopyStep(D, K, k) ==
    \/ ~cache'[k].full
    \/ cache'[k].raced
    \/ Catalogue!Fresh(k)'
    \/ /\ cache'[k] = cache[k]
       /\ missed[k] => missed'[k]
       /\ k \in K \/ deletions[k] > 0 \/ (\E d \in D : Owes(d, k)) => SeenTo(D, k)

\* A handler in whose step nothing happens to it but that it is overtaken.
LEMMA OvertakenInv ==
    ASSUME CallersOK, NEW D \in SUBSET Callers, NEW K, Moves(D, K), NEW d \in Callers \ D,
           HandlerInv(d)
    PROVE /\ HandlerInv(d)'
          /\ \A k \in Keys : Owes(d, k) => Owes(d, k)'
<1>1. caller'[d] = Catalogue!Overtake(d, K) /\ caller[d] \in Handler
  BY DEF Moves, CallersOK
<1>2. caller[d].key \in Keys
  BY <1>1 DEF Handler
<1>3. caller[d].key \notin K => log'[caller[d].key] = log[caller[d].key]
  BY <1>2 DEF Moves
<1>4. PICK k \in Keys : k = caller[d].key
  BY <1>2
<1>5. k \notin K => (Catalogue!Live(k) => Catalogue!Live(k)')
  BY DEF Moves, Catalogue!Live, Catalogue!WritesTo
<1>6. /\ caller'[d].pc = caller[d].pc /\ caller'[d].key = k
      /\ caller'[d].ver = caller[d].ver /\ caller'[d].owed = caller[d].owed
      /\ caller[d].raced => caller'[d].raced
      /\ caller[d].pc = "refilling" /\ k \in K => caller'[d].raced
  BY <1>1, <1>4, OvertakeFacts
<1>7. HandlerInv(d)' <=>
        /\ caller'[d].owed => caller'[d].pc = "refilling"
        /\ caller'[d].pc = "refilling" /\ ~caller'[d].raced =>
             caller'[d].ver = Len(log'[k]) /\ Catalogue!Live(k)'
  BY <1>6 DEF HandlerInv, Catalogue!Live, Catalogue!WritesTo
<1>8. HandlerInv(d) <=>
        /\ caller[d].owed => caller[d].pc = "refilling"
        /\ caller[d].pc = "refilling" /\ ~caller[d].raced =>
             caller[d].ver = Len(log[k]) /\ Catalogue!Live(k)
  BY <1>4 DEF HandlerInv
<1>9. HandlerInv(d)'
  BY <1>3, <1>4, <1>5, <1>6, <1>7, <1>8
<1> QED BY <1>4, <1>6, <1>9 DEF Owes

\* What such a step does to the copies preserves what is said of them.
LEMMA CopyInvStep ==
    ASSUME CatalogueInv, NEW D \in SUBSET Callers, NEW K, Moves(D, K),
           NEW k \in Keys, CopyStep(D, K, k)
    PROVE CopyInv(k)'
<1>1. CASE ~cache'[k].full \/ cache'[k].raced \/ Catalogue!Fresh(k)'
  BY <1>1 DEF CopyInv
<1>2. ASSUME cache'[k] = cache[k], missed[k] => missed'[k],
             k \in K \/ deletions[k] > 0 \/ (\E d \in D : Owes(d, k)) => SeenTo(D, k)
      PROVE CopyInv(k)'
  <2>1. \A j \in Keys : Catalogue!Owed(j) <=> deletions[j] > 0 \/ \E d \in Callers : Owes(d, j)
    BY DEF Catalogue!Owed, Owes, Catalogue!At
  <2>2. Catalogue!Owed(k)' <=> deletions'[k] > 0 \/ \E d \in Callers : Owes(d, k)'
    BY DEF Catalogue!Owed, Owes, Catalogue!At
  <2>3. SeenTo(D, k) => CopyInv(k)'
    BY <1>2, <2>2 DEF SeenTo, CopyInv
  <2>4. ASSUME NEW d \in Callers \ D, Owes(d, k) PROVE Catalogue!Owed(k)'
    BY <2>2, <2>4, OvertakenInv, CatalogueParts DEF CatalogueInv
  <2>5. k \notin K => (Catalogue!Fresh(k) => Catalogue!Fresh(k)')
    BY <1>2 DEF Moves, Catalogue!Fresh, Catalogue!Live, Catalogue!WritesTo
  <2>6. Catalogue!Owed(k) => Catalogue!Owed(k)' \/ SeenTo(D, k)
    BY <1>2, <2>1, <2>4
  <2> QED BY <1>2, <2>3, <2>5, <2>6 DEF CatalogueInv, CopyInv
<1> QED BY <1>1, <1>2 DEF CopyStep

\* Every step of the catalogue does this for some handlers and rows.
StepOK(D, K) ==
    /\ Catalogue!TypeOK'
    /\ Moves(D, K)
    /\ \A d \in D : HandlerInv(d)'
    /\ \A k \in Keys : CopyStep(D, K, k)

\* Such a step keeps the invariant.
LEMMA StepKeepsInv ==
    ASSUME CatalogueInv, NEW D \in SUBSET Callers, NEW K, StepOK(D, K)
    PROVE CatalogueInv'
<1>1. \A d \in Callers : HandlerInv(d)'
  BY OvertakenInv, CatalogueParts DEF CatalogueInv, StepOK
<1>2. \A k \in Keys : CopyInv(k)'
  BY CopyInvStep DEF StepOK
<1> QED BY <1>1, <1>2 DEF CatalogueInv, StepOK

\* The parts of the invariant, as the steps below use them.
LEMMA InvParts ==
    ASSUME CatalogueInv
    PROVE /\ LogOK /\ CallersOK /\ CopiesOK /\ CallsOK
          /\ \A d \in Callers : caller[d] \in Handler /\ HandlerInv(d)
BY CatalogueParts DEF CatalogueInv, CallersOK

\* The bound on the calls keeps its type.
LEMMA CallsStep ==
    ASSUME CallsOK, Catalogue!Spend \/ UNCHANGED callsLeft
    PROVE CallsOK'
BY Assumptions DEF CallsOK, Catalogue!Spend

\* A handler that has nothing to refill.
LEMMA NothingToRefill ==
    ASSUME NEW d, caller'[d].pc # "refilling", ~caller'[d].owed
    PROVE HandlerInv(d)'
BY DEF HandlerInv

\* A handler that carries the row as it is after its step.
LEMMA CarriesTheRow ==
    ASSUME NEW d, NEW k \in Keys, NEW owed \in BOOLEAN,
           caller'[d] = Catalogue!Refilling(k, Len(log'[k]), owed), Catalogue!Live(k)'
    PROVE HandlerInv(d)' /\ (owed => Owes(d, k)')
<1>1. caller'[d].pc = "refilling" /\ caller'[d].key = k /\ caller'[d].ver = Len(log'[k])
      /\ caller'[d].owed = owed
  BY DEF Catalogue!Refilling
<1>2. Catalogue!Live(caller[d].key)' <=> Catalogue!Live(k)'
  BY <1>1 DEF Catalogue!Live, Catalogue!WritesTo
<1> QED BY <1>1, <1>2 DEF HandlerInv, Owes

\* Reading a row, looking a product up, and what fails before anything changed.
LEMMA ReadSteps ==
    ASSUME CatalogueInv, NEW c \in Callers,
           \/ \E k \in Keys : Catalogue!ReadRow(c, k)
           \/ \E p \in Products : Catalogue!CheckProduct(c, p)
           \/ Catalogue!DeleteFails(c)
    PROVE StepOK({c}, {})
<1>0. LogOK /\ CallersOK /\ CopiesOK /\ CallsOK /\ caller[c] \in Handler
      /\ HandlerInv(c)
  BY InvParts
<1>1. /\ UNCHANGED <<log, cache, deletions, missed>>
      /\ Catalogue!Spend \/ UNCHANGED callsLeft
      /\ caller[c].pc \in {"idle", "deleting"}
  BY DEF Catalogue!ReadRow, Catalogue!CheckProduct, Catalogue!DeleteFails, Catalogue!Call,
         Catalogue!At
<1>2. PICK next \in Handler :
        /\ caller' = [caller EXCEPT ![c] = next]
        /\ \/ next.pc # "refilling" /\ ~next.owed
           \/ \E k \in Keys : next = Catalogue!Refilling(k, Len(log[k]), FALSE)
                              /\ Catalogue!Live(k)
  <2>1. ASSUME NEW k \in Keys, Catalogue!ReadRow(c, k)
        PROVE /\ caller' = [caller EXCEPT ![c] = Catalogue!Refilling(k, Len(log[k]), FALSE)]
              /\ Catalogue!Refilling(k, Len(log[k]), FALSE) \in Handler
              /\ Catalogue!Live(k)
    <3>1. Len(log[k]) \in Nat
      BY <1>0 DEF LogOK, Log
    <3> QED BY <2>1, <3>1, HandlerFacts DEF Catalogue!ReadRow
  <2>2. ASSUME NEW p \in Products, Catalogue!CheckProduct(c, p)
        PROVE LET next == [Catalogue!Idle EXCEPT !.pc = "deleting", !.key = p]
              IN  /\ caller' = [caller EXCEPT ![c] = next]
                  /\ next \in Handler /\ next.pc # "refilling" /\ ~next.owed
    <3>1. caller' = [caller EXCEPT ![c] =
                       [Catalogue!Idle EXCEPT !.pc = "deleting", !.key = p]]
      BY <2>2 DEF Catalogue!CheckProduct
    <3> QED BY <3>1, HandlerFacts, Assumptions DEF Handler, Catalogue!Idle
  <2>3. ASSUME Catalogue!DeleteFails(c)
        PROVE /\ caller' = [caller EXCEPT ![c] = Catalogue!Idle]
              /\ Catalogue!Idle.pc # "refilling" /\ ~Catalogue!Idle.owed
    BY <2>3 DEF Catalogue!DeleteFails, Catalogue!Idle
  <2> QED BY <2>1, <2>2, <2>3, HandlerFacts
<1>3. Moves({c}, {}) /\ caller'[c] = next /\ CallersOK'
  BY <1>0, <1>1, <1>2, OneMoves
<1>4. HandlerInv(c)'
  <2>1. CASE next.pc # "refilling" /\ ~next.owed
    BY <1>3, <2>1, NothingToRefill
  <2>2. ASSUME NEW k \in Keys, next = Catalogue!Refilling(k, Len(log[k]), FALSE),
               Catalogue!Live(k)
        PROVE HandlerInv(c)'
    <3>1. Catalogue!Live(k)' /\ log' = log
      BY <1>1, <2>2 DEF Catalogue!Live, Catalogue!WritesTo
    <3> QED BY <1>3, <2>2, <3>1, CarriesTheRow
  <2> QED BY <1>2, <2>1, <2>2
<1>5. Catalogue!TypeOK'
  <2>1. LogOK' /\ CopiesOK'
    BY <1>0, <1>1 DEF LogOK, CopiesOK
  <2> QED BY <1>0, <1>1, <1>3, <2>1, CallsStep, CatalogueParts
<1>6. ASSUME NEW k \in Keys PROVE CopyStep({c}, {}, k)
  <2>1. ~Owes(c, k)
    BY <1>0, <1>1 DEF Owes, HandlerInv
  <2> QED BY <1>1, <2>1 DEF CopyStep, SeenTo
<1> QED BY <1>3, <1>4, <1>5, <1>6 DEF StepOK

\* The copy is written by its refill or dropped by a deletion.
LEMMA CopySteps ==
    ASSUME CatalogueInv, NEW c \in Callers, Catalogue!Refill(c) \/ Catalogue!DropCopy(c)
    PROVE StepOK({c}, {})
<1>0. LogOK /\ CallersOK /\ CopiesOK /\ CallsOK /\ caller[c] \in Handler
      /\ HandlerInv(c)
  BY InvParts
<1>1. /\ UNCHANGED <<log, deletions, callsLeft>>
      /\ caller' = [caller EXCEPT ![c] = Catalogue!Idle]
  BY DEF Catalogue!Refill, Catalogue!DropCopy
<1>2. Moves({c}, {}) /\ caller'[c] = Catalogue!Idle /\ CallersOK'
  BY <1>0, <1>1, OneMoves, HandlerFacts
<1>3. HandlerInv(c)'
  BY <1>2, NothingToRefill DEF Catalogue!Idle
<1>4. PICK key \in Keys : key = caller[c].key
  BY <1>0 DEF Handler
<1>5. PICK copy \in [full : BOOLEAN, ver : Nat, raced : BOOLEAN] :
        /\ cache' = [cache EXCEPT ![key] = copy]
        /\ missed' = [missed EXCEPT ![key] = FALSE]
        /\ ~copy.full \/ copy.raced \/ (Catalogue!Live(key) /\ copy.ver = Len(log[key]))
  <2>1. CASE Catalogue!Refill(c)
    <3> DEFINE copy == [full |-> TRUE, ver |-> caller[c].ver, raced |-> caller[c].raced]
    <3>1. copy \in [full : BOOLEAN, ver : Nat, raced : BOOLEAN]
      BY <1>0 DEF Handler
    <3>2. copy.raced \/ (Catalogue!Live(key) /\ copy.ver = Len(log[key]))
      BY <1>0, <1>4, <2>1 DEF HandlerInv, Catalogue!Refill, Catalogue!At
    <3>3. cache' = [cache EXCEPT ![key] = copy] /\ missed' = [missed EXCEPT ![key] = FALSE]
      BY <1>4, <2>1 DEF Catalogue!Refill
    <3> QED BY <3>1, <3>2, <3>3
  <2>2. CASE Catalogue!DropCopy(c)
    BY <1>4, <2>2, HandlerFacts DEF Catalogue!DropCopy, Catalogue!NoCopy
  <2> QED BY <2>1, <2>2
<1>6. Catalogue!TypeOK'
  <2>1. LogOK' /\ CopiesOK'
    BY <1>0, <1>1, <1>5 DEF LogOK, CopiesOK
  <2> QED BY <1>0, <1>1, <1>2, <2>1, CallsStep, CatalogueParts
<1>7. ASSUME NEW k \in Keys PROVE CopyStep({c}, {}, k)
  <2>1. CASE k = key
    <3>1. cache'[k] = copy
      BY <1>0, <1>5, <2>1 DEF CopiesOK
    <3>2. Catalogue!Live(key) => Catalogue!Live(k)'
      BY <1>1, <2>1 DEF Catalogue!Live, Catalogue!WritesTo
    <3> QED BY <1>1, <1>5, <2>1, <3>1, <3>2 DEF CopyStep, Catalogue!Fresh
  <2>2. CASE k # key
    <3>1. cache'[k] = cache[k] /\ missed'[k] = missed[k] /\ deletions'[k] = deletions[k]
      BY <1>0, <1>1, <1>5, <2>2 DEF CopiesOK
    <3>2. ~Owes(c, k)
      BY <1>4, <2>2 DEF Owes
    <3> QED BY <3>1, <3>2 DEF CopyStep, SeenTo
  <2> QED BY <2>1, <2>2
<1> QED BY <1>2, <1>3, <1>6, <1>7 DEF StepOK

\* Redis fails the handler that would have brought a write to the copy.
LEMMA FailedCopySteps ==
    ASSUME CatalogueInv, NEW c \in Callers, Catalogue!RefillFails(c) \/ Catalogue!DropFails(c)
    PROVE StepOK({c}, {})
<1>0. LogOK /\ CallersOK /\ CopiesOK /\ CallsOK /\ caller[c] \in Handler
      /\ HandlerInv(c)
  BY InvParts
<1>1. /\ UNCHANGED <<log, cache, deletions, callsLeft>>
      /\ caller' = [caller EXCEPT ![c] = Catalogue!Idle]
  BY DEF Catalogue!RefillFails, Catalogue!DropFails
<1>2. Moves({c}, {}) /\ caller'[c] = Catalogue!Idle /\ CallersOK'
  BY <1>0, <1>1, OneMoves, HandlerFacts
<1>3. HandlerInv(c)'
  BY <1>2, NothingToRefill DEF Catalogue!Idle
<1>4. PICK K : Catalogue!Miss(K) /\ \A k \in Keys : Owes(c, k) => k \in K
  BY <1>0 DEF Catalogue!RefillFails, Catalogue!DropFails, Owes, Catalogue!At, HandlerInv
<1>5. /\ missed' \in [Keys -> BOOLEAN]
      /\ \A k \in Keys : /\ missed[k] => missed'[k]
                         /\ k \in K /\ cache[k].full => missed'[k]
  BY <1>0, <1>4, MissFacts
<1>6. Catalogue!TypeOK'
  <2>1. LogOK' /\ CopiesOK'
    BY <1>0, <1>1, <1>5 DEF LogOK, CopiesOK
  <2> QED BY <1>0, <1>1, <1>2, <2>1, CallsStep, CatalogueParts
<1>7. ASSUME NEW k \in Keys PROVE CopyStep({c}, {}, k)
  BY <1>1, <1>4, <1>5 DEF CopyStep, SeenTo
<1> QED BY <1>2, <1>3, <1>6, <1>7 DEF StepOK

\* The goroutines that delete copies, the expiry of a copy, a stock batch.
LEMMA DeletionSteps ==
    ASSUME CatalogueInv,
           \/ \E c \in Callers, p \in Products : Catalogue!UpdateStockBatch(c, p)
           \/ \E k \in Keys : \/ Catalogue!DeleteCopy(k)
                              \/ Catalogue!DeleteCopyFails(k)
                              \/ Catalogue!CopyExpires(k)
    PROVE StepOK({}, {})
<1>0. LogOK /\ CallersOK /\ CopiesOK /\ CallsOK
  BY InvParts
<1>1. UNCHANGED <<log, caller>> /\ (Catalogue!Spend \/ UNCHANGED callsLeft)
  BY DEF Catalogue!UpdateStockBatch, Catalogue!DeleteCopy, Catalogue!DeleteCopyFails,
         Catalogue!CopyExpires, Catalogue!Call
<1>2. Moves({}, {})
  BY <1>1, QuietMoves
<1>3. LogOK' /\ CallersOK' /\ CallsOK'
  BY <1>0, <1>1, CallsStep DEF LogOK, CallersOK
<1>4. CopiesOK' /\ \A k \in Keys : CopyStep({}, {}, k)
  <2>1. ASSUME NEW p \in Products, Catalogue!DeleteLater(p), UNCHANGED <<cache, missed>>
        PROVE CopiesOK' /\ \A k \in Keys : CopyStep({}, {}, k)
    <3>1. p \in Keys
      BY Assumptions
    <3>2. /\ deletions' \in [Keys -> Nat]
          /\ \A l \in Keys : deletions[l] > 0 => deletions'[l] > 0
      BY <1>0, <2>1, <3>1, DeleteLaterFacts
    <3> QED BY <1>0, <2>1, <3>2 DEF CopiesOK, CopyStep, SeenTo
  <2>2. ASSUME NEW k \in Keys, Catalogue!DeleteCopy(k) \/ Catalogue!CopyExpires(k)
        PROVE CopiesOK' /\ \A l \in Keys : CopyStep({}, {}, l)
    <3>1. /\ cache' = [cache EXCEPT ![k] = Catalogue!NoCopy]
          /\ missed' = [missed EXCEPT ![k] = FALSE]
          /\ \/ UNCHANGED deletions
             \/ deletions[k] > 0 /\ deletions' = [deletions EXCEPT ![k] = @ - 1]
      BY <2>2 DEF Catalogue!DeleteCopy, Catalogue!CopyExpires
    <3>2. deletions' \in [Keys -> Nat] /\ \A l \in Keys : l # k => deletions'[l] = deletions[l]
      BY <1>0, <3>1 DEF CopiesOK
    <3>3. CopiesOK'
      BY <1>0, <3>1, <3>2, HandlerFacts DEF CopiesOK
    <3>4. ~cache'[k].full
      BY <1>0, <3>1 DEF CopiesOK, Catalogue!NoCopy
    <3>5. \A l \in Keys : l # k => cache'[l] = cache[l] /\ missed'[l] = missed[l]
      BY <1>0, <3>1 DEF CopiesOK
    <3> QED BY <3>2, <3>3, <3>4, <3>5 DEF CopyStep, SeenTo
  <2>3. ASSUME NEW k \in Keys, Catalogue!DeleteCopyFails(k)
        PROVE CopiesOK' /\ \A l \in Keys : CopyStep({}, {}, l)
    <3>1. /\ UNCHANGED cache /\ Catalogue!Miss({k}) /\ deletions[k] > 0
          /\ deletions' = [deletions EXCEPT ![k] = @ - 1]
      BY <2>3 DEF Catalogue!DeleteCopyFails
    <3>2. deletions' \in [Keys -> Nat] /\ \A l \in Keys : l # k => deletions'[l] = deletions[l]
      BY <1>0, <3>1 DEF CopiesOK
    <3>3. /\ missed' \in [Keys -> BOOLEAN]
          /\ \A l \in Keys : missed[l] => missed'[l]
          /\ cache[k].full => missed'[k]
      BY <1>0, <3>1, MissFacts
    <3> QED BY <1>0, <3>1, <3>2, <3>3 DEF CopiesOK, CopyStep, SeenTo
  <2> QED BY <2>1, <2>2, <2>3 DEF Catalogue!UpdateStockBatch
<1> QED BY <1>2, <1>3, <1>4, CatalogueParts DEF StepOK

\* A crash stops every handler and writes off what they owed.
LEMMA CrashStep ==
    ASSUME CatalogueInv, Catalogue!Crash
    PROVE StepOK(Callers, {})
<1>0. LogOK /\ CallersOK /\ CopiesOK /\ CallsOK
  BY InvParts
<1>1. /\ UNCHANGED <<log, cache, callsLeft>>
      /\ caller' = [c \in Callers |-> Catalogue!Idle]
      /\ deletions' = [k \in Keys |-> 0]
      /\ Catalogue!Miss({k \in Keys : Catalogue!Owed(k)})
  BY DEF Catalogue!Crash, Keys
<1>2. /\ missed' \in [Keys -> BOOLEAN]
      /\ \A k \in Keys : /\ missed[k] => missed'[k]
                         /\ Catalogue!Owed(k) /\ cache[k].full => missed'[k]
  BY <1>0, <1>1, MissFacts
<1>3. LogOK' /\ CallersOK' /\ CopiesOK' /\ CallsOK'
  BY <1>0, <1>1, <1>2, HandlerFacts, CallsStep DEF LogOK, CallersOK, CopiesOK
<1>4. \A c \in Callers : HandlerInv(c)'
  <2> SUFFICES ASSUME NEW c \in Callers PROVE HandlerInv(c)'
    OBVIOUS
  <2>1. caller'[c] = Catalogue!Idle
    BY <1>1
  <2> QED BY <2>1, NothingToRefill DEF Catalogue!Idle
<1>5. ASSUME NEW k \in Keys PROVE CopyStep(Callers, {}, k)
  <2>1. Catalogue!Owed(k) <=> deletions[k] > 0 \/ \E d \in Callers : Owes(d, k)
    BY DEF Catalogue!Owed, Owes, Catalogue!At
  <2> QED BY <1>1, <1>2, <2>1 DEF CopyStep, SeenTo
<1>6. Moves(Callers, {})
  BY <1>1, QuietMoves
<1> QED BY <1>3, <1>4, <1>5, <1>6, CatalogueParts DEF StepOK

\* What appending a write does to the row of a product.
LEMMA RowAfterWrite ==
    ASSUME LogOK, NEW p \in Products, NEW write \in Catalogue!Writes,
           log'[p] = Append(log[p], write),
           (write = "create" /\ log[p] = <<>>) \/ write = "update",
           write = "update" => Catalogue!Live(p)
    PROVE Len(log'[p]) = Len(log[p]) + 1 /\ Catalogue!Live(p)'
<1>1. log[p] \in Seq(Catalogue!Writes) /\ p # AllCategories
  BY Assumptions DEF LogOK, Log
<1>2. CASE write = "create"
  <2>1. Len(log[p]) = 0 /\ Len(log'[p]) = 1 /\ log'[p][1] = "create"
    BY <1>1, <1>2
  <2>2. Catalogue!WritesTo(p, "create")'
    BY <2>1 DEF Catalogue!WritesTo
  <2>3. ~Catalogue!WritesTo(p, "delete")'
    BY <2>1 DEF Catalogue!WritesTo
  <2> QED BY <1>2, <2>1, <2>2, <2>3 DEF Catalogue!Live
<1>3. CASE write = "update"
  <2>1. /\ Len(log'[p]) = Len(log[p]) + 1
        /\ \A v \in 1..Len(log[p]) : log'[p][v] = log[p][v]
        /\ log'[p][Len(log[p]) + 1] = "update"
    BY <1>1, <1>3
  <2>2. Catalogue!WritesTo(p, "create")'
    BY <1>1, <1>3, <2>1 DEF Catalogue!Live, Catalogue!WritesTo
  <2>3. ~Catalogue!WritesTo(p, "delete")'
    BY <1>1, <1>3, <2>1 DEF Catalogue!Live, Catalogue!WritesTo
  <2> QED BY <2>1, <2>2, <2>3 DEF Catalogue!Live
<1> QED BY <1>2, <1>3

\* A product is created or updated, and its copy will be written.
LEMMA WriteSteps ==
    ASSUME CatalogueInv, NEW c \in Callers, NEW p \in Products,
           Catalogue!CreateProduct(c, p) \/ Catalogue!UpdateProduct(c, p)
    PROVE StepOK({c}, {p})
<1>0. LogOK /\ CallersOK /\ CopiesOK /\ CallsOK /\ p \in Keys
  BY InvParts, Assumptions
<1>1. UNCHANGED <<cache, deletions, missed>> /\ Catalogue!Spend
  BY DEF Catalogue!CreateProduct, Catalogue!UpdateProduct, Catalogue!Call
<1>2. log[p] \in Seq(Catalogue!Writes) /\ Len(log[p]) \in Nat
  BY <1>0 DEF LogOK, Log
<1>3. PICK write \in Catalogue!Writes :
        /\ Catalogue!Commit(c, p, write, Catalogue!Refilling(p, Len(log[p]) + 1, TRUE))
        /\ (write = "create" /\ log[p] = <<>>) \/ write = "update"
        /\ write = "update" => Catalogue!Live(p)
  <2>1. CASE Catalogue!CreateProduct(c, p)
    <3>1. log[p] = <<>> /\ Len(log[p]) = 0
      BY <2>1 DEF Catalogue!CreateProduct
    <3>2. 1 = Len(log[p]) + 1 /\ "create" \in Catalogue!Writes
      BY <3>1 DEF Catalogue!Writes
    <3> QED BY <2>1, <3>1, <3>2 DEF Catalogue!CreateProduct
  <2>2. CASE Catalogue!UpdateProduct(c, p)
    BY <2>2 DEF Catalogue!UpdateProduct, Catalogue!Updated, Catalogue!Writes
  <2> QED BY <2>1, <2>2
<1>4. /\ Moves({c}, {p}) /\ caller'[c] = Catalogue!Refilling(p, Len(log[p]) + 1, TRUE)
      /\ log'[p] = Append(log[p], write)
      /\ CallersOK' /\ LogOK'
  <2>1. Len(log[p]) + 1 \in Nat
    BY <1>2
  <2>2. Catalogue!Refilling(p, Len(log[p]) + 1, TRUE) \in Handler
    BY <1>0, <2>1, HandlerFacts
  <2> QED BY <1>0, <1>3, <2>2, CommitMoves
<1>5. Len(log'[p]) = Len(log[p]) + 1 /\ Catalogue!Live(p)'
  BY <1>0, <1>3, <1>4, RowAfterWrite
<1>6. HandlerInv(c)' /\ Owes(c, p)'
  BY <1>0, <1>4, <1>5, CarriesTheRow
<1>7. Catalogue!TypeOK'
  <2>1. CopiesOK'
    BY <1>0, <1>1 DEF CopiesOK
  <2> QED BY <1>0, <1>1, <1>4, <2>1, CallsStep, CatalogueParts
<1>8. ASSUME NEW k \in Keys PROVE CopyStep({c}, {p}, k)
  <2>1. ~Owes(c, k)
    <3>1. caller[c].pc = "idle" /\ HandlerInv(c)
      BY InvParts DEF Catalogue!CreateProduct, Catalogue!UpdateProduct, Catalogue!Call,
                      Catalogue!At
    <3> QED BY <3>1 DEF Owes, HandlerInv
  <2> QED BY <1>1, <1>6, <2>1 DEF CopyStep, SeenTo
<1> QED BY <1>4, <1>6, <1>7, <1>8 DEF StepOK

\* A transaction of c after which it is done, or has only a copy to drop.
LEMMA CommittedStep ==
    ASSUME CatalogueInv, NEW c \in Callers, NEW K, Moves({c}, K),
           caller'[c].pc # "refilling", ~caller'[c].owed,
           LogOK', CallersOK', CallsOK', UNCHANGED cache,
           deletions' \in [Keys -> Nat], missed' \in [Keys -> BOOLEAN],
           \A k \in Keys : missed[k] => missed'[k],
           \A k \in Keys : deletions[k] > 0 => deletions'[k] > 0,
           \A k \in Keys : ~Owes(c, k),
           \A k \in Keys : k \in K => SeenTo({c}, k)
    PROVE StepOK({c}, K)
<1>1. CopiesOK'
  BY InvParts DEF CopiesOK
<1>2. HandlerInv(c)'
  BY NothingToRefill
<1>3. \A k \in Keys : CopyStep({c}, K, k)
  BY DEF CopyStep, SeenTo
<1> QED BY <1>1, <1>2, <1>3, CatalogueParts DEF StepOK

\* A write of a product whose handler is told that it failed.
LEMMA LostReplySteps ==
    ASSUME CatalogueInv, NEW c \in Callers,
           (\E p \in Products : Catalogue!WriteReplyLost(c, p)) \/ Catalogue!DeleteReplyLost(c)
    PROVE \E p \in Keys : StepOK({c}, {p})
<1>0. LogOK /\ CallersOK /\ CopiesOK /\ CallsOK /\ caller[c] \in Handler
      /\ HandlerInv(c)
  BY InvParts
<1>1. PICK p \in Keys, write \in Catalogue!Writes :
        Catalogue!Commit(c, p, write, Catalogue!Idle) /\ Catalogue!Miss({p})
  BY <1>0, Assumptions DEF Catalogue!WriteReplyLost, Catalogue!DeleteReplyLost,
                           Catalogue!Writes, Handler
<1>2. /\ UNCHANGED <<cache, deletions>> /\ (Catalogue!Spend \/ UNCHANGED callsLeft)
      /\ caller[c].pc \in {"idle", "deleting"}
  BY DEF Catalogue!WriteReplyLost, Catalogue!DeleteReplyLost, Catalogue!Call, Catalogue!At
<1>3. Moves({c}, {p}) /\ caller'[c] = Catalogue!Idle /\ CallersOK' /\ LogOK'
  BY <1>0, <1>1, HandlerFacts, CommitMoves
<1>4. /\ missed' \in [Keys -> BOOLEAN]
      /\ \A k \in Keys : missed[k] => missed'[k]
      /\ cache[p].full => missed'[p]
  BY <1>0, <1>1, MissFacts
<1>5. \A k \in Keys : ~Owes(c, k)
  BY <1>0, <1>2 DEF Owes, HandlerInv
<1>6. caller'[c].pc # "refilling" /\ ~caller'[c].owed
  BY <1>3 DEF Catalogue!Idle
<1>7. \A k \in Keys : k \in {p} => SeenTo({c}, k)
  BY <1>4 DEF SeenTo
<1>8. CallsOK' /\ deletions' \in [Keys -> Nat] /\ deletions' = deletions
  BY <1>0, <1>2, CallsStep DEF CopiesOK
<1>9. StepOK({c}, {p})
  BY <1>2, <1>3, <1>4, <1>5, <1>6, <1>7, <1>8, CommittedStep
<1> QED BY <1>9

\* A product is deleted, and its copy will be dropped.
LEMMA DeleteStep ==
    ASSUME CatalogueInv, NEW c \in Callers, Catalogue!DeleteProduct(c)
    PROVE \E p \in Keys : StepOK({c}, {p})
<1>0. LogOK /\ CallersOK /\ CopiesOK /\ CallsOK /\ caller[c] \in Handler
      /\ HandlerInv(c)
  BY InvParts
<1>1. PICK p \in Keys : p = caller[c].key
  BY <1>0 DEF Handler
<1>2. /\ Catalogue!Commit(c, p, "delete", [caller[c] EXCEPT !.pc = "dropping"])
      /\ UNCHANGED <<cache, deletions, missed, callsLeft>>
      /\ caller[c].pc = "deleting"
  BY <1>1 DEF Catalogue!DeleteProduct, Catalogue!At
<1>3. ~caller[c].owed
  BY <1>0, <1>2 DEF HandlerInv
<1>4. [caller[c] EXCEPT !.pc = "dropping"] \in Handler /\ "delete" \in Catalogue!Writes
  BY <1>0 DEF Handler, Catalogue!Writes
<1>5. Moves({c}, {p}) /\ caller'[c] = [caller[c] EXCEPT !.pc = "dropping"]
      /\ CallersOK' /\ LogOK'
  <2>1. PICK next \in Handler : next = [caller[c] EXCEPT !.pc = "dropping"]
    BY <1>4
  <2>2. Catalogue!Commit(c, p, "delete", next)
    BY <1>2, <2>1
  <2>3. Moves({c}, {p}) /\ caller'[c] = next /\ CallersOK' /\ LogOK'
    BY <1>0, <1>4, <2>2, CommitMoves
  <2> QED BY <2>1, <2>3
<1>6. caller'[c].pc = "dropping" /\ caller'[c].key = p /\ ~caller'[c].owed
  BY <1>0, <1>1, <1>3, <1>5 DEF Handler
<1>7. (\A k \in Keys : k \in {p} => SeenTo({c}, k)) /\ \A k \in Keys : ~Owes(c, k)
  BY <1>2, <1>3, <1>6 DEF SeenTo, Owes
<1>8. CallsOK' /\ deletions' \in [Keys -> Nat] /\ missed' \in [Keys -> BOOLEAN]
      /\ deletions' = deletions /\ missed' = missed
  BY <1>0, <1>2, CallsStep DEF CopiesOK
<1>9. StepOK({c}, {p})
  BY <1>2, <1>5, <1>6, <1>7, <1>8, CommittedStep
<1> QED BY <1>9

\* A category is created or changed, and the copy of the list will be deleted.
LEMMA CategoryStep ==
    ASSUME CatalogueInv, NEW c \in Callers, Catalogue!ChangeCategory(c)
    PROVE StepOK({c}, {AllCategories})
<1>0. LogOK /\ CallersOK /\ CopiesOK /\ CallsOK /\ HandlerInv(c) /\ AllCategories \in Keys
  BY InvParts, Assumptions
<1>1. /\ Catalogue!Commit(c, AllCategories, "change", Catalogue!Idle)
      /\ Catalogue!DeleteLater(AllCategories)
      /\ UNCHANGED <<cache, missed>> /\ Catalogue!Spend
      /\ caller[c].pc = "idle" /\ "change" \in Catalogue!Writes
  BY DEF Catalogue!ChangeCategory, Catalogue!Call, Catalogue!At, Catalogue!Writes
<1>2. Moves({c}, {AllCategories}) /\ caller'[c] = Catalogue!Idle /\ CallersOK' /\ LogOK'
  BY <1>0, <1>1, HandlerFacts, CommitMoves
<1>3. caller'[c].pc # "refilling" /\ ~caller'[c].owed
  BY <1>2 DEF Catalogue!Idle
<1>4. /\ deletions' \in [Keys -> Nat] /\ deletions'[AllCategories] > 0
      /\ \A l \in Keys : deletions[l] > 0 => deletions'[l] > 0
  BY <1>0, <1>1, DeleteLaterFacts
<1>5. (\A k \in Keys : k \in {AllCategories} => SeenTo({c}, k)) /\ \A k \in Keys : ~Owes(c, k)
  BY <1>0, <1>1, <1>4 DEF SeenTo, Owes, HandlerInv
<1>6. CallsOK' /\ missed' \in [Keys -> BOOLEAN] /\ missed' = missed
  BY <1>0, <1>1, CallsStep DEF CopiesOK
<1> QED BY <1>1, <1>2, <1>3, <1>4, <1>5, <1>6, CommittedStep

\* A category is deleted: the copy of the list will be dropped, or is written
\* off like those of the products that were in it.
LEMMA CategoryDeletionSteps ==
    ASSUME CatalogueInv, NEW c \in Callers, NEW members \in SUBSET Products,
           Catalogue!DeleteCategory(c, members) \/ Catalogue!CategoryReplyLost(c, members)
    PROVE StepOK({c}, members \cup {AllCategories})
<1> DEFINE next == [Catalogue!Idle EXCEPT !.pc = "dropping"]
<1>0. LogOK /\ CallersOK /\ CopiesOK /\ CallsOK /\ HandlerInv(c) /\ AllCategories \in Keys
  BY InvParts, Assumptions
<1>1. UNCHANGED <<cache, deletions>> /\ Catalogue!Spend /\ caller[c].pc = "idle"
  BY DEF Catalogue!DeleteCategory, Catalogue!CategoryReplyLost, Catalogue!Call, Catalogue!At
<1>2. next \in Handler
  BY HandlerFacts DEF Handler
<1>3. PICK K : /\ Catalogue!Miss(K) /\ members \subseteq K
               /\ \/ Catalogue!CommitDeletion(c, members, next)
                  \/ /\ Catalogue!CommitDeletion(c, members, Catalogue!Idle)
                     /\ AllCategories \in K
  BY DEF Catalogue!DeleteCategory, Catalogue!CategoryReplyLost
<1>4. /\ Moves({c}, members \cup {AllCategories}) /\ CallersOK' /\ LogOK'
      /\ caller'[c] = next \/ (caller'[c] = Catalogue!Idle /\ AllCategories \in K)
  BY <1>0, <1>2, <1>3, HandlerFacts, CommitDeletionMoves
<1>5. /\ missed' \in [Keys -> BOOLEAN]
      /\ \A k \in Keys : /\ missed[k] => missed'[k]
                         /\ k \in K /\ cache[k].full => missed'[k]
  BY <1>0, <1>3, MissFacts
<1>6. caller'[c].pc # "refilling" /\ ~caller'[c].owed
  BY <1>4 DEF Catalogue!Idle
<1>7. \A k \in Keys : ~Owes(c, k)
  BY <1>0, <1>1 DEF Owes, HandlerInv
<1>8. \A k \in Keys : k \in members => SeenTo({c}, k)
  BY <1>3, <1>5 DEF SeenTo
<1>9. \A k \in Keys : k \in members \cup {AllCategories} => SeenTo({c}, k)
  <2>1. caller'[c] = next => Owes(c, AllCategories)'
    BY DEF Owes, Catalogue!Idle
  <2>2. ASSUME NEW k \in Keys, k = AllCategories PROVE SeenTo({c}, k)
    BY <1>4, <1>5, <2>1, <2>2 DEF SeenTo, Owes
  <2> QED BY <1>8, <2>2
<1>10. CallsOK' /\ deletions' \in [Keys -> Nat] /\ deletions' = deletions
  BY <1>0, <1>1, CallsStep DEF CopiesOK
<1> QED BY <1>1, <1>4, <1>5, <1>6, <1>7, <1>9, <1>10, CommittedStep

\* An order takes stock: the copy will be deleted, or is written off.
LEMMA StockStep ==
    ASSUME CatalogueInv, NEW p \in Products, NEW served \in BOOLEAN,
           Catalogue!TakeStock(p, served)
    PROVE StepOK({}, {p})
<1>0. LogOK /\ CallersOK /\ CopiesOK /\ CallsOK /\ p \in Keys
  BY InvParts, Assumptions
<1>1. /\ log' = [log EXCEPT ![p] = Append(@, "stock")]
      /\ caller' = [d \in Callers |-> Catalogue!Overtake(d, {p})]
      /\ Catalogue!Spend /\ UNCHANGED cache
      /\ \/ Catalogue!DeleteLater(p) /\ UNCHANGED missed
         \/ Catalogue!Miss({p}) /\ UNCHANGED deletions
  BY DEF Catalogue!TakeStock
<1>2. LogOK'
  <2>1. log[p] \in Seq(Catalogue!Writes) /\ "stock" \in Catalogue!Writes
    BY <1>0 DEF LogOK, Log, Catalogue!Writes
  <2>2. Append(log[p], "stock") \in Seq(Catalogue!Writes)
    BY <2>1
  <2> QED BY <1>0, <1>1, <2>2 DEF LogOK, Log
<1>3. Moves({}, {p}) /\ CallersOK'
  <2>1. \A d \in Callers : Catalogue!Overtake(d, {p}) \in Handler
    BY <1>0, OvertakeFacts
  <2> QED BY <1>0, <1>1, <2>1 DEF Moves, CallersOK, LogOK, Log
<1>4. /\ deletions' \in [Keys -> Nat] /\ missed' \in [Keys -> BOOLEAN]
      /\ \A k \in Keys : /\ missed[k] => missed'[k]
                         /\ deletions[k] > 0 => deletions'[k] > 0
      /\ deletions'[p] > 0 \/ (cache[p].full => missed'[p])
  <2>1. CASE Catalogue!DeleteLater(p) /\ UNCHANGED missed
    BY <1>0, <2>1, DeleteLaterFacts DEF CopiesOK
  <2>2. CASE Catalogue!Miss({p}) /\ UNCHANGED deletions
    BY <1>0, <2>2, MissFacts DEF CopiesOK
  <2> QED BY <1>1, <2>1, <2>2
<1>5. CopiesOK' /\ CallsOK'
  BY <1>0, <1>1, <1>4, CallsStep DEF CopiesOK
<1>6. \A k \in Keys : CopyStep({}, {p}, k)
  BY <1>1, <1>4 DEF CopyStep, SeenTo
<1> QED BY <1>2, <1>3, <1>5, <1>6, CatalogueParts DEF StepOK

\* The catalogue starts with no handler and no copy.
LEMMA CatalogueInit ==
    ASSUME Catalogue!Init
    PROVE CatalogueInv
<1>1. LogOK
  <2>1. PICK h \in {s.history : s \in Starts} :
          log = [k \in Catalogue!Keys |-> IF k = AllCategories THEN <<>> ELSE h[k]]
    BY DEF Catalogue!Init
  <2>2. h \in [Products -> Seq(Catalogue!Writes)]
    BY Assumptions
  <2>3. <<>> \in Seq(Catalogue!Writes)
    OBVIOUS
  <2> QED BY <2>1, <2>2, <2>3 DEF LogOK, Log, Keys, Catalogue!Keys
<1>2. CallersOK /\ CopiesOK /\ CallsOK
  BY HandlerFacts DEF Catalogue!Init, CallersOK, CopiesOK, CallsOK, Keys
<1>3. \A d \in Callers : HandlerInv(d)
  BY DEF Catalogue!Init, Catalogue!Idle, HandlerInv
<1>4. \A k \in Keys : CopyInv(k)
  BY DEF Catalogue!Init, Catalogue!NoCopy, CopyInv, Keys
<1> QED BY <1>1, <1>2, <1>3, <1>4, CatalogueParts DEF CatalogueInv

\* Every step of the catalogue keeps the invariant.
LEMMA CatalogueStep ==
    ASSUME CatalogueInv, Catalogue!CopyStep \/ Catalogue!WriteStep \/ UNCHANGED catalogueVars
    PROVE CatalogueInv'
<1>1. CASE UNCHANGED catalogueVars
  <2>1. Moves({}, {}) /\ Catalogue!TypeOK'
    BY <1>1, QuietMoves DEF catalogueVars, CatalogueInv, Catalogue!TypeOK
  <2>2. \A k \in Keys : CopyStep({}, {}, k)
    BY <1>1 DEF catalogueVars, CopyStep, SeenTo
  <2>3. StepOK({}, {})
    BY <2>1, <2>2 DEF StepOK
  <2> QED BY <2>3, StepKeepsInv
<1>2. CASE Catalogue!CopyStep
  <2>1. Catalogue!Crash => CatalogueInv'
    BY CrashStep, StepKeepsInv
  <2>2. ~Catalogue!Crash => \E D \in SUBSET Callers : StepOK(D, {})
    <3>1. \A c \in Callers : {c} \in SUBSET Callers
      OBVIOUS
    <3>2. {} \in SUBSET Callers
      OBVIOUS
    <3> QED BY <1>2, <3>1, <3>2, ReadSteps, CopySteps, FailedCopySteps, DeletionSteps
            DEF Catalogue!CopyStep, Keys
  <2> QED BY <2>1, <2>2, StepKeepsInv
<1>3. CASE Catalogue!WriteStep
  <2>1. \A c \in Callers : {c} \in SUBSET Callers
    OBVIOUS
  <2>2. ASSUME NEW c \in Callers, NEW p \in Products,
               \/ Catalogue!CreateProduct(c, p) \/ Catalogue!UpdateProduct(c, p)
               \/ Catalogue!WriteReplyLost(c, p)
        PROVE CatalogueInv'
    BY <2>1, <2>2, WriteSteps, LostReplySteps, StepKeepsInv
  <2>3. ASSUME NEW p \in Products, NEW served \in BOOLEAN, Catalogue!TakeStock(p, served)
        PROVE CatalogueInv'
    BY <2>3, StockStep, StepKeepsInv
  <2>4. ASSUME NEW c \in Callers,
               \/ Catalogue!DeleteProduct(c) \/ Catalogue!DeleteReplyLost(c)
               \/ Catalogue!ChangeCategory(c)
        PROVE CatalogueInv'
    BY <2>1, <2>4, DeleteStep, LostReplySteps, CategoryStep, StepKeepsInv
  <2>5. ASSUME NEW c \in Callers, NEW members \in SUBSET Products,
               Catalogue!DeleteCategory(c, members) \/ Catalogue!CategoryReplyLost(c, members)
        PROVE CatalogueInv'
    BY <2>1, <2>5, CategoryDeletionSteps, StepKeepsInv
  <2> QED BY <1>3, <2>2, <2>3, <2>4, <2>5 DEF Catalogue!WriteStep
<1> QED BY <1>1, <1>2, <1>3

\* The steps of the composition, as the catalogue sees them.
LEMMA CatalogueSees ==
    ASSUME [Next]_vars
    PROVE Catalogue!CopyStep \/ Catalogue!WriteStep \/ UNCHANGED catalogueVars
BY DEF Next, Write, Copy, Publish, Settle, InSearch, vars

\* The invariant of the catalogue.
LEMMA CatalogueInvariant == Spec => []CatalogueInv
<1>1. Init => CatalogueInv
  BY CatalogueInit DEF Init
<1>2. CatalogueInv /\ [Next]_vars => CatalogueInv'
  BY CatalogueSees, CatalogueStep
<1> QED BY <1>1, <1>2, PTL DEF Spec

\* A stale copy in Redis is about to be replaced or deleted, or was made by a
\* refill that overlapped a write, or misses a write that nobody brings to it.
THEOREM StaleCopiesAreExplained == Spec => []StaleCopyIsExplained
<1>1. CatalogueInv => StaleCopyIsExplained
  BY DEF CatalogueInv, CopyInv, StaleCopyIsExplained, Catalogue!StaleCopyIsExplained, Keys
<1> QED BY <1>1, CatalogueInvariant, PTL

-----------------------------------------------------------------------------
(* The queue.                                                              *)

Pcs == {"received", "acking"}

Events == Search!Events

QueueOK == Search!Queue!QueueTypeOK(Pcs)

\* A goroutine's delivery while it handles one.
EventDelivery == [pc : Pcs, msg : Events, live : BOOLEAN]

\* m can still be handled: it waits, or a goroutine can return it.
Pending(m) == ready[m] > 0 \/ Search!Queue!Holders(m) # {}

HandlerStep(w) ==
    Search!Queue!Ack(w) \/ Search!Queue!NackRequeue(w) \/ Search!Queue!NackDiscard(w)
      \/ \E pc \in Pcs : Search!Queue!Advance(w, pc)

\* The process stops: what that does to the queue, whoever else was busy.
Restart ==
    /\ ready' = Search!Queue!Redelivered
    /\ worker' = [w \in Workers |-> Search!Queue!Idle]
    /\ UNCHANGED dead

BrokerMoves ==
    \/ \E m \in Events : Search!Queue!Enqueue(m, 1)
    \/ \E w \in Workers, m \in Events : Search!Queue!Receive(w, m)
    \/ Search!Queue!DropConnection
    \/ Restart

\* A goroutine that is not idle has a message.
LEMMA BusyDelivery ==
    ASSUME QueueOK, NEW w \in Workers, ~Search!Queue!At(w, "idle")
    PROVE worker[w] \in EventDelivery /\ worker[w].msg \in Events
BY DEF QueueOK, Search!Queue!QueueTypeOK, Events, Search!Queue!Idle, Search!Queue!At, EventDelivery

\* A step of one handler leaves the others where they are; the handler is done
\* or goes on with the same message.
LEMMA HandlerMoves ==
    ASSUME QueueOK, NEW w \in Workers, ~Search!Queue!At(w, "idle"), HandlerStep(w)
    PROVE /\ \A v \in Workers : v # w => worker'[v] = worker[v]
          /\ \/ worker'[w] = Search!Queue!Idle
             \/ \E pc \in Pcs : /\ Search!Queue!Advance(w, pc)
                                /\ worker'[w] = [worker[w] EXCEPT !.pc = pc]
                                /\ worker'[w] \in EventDelivery
<1>1. worker[w] \in EventDelivery
  BY BusyDelivery
<1>2. \A pc \in Pcs : [worker[w] EXCEPT !.pc = pc] \in EventDelivery
  BY <1>1 DEF EventDelivery
<1>3. CASE Search!Queue!Ack(w) \/ Search!Queue!NackRequeue(w) \/ Search!Queue!NackDiscard(w)
  BY <1>3 DEF QueueOK, Search!Queue!QueueTypeOK, Events, Search!Queue!Ack, Search!Queue!NackRequeue, Search!Queue!NackDiscard,
              Search!Queue!Finish
<1>4. ASSUME NEW pc \in Pcs, Search!Queue!Advance(w, pc)
      PROVE /\ \A v \in Workers : v # w => worker'[v] = worker[v]
            /\ worker'[w] = [worker[w] EXCEPT !.pc = pc]
  BY <1>4 DEF QueueOK, Search!Queue!QueueTypeOK, Events, Search!Queue!Advance
<1> QED BY <1>2, <1>3, <1>4 DEF HandlerStep

\* What a handler does to its delivery keeps the queue's type.
LEMMA HandlerKeepsType ==
    ASSUME QueueOK, NEW w \in Workers, ~Search!Queue!At(w, "idle"), HandlerStep(w)
    PROVE QueueOK'
<1>1. worker[w] \in EventDelivery
  BY BusyDelivery
<1>2. ready \in [Events -> Nat] /\ dead \in [Events -> Nat]
      /\ worker \in [Workers -> {Search!Queue!Idle} \cup EventDelivery]
  BY DEF QueueOK, Search!Queue!QueueTypeOK, Events, EventDelivery
<1>3. worker' \in [Workers -> {Search!Queue!Idle} \cup EventDelivery]
  <2>1. \A v \in Workers : worker'[v] \in {Search!Queue!Idle} \cup EventDelivery
    BY <1>2, HandlerMoves
  <2>2. worker' = [v \in Workers |-> worker'[v]]
    BY <1>2 DEF HandlerStep, Search!Queue!Ack, Search!Queue!NackRequeue, Search!Queue!NackDiscard,
                Search!Queue!Finish, Search!Queue!Advance
  <2> QED BY <2>1, <2>2
<1>4. ready' \in [Events -> Nat] /\ dead' \in [Events -> Nat]
  BY <1>1, <1>2 DEF HandlerStep, Search!Queue!Ack, Search!Queue!NackRequeue, Search!Queue!NackDiscard,
                    Search!Queue!Advance, EventDelivery
<1> QED BY <1>3, <1>4 DEF QueueOK, Search!Queue!QueueTypeOK, Events, EventDelivery

\* Redelivery counts the messages.
LEMMA HoldersAreFinite ==
    ASSUME NEW m
    PROVE /\ Search!Queue!Cardinality(Search!Queue!Holders(m)) \in Nat
          /\ Search!Queue!Holders(m) # {} <=> Search!Queue!Cardinality(Search!Queue!Holders(m)) > 0
<1>1. Search!Queue!Holders(m) \in SUBSET Workers
  BY DEF Search!Queue!Holders
<1>2. IsFiniteSet(Search!Queue!Holders(m))
  <2>1. IsFiniteSet(Workers)
    BY PartsAssumption DEF Search!IndexAssumption, Search!IsFiniteSet, IsFiniteSet
  <2> QED BY <1>1, <2>1, FS_Subset
<1>3. Search!Queue!Cardinality(Search!Queue!Holders(m)) = Cardinality(Search!Queue!Holders(m))
  BY DEF Search!Queue!Cardinality, Cardinality
<1> QED BY <1>2, <1>3, FS_CardinalityType, FS_EmptySet

\* The connection goes: a goroutine keeps its message but not its delivery.
LEMMA DropConnectionMoves ==
    ASSUME QueueOK, Search!Queue!DropConnection, NEW w \in Workers
    PROVE \/ worker'[w] = worker[w]
          \/ /\ worker[w] \in EventDelivery /\ worker'[w] \in EventDelivery
             /\ worker'[w].pc = worker[w].pc /\ worker'[w].msg = worker[w].msg
<1>1. CASE Search!Queue!Live(w)
  <2>1. worker[w] \in EventDelivery
    BY <1>1 DEF QueueOK, Search!Queue!QueueTypeOK, Events, Search!Queue!Live, Search!Queue!Idle, EventDelivery
  <2> QED BY <1>1, <2>1 DEF Search!Queue!DropConnection, EventDelivery
<1>2. CASE ~Search!Queue!Live(w)
  BY <1>2 DEF Search!Queue!DropConnection
<1> QED BY <1>1, <1>2

\* The broker's own steps keep the queue's type.
LEMMA BrokerKeepsType ==
    ASSUME QueueOK, BrokerMoves
    PROVE QueueOK'
<1> USE DEF QueueOK, Search!Queue!QueueTypeOK, Events
<1>1. ASSUME NEW m \in Events, Search!Queue!Enqueue(m, 1) PROVE QueueOK'
  BY <1>1 DEF Search!Queue!Enqueue
<1>2. ASSUME NEW w \in Workers, NEW m \in Events, Search!Queue!Receive(w, m) PROVE QueueOK'
  BY <1>2 DEF Search!Queue!Receive, Pcs
<1>3. Search!Queue!Redelivered \in [Events -> Nat]
  BY HoldersAreFinite DEF Search!Queue!Redelivered
<1>4. CASE Search!Queue!DropConnection
  <2>1. \A w \in Workers : worker'[w] \in {Search!Queue!Idle} \cup EventDelivery
    BY <1>4, DropConnectionMoves DEF EventDelivery
  <2> QED BY <1>3, <1>4, <2>1 DEF Search!Queue!DropConnection, EventDelivery
<1>5. CASE Restart
  BY <1>3, <1>5 DEF Restart
<1> QED BY <1>1, <1>2, <1>4, <1>5 DEF BrokerMoves

\* The broker loses nothing: it takes, hands out and takes back.
LEMMA BrokerKeepsPending ==
    ASSUME QueueOK, BrokerMoves, NEW m \in Events, Pending(m)
    PROVE Pending(m)'
<1>1. ready \in [Events -> Nat]
  BY DEF QueueOK, Search!Queue!QueueTypeOK, Events
<1>2. ASSUME NEW n \in Events, Search!Queue!Enqueue(n, 1) PROVE Pending(m)'
  BY <1>1, <1>2 DEF Search!Queue!Enqueue, Pending, Search!Queue!Holders, Search!Queue!Live
<1>3. ASSUME NEW w \in Workers, NEW n \in Events, Search!Queue!Receive(w, n) PROVE Pending(m)'
  <2>1. worker'[w] = [pc |-> "received", msg |-> n, live |-> TRUE]
    BY <1>3 DEF Search!Queue!Receive, QueueOK, Search!Queue!QueueTypeOK, Events
  <2>2. CASE n = m
    BY <2>1, <2>2 DEF Pending, Search!Queue!Holders, Search!Queue!Live
  <2>3. CASE n # m /\ ready[m] > 0
    BY <1>1, <1>3, <2>3 DEF Search!Queue!Receive, Pending
  <2>4. CASE ready[m] = 0
    <3>1. PICK v \in Workers : Search!Queue!Live(v) /\ worker[v].msg = m
      BY <1>1, <2>4 DEF Pending, Search!Queue!Holders
    <3>2. (n # m /\ v # w) \/ n = m
      BY <1>1, <1>3, <2>4, <3>1
         DEF Search!Queue!Receive, Search!Queue!At, QueueOK, Search!Queue!QueueTypeOK, Events, Search!Queue!Idle, Search!Queue!Live, Pcs
    <3>3. v # w => worker'[v] = worker[v]
      BY <1>3 DEF Search!Queue!Receive, QueueOK, Search!Queue!QueueTypeOK, Events
    <3> QED BY <2>2, <3>1, <3>2, <3>3 DEF Pending, Search!Queue!Holders, Search!Queue!Live
  <2> QED BY <1>1, <2>2, <2>3, <2>4
<1>4. Search!Queue!Redelivered[m] > 0
  BY <1>1, HoldersAreFinite DEF Search!Queue!Redelivered, Pending, Events
<1> QED BY <1>2, <1>3, <1>4 DEF BrokerMoves, Search!Queue!DropConnection, Restart, Pending

\* A handler can only lose the message it acknowledges or discards.
LEMMA HandlerKeepsPending ==
    ASSUME QueueOK, NEW w \in Workers, ~Search!Queue!At(w, "idle"), HandlerStep(w),
           NEW m \in Events, Pending(m),
           \/ worker[w].msg # m
           \/ Search!Queue!NackRequeue(w) \/ \E pc \in Pcs : Search!Queue!Advance(w, pc)
    PROVE Pending(m)'
<1> USE DEF Search!Queue!NackRequeue, Search!Queue!Advance
<1>1. ready \in [Events -> Nat] /\ worker[w] \in EventDelivery
  BY BusyDelivery DEF QueueOK, Search!Queue!QueueTypeOK, Events
<1>2. ready'[m] >= ready[m]
  BY <1>1 DEF HandlerStep, Search!Queue!Ack, Search!Queue!NackDiscard, EventDelivery
<1>3. CASE ready[m] > 0
  BY <1>1, <1>2, <1>3 DEF HandlerStep, Search!Queue!Ack, Search!Queue!NackDiscard, EventDelivery, Pending
<1>4. ASSUME NEW v \in Search!Queue!Holders(m) PROVE Pending(m)'
  <2>1. v \in Workers /\ worker[v].live /\ worker[v].msg = m
    BY <1>4 DEF Search!Queue!Holders, Search!Queue!Live
  <2>2. CASE v # w
    <3>1. worker'[v] = worker[v]
      BY <2>1, <2>2, HandlerMoves
    <3> QED BY <2>1, <3>1 DEF Pending, Search!Queue!Holders, Search!Queue!Live
  <2>3. CASE v = w /\ Search!Queue!NackRequeue(w)
    <3>1. ready'[m] = ready[m] + 1
      BY <1>1, <2>1, <2>3 DEF Search!Queue!Live
    <3> QED BY <1>1, <3>1 DEF Pending
  <2>4. ASSUME v = w, NEW pc \in Pcs, Search!Queue!Advance(w, pc) PROVE Pending(m)'
    <3>1. worker'[w] = [worker[w] EXCEPT !.pc = pc]
      BY <2>4 DEF QueueOK, Search!Queue!QueueTypeOK, Events
    <3>2. worker'[w].live /\ worker'[w].msg = m
      BY <1>1, <2>1, <2>4, <3>1 DEF EventDelivery
    <3> QED BY <2>1, <2>4, <3>2 DEF Pending, Search!Queue!Holders, Search!Queue!Live
  <2> QED BY <2>1, <2>2, <2>3, <2>4
<1> QED BY <1>1, <1>3, <1>4 DEF Pending, Search!Queue!Holders

\* What a goroutine of the indexing consumer does.
IndexEvent(w) ==
    Search!ApplyEvent(w) \/ Search!ApplyReplyLost(w) \/ Search!Refused(w) \/ Search!AckEvent(w)

\* What happens to the queue from outside.
Delivery ==
    \/ \E e \in Events : Search!Publish(e)
    \/ \E w \in Workers, e \in Events : Search!ReceiveEvent(w, e)
    \/ Search!DropConnection \/ Search!Crash

\* A goroutine's steps, as steps of the queue.
LEMMA ConsumerStep ==
    ASSUME NEW w \in Workers, IndexEvent(w)
    PROVE /\ ~Search!Queue!At(w, "idle") /\ HandlerStep(w)
          /\ \/ Search!Queue!NackRequeue(w)
             \/ \E pc \in Pcs : Search!Queue!Advance(w, pc)
             \/ Search!AckEvent(w)
<1>1. ~Search!Queue!At(w, "idle")
  BY DEF IndexEvent, Search!ApplyEvent, Search!ApplyReplyLost, Search!Refused,
         Search!AckEvent, Search!Queue!At
<1>2. /\ Search!AckEvent(w) => Search!Queue!Ack(w)
      /\ Search!Queue!NackRequeue(w) \/ Search!Queue!Advance(w, "acking") \/ Search!AckEvent(w)
  BY DEF IndexEvent, Search!ApplyEvent, Search!ApplyReplyLost, Search!Refused,
         Search!AckEvent
<1> QED BY <1>1, <1>2 DEF HandlerStep, Pcs

\* What the broker, the connection and a restart do to the queue.
LEMMA DeliveryStep ==
    ASSUME Delivery
    PROVE BrokerMoves
<1>1. CASE Search!Crash
  BY <1>1 DEF Search!Crash, Search!Queue!Crash, Restart, BrokerMoves
<1>2. CASE ~Search!Crash
  BY <1>2 DEF Delivery, Search!Publish, Search!ReceiveEvent, Search!DropConnection,
              BrokerMoves
<1> QED BY <1>1, <1>2

\* The steps of the composition, as the search service sees them.
LEMMA SearchSees ==
    ASSUME [Next]_vars
    PROVE \/ \E w \in Workers : IndexEvent(w)
          \/ Delivery
          \/ \E e \in Events : Search!Settle(e)
          \/ Write
          \/ UNCHANGED searchVars
BY DEF Next, Copy, Publish, Settle, InSearch, Search!IndexStep, IndexEvent, Delivery, Events,
       vars

-----------------------------------------------------------------------------
(* The events.                                                             *)

RowsOK ==
    /\ row \in [Events -> {"absent", "pending", "settled"}]
    /\ copies \in [Events -> Nat]
    /\ copiesLeft \in 0..MaxCopies

IndexOK ==
    /\ index \in [Products -> 0..MaxCalls]
    /\ applied \in [Events -> BOOLEAN]
    /\ overtaken \in [Products -> BOOLEAN]

\* The types of the search service, in parts; the kinds are those of the log.
LEMMA SearchParts ==
    /\ Search!TypeOK <=> RowsOK /\ IndexOK /\ QueueOK
    /\ Search!TypeOK' <=> RowsOK' /\ IndexOK' /\ QueueOK'
<1>1. \A e \in Events : kind[e] \in Search!Kinds
  BY DEF kind, EventIn, Catalogue!Evented, Search!Kinds, Events, Search!Events
<1>2. \A e \in Events : kind'[e] \in Search!Kinds
  BY DEF kind, EventIn, Catalogue!Evented, Search!Kinds, Events, Search!Events
<1>3. kind \in [Events -> Search!Kinds] /\ kind' \in [Events -> Search!Kinds]
  BY <1>1, <1>2 DEF kind, Events, Search!Events
<1> QED BY <1>3 DEF Search!TypeOK, RowsOK, IndexOK, QueueOK, Events, Pcs

SearchOK == RowsOK /\ IndexOK /\ QueueOK

\* A row the outbox is done with was sent; a copy that was sent is still in the
\* queue or with a goroutine the broker counts on, or was executed, as every
\* event was whose delivery is about to be acknowledged.
EventInv(e) ==
    /\ row[e] = "settled" => copies[e] > 0
    /\ copies[e] > 0 => applied[e] \/ Pending(e)
    /\ \A w \in Workers : Search!Queue!At(w, "acking") /\ worker[w].msg = e => applied[e]

SearchInv == SearchOK /\ \A e \in Events : EventInv(e)

\* Executing an event keeps the types of the index, and no event is undone.
LEMMA IndexStep ==
    ASSUME IndexOK, NEW e \in Events, Search!Execute(e)
    PROVE IndexOK' /\ applied'[e] /\ \A f \in Events : applied[f] => applied'[f]
<1>1. e[1] \in Products /\ e[2] \in 0..MaxCalls
  BY Assumptions DEF Events, Search!Events
<1>2. (IF kind[e] = "delete" THEN 0 ELSE e[2]) \in 0..MaxCalls
  BY <1>1, Assumptions
<1>3. index' \in [Products -> 0..MaxCalls]
  BY <1>1, <1>2 DEF IndexOK, Search!Execute
<1>4. overtaken' \in [Products -> BOOLEAN]
  <2>1. overtaken[e[1]] \in BOOLEAN
    BY <1>1 DEF IndexOK
  <2>2. PICK b \in BOOLEAN : overtaken' = [overtaken EXCEPT ![e[1]] = b]
    BY <2>1 DEF Search!Execute
  <2> QED BY <1>1, <2>2 DEF IndexOK
<1>5. applied' = [applied EXCEPT ![e] = TRUE]
  BY DEF Search!Execute
<1> QED BY <1>3, <1>4, <1>5 DEF IndexOK

\* What a goroutine does: only an executed event is acknowledged.
LEMMA IndexEventStep ==
    ASSUME SearchInv, NEW w \in Workers, IndexEvent(w)
    PROVE SearchInv'
<1>0. RowsOK /\ IndexOK /\ QueueOK /\ worker[w].msg \in Events
  BY ConsumerStep, BusyDelivery DEF SearchInv, SearchOK
<1>1. UNCHANGED <<row, copies, copiesLeft>>
  BY DEF IndexEvent, Search!ApplyEvent, Search!ApplyReplyLost, Search!Refused,
         Search!AckEvent, Search!rowVars
<1>2. /\ IndexOK' /\ \A f \in Events : applied[f] => applied'[f]
      /\ Search!ApplyEvent(w) => applied'[worker[w].msg]
  BY <1>0, IndexStep
     DEF IndexEvent, Search!ApplyEvent, Search!ApplyReplyLost, Search!Refused,
         Search!AckEvent, Search!indexVars, Search!EventOf, IndexOK
<1>3. QueueOK'
  BY <1>0, ConsumerStep, HandlerKeepsType
<1>4. RowsOK'
  BY <1>0, <1>1 DEF RowsOK
<1>5. ASSUME NEW e \in Events PROVE EventInv(e)'
  <2>0. EventInv(e)
    BY DEF SearchInv
  <2>1. applied[e] => applied'[e]
    BY <1>2
  <2>2. Pending(e) => applied[e] \/ Pending(e)'
    <3>1. Search!AckEvent(w) /\ worker[w].msg = e => applied[e]
      BY <2>0 DEF EventInv, Search!AckEvent, Search!Queue!At
    <3>2. CASE ~Search!AckEvent(w) \/ worker[w].msg # e
      BY <1>0, <3>2, ConsumerStep, HandlerKeepsPending
    <3> QED BY <3>1, <3>2
  <2>3. ASSUME NEW v \in Workers, Search!Queue!At(v, "acking")', worker'[v].msg = e
        PROVE applied'[e]
    <3>1. CASE v # w
      <4>1. worker'[v] = worker[v]
        BY <1>0, <3>1, ConsumerStep, HandlerMoves
      <4> QED BY <2>0, <2>1, <2>3, <4>1 DEF EventInv, Search!Queue!At
    <3>2. CASE v = w
      <4>1. worker'[w] # Search!Queue!Idle
        BY <2>3, <3>2 DEF Search!Queue!At, Search!Queue!Idle
      <4>2. ~(Search!Queue!Ack(w) \/ Search!Queue!NackRequeue(w) \/ Search!Queue!NackDiscard(w))
        BY <1>0, <4>1 DEF QueueOK, Search!Queue!QueueTypeOK, Search!Queue!Ack, Search!Queue!NackRequeue,
                          Search!Queue!NackDiscard, Search!Queue!Finish
      <4>3. Search!ApplyEvent(w)
        BY <4>1, <1>0 DEF IndexEvent, Search!ApplyReplyLost, Search!Refused, Search!AckEvent,
                    Search!Queue!NackRequeue, Search!Queue!Ack, Search!Queue!Finish,
                    Search!Queue!Idle, QueueOK, Search!Queue!QueueTypeOK
      <4>4. worker'[w].msg = worker[w].msg
        BY <1>0, <4>3, ConsumerStep, BusyDelivery DEF Search!ApplyEvent, Search!Queue!Advance,
           QueueOK, Search!Queue!QueueTypeOK, EventDelivery
      <4> QED BY <1>2, <2>3, <3>2, <4>3, <4>4
    <3> QED BY <3>1, <3>2
  <2> QED BY <1>1, <2>0, <2>1, <2>2, <2>3 DEF EventInv
<1> QED BY <1>2, <1>3, <1>4, <1>5 DEF SearchInv, SearchOK

\* No goroutine is brought to its acknowledgement from outside.
LEMMA DeliveryKeepsAcking ==
    ASSUME QueueOK, Delivery, NEW v \in Workers, Search!Queue!At(v, "acking")'
    PROVE Search!Queue!At(v, "acking") /\ worker'[v].msg = worker[v].msg
<1>1. CASE Search!Queue!DropConnection
  BY <1>1, DropConnectionMoves DEF Search!Queue!At
<1>2. CASE Restart
  BY <1>2 DEF Restart, Search!Queue!Idle, Search!Queue!At
<1>3. ASSUME NEW w \in Workers, NEW e \in Events, Search!Queue!Receive(w, e)
      PROVE Search!Queue!At(v, "acking") /\ worker'[v].msg = worker[v].msg
  BY <1>3 DEF Search!Queue!Receive, QueueOK, Search!Queue!QueueTypeOK, Search!Queue!At
<1>4. ASSUME NEW e \in Events, Search!Queue!Enqueue(e, 1)
      PROVE Search!Queue!At(v, "acking") /\ worker'[v].msg = worker[v].msg
  BY <1>4 DEF Search!Queue!Enqueue, Search!Queue!At
<1> QED BY <1>1, <1>2, <1>3, <1>4, DeliveryStep DEF BrokerMoves, Events

\* What the broker takes it keeps.
LEMMA DeliveryInvStep ==
    ASSUME SearchInv, Delivery
    PROVE SearchInv'
<1>0. RowsOK /\ IndexOK /\ QueueOK
  BY DEF SearchInv, SearchOK
<1>1. UNCHANGED <<row, index, applied, overtaken>>
  BY DEF Delivery, Search!Publish, Search!ReceiveEvent, Search!DropConnection, Search!Crash,
         Search!rowVars, Search!indexVars, Search!Outbox!Send
<1>2. QueueOK'
  BY <1>0, DeliveryStep, BrokerKeepsType
<1>3. \A e \in Events : Pending(e) => Pending(e)'
  BY <1>0, DeliveryStep, BrokerKeepsPending
<1>4. IndexOK'
  BY <1>0, <1>1 DEF IndexOK
<1>5. CASE UNCHANGED <<copies, copiesLeft>>
  <2>1. RowsOK'
    BY <1>0, <1>1, <1>5 DEF RowsOK
  <2>2. \A e \in Events : EventInv(e)'
    BY <1>0, <1>1, <1>3, <1>5, DeliveryKeepsAcking DEF SearchInv, EventInv
  <2> QED BY <1>2, <1>4, <2>1, <2>2 DEF SearchInv, SearchOK
<1>6. ASSUME NEW s \in Events, Search!Publish(s) PROVE SearchInv'
  <2>1. /\ copiesLeft > 0 /\ copiesLeft' = copiesLeft - 1
        /\ copies' = [copies EXCEPT ![s] = @ + 1]
        /\ ready' = [ready EXCEPT ![s] = @ + 1]
    BY <1>6 DEF Search!Publish, Search!Outbox!Send, Search!Queue!Enqueue
  <2>2. RowsOK'
    BY <1>0, <1>1, <2>1, Assumptions DEF RowsOK
  <2>3. ready'[s] > 0
    BY <1>0, <2>1 DEF QueueOK, Search!Queue!QueueTypeOK, Events
  <2>4. ASSUME NEW e \in Events PROVE EventInv(e)'
    <3>1. CASE e = s
      <4>1. Pending(e)' /\ copies'[e] > 0
        BY <1>0, <2>1, <2>3, <3>1 DEF Pending, RowsOK
      <4> QED BY <1>1, <4>1, <1>0, DeliveryKeepsAcking DEF SearchInv, EventInv
    <3>2. CASE e # s
      <4>1. copies'[e] = copies[e]
        BY <1>0, <2>1, <3>2 DEF RowsOK
      <4> QED BY <1>0, <1>1, <1>3, <4>1, DeliveryKeepsAcking DEF SearchInv, EventInv
    <3> QED BY <3>1, <3>2
  <2> QED BY <1>2, <1>4, <2>2, <2>4 DEF SearchInv, SearchOK
<1>7. (\E s \in Events : Search!Publish(s)) \/ UNCHANGED <<copies, copiesLeft>>
  BY DEF Delivery, Search!ReceiveEvent, Search!DropConnection, Search!Crash, Search!rowVars
<1> QED BY <1>5, <1>6, <1>7

\* Rows are written with the catalogue, and settled once a copy was sent.
LEMMA RowInvStep ==
    ASSUME SearchInv, Write \/ \E e \in Events : Search!Settle(e)
    PROVE SearchInv'
<1>0. RowsOK /\ IndexOK /\ QueueOK
  BY DEF SearchInv, SearchOK
<1>1. UNCHANGED <<copies, copiesLeft, ready, worker, dead, index, applied, overtaken>>
  BY DEF Write, Search!Settle, Search!queueVars, Search!indexVars, Search!Outbox!Settle
<1>2. /\ row' \in [Events -> {"absent", "pending", "settled"}]
      /\ \A e \in Events : row'[e] = "settled" => row[e] = "settled" \/ copies[e] > 0
  <2>1. CASE Write
    BY <1>0, <2>1 DEF Write, CommitEvents, RowsOK, Events
  <2>2. ASSUME NEW e \in Events, Search!Settle(e)
        PROVE /\ row' \in [Events -> {"absent", "pending", "settled"}]
              /\ \A f \in Events : row'[f] = "settled" => row[f] = "settled" \/ copies[f] > 0
    BY <1>0, <2>2 DEF Search!Settle, Search!Outbox!Settle, RowsOK
  <2> QED BY <2>1, <2>2
<1>3. RowsOK' /\ IndexOK' /\ QueueOK'
  BY <1>0, <1>1, <1>2 DEF RowsOK, IndexOK, QueueOK, Search!Queue!QueueTypeOK
<1>4. ASSUME NEW e \in Events PROVE EventInv(e)'
  <2>1. Pending(e)' <=> Pending(e)
    BY <1>1 DEF Pending, Search!Queue!Holders, Search!Queue!Live
  <2>2. \A w \in Workers : Search!Queue!At(w, "acking")' <=> Search!Queue!At(w, "acking")
    BY <1>1 DEF Search!Queue!At
  <2> QED BY <1>1, <1>2, <2>1, <2>2 DEF SearchInv, EventInv
<1> QED BY <1>3, <1>4 DEF SearchInv, SearchOK

\* The outbox and the queue start without a copy of any event.
LEMMA SearchInit ==
    ASSUME Search!Init
    PROVE SearchInv
<1>1. RowsOK /\ IndexOK
  BY Assumptions DEF Search!Init, RowsOK, IndexOK, Events
<1>2. QueueOK
  BY DEF Search!Init, Search!Queue!QueueInit, Search!Queue!Idle, QueueOK,
         Search!Queue!QueueTypeOK
<1>3. \A e \in Events : EventInv(e)
  BY DEF Search!Init, Search!Queue!QueueInit, Search!Queue!Idle, EventInv, Search!Queue!At, Events
<1> QED BY <1>1, <1>2, <1>3 DEF SearchInv, SearchOK

\* The invariant of the events.
LEMMA SearchInvariant == Spec => []SearchInv
<1>1. Init => SearchInv
  BY SearchInit DEF Init
<1>2. SearchInv /\ [Next]_vars => SearchInv'
  <2> SUFFICES ASSUME SearchInv, [Next]_vars PROVE SearchInv'
    OBVIOUS
  <2>1. CASE UNCHANGED searchVars
    <3>1. SearchOK'
      BY <2>1 DEF searchVars, SearchInv, SearchOK, RowsOK, IndexOK, QueueOK,
                  Search!Queue!QueueTypeOK
    <3>2. ASSUME NEW e \in Events PROVE EventInv(e)'
      BY <2>1 DEF searchVars, SearchInv, EventInv, Pending, Search!Queue!Holders, Search!Queue!Live,
                  Search!Queue!At
    <3> QED BY <3>1, <3>2 DEF SearchInv
  <2> QED BY <2>1, SearchSees, IndexEventStep, DeliveryInvStep, RowInvStep
<1> QED BY <1>1, <1>2, PTL DEF Spec

\* The variables of both services keep their types.
THEOREM TypeCorrect == Spec => []TypeOK
<1>1. CatalogueInv /\ SearchInv => TypeOK
  BY SearchParts DEF CatalogueInv, SearchInv, SearchOK, TypeOK
<1> QED BY <1>1, CatalogueInvariant, SearchInvariant, PTL

\* An event whose row is settled was executed, or a copy of it is in the queue
\* or with a goroutine whose delivery the broker still counts: whatever the
\* connection, OpenSearch and restarts do, it is not forgotten.
THEOREM NoEventIsLost == Spec => []NoEventLost
<1>1. SearchInv => NoEventLost
  BY DEF SearchInv, EventInv, NoEventLost, Search!NoEventLost, Pending, Events
<1> QED BY <1>1, SearchInvariant, PTL

-----------------------------------------------------------------------------
(* The writes behind the events.                                           *)

\* A handler of DeleteProduct found its product.
DeleterInv(c) ==
    caller[c].pc = "deleting" =>
        caller[c].key \in Products /\ Catalogue!WritesTo(caller[c].key, "create")

\* Only what was created is deleted.
LogInv ==
    /\ \A p \in Products : Catalogue!CreatedFirst(log[p])
    /\ \A c \in Callers : DeleterInv(c)

\* A write that carries an event goes to one product, and is no deletion of
\* something never created; others go to any number of products.
Written(p, write) ==
    /\ log'[p] = Append(log[p], write)
    /\ write = "delete" => Catalogue!WritesTo(p, "create")

Unannounced == Catalogue!Writes \ Catalogue!Evented

LogGrows ==
    \/ \A p \in Products : log'[p] = log[p] \/ \E write \in Unannounced : Written(p, write)
    \/ \E p \in Products, write \in Catalogue!Evented :
        Written(p, write) /\ \A q \in Products : q # p => log'[q] = log[q]

\* The transaction of a handler that appends to one product's row.
LEMMA CommitGrows ==
    ASSUME LogOK, NEW c \in Callers, NEW p \in Products, NEW write \in Catalogue!Evented, NEW next,
           Catalogue!Commit(c, p, write, next),
           write = "delete" => Catalogue!WritesTo(p, "create")
    PROVE LogGrows
<1>1. p \in Keys /\ log' = [log EXCEPT ![p] = Append(@, write)] /\ Products \subseteq Keys
  BY Assumptions DEF Catalogue!Commit
<1>2. log'[p] = Append(log[p], write) /\ \A q \in Products : q # p => log'[q] = log[q]
  BY <1>1 DEF LogOK, Log
<1> QED BY <1>2 DEF LogGrows, Written

\* Every transaction of the catalogue appends.
LEMMA WriteStepGrows ==
    ASSUME LogOK, LogInv, Catalogue!WriteStep
    PROVE LogGrows
<1>1. /\ "create" \in Catalogue!Evented /\ "update" \in Catalogue!Evented
      /\ "delete" \in Catalogue!Evented
      /\ "stock" \in Unannounced /\ "uncategorised" \in Unannounced
  BY DEF Catalogue!Evented, Catalogue!Writes, Unannounced
<1>2. ASSUME NEW c \in Callers, NEW p \in Products,
             \/ Catalogue!CreateProduct(c, p) \/ Catalogue!UpdateProduct(c, p)
             \/ Catalogue!WriteReplyLost(c, p)
      PROVE LogGrows
  <2>1. \/ \E next : Catalogue!Commit(c, p, "create", next)
        \/ \E next : Catalogue!Commit(c, p, "update", next)
    BY <1>2 DEF Catalogue!CreateProduct, Catalogue!UpdateProduct, Catalogue!WriteReplyLost
  <2> QED BY <1>1, <2>1, CommitGrows
<1>3. ASSUME NEW c \in Callers, Catalogue!DeleteProduct(c) \/ Catalogue!DeleteReplyLost(c)
      PROVE LogGrows
  <2>1. PICK p \in Products : p = caller[c].key /\ Catalogue!WritesTo(p, "create")
    BY <1>3 DEF Catalogue!DeleteProduct, Catalogue!DeleteReplyLost, Catalogue!At, LogInv,
                DeleterInv
  <2>2. PICK next : Catalogue!Commit(c, p, "delete", next)
    BY <1>3, <2>1 DEF Catalogue!DeleteProduct, Catalogue!DeleteReplyLost
  <2> QED BY <1>1, <2>1, <2>2, CommitGrows
<1>4. ASSUME NEW p \in Products, NEW served \in BOOLEAN, Catalogue!TakeStock(p, served)
      PROVE LogGrows
  <2>1. log' = [log EXCEPT ![p] = Append(@, "stock")] /\ Products \subseteq Keys
    BY <1>4, Assumptions DEF Catalogue!TakeStock
  <2>2. \A q \in Products : log'[q] = IF q = p THEN Append(log[q], "stock") ELSE log[q]
    BY <2>1 DEF LogOK, Log
  <2> QED BY <1>1, <2>2 DEF LogGrows, Written
<1>5. ASSUME NEW c \in Callers, Catalogue!ChangeCategory(c) PROVE LogGrows
  <2>1. log' = [log EXCEPT ![AllCategories] = Append(@, "change")]
    BY <1>5 DEF Catalogue!ChangeCategory, Catalogue!Commit
  <2>2. \A p \in Products : log'[p] = log[p]
    BY <2>1, Assumptions DEF LogOK, Log
  <2> QED BY <2>2 DEF LogGrows
<1>6. ASSUME NEW c \in Callers, NEW members \in SUBSET Products,
             Catalogue!DeleteCategory(c, members) \/ Catalogue!CategoryReplyLost(c, members)
      PROVE LogGrows
  <2>1. PICK next : Catalogue!CommitDeletion(c, members, next)
    BY <1>6 DEF Catalogue!DeleteCategory, Catalogue!CategoryReplyLost
  <2>2. \A p \in Products : log'[p] \in {log[p], Append(log[p], "uncategorised")}
    BY <2>1, Assumptions DEF Catalogue!CommitDeletion, Catalogue!Keys
  <2> QED BY <1>1, <2>2 DEF LogGrows, Written
<1> QED BY <1>2, <1>3, <1>4, <1>5, <1>6 DEF Catalogue!WriteStep

\* A handler deletes if it did before its step, or has just found its product.
LEMMA DeletersStep ==
    ASSUME CallersOK, Catalogue!CopyStep \/ Catalogue!WriteStep, NEW d \in Callers,
           caller'[d].pc = "deleting"
    PROVE \/ caller[d].pc = "deleting" /\ caller'[d].key = caller[d].key
          \/ \E p \in Products : /\ caller'[d].key = p /\ Catalogue!Live(p)
                                 /\ UNCHANGED log
<1> DEFINE Goes == \/ caller[d].pc = "deleting" /\ caller'[d].key = caller[d].key
                   \/ \E p \in Products : /\ caller'[d].key = p /\ Catalogue!Live(p)
                                          /\ UNCHANGED log
<1>1. \A c \in Callers : \A next : caller' = [caller EXCEPT ![c] = next] =>
        caller'[c] = next /\ (d # c => caller'[d] = caller[d])
  BY DEF CallersOK
<1>2. /\ Catalogue!Idle.pc # "deleting"
      /\ \A k, ver, owed : Catalogue!Refilling(k, ver, owed).pc # "deleting"
  BY DEF Catalogue!Idle, Catalogue!Refilling
<1>3. \A K : Catalogue!Overtake(d, K).pc = caller[d].pc
             /\ Catalogue!Overtake(d, K).key = caller[d].key
  BY OvertakeFacts
<1>4. ASSUME NEW c \in Callers, NEW next, next.pc # "deleting", NEW K,
             caller' = [e \in Callers |-> IF e = c THEN next ELSE Catalogue!Overtake(e, K)]
      PROVE Goes
  BY <1>3, <1>4
<1>5. ASSUME UNCHANGED caller PROVE Goes
  BY <1>5
<1>6. ASSUME NEW c \in Callers, NEW next, next.pc # "deleting",
             caller' = [caller EXCEPT ![c] = next]
      PROVE Goes
  BY <1>1, <1>6
<1>7. CASE Catalogue!CopyStep
  <2>1. ASSUME NEW c \in Callers, NEW p \in Products, Catalogue!CheckProduct(c, p) PROVE Goes
    <3>1. /\ caller' = [caller EXCEPT ![c] = [Catalogue!Idle EXCEPT !.pc = "deleting", !.key = p]]
          /\ Catalogue!Live(p) /\ UNCHANGED log
      BY <2>1 DEF Catalogue!CheckProduct
    <3>2. [Catalogue!Idle EXCEPT !.pc = "deleting", !.key = p].key = p
      BY DEF Catalogue!Idle
    <3> QED BY <1>1, <3>1, <3>2
  <2>2. ASSUME NEW c \in Callers, NEW k \in Catalogue!Keys, Catalogue!ReadRow(c, k) PROVE Goes
    BY <1>2, <1>6, <2>2 DEF Catalogue!ReadRow
  <2>3. ASSUME NEW c \in Callers,
               \/ Catalogue!Refill(c) \/ Catalogue!RefillFails(c) \/ Catalogue!DeleteFails(c)
               \/ Catalogue!DropCopy(c) \/ Catalogue!DropFails(c)
        PROVE Goes
    BY <1>2, <1>6, <2>3 DEF Catalogue!Refill, Catalogue!RefillFails, Catalogue!DeleteFails,
                            Catalogue!DropCopy, Catalogue!DropFails
  <2>4. CASE Catalogue!Crash
    BY <1>2, <2>4 DEF Catalogue!Crash
  <2>5. CASE \/ \E c \in Callers, p \in Products : Catalogue!UpdateStockBatch(c, p)
             \/ \E k \in Catalogue!Keys : \/ Catalogue!DeleteCopy(k)
                                          \/ Catalogue!DeleteCopyFails(k)
                                          \/ Catalogue!CopyExpires(k)
    BY <1>5, <2>5 DEF Catalogue!UpdateStockBatch, Catalogue!DeleteCopy,
                      Catalogue!DeleteCopyFails, Catalogue!CopyExpires
  <2> QED BY <1>7, <2>1, <2>2, <2>3, <2>4, <2>5 DEF Catalogue!CopyStep
<1>8. CASE Catalogue!WriteStep
  <2>1. ASSUME NEW c \in Callers, NEW p \in Products,
               \/ Catalogue!CreateProduct(c, p) \/ Catalogue!UpdateProduct(c, p)
               \/ Catalogue!WriteReplyLost(c, p)
        PROVE Goes
    <3>1. PICK write, next : Catalogue!Commit(c, p, write, next) /\ next.pc # "deleting"
      BY <1>2, <2>1 DEF Catalogue!CreateProduct, Catalogue!UpdateProduct, Catalogue!Updated,
                        Catalogue!WriteReplyLost
    <3> QED BY <1>4, <3>1 DEF Catalogue!Commit
  <2>2. ASSUME NEW c \in Callers,
               \/ Catalogue!DeleteProduct(c) \/ Catalogue!DeleteReplyLost(c)
               \/ Catalogue!ChangeCategory(c)
        PROVE Goes
    <3>1. [caller[c] EXCEPT !.pc = "dropping"].pc # "deleting"
      BY DEF CallersOK, Handler
    <3>2. PICK k, write, next : Catalogue!Commit(c, k, write, next) /\ next.pc # "deleting"
      BY <1>2, <2>2, <3>1 DEF Catalogue!DeleteProduct, Catalogue!DeleteReplyLost,
                              Catalogue!ChangeCategory
    <3> QED BY <1>4, <3>2 DEF Catalogue!Commit
  <2>3. ASSUME NEW p \in Products, NEW served \in BOOLEAN, Catalogue!TakeStock(p, served)
        PROVE Goes
    BY <1>3, <2>3 DEF Catalogue!TakeStock
  <2>4. ASSUME NEW c \in Callers, NEW members \in SUBSET Products,
               Catalogue!DeleteCategory(c, members) \/ Catalogue!CategoryReplyLost(c, members)
        PROVE Goes
    <3>1. [Catalogue!Idle EXCEPT !.pc = "dropping"].pc # "deleting"
      BY DEF Catalogue!Idle
    <3>2. PICK next : Catalogue!CommitDeletion(c, members, next) /\ next.pc # "deleting"
      BY <1>2, <2>4, <3>1 DEF Catalogue!DeleteCategory, Catalogue!CategoryReplyLost
    <3> QED BY <1>4, <3>2 DEF Catalogue!CommitDeletion
  <2> QED BY <1>8, <2>1, <2>2, <2>3, <2>4 DEF Catalogue!WriteStep
<1> QED BY <1>7, <1>8

\* The steps of the copies commit no write.
LEMMA CopyStepWritesNothing ==
    ASSUME Catalogue!CopyStep
    PROVE UNCHANGED log
BY DEF Catalogue!CopyStep, Catalogue!ReadRow, Catalogue!CheckProduct, Catalogue!UpdateStockBatch,
       Catalogue!Refill, Catalogue!RefillFails, Catalogue!DeleteFails, Catalogue!DropCopy,
       Catalogue!DropFails, Catalogue!DeleteCopy, Catalogue!DeleteCopyFails,
       Catalogue!CopyExpires, Catalogue!Crash

\* A row that grows keeps what was written to it, and is created first.
LEMMA GrownRow ==
    ASSUME LogOK, NEW p \in Products, NEW write \in Catalogue!Writes, Written(p, write),
           Catalogue!CreatedFirst(log[p])
    PROVE /\ Catalogue!CreatedFirst(log'[p])
          /\ Catalogue!WritesTo(p, "create") => Catalogue!WritesTo(p, "create")'
<1>1. log[p] \in Seq(Catalogue!Writes)
  BY Assumptions DEF LogOK, Log
<1>2. PICK n \in Nat : n = Len(log[p])
  BY <1>1
<1>3. /\ Len(log'[p]) = n + 1 /\ log'[p][n + 1] = write
      /\ \A v \in 1..n : log'[p][v] = log[p][v]
  BY <1>1, <1>2 DEF Written
<1>4. ASSUME NEW v \in 1..(n + 1), log'[p][v] = "delete"
      PROVE \E u \in 1..(v - 1) : log'[p][u] = "create"
  <2>1. CASE v \in 1..n
    <3>1. PICK u \in 1..(v - 1) : log[p][u] = "create"
      BY <1>2, <1>3, <1>4, <2>1 DEF Catalogue!CreatedFirst
    <3> QED BY <1>3, <2>1, <3>1
  <2>2. CASE v = n + 1
    <3>1. PICK u \in 1..n : log[p][u] = "create"
      BY <1>2, <1>3, <1>4, <2>2 DEF Written, Catalogue!WritesTo
    <3> QED BY <1>3, <2>2, <3>1
  <2> QED BY <2>1, <2>2
<1>5. Catalogue!CreatedFirst(log'[p])
  BY <1>3, <1>4 DEF Catalogue!CreatedFirst
<1>6. Catalogue!WritesTo(p, "create") => Catalogue!WritesTo(p, "create")'
  BY <1>2, <1>3 DEF Catalogue!WritesTo
<1> QED BY <1>5, <1>6

\* Nothing is deleted that was not created.
LEMMA LogInvStep ==
    ASSUME LogOK, CallersOK, LogInv,
           Catalogue!CopyStep \/ Catalogue!WriteStep \/ UNCHANGED catalogueVars
    PROVE LogInv'
<1>1. \A p \in Products : UNCHANGED log[p] \/ \E write \in Catalogue!Writes : Written(p, write)
  <2>1. Catalogue!Evented \subseteq Catalogue!Writes /\ Unannounced \subseteq Catalogue!Writes
    BY DEF Catalogue!Evented, Catalogue!Writes, Unannounced
  <2> QED BY <2>1, WriteStepGrows, CopyStepWritesNothing DEF LogGrows, catalogueVars
<1>2. ASSUME NEW p \in Products
      PROVE /\ Catalogue!CreatedFirst(log'[p])
            /\ Catalogue!WritesTo(p, "create") => Catalogue!WritesTo(p, "create")'
  <2>1. CASE UNCHANGED log[p]
    BY <2>1 DEF LogInv, Catalogue!WritesTo
  <2>2. CASE \E write \in Catalogue!Writes : Written(p, write)
    BY <2>2, GrownRow DEF LogInv
  <2> QED BY <1>1, <2>1, <2>2
<1>3. ASSUME NEW d \in Callers, caller'[d].pc = "deleting"
      PROVE \E p \in Products : caller'[d].key = p /\ Catalogue!WritesTo(p, "create")'
  <2>1. CASE UNCHANGED catalogueVars
    BY <1>2, <1>3, <2>1 DEF catalogueVars, LogInv, DeleterInv
  <2>2. CASE Catalogue!CopyStep \/ Catalogue!WriteStep
    <3>1. CASE caller[d].pc = "deleting" /\ caller'[d].key = caller[d].key
      BY <1>2, <3>1 DEF LogInv, DeleterInv
    <3>2. ASSUME NEW p \in Products, caller'[d].key = p, Catalogue!Live(p)
          PROVE Catalogue!WritesTo(p, "create")'
      BY <1>2, <3>2, Assumptions DEF Catalogue!Live
    <3> QED BY <1>3, <2>2, <3>1, <3>2, DeletersStep
  <2> QED BY <2>1, <2>2
<1>4. \A d \in Callers : DeleterInv(d)'
  <2> SUFFICES ASSUME NEW d \in Callers, caller'[d].pc = "deleting"
               PROVE caller'[d].key \in Products /\ Catalogue!WritesTo(caller[d].key, "create")'
    BY DEF DeleterInv
  <2>1. PICK p \in Products : caller'[d].key = p /\ Catalogue!WritesTo(p, "create")'
    BY <1>3
  <2> QED BY <2>1 DEF Catalogue!WritesTo
<1> QED BY <1>2, <1>4 DEF LogInv

\* No handler deletes at first, and no history deletes what it did not create.
LEMMA LogInvInit ==
    ASSUME Catalogue!Init
    PROVE LogInv
<1>1. PICK h \in {s.history : s \in Starts} :
        log = [k \in Catalogue!Keys |-> IF k = AllCategories THEN <<>> ELSE h[k]]
  BY DEF Catalogue!Init
<1>2. \A p \in Products : log[p] = h[p]
  BY <1>1, Assumptions DEF Keys
<1>3. \A p \in Products : Catalogue!CreatedFirst(h[p])
  BY PartsAssumption DEF Catalogue!CatalogueAssumption
<1>4. \A c \in Callers : DeleterInv(c)
  BY DEF Catalogue!Init, Catalogue!Idle, DeleterInv
<1> QED BY <1>2, <1>3, <1>4 DEF LogInv

\* What the appended write is as an event, and what the others are.
LEMMA AppendedEvent ==
    ASSUME LogOK, NEW p \in Products, NEW write \in Catalogue!Writes,
           log'[p] = Append(log[p], write), NEW v \in 1..MaxCalls
    PROVE /\ v # Len(log[p]) + 1 => EventIn(log'[p], v) = EventIn(log[p], v)
          /\ v = Len(log[p]) + 1 =>
               /\ EventIn(log[p], v) = "none"
               /\ write \in Catalogue!Evented => EventIn(log'[p], v) = write
               /\ write \notin Catalogue!Evented => EventIn(log'[p], v) = "none"
<1>1. log[p] \in Seq(Catalogue!Writes) /\ v \in Nat /\ v >= 1
  BY Assumptions DEF LogOK, Log
<1>2. PICK n \in Nat : n = Len(log[p])
  BY <1>1
<1>3. /\ Len(log'[p]) = n + 1 /\ log'[p][n + 1] = write
      /\ \A u \in 1..n : log'[p][u] = log[p][u]
  BY <1>1, <1>2
<1>4. CASE v = n + 1
  BY <1>1, <1>2, <1>3, <1>4 DEF EventIn
<1>5. CASE v # n + 1
  <2>1. v <= n + 1 => v \in 1..n
    BY <1>1, <1>5
  <2>2. v <= n <=> v <= n + 1
    BY <1>1, <1>5
  <2> QED BY <1>2, <1>3, <1>5, <2>1, <2>2 DEF EventIn
<1> QED BY <1>2, <1>4, <1>5

\* An event is a version of a product.
LEMMA EventFacts ==
    ASSUME NEW e \in Events
    PROVE /\ e[1] \in Products /\ e[2] \in 1..MaxCalls /\ e[2] \in Nat
          /\ e = <<e[1], e[2]>>
          /\ kind[e] = EventIn(log[e[1]], e[2])
          /\ kind'[e] = EventIn(log'[e[1]], e[2])
BY Assumptions DEF Events, Search!Events, kind

\* The event of a write was no event before.
Recorded(e, k) ==
    /\ kind[e] = "none" /\ e[2] = Len(log[e[1]]) + 1
    /\ kind' = [kind EXCEPT ![e] = k]
    /\ row' = [row EXCEPT ![e] = "pending"]

\* A transaction of the catalogue writes the row of at most one event.
LEMMA WriteRecords ==
    ASSUME LogOK, LogInv, RowsOK, Write
    PROVE \/ UNCHANGED <<kind, row>>
          \/ \E e \in Events, k \in Catalogue!Evented : Recorded(e, k)
<1>1. LogGrows /\ Unannounced \subseteq Catalogue!Writes /\ Catalogue!Evented \subseteq Catalogue!Writes
  BY WriteStepGrows DEF Write, Unannounced, Catalogue!Evented, Catalogue!Writes
<1>2. \A e \in Events : row'[e] = IF kind'[e] # kind[e] THEN "pending" ELSE row[e]
  BY EventFacts DEF Write, CommitEvents, Events
<1>3. row' \in [Events -> {"absent", "pending", "settled"}]
  BY DEF Write, CommitEvents, RowsOK, Events
<1>4. /\ kind = [e \in Events |-> kind[e]] /\ kind' = [e \in Events |-> kind'[e]]
      /\ row = [e \in Events |-> row[e]] /\ row' = [e \in Events |-> row'[e]]
  BY <1>3 DEF kind, RowsOK, Events, Search!Events
<1>5. CASE \A p \in Products : log'[p] = log[p] \/ \E write \in Unannounced : Written(p, write)
  <2>1. ASSUME NEW e \in Events PROVE kind'[e] = kind[e]
    <3>1. CASE log'[e[1]] = log[e[1]]
      BY <3>1, EventFacts
    <3>2. ASSUME NEW write \in Unannounced, Written(e[1], write) PROVE kind'[e] = kind[e]
      BY <1>1, <3>2, EventFacts, AppendedEvent DEF Written, Unannounced
    <3> QED BY <1>5, <3>1, <3>2, EventFacts
  <2> QED BY <1>2, <1>4, <2>1
<1>6. ASSUME NEW p \in Products, NEW write \in Catalogue!Evented, Written(p, write),
             \A q \in Products : q # p => log'[q] = log[q]
      PROVE \/ UNCHANGED <<kind, row>>
            \/ \E e \in Events, k \in Catalogue!Evented : Recorded(e, k)
  <2>1. ASSUME NEW e \in Events
        PROVE /\ e # <<p, Len(log[p]) + 1>> => kind'[e] = kind[e]
              /\ e = <<p, Len(log[p]) + 1>> => kind[e] = "none" /\ kind'[e] = write
    <3>1. CASE e[1] # p
      BY <1>6, <3>1, EventFacts
    <3>2. CASE e[1] = p
      BY <1>1, <1>6, <3>2, EventFacts, AppendedEvent DEF Written
    <3> QED BY <3>1, <3>2
  <2>2. CASE <<p, Len(log[p]) + 1>> \notin Events
    BY <1>2, <1>4, <2>1, <2>2
  <2>3. ASSUME NEW e \in Events, e = <<p, Len(log[p]) + 1>> PROVE Recorded(e, write)
    <3>1. write # "none"
      BY DEF Catalogue!Evented
    <3>2. row'[e] = "pending" /\ \A f \in Events : f # e => row'[f] = row[f]
      BY <1>2, <2>1, <2>3, <3>1
    <3>3. kind' = [kind EXCEPT ![e] = write]
      BY <1>4, <2>1, <2>3
    <3>4. row' = [row EXCEPT ![e] = "pending"]
      BY <1>4, <3>2
    <3> QED BY <2>1, <2>3, <3>3, <3>4 DEF Recorded
  <2> QED BY <2>2, <2>3
<1> QED BY <1>1, <1>5, <1>6 DEF LogGrows

-----------------------------------------------------------------------------
(* The documents.                                                          *)

\* Somebody has to do with the event, or had.
Touched(e) == applied[e] \/ ready[e] > 0 \/ \E w \in Workers : worker[w].msg = e

\* There is a row for every event, and nobody handles an event without one.
RecordInv(e) ==
    /\ row[e] = "absent" <=> kind[e] = "none"
    /\ Touched(e) => row[e] # "absent"

\* Of the executed events of p, e has the last version.
Last(p, e) ==
    /\ e[1] = p /\ applied[e]
    /\ \A f \in Events : f[1] = p /\ applied[f] => f[2] <= e[2]

\* The document of p is what its last executed event says.
Document(p) ==
    \/ index[p] = 0 /\ \A e \in Events : e[1] = p => ~applied[e]
    \/ \E e \in Events : Last(p, e) /\ index[p] = IF kind[e] = "delete" THEN 0 ELSE e[2]

\* No event of p can come that is older than one that was executed.
InOrder(p) ==
    \A e \in Events, f \in Events :
        e[1] = p /\ f[1] = p /\ applied[e] /\ f[2] < e[2] => ~Search!Coming(f)

\* Unless an event was executed too early, the document follows the events; it
\* is missing after the first of them only if one was a deletion.
DocumentInv(p) ==
    /\ ~overtaken[p] => InOrder(p) /\ Document(p)
    /\ index[p] = 0 => \A e \in Events :
         e[1] = p /\ applied[e] => \E f \in Events : f[1] = p /\ applied[f] /\ kind[f] = "delete"

DocumentsInv == (\A e \in Events : RecordInv(e)) /\ \A p \in Products : DocumentInv(p)

\* What was sent of an event is with the queue, with a goroutine, or was executed.
LEMMA SettledWasExecuted ==
    ASSUME SearchInv, DocumentsInv, NEW e \in Events, kind[e] # "none", ~Search!Coming(e)
    PROVE applied[e]
<1>1. row[e] = "settled"
  BY DEF SearchInv, SearchOK, RowsOK, DocumentsInv, RecordInv, Search!Coming
<1>2. applied[e] \/ Pending(e)
  BY <1>1 DEF SearchInv, EventInv
<1>3. ~Pending(e)
  BY DEF Pending, Search!Coming
<1> QED BY <1>2, <1>3

\* A goroutine's step brings no event that could not be executed before.
LEMMA HandlerBringsNothing ==
    ASSUME SearchInv, NEW w \in Workers, IndexEvent(w), NEW e \in Events
    PROVE /\ Search!Coming(e)' => Search!Coming(e)
          /\ Touched(e)' => Touched(e)
<1>0. RowsOK /\ IndexOK /\ QueueOK
  BY DEF SearchInv, SearchOK
<1>1. /\ ~Search!Queue!At(w, "idle") /\ HandlerStep(w) /\ UNCHANGED row
      /\ worker[w] \in EventDelivery /\ worker[w].msg \in Events
  BY <1>0, ConsumerStep, BusyDelivery
     DEF IndexEvent, Search!ApplyEvent, Search!ApplyReplyLost, Search!Refused,
         Search!AckEvent, Search!rowVars
<1>2. \A v \in Workers : v # w => worker'[v] = worker[v]
  BY <1>0, <1>1, HandlerMoves
<1>3. \/ worker'[w] = Search!Queue!Idle
      \/ Search!ApplyEvent(w) /\ worker'[w] = [worker[w] EXCEPT !.pc = "acking"]
  BY <1>0 DEF IndexEvent, Search!ApplyEvent, Search!ApplyReplyLost, Search!Refused,
              Search!AckEvent, Search!Queue!NackRequeue, Search!Queue!Ack, Search!Queue!Finish,
              Search!Queue!Advance, QueueOK, Search!Queue!QueueTypeOK
<1>4. \A v \in Workers : worker'[v].msg = e =>
        /\ worker[v].msg = e /\ worker'[v].live = worker[v].live
        /\ Search!Queue!At(v, "received")' => Search!Queue!At(v, "received")
  <2>1. e # Search!Queue!Idle.msg
    BY PartsAssumption DEF Search!IndexAssumption, Events, Search!Queue!Idle
  <2>2. worker'[w] = [worker[w] EXCEPT !.pc = "acking"] =>
          /\ worker'[w].msg = worker[w].msg /\ worker'[w].live = worker[w].live
          /\ worker'[w].pc = "acking"
    BY <1>1 DEF EventDelivery
  <2> QED BY <1>2, <1>3, <2>1, <2>2 DEF Search!Queue!At
<1>5. ready'[e] > 0 => ready[e] > 0 \/ (Search!Queue!At(w, "received") /\ worker[w].msg = e)
  BY <1>0, <1>1 DEF IndexEvent, Search!ApplyEvent, Search!ApplyReplyLost, Search!Refused,
              Search!AckEvent, Search!Queue!NackRequeue, Search!Queue!Ack, Search!Queue!Advance,
              QueueOK, Search!Queue!QueueTypeOK, Events
<1>6. Search!Queue!Holders(e)' # {} => Search!Queue!Holders(e) # {}
  BY <1>4 DEF Search!Queue!Holders, Search!Queue!Live
<1>7. Search!Coming(e)' => Search!Coming(e)
  BY <1>1, <1>4, <1>5, <1>6 DEF Search!Coming, Search!EventOf
<1>8. applied'[e] => applied[e] \/ worker[w].msg = e
  BY <1>0, <1>1 DEF IndexEvent, Search!ApplyEvent, Search!ApplyReplyLost, Search!Refused,
              Search!AckEvent, Search!Execute, Search!EventOf, Search!indexVars, IndexOK
<1>9. Touched(e)' => Touched(e)
  BY <1>4, <1>5, <1>8 DEF Touched
<1> QED BY <1>7, <1>9

\* Neither does what happens to the queue from outside: what is sent is still
\* in the outbox, and what is handed out or taken back was in the queue.
LEMMA BrokerBringsNothing ==
    ASSUME SearchInv, Delivery, NEW e \in Events
    PROVE /\ Search!Coming(e)' => Search!Coming(e)
          /\ Touched(e)' => Touched(e) \/ row[e] = "pending"
<1>0. RowsOK /\ IndexOK /\ QueueOK /\ e # NoEvent
  BY PartsAssumption DEF SearchInv, SearchOK, Search!IndexAssumption, Events
<1>1. UNCHANGED <<row, applied>>
  BY DEF Delivery, Search!Publish, Search!ReceiveEvent, Search!DropConnection, Search!Crash,
         Search!rowVars, Search!indexVars, Search!Outbox!Send
<1>2. ready \in [Events -> Nat]
  BY <1>0 DEF QueueOK, Search!Queue!QueueTypeOK, Events
<1>3. ASSUME NEW s \in Events, Search!Publish(s)
      PROVE /\ Search!Coming(e)' => Search!Coming(e)
            /\ Touched(e)' => Touched(e) \/ row[e] = "pending"
  <2>1. row[s] = "pending" /\ UNCHANGED worker /\ ready' = [ready EXCEPT ![s] = @ + 1]
    BY <1>3 DEF Search!Publish, Search!Outbox!Send, Search!Queue!Enqueue
  <2>2. e # s => ready'[e] = ready[e]
    BY <1>2, <2>1
  <2> QED BY <1>1, <2>1, <2>2 DEF Touched, Search!Coming, Search!EventOf, Search!Queue!Holders,
                                  Search!Queue!Live, Search!Queue!At
<1>4. ASSUME NEW w \in Workers, NEW m \in Events, Search!ReceiveEvent(w, m)
      PROVE /\ Search!Coming(e)' => Search!Coming(e)
            /\ Touched(e)' => Touched(e)
  <2>1. /\ ready[m] > 0 /\ ready' = [ready EXCEPT ![m] = @ - 1]
        /\ worker' = [worker EXCEPT ![w] = [pc |-> "received", msg |-> m, live |-> TRUE]]
    BY <1>4 DEF Search!ReceiveEvent, Search!Queue!Receive
  <2>2. ready'[e] > 0 => ready[e] > 0
    BY <1>2, <2>1
  <2>3. \A v \in Workers : v # w => worker'[v] = worker[v]
    BY <1>0, <2>1 DEF QueueOK, Search!Queue!QueueTypeOK
  <2>4. worker'[w].msg = e => e = m
    BY <1>0, <2>1 DEF QueueOK, Search!Queue!QueueTypeOK
  <2> QED BY <1>1, <2>1, <2>2, <2>3, <2>4 DEF Touched, Search!Coming, Search!EventOf,
                               Search!Queue!Holders, Search!Queue!Live, Search!Queue!At
<1>5. Search!Queue!Redelivered[e] > 0 => ready[e] > 0 \/ Search!Queue!Holders(e) # {}
  BY <1>2, HoldersAreFinite DEF Search!Queue!Redelivered, Events
<1>6. CASE Search!DropConnection
  <2>1. /\ Search!Queue!DropConnection /\ ready' = Search!Queue!Redelivered
        /\ worker' = [w \in Workers |-> IF Search!Queue!Live(w)
                                        THEN [worker[w] EXCEPT !.live = FALSE] ELSE worker[w]]
    BY <1>6 DEF Search!DropConnection, Search!Queue!DropConnection
  <2>2. \A w \in Workers : worker'[w].msg = worker[w].msg /\ worker'[w].pc = worker[w].pc
                           /\ (worker'[w].live => worker[w].live)
    BY <1>0, <2>1, DropConnectionMoves DEF EventDelivery, Search!Queue!Live
  <2> QED BY <1>1, <1>5, <2>1, <2>2 DEF Touched, Search!Coming, Search!EventOf,
                               Search!Queue!Holders, Search!Queue!Live, Search!Queue!At
<1>7. CASE Search!Crash
  <2>1. ready' = Search!Queue!Redelivered /\ worker' = [w \in Workers |-> Search!Queue!Idle]
    BY <1>7 DEF Search!Crash, Search!Queue!Crash
  <2>2. \A w \in Workers : worker'[w].msg # e
    BY <1>0, <2>1 DEF Search!Queue!Idle
  <2> QED BY <1>1, <1>5, <2>1, <2>2 DEF Touched, Search!Coming, Search!EventOf,
                               Search!Queue!Holders, Search!Queue!Live, Search!Queue!At
<1> QED BY <1>3, <1>4, <1>6, <1>7 DEF Delivery

\* A step that executes nothing leaves the documents right, if it brings no old
\* event of a product.
LEMMA NothingExecuted ==
    ASSUME NEW p \in Products, DocumentInv(p), UNCHANGED <<index, applied, overtaken>>,
           \A e \in Events : applied[e] => kind'[e] = kind[e],
           \A e, f \in Events : f[1] = e[1] /\ applied[e] /\ f[2] < e[2] =>
             (Search!Coming(f)' => Search!Coming(f))
    PROVE DocumentInv(p)'
<1>1. InOrder(p) => InOrder(p)'
  BY DEF InOrder
<1>2. \A e \in Events : Last(p, e) => Last(p, e)' /\ kind'[e] = kind[e]
  BY DEF Last
<1>3. Document(p) => Document(p)'
  BY <1>2 DEF Document
<1>4. \A f \in Events : applied[f] /\ kind[f] = "delete" => applied'[f] /\ kind'[f] = "delete"
  OBVIOUS
<1> QED BY <1>1, <1>3, <1>4 DEF DocumentInv

\* The document follows the event that is executed, unless an older one can
\* still come: a newer one was not executed, or this one could not have come.
LEMMA EventExecuted ==
    ASSUME IndexOK, NEW e \in Events, Search!Coming(e), Search!Execute(e), UNCHANGED kind,
           \A f \in Events : Search!Coming(f)' => Search!Coming(f),
           NEW p \in Products, DocumentInv(p)
    PROVE DocumentInv(p)'
<1>0. e[1] \in Products /\ e[2] \in 1..MaxCalls /\ MaxCalls \in Nat
  BY EventFacts, Assumptions
<1>1. /\ applied'[e] /\ \A f \in Events : f # e => applied'[f] = applied[f]
      /\ \A q \in Products : q # e[1] => index'[q] = index[q] /\ overtaken'[q] = overtaken[q]
      /\ index'[e[1]] = IF kind[e] = "delete" THEN 0 ELSE e[2]
  BY <1>0 DEF Search!Execute, IndexOK
<1>2. overtaken'[e[1]] <=> overtaken[e[1]] \/ \E f \in Search!Older(e) : Search!Coming(f)
  BY <1>0 DEF Search!Execute, IndexOK
<1>3. CASE p # e[1]
  <2>1. \A f \in Events : f[1] = p => applied'[f] = applied[f]
    BY <1>1, <1>3
  <2>2. InOrder(p) => InOrder(p)'
    BY <2>1 DEF InOrder
  <2>3. Document(p) => Document(p)'
    <3>1. \A f \in Events : Last(p, f) => Last(p, f)'
      BY <2>1 DEF Last
    <3> QED BY <1>1, <1>3, <2>1, <3>1 DEF Document
  <2> QED BY <1>1, <1>3, <2>1, <2>2, <2>3 DEF DocumentInv
<1>4. CASE p = e[1]
  <2>1. ASSUME ~overtaken'[p] PROVE InOrder(p)' /\ Document(p)'
    <3>1. InOrder(p) /\ \A f \in Events : f[1] = p /\ f[2] < e[2] => ~Search!Coming(f)
      BY <1>2, <1>4, <2>1 DEF DocumentInv, Search!Older, Events
    <3>2. ASSUME NEW f \in Events, f[1] = p, applied'[f] PROVE f[2] <= e[2]
      <4>1. f = e \/ applied[f]
        BY <1>1, <3>2
      <4>2. ~(applied[f] /\ e[2] < f[2])
        BY <1>4, <3>1, <3>2 DEF InOrder
      <4>3. f[2] \in Nat /\ e[2] \in Nat
        BY EventFacts
      <4> QED BY <4>1, <4>2, <4>3
    <3>3. Last(p, e)'
      BY <1>1, <1>4, <3>2 DEF Last
    <3>4. Document(p)'
      BY <1>1, <1>4, <3>3 DEF Document
    <3>5. InOrder(p)'
      BY <1>1, <3>1 DEF InOrder
    <3> QED BY <3>4, <3>5
  <2>2. CASE kind[e] = "delete"
    BY <1>1, <1>4, <2>1, <2>2 DEF DocumentInv
  <2>3. CASE kind[e] # "delete"
    <3>1. index'[p] # 0
      BY <1>0, <1>1, <1>4, <2>3
    <3> QED BY <2>1, <3>1 DEF DocumentInv
  <2> QED BY <2>2, <2>3
<1> QED BY <1>3, <1>4

\* A goroutine's step leaves the documents right.
LEMMA DocumentsAfterHandler ==
    ASSUME SearchInv, DocumentsInv, NEW w \in Workers, IndexEvent(w), UNCHANGED kind
    PROVE DocumentsInv'
<1>0. IndexOK /\ worker[w].msg \in Events
  BY ConsumerStep, BusyDelivery DEF SearchInv, SearchOK
<1>1. \A e \in Events : RecordInv(e)'
  <2>1. UNCHANGED row
    BY DEF IndexEvent, Search!ApplyEvent, Search!ApplyReplyLost, Search!Refused,
           Search!AckEvent, Search!rowVars
  <2> QED BY <2>1, HandlerBringsNothing DEF DocumentsInv, RecordInv
<1>2. ASSUME NEW p \in Products PROVE DocumentInv(p)'
  <2>1. CASE UNCHANGED <<index, applied, overtaken>>
    BY <2>1, NothingExecuted, HandlerBringsNothing DEF DocumentsInv
  <2>2. CASE Search!Queue!At(w, "received") /\ Search!Execute(worker[w].msg)
    <3>1. Search!Coming(worker[w].msg)
      BY <2>2 DEF Search!Coming, Search!EventOf
    <3> QED BY <1>0, <2>2, <3>1, EventExecuted, HandlerBringsNothing DEF DocumentsInv
  <2>3. \/ UNCHANGED <<index, applied, overtaken>>
        \/ Search!Queue!At(w, "received") /\ Search!Execute(worker[w].msg)
    BY DEF IndexEvent, Search!ApplyEvent, Search!ApplyReplyLost, Search!Refused,
           Search!AckEvent, Search!EventOf, Search!indexVars
  <2> QED BY <2>1, <2>2, <2>3
<1> QED BY <1>1, <1>2 DEF DocumentsInv

\* So does what happens to the queue from outside, and a row that is settled.
LEMMA DocumentsAfterDelivery ==
    ASSUME SearchInv, DocumentsInv, Delivery \/ (\E e \in Events : Search!Settle(e)),
           UNCHANGED kind
    PROVE DocumentsInv'
<1>1. UNCHANGED <<index, applied, overtaken>>
  BY DEF Delivery, Search!Publish, Search!ReceiveEvent, Search!DropConnection, Search!Crash,
         Search!Settle, Search!indexVars
<1>2. ASSUME NEW e \in Events
      PROVE /\ Search!Coming(e)' => Search!Coming(e)
            /\ Touched(e)' => Touched(e) \/ row[e] = "pending"
            /\ row'[e] = "absent" <=> row[e] = "absent"
  <2>1. CASE Delivery
    <3>1. UNCHANGED row
      BY <2>1 DEF Delivery, Search!Publish, Search!ReceiveEvent, Search!DropConnection,
                  Search!Crash, Search!rowVars, Search!Outbox!Send
    <3> QED BY <2>1, <3>1, BrokerBringsNothing
  <2>2. ASSUME NEW s \in Events, Search!Settle(s)
        PROVE /\ Search!Coming(e)' => Search!Coming(e)
              /\ Touched(e)' => Touched(e)
              /\ row'[e] = "absent" <=> row[e] = "absent"
    <3>1. /\ UNCHANGED <<ready, worker, applied>> /\ row[s] = "pending"
          /\ row' = [row EXCEPT ![s] = "settled"]
      BY <2>2 DEF Search!Settle, Search!Outbox!Settle, Search!queueVars, Search!indexVars
    <3>2. /\ row'[e] = "absent" <=> row[e] = "absent"
          /\ row'[e] = "pending" => row[e] = "pending"
      BY <3>1 DEF SearchInv, SearchOK, RowsOK
    <3> QED BY <3>1, <3>2 DEF Touched, Search!Coming, Search!EventOf, Search!Queue!Holders,
                              Search!Queue!Live, Search!Queue!At
  <2> QED BY <2>1, <2>2
<1>3. \A e \in Events : RecordInv(e)'
  BY <1>2 DEF DocumentsInv, RecordInv
<1>4. \A p \in Products : DocumentInv(p)'
  BY <1>1, <1>2, NothingExecuted DEF DocumentsInv
<1> QED BY <1>3, <1>4 DEF DocumentsInv

\* A new event is newer than any that was executed.
LEMMA DocumentsAfterWrite ==
    ASSUME SearchInv, LogOK, LogInv, DocumentsInv, Write
    PROVE DocumentsInv'
<1>1. UNCHANGED <<ready, worker, index, applied, overtaken>>
  BY DEF Write
<1>2. \A e \in Events : Touched(e)' <=> Touched(e)
  BY <1>1 DEF Touched
<1>3. \A e \in Events : Search!Coming(e)' => Search!Coming(e) \/ row'[e] = "pending"
  BY <1>1 DEF Search!Coming, Search!EventOf, Search!Queue!Holders, Search!Queue!Live,
              Search!Queue!At
<1>4. CASE UNCHANGED <<kind, row>>
  <2>1. \A e \in Events : RecordInv(e)'
    BY <1>2, <1>4 DEF DocumentsInv, RecordInv
  <2>2. \A e \in Events : Search!Coming(e)' => Search!Coming(e)
    BY <1>3, <1>4 DEF Search!Coming
  <2>3. \A p \in Products : DocumentInv(p)'
    BY <1>1, <1>4, <2>2, NothingExecuted DEF DocumentsInv
  <2> QED BY <2>1, <2>3 DEF DocumentsInv
<1>5. ASSUME NEW e \in Events, NEW k \in Catalogue!Evented, Recorded(e, k)
      PROVE DocumentsInv'
  <2>1. /\ row'[e] = "pending" /\ \A f \in Events : f # e => row'[f] = row[f]
        /\ kind'[e] = k /\ \A f \in Events : f # e => kind'[f] = kind[f]
        /\ kind[e] = "none" /\ k # "none"
    BY <1>5 DEF Recorded, SearchInv, SearchOK, RowsOK, kind, Events, Search!Events,
                Catalogue!Evented
  <2>2. \A f \in Events : RecordInv(f)'
    BY <1>2, <2>1 DEF DocumentsInv, RecordInv
  <2>3. ~applied[e]
    BY <2>1 DEF DocumentsInv, RecordInv, Touched
  <2>4. ASSUME NEW g \in Events, g[1] = e[1], applied[g] PROVE ~(e[2] < g[2])
    <3>1. kind[g] # "none"
      BY <2>4 DEF DocumentsInv, RecordInv, Touched
    <3>2. g[2] <= Len(log[g[1]]) /\ e[2] = Len(log[e[1]]) + 1
      BY <1>5, <3>1, EventFacts DEF Recorded, EventIn
    <3>3. g[2] \in Nat /\ e[2] \in Nat /\ Len(log[e[1]]) \in Nat
      BY EventFacts, Assumptions DEF LogOK, Log
    <3> QED BY <2>4, <3>2, <3>3
  <2>5. \A f \in Events : f # e => (Search!Coming(f)' => Search!Coming(f))
    BY <1>3, <2>1 DEF Search!Coming
  <2>6. \A g, f \in Events : f[1] = g[1] /\ applied[g] /\ f[2] < g[2] =>
          (Search!Coming(f)' => Search!Coming(f))
    BY <2>4, <2>5
  <2>7. \A f \in Events : applied[f] => kind'[f] = kind[f]
    BY <2>1, <2>3
  <2>8. \A p \in Products : DocumentInv(p)'
    BY <1>1, <2>6, <2>7, NothingExecuted DEF DocumentsInv
  <2> QED BY <2>2, <2>8 DEF DocumentsInv
<1> QED BY <1>4, <1>5, WriteRecords DEF SearchInv, SearchOK

\* The index starts empty, and every event written before has its row.
LEMMA DocumentsInit ==
    ASSUME Search!Init
    PROVE DocumentsInv
<1>1. ASSUME NEW e \in Events PROVE RecordInv(e)
  <2>1. /\ row[e] = IF kind[e] = "none" THEN "absent" ELSE "pending"
        /\ ~applied[e] /\ ready[e] = 0 /\ \A w \in Workers : worker[w].msg = NoEvent
    BY <1>1 DEF Search!Init, Search!Queue!QueueInit, Search!Queue!Idle, Events
  <2>2. e # NoEvent
    BY PartsAssumption DEF Search!IndexAssumption, Events
  <2>3. ~Touched(e)
    BY <2>1, <2>2 DEF Touched
  <2> QED BY <2>1, <2>3 DEF RecordInv
<1>2. ASSUME NEW p \in Products PROVE DocumentInv(p)
  <2>1. index[p] = 0 /\ \A e \in Events : ~applied[e]
    BY DEF Search!Init, Events
  <2> QED BY <2>1 DEF DocumentInv, InOrder, Document
<1> QED BY <1>1, <1>2 DEF DocumentsInv

\* Everything said of the two services, the invariant of the documents.
Inv == CatalogueInv /\ LogInv /\ SearchInv /\ DocumentsInv

\* No event without a write: the kinds change with the log only.
LEMMA KindOfLog ==
    ASSUME UNCHANGED log
    PROVE UNCHANGED kind
BY DEF kind

\* The invariant of the documents.
LEMMA DocumentsInvariant == Spec => []Inv
<1>1. Init => LogInv /\ DocumentsInv
  BY LogInvInit, DocumentsInit DEF Init
<1>2. CatalogueInv /\ SearchInv /\ LogInv /\ DocumentsInv /\ [Next]_vars => (LogInv /\ DocumentsInv)'
  <2> SUFFICES ASSUME CatalogueInv, SearchInv, LogInv, DocumentsInv, [Next]_vars
               PROVE LogInv' /\ DocumentsInv'
    OBVIOUS
  <2>1. LogOK /\ CallersOK
    BY InvParts
  <2>2. LogInv'
    BY <2>1, CatalogueSees, LogInvStep
  <2>3. \/ UNCHANGED log /\ \E w \in Workers : IndexEvent(w)
        \/ UNCHANGED log /\ (Delivery \/ \E e \in Events : Search!Settle(e))
        \/ Write
        \/ UNCHANGED log /\ UNCHANGED searchVars
    BY CopyStepWritesNothing
       DEF Next, Copy, Publish, Settle, InSearch, Search!IndexStep, IndexEvent, Delivery, Events,
           vars, catalogueVars
  <2>4. ASSUME UNCHANGED log, UNCHANGED searchVars PROVE DocumentsInv'
    <3>1. UNCHANGED <<kind, row, ready, worker, index, applied, overtaken>>
      BY <2>4, KindOfLog DEF searchVars
    <3>2. \A e \in Events : RecordInv(e)'
      BY <3>1 DEF DocumentsInv, RecordInv, Touched
    <3>3. \A e \in Events : Search!Coming(e)' => Search!Coming(e)
      BY <3>1 DEF Search!Coming, Search!EventOf, Search!Queue!Holders, Search!Queue!Live,
                  Search!Queue!At
    <3>4. \A p \in Products : DocumentInv(p)'
      BY <3>1, <3>3, NothingExecuted DEF DocumentsInv
    <3> QED BY <3>2, <3>4 DEF DocumentsInv
  <2> QED BY <2>1, <2>2, <2>3, <2>4, KindOfLog, DocumentsAfterHandler, DocumentsAfterDelivery,
             DocumentsAfterWrite
<1> QED BY <1>1, <1>2, CatalogueInvariant, SearchInvariant, PTL DEF Spec, Inv

\* Once the events of a product are through, its document is what the last of
\* them says, unless one of them was executed while an older one could follow.
THEOREM StaleDocumentsAreExplained == Spec => []StaleDocumentIsExplained
<1>1. ASSUME Inv, NEW p \in Products, Search!Quiet(p), ~overtaken[p]
      PROVE index[p] = Search!Expected(p)
  <2> DEFINE sent == {v \in 1..MaxCalls : kind[<<p, v>>] # "none"}
  <2>1. \A v \in 1..MaxCalls : <<p, v>> \in Events
    BY DEF Events, Search!Events
  <2>2. \A e \in Events : e[1] = p => (applied[e] <=> e[2] \in sent)
    <3> SUFFICES ASSUME NEW e \in Events, e[1] = p PROVE applied[e] <=> kind[e] # "none"
      BY EventFacts
    <3>1. applied[e] => kind[e] # "none"
      BY <1>1 DEF Inv, DocumentsInv, RecordInv, Touched
    <3>2. ~Search!Coming(e)
      BY <1>1 DEF Search!Quiet, Events
    <3> QED BY <1>1, <3>1, <3>2, SettledWasExecuted DEF Inv
  <2>3. Document(p)
    BY <1>1 DEF Inv, DocumentsInv, DocumentInv
  <2>4. CASE index[p] = 0 /\ \A e \in Events : e[1] = p => ~applied[e]
    <3>1. sent = {}
      BY <2>1, <2>2, <2>4
    <3> QED BY <2>4, <3>1 DEF Search!Expected
  <2>5. ASSUME NEW e \in Events, Last(p, e),
               index[p] = IF kind[e] = "delete" THEN 0 ELSE e[2]
        PROVE index[p] = Search!Expected(p)
    <3>1. e[2] \in sent /\ e = <<p, e[2]>> /\ e[2] \in Nat
      BY <2>2, <2>5, EventFacts DEF Last
    <3>2. \A u \in sent : u <= e[2] /\ u \in Nat
      <4>1. ASSUME NEW u \in sent PROVE u <= e[2]
        <5>1. <<p, u>> \in Events /\ applied[<<p, u>>]
          BY <2>1, <2>2
        <5> QED BY <2>5, <5>1 DEF Last
      <4> QED BY <4>1, Assumptions
    <3>3. \A v \in sent : (\A u \in sent : u <= v) <=> v = e[2]
      BY <3>1, <3>2
    <3>4. CASE kind[e] = "delete"
      <4>1. ~\E v \in sent : (\A u \in sent : u <= v) /\ kind[<<p, v>>] # "delete"
        BY <3>1, <3>3, <3>4
      <4> QED BY <2>5, <3>4, <4>1 DEF Search!Expected
    <3>5. CASE kind[e] # "delete"
      <4>1. \E v \in sent : (\A u \in sent : u <= v) /\ kind[<<p, v>>] # "delete"
        BY <3>1, <3>3, <3>5
      <4>2. (CHOOSE v \in sent : \A u \in sent : u <= v) = e[2]
        BY <3>1, <3>3
      <4> QED BY <2>5, <3>5, <4>1, <4>2 DEF Search!Expected
    <3> QED BY <3>4, <3>5
  <2> QED BY <2>3, <2>4, <2>5 DEF Document
<1>2. Inv => StaleDocumentIsExplained
  BY <1>1 DEF StaleDocumentIsExplained, Search!StaleDocumentIsExplained
<1> QED BY <1>2, DocumentsInvariant, PTL

\* A deletion that comes back for ever, since OpenSearch has no document and
\* will get none, is one too many: the creation it follows is through, so
\* another deletion was executed after it.
THEOREM EndlessDeletionsAreSpare == Spec => []EndlessDeletionIsSpare
<1>1. ASSUME Inv, NEW e \in Events, kind[e] = "delete", index[e[1]] = 0,
             \A f \in Events : f[1] = e[1] /\ kind[f] # "delete" => ~Search!Coming(f)
      PROVE \E f \in Events : f[1] = e[1] /\ kind[f] = "delete" /\ applied[f]
  <2>1. PICK p \in Products, v \in 1..MaxCalls : e = <<p, v>> /\ p = e[1] /\ v = e[2]
    BY EventFacts
  <2>2. v <= Len(log[p]) /\ log[p][v] = "delete"
    BY <1>1, <2>1, EventFacts DEF EventIn
  <2>3. Catalogue!CreatedFirst(log[p]) /\ log[p] \in Seq(Catalogue!Writes) /\ v \in Nat
        /\ v <= MaxCalls /\ MaxCalls \in Nat
    BY <1>1, InvParts, Assumptions DEF Inv, LogInv, LogOK, Log
  <2>4. PICK u \in 1..(v - 1) : log[p][u] = "create"
    BY <2>2, <2>3 DEF Catalogue!CreatedFirst
  <2>5. PICK f \in Events : f = <<p, u>> /\ f[1] = p /\ f[2] = u
    <3>1. u \in 1..MaxCalls
      BY <2>3
    <3>2. <<p, u>> \in Events
      BY <3>1 DEF Events, Search!Events
    <3> QED BY <3>2
  <2>6. kind[f] = "create"
    BY <2>2, <2>3, <2>4, <2>5, EventFacts DEF EventIn, Catalogue!Evented
  <2>7. applied[f]
    BY <1>1, <2>1, <2>5, <2>6, SettledWasExecuted DEF Inv
  <2> QED BY <1>1, <2>1, <2>5, <2>7 DEF Inv, DocumentsInv, DocumentInv
<1>2. Inv => EndlessDeletionIsSpare
  BY <1>1 DEF EndlessDeletionIsSpare, Search!EndlessDeletionIsSpare, Events
<1> QED BY <1>2, DocumentsInvariant, PTL

\* The two services keep their own specifications when composed: the catalogue
\* sees nothing of the events, and whatever it commits is the record of one
\* event, never of two, and of none that was recorded before.
THEOREM PartsKeepSpecs == Spec => PartsKeepTheirSpecs
<1>1. Init => Catalogue!Init /\ Search!Init
  BY DEF Init
<1>2. [Next]_vars => [Catalogue!Next]_(Catalogue!vars)
  BY CatalogueSees DEF Catalogue!Next, Catalogue!vars, catalogueVars
<1>3. Inv /\ [Next]_vars => [Search!Next]_(Search!vars)
  <2> SUFFICES ASSUME Inv, [Next]_vars PROVE Search!Next \/ UNCHANGED Search!vars
    OBVIOUS
  <2>1. CASE Write
    <3>1. LogOK /\ LogInv /\ RowsOK /\ \A e \in Events : RecordInv(e)
      BY InvParts DEF Inv, SearchInv, SearchOK, DocumentsInv
    <3>2. UNCHANGED <<copies, copiesLeft, ready, worker, dead, index, applied, overtaken>>
      BY <2>1 DEF Write
    <3>3. CASE UNCHANGED <<kind, row>>
      BY <3>2, <3>3 DEF Search!vars, Search!rowVars, Search!queueVars, Search!indexVars
    <3>4. ASSUME NEW e \in Events, NEW k \in Catalogue!Evented, Recorded(e, k)
          PROVE Search!Next
      <4>1. row[e] = "absent"
        BY <3>1, <3>4 DEF Recorded, RecordInv
      <4>2. Search!Record(e, k) /\ k \in {"create", "update", "delete"}
        BY <3>2, <3>4, <4>1 DEF Recorded, Search!Record, Search!Outbox!Commit, Search!queueVars,
                                Search!indexVars, Catalogue!Evented
      <4> QED BY <4>2 DEF Search!Next, Events
    <3> QED BY <2>1, <3>1, <3>3, <3>4, WriteRecords
  <2>2. CASE Copy \/ UNCHANGED vars
    <3>1. UNCHANGED <<kind, searchVars>>
      BY <2>2, CopyStepWritesNothing, KindOfLog DEF Copy, vars, catalogueVars
    <3> QED BY <3>1 DEF searchVars, Search!vars, Search!rowVars, Search!queueVars,
                        Search!indexVars
  <2>3. CASE \/ \E e \in Search!Events : Publish(e) \/ Settle(e)
             \/ InSearch(Search!IndexStep)
    BY <2>3 DEF Publish, Settle, InSearch, Search!Next
  <2> QED BY <2>1, <2>2, <2>3 DEF Next
<1> QED BY <1>1, <1>2, <1>3, DocumentsInvariant, PTL
        DEF Spec, PartsKeepTheirSpecs, Catalogue!Spec, Search!Spec

=============================================================================
