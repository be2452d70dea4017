--------------------------- MODULE OutboxContract ---------------------------
(***************************************************************************)
(* What a transactional outbox promises, with no table scan, no batch, no  *)
(* retry loop and no crash: an event of a committed transaction may be     *)
(* handed to the broker any number of times while its row is pending, its  *)
(* row is settled only after at least one copy was handed over, and after  *)
(* that no further copy is produced.  OutboxRelayer implements it.         *)
(***************************************************************************)
EXTENDS Naturals

CONSTANT Events

VARIABLES row, copies

contractVars == <<row, copies>>

Init ==
    /\ row = [e \in Events |-> "absent"]
    /\ copies = [e \in Events |-> 0]

\* The business transaction that wrote the row commits.
Commit(e) ==
    /\ row[e] = "absent"
    /\ row' = [row EXCEPT ![e] = "pending"]
    /\ UNCHANGED copies

\* One more copy of a pending event reaches the broker.
Send(e) ==
    /\ row[e] = "pending"
    /\ copies' = [copies EXCEPT ![e] = @ + 1]
    /\ UNCHANGED row

\* The row stops being pending, never before a copy was sent.
Settle(e) ==
    /\ row[e] = "pending"
    /\ copies[e] > 0
    /\ row' = [row EXCEPT ![e] = "settled"]
    /\ UNCHANGED copies

Next == \E e \in Events : Commit(e) \/ Send(e) \/ Settle(e)

Spec == Init /\ [][Next]_contractVars

=============================================================================
