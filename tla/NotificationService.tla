------------------------ MODULE NotificationService ------------------------
(***************************************************************************)
(* notification-service: a consumer of OrderCreated that sends one mail    *)
(* per delivery.  Its connection is RabbitConnection without a publisher;  *)
(* when Subscribe returns main returns, and nothing starts the process     *)
(* again.  The bodies are what order-service marshals, so the branch that  *)
(* discards an unreadable one is never taken.                              *)
(***************************************************************************)
EXTENDS Naturals, FiniteSets

CONSTANTS
    Orders,
    Workers,      \* goroutines of the consumer
    Prefetch,     \* Qos(10)
    NoOrder,
    MaxAttempts, MaxDials,
    MaxFaults     \* bound: connections lost, dials and mails that fail

ConsumerAssumption ==
    NoOrder \notin Orders /\ MaxFaults \in Nat /\ IsFiniteSet(Workers)

VARIABLES
    ready, worker, dead,  \* notification_order_created_queue
    mails,                \* mails the SMTP server accepted, of each order
    faultsLeft,
    dialed, open, connection, channel, task, qos, overtaken

queueVars == <<ready, worker, dead>>
connectionVars == <<dialed, open, connection, channel, task, qos, overtaken>>
vars == <<queueVars, mails, faultsLeft, connectionVars>>

Queue == INSTANCE RabbitQueue WITH Messages <- Orders, NoMessage <- NoOrder

Broker == INSTANCE RabbitConnection WITH Tasks <- {"consumer"}, MaxRetries <- 1

Init ==
    /\ Queue!QueueInit
    /\ mails = [o \in Orders |-> 0]
    /\ faultsLeft \in 0..MaxFaults
    /\ Broker!Init

Fault == faultsLeft > 0 /\ faultsLeft' = faultsLeft - 1

-----------------------------------------------------------------------------
(* handleOrderCreatedEvent.                                                *)

\* Without a prefetch limit on its channel the broker would hand out all it has.
ReceiveOrder(w, o) ==
    /\ Broker!Consuming
    /\ Queue!Receive(w, o)
    /\ UNCHANGED <<mails, faultsLeft, connectionVars>>

Mail(w) == mails' = [mails EXCEPT ![worker[w].msg] = @ + 1]

SendMail(w) ==
    /\ Queue!At(w, "received")
    /\ Mail(w)
    /\ Queue!Advance(w, "acking")
    /\ UNCHANGED <<faultsLeft, connectionVars>>

BugMailFails(w) ==
    /\ Queue!At(w, "received")
    /\ Fault
    /\ Queue!NackDiscard(w)
    /\ UNCHANGED <<mails, connectionVars>>

\* Send returns an error: the mail was not accepted,
MailFails(w) ==
    /\ Queue!At(w, "received")
    /\ Fault
    /\ Queue!NackRequeue(w)
    /\ UNCHANGED <<mails, connectionVars>>

\* or it was, and the answer got lost.
MailReplyLost(w) ==
    /\ Queue!At(w, "received")
    /\ Fault
    /\ Mail(w)
    /\ Queue!NackRequeue(w)
    /\ UNCHANGED connectionVars

AckMail(w) ==
    /\ Queue!At(w, "acking")
    /\ Queue!Ack(w)
    /\ UNCHANGED <<mails, faultsLeft, connectionVars>>

-----------------------------------------------------------------------------
(* Subscribe and main.                                                     *)

\* The goroutines end with the process.
Exit ==
    worker' = IF Broker!Stopped' THEN [w \in Workers |-> Queue!Idle] ELSE worker

ConnectionStep ==
    /\ Broker!ConsumerStep \/ Broker!DialStep("consumer")
    /\ Exit
    /\ UNCHANGED <<ready, dead, mails, faultsLeft>>

DialFails ==
    /\ Fault
    /\ Broker!DialFails("consumer")
    /\ Exit
    /\ UNCHANGED <<ready, dead, mails>>

\* What was delivered over the connection returns to the queue.
ConnectionDies(c) ==
    /\ Fault
    /\ Broker!ConnectionDies(c)
    /\ IF c = task["consumer"].on /\ \E w \in Workers : Queue!Live(w)
       THEN Queue!DropConnection ELSE UNCHANGED queueVars
    /\ UNCHANGED mails

HandlerStep(w) ==
    SendMail(w) \/ MailFails(w) \/ MailReplyLost(w) \/ AckMail(w)

ServiceStep ==
    \/ \E w \in Workers, o \in Orders : ReceiveOrder(w, o)
    \/ \E w \in Workers : HandlerStep(w)
    \/ ConnectionStep
    \/ DialFails
    \/ \E c \in open : ConnectionDies(c)

-----------------------------------------------------------------------------
(* Properties.                                                             *)

\* Every variable has its type.
TypeOK ==
    /\ Queue!QueueTypeOK({"received", "acking"})
    /\ mails \in [Orders -> Nat]
    /\ faultsLeft \in 0..MaxFaults
    /\ Broker!TypeOK

=============================================================================
