---------------------------- MODULE RabbitQueue ----------------------------
(***************************************************************************)
(* One durable queue of the broker and the consumer of shared/rabbitmq     *)
(* that reads it.  Every delivery is handled by a goroutine of its own, so *)
(* up to Prefetch deliveries are handled at once and in any order.  When   *)
(* the channel closes the broker puts every unacknowledged message back,   *)
(* but the goroutines go on: they finish their work, and what they then    *)
(* ack or nack on the closed channel is ignored.                           *)
(*                                                                         *)
(* A handler module instantiates this one and gives pc its own values      *)
(* beside "idle" and "received".                                           *)
(***************************************************************************)
EXTENDS Naturals, FiniteSets

CONSTANTS
    Messages,    \* the messages, told apart by the order they are about
    Workers,     \* handler goroutines that may be running at one time
    Prefetch,    \* unacknowledged deliveries per channel (Qos)
    NoMessage

VARIABLES
    ready,       \* copies of each message waiting in the queue
    worker,      \* what each goroutine is doing, and on which delivery
    dead         \* copies of each message moved to the dead-letter queue

queueVars == <<ready, worker, dead>>

Idle == [pc |-> "idle", msg |-> NoMessage, live |-> FALSE]

\* A goroutine whose delivery the broker still counts as unacknowledged.
Live(w) == worker[w].live

Holders(m) == {w \in Workers : Live(w) /\ worker[w].msg = m}

At(w, pc) == worker[w].pc = pc

QueueInit ==
    /\ ready = [m \in Messages |-> 0]
    /\ worker = [w \in Workers |-> Idle]
    /\ dead = [m \in Messages |-> 0]

QueueTypeOK(pcs) ==
    /\ ready \in [Messages -> Nat]
    /\ worker \in [Workers -> {Idle} \cup
                     [pc : pcs, msg : Messages, live : BOOLEAN]]
    /\ dead \in [Messages -> Nat]

\* The broker accepts k copies of m.
Enqueue(m, k) ==
    /\ ready' = [ready EXCEPT ![m] = @ + k]
    /\ UNCHANGED <<worker, dead>>

Receive(w, m) ==
    /\ At(w, "idle")
    /\ ready[m] > 0
    /\ Cardinality({v \in Workers : Live(v)}) < Prefetch
    /\ ready' = [ready EXCEPT ![m] = @ - 1]
    /\ worker' = [worker EXCEPT ![w] = [pc |-> "received", msg |-> m, live |-> TRUE]]
    /\ UNCHANGED dead

\* The handler goes on to its next step.
Advance(w, pc) ==
    /\ worker' = [worker EXCEPT ![w].pc = pc]
    /\ UNCHANGED <<ready, dead>>

Finish(w) == worker' = [worker EXCEPT ![w] = Idle]

\* d.Ack(false)
Ack(w) ==
    /\ Finish(w)
    /\ UNCHANGED <<ready, dead>>

\* d.Nack(false, true)
NackRequeue(w) ==
    /\ Finish(w)
    /\ ready' = IF Live(w) THEN [ready EXCEPT ![worker[w].msg] = @ + 1] ELSE ready
    /\ UNCHANGED dead

\* d.Nack(false, false): the queue's dead-letter exchange takes the message.
NackDiscard(w) ==
    /\ Finish(w)
    /\ dead' = IF Live(w) THEN [dead EXCEPT ![worker[w].msg] = @ + 1] ELSE dead
    /\ UNCHANGED ready

Redelivered == [m \in Messages |-> ready[m] + Cardinality(Holders(m))]

\* The channel closes and the consumer subscribes again.
DropConnection ==
    /\ \E w \in Workers : Live(w)
    /\ ready' = Redelivered
    /\ worker' = [w \in Workers |-> IF Live(w) THEN [worker[w] EXCEPT !.live = FALSE]
                                    ELSE worker[w]]
    /\ UNCHANGED dead

\* The service stops, its goroutines with it, and starts again.
Crash ==
    /\ \E w \in Workers : ~At(w, "idle")
    /\ ready' = Redelivered
    /\ worker' = [w \in Workers |-> Idle]
    /\ UNCHANGED dead

=============================================================================
