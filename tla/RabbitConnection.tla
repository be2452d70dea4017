-------------------------- MODULE RabbitConnection --------------------------
(***************************************************************************)
(* The connection manager of shared/rabbitmq and the goroutines of one     *)
(* process that share it: the consumer in Subscribe and, where the service *)
(* has an outbox worker, the publisher.  Each of them replaces the fields  *)
(* connection and channel when its own operation fails, with no lock, and  *)
(* leaves the connection it replaces open.                                 *)
(*                                                                         *)
(* Every dial opens a connection with one channel, so one number names     *)
(* both.  An error is noticed when the connection is known to be closed.   *)
(***************************************************************************)
EXTENDS Naturals

CONSTANTS
    Tasks,        \* the goroutines, "consumer" and perhaps "publisher"
    MaxAttempts,  \* dials of one reconnect, 10 in the code
    MaxRetries,   \* attempts of one publish
    MaxDials      \* bound: connections dialed by the process

TasksAssumption == {"consumer"} \subseteq Tasks /\ Tasks \subseteq {"consumer", "publisher"}

LimitsAssumption ==
    MaxAttempts \in Nat \ {0} /\ MaxRetries \in Nat \ {0} /\ MaxDials \in Nat \ {0}

VARIABLES
    dialed,      \* number of connections opened so far
    open,        \* those that are open
    connection, channel,  \* the two fields of connectionManager
    task,        \* what each goroutine is doing
    qos,         \* open channels with a prefetch limit
    overtaken    \* history: the publisher assigned a field while the consumer
                 \* was setting up its subscription

connectionVars == <<dialed, open, connection, channel, task, qos, overtaken>>

Starting(pc, tries) == [pc |-> pc, on |-> 0, attempts |-> 0, tries |-> tries]

\* newConnectionManager has connected; Subscribe begins, or is where it wants to be.
Init ==
    /\ dialed = 1
    /\ open = {1}
    /\ connection = 1
    /\ channel = 1
    /\ \E pc \in {"setup", "consuming"} :
        /\ task = [t \in Tasks |->
                     IF t = "publisher" THEN Starting("resting", 0)
                     ELSE [Starting(pc, 0) EXCEPT !.on = IF pc = "consuming" THEN 1 ELSE 0]]
        /\ qos = IF pc = "consuming" THEN {1} ELSE {}
    /\ overtaken = FALSE

At(t, pc) == t \in Tasks /\ task[t].pc = pc

Goto(t, pc) == task' = [task EXCEPT ![t] = Starting(pc, @.tries)]

Kept == <<dialed, open, connection, channel, qos, overtaken>>

-----------------------------------------------------------------------------
(* reconnect and connect.                                                  *)

DialSucceeds(t) ==
    /\ At(t, "dialing")
    /\ dialed < MaxDials
    /\ dialed' = dialed + 1
    /\ open' = open \cup {dialed + 1}
    /\ task' = [task EXCEPT ![t].pc = "assigning", ![t].on = dialed + 1, ![t].attempts = 0]
    /\ UNCHANGED <<connection, channel, qos, overtaken>>

\* The last attempt ends Subscribe, or Publish with an error.
DialFails(t) ==
    /\ At(t, "dialing")
    /\ IF task[t].attempts + 1 < MaxAttempts
       THEN task' = [task EXCEPT ![t].attempts = @ + 1]
       ELSE task' = [task EXCEPT ![t] = Starting(IF t = "consumer" THEN "gaveUp" ELSE "resting", 0)]
    /\ UNCHANGED Kept

\* The consumer depends on the fields from here until it consumes.
SettingUp == \E pc \in {"assigned", "setup", "declaring", "consume", "failed"} : At("consumer", pc)

\* cm.connection = conn
AssignConnection(t) ==
    /\ At(t, "assigning")
    /\ connection' = task[t].on
    /\ task' = [task EXCEPT ![t].pc = "assigned"]
    /\ overtaken' = (t = "publisher" /\ (overtaken \/ SettingUp))
    /\ UNCHANGED <<dialed, open, channel, qos>>

BugAssignChannel(t) ==
    /\ At(t, "assigned")
    /\ Goto(t, IF t = "consumer" THEN "setup" ELSE "publishing")
    /\ UNCHANGED Kept

\* cm.channel = ch
AssignChannel(t) ==
    /\ At(t, "assigned")
    /\ channel' = task[t].on
    /\ Goto(t, IF t = "consumer" THEN "setup" ELSE "publishing")
    /\ overtaken' = (overtaken \/ (t = "publisher" /\ SettingUp))
    /\ UNCHANGED <<dialed, open, connection, qos>>

-----------------------------------------------------------------------------
(* Subscribe.                                                              *)

\* The limit of unacknowledged deliveries is set on the channel of the moment,
SetQos ==
    /\ At("consumer", "setup")
    /\ channel \in open
    /\ qos' = qos \cup {channel}
    /\ Goto("consumer", "declaring")
    /\ UNCHANGED <<dialed, open, connection, channel, overtaken>>

\* the exchanges and queues are declared on the channel of theirs,
DeclareQueues ==
    /\ At("consumer", "declaring")
    /\ channel \in open
    /\ Goto("consumer", "consume")
    /\ UNCHANGED Kept

SetupFails ==
    /\ \E pc \in {"setup", "declaring"} : At("consumer", pc)
    /\ channel \notin open
    /\ Goto("consumer", "failed")
    /\ UNCHANGED Kept

\* isConnectionError does not recognise the wrapped error by its text and asks
\* whether the connection of the moment is closed.
JudgeSetupError ==
    /\ At("consumer", "failed")
    /\ IF connection \notin open THEN Goto("consumer", "dialing") ELSE Goto("consumer", "mistaken")
    /\ UNCHANGED Kept

\* and an error of Consume is returned whatever its reason.
Consume ==
    /\ At("consumer", "consume")
    /\ IF channel \in open
       THEN task' = [task EXCEPT !["consumer"] = [Starting("consuming", 0) EXCEPT !.on = channel]]
       ELSE Goto("consumer", "lost")
    /\ UNCHANGED Kept

\* The deliveries end with the connection they come from.
DeliveriesEnd ==
    /\ At("consumer", "consuming")
    /\ task["consumer"].on \notin open
    /\ Goto("consumer", "dialing")
    /\ UNCHANGED Kept

ConsumerStep ==
    SetQos \/ DeclareQueues \/ SetupFails \/ JudgeSetupError \/ Consume \/ DeliveriesEnd

Stopped == \E pc \in {"gaveUp", "mistaken", "lost"} : At("consumer", pc)

Consuming == At("consumer", "consuming") /\ task["consumer"].on \in open

-----------------------------------------------------------------------------
(* Publish.                                                                *)

BeginPublish ==
    /\ At("publisher", "resting")
    /\ task' = [task EXCEPT !["publisher"] = Starting("publishing", 1)]
    /\ UNCHANGED Kept

PublishSucceeds ==
    /\ At("publisher", "publishing")
    /\ channel \in open
    /\ task' = [task EXCEPT !["publisher"] = Starting("resting", 0)]
    /\ UNCHANGED Kept

\* The publisher's error is not wrapped: isConnectionError knows ErrClosed.
PublishFails ==
    /\ At("publisher", "publishing")
    /\ channel \notin open
    /\ task' = [task EXCEPT !["publisher"] =
                   IF @.tries = MaxRetries THEN Starting("resting", 0)
                   ELSE Starting("dialing", @.tries + 1)]
    /\ UNCHANGED Kept

-----------------------------------------------------------------------------

\* The broker or the network closes a connection.
ConnectionDies(c) ==
    /\ c \in open
    /\ open' = open \ {c}
    /\ qos' = qos \ {c}
    /\ UNCHANGED <<dialed, connection, channel, task, overtaken>>

\* reconnect and connect run on to their end.
DialStep(t) == DialSucceeds(t) \/ AssignConnection(t) \/ AssignChannel(t)

Next ==
    \/ \E t \in Tasks : DialStep(t) \/ DialFails(t)
    \/ ConsumerStep
    \/ BeginPublish \/ PublishSucceeds \/ PublishFails
    \/ \E c \in open : ConnectionDies(c)

Spec == Init /\ [][Next]_connectionVars

-----------------------------------------------------------------------------
(* Properties.                                                             *)

\* Every variable has its type.
TypeOK ==
    /\ dialed \in 1..MaxDials
    /\ open \subseteq 1..dialed
    /\ connection \in 1..dialed
    /\ channel \in 1..dialed
    /\ task \in [Tasks -> [pc : {"setup", "declaring", "failed", "consume", "consuming",
                                 "dialing", "assigning", "assigned", "gaveUp", "mistaken",
                                 "lost", "resting", "publishing"},
                           on : 0..dialed, attempts : 0..MaxAttempts, tries : 0..MaxRetries]]
    /\ qos \subseteq open
    /\ overtaken \in BOOLEAN

\* A service gives up its subscription on an error that a reconnect would have
\* cured, or consumes without a prefetch limit, only if its publisher replaced
\* the connection in the middle of the set-up; a service without a publisher
\* never does.
SubscriptionFaultsAreRaces ==
    /\ At("consumer", "mistaken") => overtaken
    /\ Consuming => overtaken \/ task["consumer"].on \in qos

=============================================================================
