----------------------- MODULE RabbitConnection_proofs -----------------------
(***************************************************************************)
(* The subscription of a process that shares its connection between two    *)
(* goroutines, or has it for one, for any number of dials, attempts and    *)
(* retries.  Stated step by step, so that the compositions of              *)
(* RabbitConnection can use it.                                            *)
(***************************************************************************)
EXTENDS RabbitConnection, TLAPS

Assumptions == TasksAssumption /\ LimitsAssumption

Doing == [pc : {"setup", "declaring", "failed", "consume", "consuming", "dialing",
                "assigning", "assigned", "gaveUp", "mistaken", "lost", "resting",
                "publishing"},
          on : 0..dialed, attempts : 0..MaxAttempts, tries : 0..MaxRetries]

\* What a goroutine is doing keeps its type as connections are dialed.
LEMMA DoingGrows ==
    ASSUME TypeOK, dialed' \in Nat, dialed' >= dialed, NEW t \in Tasks
    PROVE task[t] \in Doing /\ task[t] \in Doing'
<1>1. task[t] \in Doing
  BY DEF TypeOK, Doing
<1>2. \A n \in 0..dialed : n \in 0..dialed'
  BY DEF TypeOK
<1> QED BY <1>1, <1>2 DEF Doing

\* A goroutine may start anything.
LEMMA StartingIsDoing ==
    ASSUME Assumptions, TypeOK, dialed' \in Nat, dialed' >= dialed,
           NEW tries \in 0..MaxRetries,
           NEW pc \in {"setup", "declaring", "failed", "consume", "consuming", "dialing",
                       "assigning", "assigned", "gaveUp", "mistaken", "lost", "resting",
                       "publishing"}
    PROVE /\ Starting(pc, tries) \in Doing'
          /\ \A n \in 0..dialed' : [Starting(pc, tries) EXCEPT !.on = n] \in Doing'
<1>1. 0 \in 0..dialed' /\ 0 \in 0..MaxAttempts
  BY DEF Assumptions, LimitsAssumption, TypeOK
<1> QED BY <1>1 DEF Doing, Starting

\* A step of goroutine t that only moves it on keeps the types.
LEMMA TaskStep ==
    ASSUME TypeOK, NEW t \in Tasks, NEW next \in Doing, task' = [task EXCEPT ![t] = next],
           UNCHANGED Kept
    PROVE TypeOK'
<1>1. task' \in [Tasks -> Doing]
  BY DEF TypeOK, Doing
<1> QED BY <1>1 DEF TypeOK, Doing, Kept

Pcs == {"setup", "declaring", "failed", "consume", "consuming", "dialing", "assigning",
        "assigned", "gaveUp", "mistaken", "lost", "resting", "publishing"}

\* A connection that is about to be assigned was dialed.  Unless the publisher
\* came in between, the consumer sets up its subscription on the connection it
\* has assigned, and consumes with the limit it has set.
Sound ==
    /\ \A t \in Tasks : task[t].pc \in {"assigning", "assigned"} => task[t].on # 0
    /\ At("consumer", "mistaken") => overtaken
    /\ overtaken \/
         /\ At("consumer", "assigned") => connection = task["consumer"].on
         /\ \A pc \in {"setup", "declaring", "consume", "failed"} :
              At("consumer", pc) => channel = connection
         /\ At("consumer", "failed") => channel \notin open
         /\ \A pc \in {"declaring", "consume"} :
              At("consumer", pc) /\ channel \in open => channel \in qos
         /\ At("consumer", "consuming") /\ task["consumer"].on \in open
              => task["consumer"].on \in qos

ConnectionInv == TypeOK /\ Sound

\* The process starts with its one connection in both fields.
LEMMA ConnectionInit == Assumptions /\ Init => ConnectionInv
<1> SUFFICES ASSUME Assumptions, Init PROVE ConnectionInv
  OBVIOUS
<1>1. PICK pc \in {"setup", "consuming"} :
        /\ task = [t \in Tasks |->
                     IF t = "publisher" THEN Starting("resting", 0)
                     ELSE [Starting(pc, 0) EXCEPT !.on = IF pc = "consuming" THEN 1 ELSE 0]]
        /\ qos = IF pc = "consuming" THEN {1} ELSE {}
  BY DEF Init
<1>2. /\ dialed = 1 /\ open = {1} /\ connection = 1 /\ channel = 1 /\ overtaken = FALSE
      /\ dialed \in 1..MaxDials
      /\ 0 \in 0..1 /\ 1 \in 0..1 /\ 1 \in 1..1 /\ 0 \in 0..MaxAttempts /\ 0 \in 0..MaxRetries
  BY DEF Init, Assumptions, LimitsAssumption
<1>3. \A t \in Tasks : task[t] \in Doing
  BY <1>1, <1>2 DEF Starting, Doing
<1>4. task \in [Tasks -> Doing]
  BY <1>1, <1>3
<1>5. TypeOK
  BY <1>1, <1>2, <1>4 DEF TypeOK, Doing
<1>6. Sound
  BY <1>1, <1>2 DEF Sound, At, Starting
<1> QED BY <1>5, <1>6 DEF ConnectionInv

\* Goroutine t goes on to next; nothing else is its own.
LEMMA MoveKeepsType ==
    ASSUME TypeOK, NEW t \in Tasks, NEW next \in Doing', task' = [task EXCEPT ![t] = next],
           dialed' \in 1..MaxDials, dialed' >= dialed, open' \subseteq 1..dialed',
           connection' \in 1..dialed', channel' \in 1..dialed', qos' \subseteq open',
           overtaken' \in BOOLEAN
    PROVE TypeOK'
<1>1. \A v \in Tasks : task[v] \in Doing'
  BY DoingGrows DEF TypeOK
<1>2. task' \in [Tasks -> Doing']
  BY <1>1 DEF TypeOK
<1> QED BY <1>2 DEF TypeOK, Doing

\* A goroutine that starts something else keeps the types.
LEMMA StartKeepsType ==
    ASSUME Assumptions, TypeOK, NEW t \in Tasks, NEW tries \in 0..MaxRetries, NEW pc \in Pcs,
           NEW n \in 0..dialed,
           \/ task' = [task EXCEPT ![t] = Starting(pc, tries)]
           \/ task' = [task EXCEPT ![t] = [Starting(pc, tries) EXCEPT !.on = n]],
           UNCHANGED <<dialed, open>>, connection' \in 1..dialed, channel' \in 1..dialed,
           qos' \subseteq open, overtaken' \in BOOLEAN
    PROVE TypeOK'
<1>1. dialed' \in 1..MaxDials /\ dialed' >= dialed /\ open' \subseteq 1..dialed'
  BY DEF TypeOK
<1>2. Starting(pc, tries) \in Doing' /\ [Starting(pc, tries) EXCEPT !.on = n] \in Doing'
  BY <1>1, StartingIsDoing DEF Pcs, TypeOK
<1> QED BY <1>1, <1>2, MoveKeepsType

\* Goto is a start of the same try.
LEMMA GotoKeepsType ==
    ASSUME Assumptions, TypeOK, NEW t \in Tasks, NEW pc \in Pcs, Goto(t, pc),
           UNCHANGED <<dialed, open>>, connection' \in 1..dialed, channel' \in 1..dialed,
           qos' \subseteq open, overtaken' \in BOOLEAN
    PROVE /\ TypeOK'
          /\ task'[t].pc = pc
          /\ \A v \in Tasks \ {t} : task'[v] = task[v]
<1>1. task[t].tries \in 0..MaxRetries /\ 0 \in 0..dialed
  BY DEF TypeOK
<1>2. task' = [task EXCEPT ![t] = Starting(pc, task[t].tries)]
  BY DEF Goto
<1>3. TypeOK'
  BY <1>1, <1>2, StartKeepsType
<1>4. task'[t].pc = pc /\ \A v \in Tasks \ {t} : task'[v] = task[v]
  BY <1>2 DEF TypeOK, Starting
<1> QED BY <1>3, <1>4

\* A dialed connection is one more than those there were.
LEMMA DialSucceedsStep ==
    ASSUME Assumptions, ConnectionInv, NEW t \in Tasks, DialSucceeds(t)
    PROVE ConnectionInv'
<1>0. /\ TypeOK /\ Sound /\ dialed \in Nat /\ dialed >= 1 /\ task[t] \in Doing
      /\ MaxDials \in Nat
  BY DEF ConnectionInv, Assumptions, LimitsAssumption, TypeOK, Doing
<1>1. /\ dialed' = dialed + 1 /\ dialed' \in 1..MaxDials /\ open' = open \cup {dialed + 1}
      /\ UNCHANGED <<connection, channel, qos, overtaken>>
  BY <1>0 DEF DialSucceeds
<1>2. task' = [task EXCEPT ![t] = [task[t] EXCEPT !.pc = "assigning", !.on = dialed + 1,
                                                  !.attempts = 0]]
  BY DEF DialSucceeds
<1>3. [task[t] EXCEPT !.pc = "assigning", !.on = dialed + 1, !.attempts = 0] \in Doing'
  <2>1. task[t] \in Doing' /\ dialed + 1 \in 0..dialed' /\ 0 \in 0..MaxAttempts
    BY <1>0, <1>1, DoingGrows DEF Assumptions, LimitsAssumption
  <2> QED BY <2>1 DEF Doing
<1>4. TypeOK'
  <2>1. /\ open' \subseteq 1..dialed' /\ connection' \in 1..dialed' /\ channel' \in 1..dialed'
        /\ qos' \subseteq open' /\ overtaken' \in BOOLEAN /\ dialed' >= dialed
    BY <1>0, <1>1 DEF TypeOK
  <2> QED BY <1>0, <1>1, <1>2, <1>3, <2>1, MoveKeepsType
<1>5. task'[t].pc = "assigning" /\ task'[t].on = dialed + 1
      /\ \A v \in Tasks \ {t} : task'[v] = task[v]
  BY <1>0, <1>2 DEF TypeOK, Doing
<1>6. \A n \in 0..dialed : n \in open' <=> n \in open
  BY <1>0, <1>1
<1>7. "consumer" \in Tasks => task["consumer"].on \in 0..dialed
  BY <1>0 DEF TypeOK
<1>8. channel \in 0..dialed
  BY <1>0 DEF TypeOK
<1>9. Sound'
  <2>1. \A v \in Tasks : task'[v].pc \in {"assigning", "assigned"} => task'[v].on # 0
    BY <1>0, <1>5 DEF Sound
  <2>2. CASE t = "consumer"
    BY <1>5, <2>1, <2>2 DEF Sound, At
  <2>3. CASE t # "consumer"
    BY <1>0, <1>1, <1>5, <1>6, <1>7, <1>8, <2>1, <2>3 DEF Sound, At
  <2> QED BY <2>2, <2>3
<1> QED BY <1>4, <1>9 DEF ConnectionInv

\* A failed dial.
LEMMA DialFailsStep ==
    ASSUME Assumptions, ConnectionInv, NEW t \in Tasks, DialFails(t)
    PROVE ConnectionInv'
<1>0. /\ TypeOK /\ Sound /\ task[t] \in Doing
  BY DEF ConnectionInv, TypeOK, Doing
<1>1. UNCHANGED Kept /\ task[t].pc = "dialing"
  BY DEF DialFails, At
<1>k. UNCHANGED <<dialed, open, connection, channel, qos, overtaken>>
  BY <1>1 DEF Kept
<1>2. /\ TypeOK'
      /\ task'[t].pc \in {"dialing", "gaveUp", "resting"}
      /\ \A v \in Tasks \ {t} : task'[v] = task[v]
  <2>1. CASE task[t].attempts + 1 < MaxAttempts
    <3>1. [task[t] EXCEPT !.attempts = @ + 1] \in Doing
      BY <1>0, <2>1 DEF Doing, Assumptions, LimitsAssumption
    <3>2. task' = [task EXCEPT ![t] = [task[t] EXCEPT !.attempts = @ + 1]]
      BY <2>1 DEF DialFails
    <3>3. TypeOK'
      BY <1>0, <1>1, <3>1, <3>2, TaskStep
    <3>4. task'[t].pc = task[t].pc /\ \A v \in Tasks \ {t} : task'[v] = task[v]
      BY <1>0, <3>2 DEF TypeOK, Doing
    <3> QED BY <1>1, <3>3, <3>4
  <2>2. CASE ~(task[t].attempts + 1 < MaxAttempts)
    <3>1. PICK pc \in {"gaveUp", "resting"} : task' = [task EXCEPT ![t] = Starting(pc, 0)]
      BY <2>2 DEF DialFails
    <3>2. pc \in Pcs /\ 0 \in 0..MaxRetries /\ 0 \in 0..dialed
      BY <1>0 DEF Pcs, Assumptions, LimitsAssumption, TypeOK
    <3>3. TypeOK'
      BY <1>0, <1>k, <3>1, <3>2, StartKeepsType DEF TypeOK
    <3>4. task'[t].pc = pc /\ \A v \in Tasks \ {t} : task'[v] = task[v]
      BY <1>0, <3>1 DEF TypeOK, Starting
    <3> QED BY <3>3, <3>4
  <2> QED BY <2>1, <2>2
<1>3. Sound'
  <2>1. \A v \in Tasks : task'[v].pc \in {"assigning", "assigned"} => task'[v].on # 0
    BY <1>0, <1>2 DEF Sound
  <2>2. CASE t = "consumer"
    BY <1>2, <2>1, <2>2 DEF Sound, At
  <2>3. CASE t # "consumer"
    BY <1>0, <1>k, <1>2, <2>1, <2>3 DEF Sound, At
  <2> QED BY <2>2, <2>3
<1> QED BY <1>2, <1>3 DEF ConnectionInv

\* The two assignments of connect.
LEMMA AssignConnectionStep ==
    ASSUME Assumptions, ConnectionInv, NEW t \in Tasks, AssignConnection(t)
    PROVE ConnectionInv'
<1>0. /\ TypeOK /\ Sound /\ task[t] \in Doing
  BY DEF ConnectionInv, TypeOK, Doing
<1>1. /\ task[t].pc = "assigning" /\ connection' = task[t].on
      /\ task' = [task EXCEPT ![t] = [task[t] EXCEPT !.pc = "assigned"]]
      /\ UNCHANGED <<dialed, open, channel, qos>>
  BY DEF AssignConnection, At
<1>2. overtaken' \in BOOLEAN
  BY DEF AssignConnection
<1>3. overtaken' = (t = "publisher" /\ (overtaken \/ SettingUp))
  BY DEF AssignConnection
<1>4. connection' \in 1..dialed
  BY <1>0, <1>1 DEF Sound, TypeOK, Doing
<1>5. TypeOK'
  <2>1. [task[t] EXCEPT !.pc = "assigned"] \in Doing'
    BY <1>0, <1>1 DEF Doing
  <2> QED BY <1>0, <1>1, <1>2, <1>4, <2>1, MoveKeepsType DEF TypeOK
<1>6. task'[t].pc = "assigned" /\ task'[t].on = task[t].on
      /\ \A v \in Tasks \ {t} : task'[v] = task[v]
  BY <1>0, <1>1 DEF TypeOK, Doing
<1>7. \A v \in Tasks : task'[v].pc \in {"assigning", "assigned"} => task'[v].on # 0
  BY <1>0, <1>1, <1>6 DEF Sound
<1>8. Sound'
  <2>1. CASE t = "consumer"
    BY <1>1, <1>6, <1>7, <2>1 DEF Sound, At
  <2>2. CASE t # "consumer"
    <3>1. t = "publisher"
      BY <2>2 DEF Assumptions, TasksAssumption
    <3>2. overtaken \/ SettingUp => overtaken'
      BY <1>3, <3>1
    <3>3. task'["consumer"] = task["consumer"]
      BY <1>6, <2>2 DEF Assumptions, TasksAssumption
    <3> QED BY <1>0, <1>1, <1>7, <3>2, <3>3 DEF Sound, At, SettingUp
  <2> QED BY <2>1, <2>2
<1> QED BY <1>5, <1>8 DEF ConnectionInv

\* The second assignment: the consumer sets up on what it has dialed.
LEMMA AssignChannelStep ==
    ASSUME Assumptions, ConnectionInv, NEW t \in Tasks, AssignChannel(t)
    PROVE ConnectionInv'
<1>0. /\ TypeOK /\ Sound /\ task[t] \in Doing
  BY DEF ConnectionInv, TypeOK, Doing
<1>1. /\ task[t].pc = "assigned" /\ channel' = task[t].on
      /\ UNCHANGED <<dialed, open, connection, qos>>
  BY DEF AssignChannel, At
<1>2. PICK pc \in {"setup", "publishing"} : Goto(t, pc) /\ (t = "consumer" => pc = "setup")
  BY DEF AssignChannel
<1>3. overtaken' \in BOOLEAN
  BY <1>0 DEF AssignChannel, TypeOK
<1>4. overtaken' = (overtaken \/ (t = "publisher" /\ SettingUp))
  BY DEF AssignChannel
<1>5. channel' \in 1..dialed
  BY <1>0, <1>1 DEF Sound, TypeOK, Doing
<1>6. TypeOK' /\ task'[t].pc = pc /\ \A v \in Tasks \ {t} : task'[v] = task[v]
  BY <1>0, <1>1, <1>2, <1>3, <1>5, GotoKeepsType DEF Pcs, TypeOK
<1>7. \A v \in Tasks : task'[v].pc \in {"assigning", "assigned"} => task'[v].on # 0
  BY <1>0, <1>6 DEF Sound
<1>8. Sound'
  <2>1. CASE t = "consumer"
    <3>1. overtaken => overtaken'
      BY <1>4
    <3> QED BY <1>0, <1>1, <1>2, <1>6, <1>7, <2>1, <3>1 DEF Sound, At
  <2>2. CASE t # "consumer"
    <3>1. t = "publisher"
      BY <2>2 DEF Assumptions, TasksAssumption
    <3>2. overtaken \/ SettingUp => overtaken'
      BY <1>4, <3>1
    <3>3. task'["consumer"] = task["consumer"]
      BY <1>6, <2>2 DEF Assumptions, TasksAssumption
    <3> QED BY <1>0, <1>1, <1>7, <3>2, <3>3 DEF Sound, At, SettingUp
  <2> QED BY <2>1, <2>2
<1> QED BY <1>6, <1>8 DEF ConnectionInv

\* Subscribe.
LEMMA ConsumerStepStep ==
    ASSUME Assumptions, ConnectionInv, ConsumerStep
    PROVE ConnectionInv'
<1>0. /\ TypeOK /\ Sound /\ "consumer" \in Tasks /\ task["consumer"] \in Doing
  BY DEF ConnectionInv, TypeOK, Doing, Assumptions, TasksAssumption
<1>1. ASSUME NEW pc \in Pcs \ {"assigning", "assigned"}, Goto("consumer", pc),
             UNCHANGED <<dialed, open, connection, channel, overtaken>>, qos' \subseteq open
      PROVE /\ TypeOK' /\ task'["consumer"].pc = pc
            /\ \A v \in Tasks : task'[v].pc \in {"assigning", "assigned"} => task'[v].on # 0
  <2>1. /\ TypeOK' /\ task'["consumer"].pc = pc
        /\ \A v \in Tasks \ {"consumer"} : task'[v] = task[v]
    BY <1>0, <1>1, GotoKeepsType DEF TypeOK
  <2> QED BY <1>0, <2>1 DEF Sound
<1>2. CASE SetQos
  <2>1. /\ Goto("consumer", "declaring") /\ qos' = qos \cup {channel} /\ channel \in open
        /\ UNCHANGED <<dialed, open, connection, channel, overtaken>>
        /\ At("consumer", "setup")
    BY <1>2 DEF SetQos
  <2>2. TypeOK' /\ task'["consumer"].pc = "declaring"
        /\ \A v \in Tasks : task'[v].pc \in {"assigning", "assigned"} => task'[v].on # 0
    BY <1>0, <1>1, <2>1 DEF TypeOK, Pcs
  <2> QED BY <1>0, <2>1, <2>2 DEF Sound, At, ConnectionInv
<1>k. ASSUME UNCHANGED Kept
      PROVE UNCHANGED <<dialed, open, connection, channel, qos, overtaken>> /\ qos' \subseteq open
  BY <1>0, <1>k DEF Kept, TypeOK
<1>3. CASE DeclareQueues
  <2>1. /\ Goto("consumer", "consume") /\ UNCHANGED Kept /\ At("consumer", "declaring")
    BY <1>3 DEF DeclareQueues
  <2>2. TypeOK' /\ task'["consumer"].pc = "consume"
        /\ \A v \in Tasks : task'[v].pc \in {"assigning", "assigned"} => task'[v].on # 0
    BY <1>1, <1>k, <2>1 DEF Pcs
  <2> QED BY <1>0, <1>k, <2>1, <2>2 DEF Sound, At, ConnectionInv
<1>4. CASE SetupFails
  <2>1. /\ Goto("consumer", "failed") /\ UNCHANGED Kept /\ channel \notin open
        /\ At("consumer", "setup") \/ At("consumer", "declaring")
    BY <1>4 DEF SetupFails
  <2>2. TypeOK' /\ task'["consumer"].pc = "failed"
        /\ \A v \in Tasks : task'[v].pc \in {"assigning", "assigned"} => task'[v].on # 0
    BY <1>1, <1>k, <2>1 DEF Pcs
  <2> QED BY <1>0, <1>k, <2>1, <2>2 DEF Sound, At, ConnectionInv
<1>5. CASE JudgeSetupError
  <2>1. /\ UNCHANGED Kept /\ At("consumer", "failed")
        /\ \/ Goto("consumer", "dialing")
           \/ Goto("consumer", "mistaken") /\ connection \in open
    BY <1>5 DEF JudgeSetupError
  <2>2. TypeOK' /\ task'["consumer"].pc \in {"dialing", "mistaken"}
        /\ \A v \in Tasks : task'[v].pc \in {"assigning", "assigned"} => task'[v].on # 0
    BY <1>1, <1>k, <2>1 DEF Pcs
  <2>3. task'["consumer"].pc = "mistaken" => connection \in open
    BY <1>1, <1>k, <2>1 DEF Pcs
  <2> QED BY <1>0, <1>k, <2>1, <2>2, <2>3 DEF Sound, At, ConnectionInv
<1>6. CASE Consume
  <2>1. UNCHANGED Kept /\ At("consumer", "consume")
    BY <1>6 DEF Consume
  <2>2. CASE channel \in open
    <3>1. task' = [task EXCEPT !["consumer"] = [Starting("consuming", 0) EXCEPT !.on = channel]]
      BY <1>6, <2>2 DEF Consume
    <3>2. "consuming" \in Pcs /\ 0 \in 0..MaxRetries /\ channel \in 0..dialed
      BY <1>0 DEF Pcs, Assumptions, LimitsAssumption, TypeOK
    <3>3. TypeOK'
      BY <1>0, <1>k, <2>1, <3>1, <3>2, StartKeepsType DEF TypeOK
    <3>4. /\ task'["consumer"].pc = "consuming" /\ task'["consumer"].on = channel
          /\ \A v \in Tasks \ {"consumer"} : task'[v] = task[v]
      BY <1>0, <3>1 DEF TypeOK, Starting
    <3>5. \A v \in Tasks : task'[v].pc \in {"assigning", "assigned"} => task'[v].on # 0
      BY <1>0, <3>4 DEF Sound
    <3> QED BY <1>0, <1>k, <2>1, <3>3, <3>4, <3>5 DEF Sound, At, ConnectionInv
  <2>3. CASE channel \notin open
    <3>1. Goto("consumer", "lost")
      BY <1>6, <2>3 DEF Consume
    <3>2. TypeOK' /\ task'["consumer"].pc = "lost"
          /\ \A v \in Tasks : task'[v].pc \in {"assigning", "assigned"} => task'[v].on # 0
      BY <1>1, <1>k, <2>1, <3>1 DEF Pcs
    <3> QED BY <3>2 DEF Sound, At, ConnectionInv
  <2> QED BY <2>2, <2>3
<1>7. CASE DeliveriesEnd
  <2>1. Goto("consumer", "dialing") /\ UNCHANGED Kept
    BY <1>7 DEF DeliveriesEnd
  <2>2. TypeOK' /\ task'["consumer"].pc = "dialing"
        /\ \A v \in Tasks : task'[v].pc \in {"assigning", "assigned"} => task'[v].on # 0
    BY <1>1, <1>k, <2>1 DEF Pcs
  <2> QED BY <2>2 DEF Sound, At, ConnectionInv
<1> QED BY <1>2, <1>3, <1>4, <1>5, <1>6, <1>7 DEF ConsumerStep

\* Publish.
LEMMA PublisherStep ==
    ASSUME Assumptions, ConnectionInv, BeginPublish \/ PublishSucceeds \/ PublishFails
    PROVE ConnectionInv'
<1>0. TypeOK /\ Sound
  BY DEF ConnectionInv
<1>1. "publisher" \in Tasks /\ UNCHANGED Kept
  BY DEF BeginPublish, PublishSucceeds, PublishFails, At
<1>2. UNCHANGED <<dialed, open, connection, channel, qos, overtaken>>
  BY <1>1 DEF Kept
<1>3. PICK pc \in {"publishing", "resting", "dialing"}, tries \in 0..MaxRetries :
        task' = [task EXCEPT !["publisher"] = Starting(pc, tries)]
  <2>1. /\ MaxRetries \in Nat /\ 0 \in 0..MaxRetries /\ 1 \in 0..MaxRetries
        /\ task["publisher"].tries \in 0..MaxRetries
    BY <1>0, <1>1 DEF Assumptions, LimitsAssumption, TypeOK
  <2>2. CASE BeginPublish
    BY <2>1, <2>2 DEF BeginPublish
  <2>3. CASE PublishSucceeds
    BY <2>1, <2>3 DEF PublishSucceeds
  <2>4. CASE PublishFails
    <3>1. CASE task["publisher"].tries = MaxRetries
      BY <2>1, <2>4, <3>1 DEF PublishFails
    <3>2. CASE task["publisher"].tries # MaxRetries
      <4>1. task["publisher"].tries + 1 \in 0..MaxRetries
        BY <2>1, <3>2
      <4>2. task' = [task EXCEPT !["publisher"] =
                       Starting("dialing", task["publisher"].tries + 1)]
        BY <2>4, <3>2 DEF PublishFails
      <4> QED BY <4>1, <4>2
    <3> QED BY <3>1, <3>2
  <2> QED BY <2>2, <2>3, <2>4
<1>4. TypeOK'
  <2>1. pc \in Pcs /\ 0 \in 0..dialed
    BY <1>0 DEF Pcs, TypeOK
  <2> QED BY <1>0, <1>1, <1>2, <1>3, <2>1, StartKeepsType DEF TypeOK
<1>5. task'["publisher"].pc = pc /\ \A v \in Tasks \ {"publisher"} : task'[v] = task[v]
  BY <1>0, <1>1, <1>3 DEF TypeOK, Starting
<1>6. \A v \in Tasks : task'[v].pc \in {"assigning", "assigned"} => task'[v].on # 0
  BY <1>0, <1>5 DEF Sound
<1>7. task'["consumer"] = task["consumer"]
  BY <1>5 DEF Assumptions, TasksAssumption
<1>8. Sound'
  BY <1>0, <1>2, <1>6, <1>7 DEF Sound, At
<1> QED BY <1>4, <1>8 DEF ConnectionInv

\* A connection that dies takes its limit with it.
LEMMA ConnectionDiesStep ==
    ASSUME ConnectionInv, NEW c \in open, ConnectionDies(c)
    PROVE ConnectionInv'
BY DEF ConnectionInv, ConnectionDies, TypeOK, Sound, At

\* Every step of the process keeps the invariant.
LEMMA ConnectionStep ==
    ASSUME Assumptions, ConnectionInv, [Next]_connectionVars
    PROVE ConnectionInv'
<1>1. CASE UNCHANGED connectionVars
  BY <1>1 DEF connectionVars, ConnectionInv, TypeOK, Sound, At
<1> QED
  BY <1>1, DialSucceedsStep, DialFailsStep, AssignConnectionStep, AssignChannelStep,
     ConsumerStepStep, PublisherStep, ConnectionDiesStep DEF Next, DialStep

\* The invariant explains the faults of the subscription.
LEMMA FaultsExplained == ConnectionInv => SubscriptionFaultsAreRaces
BY DEF ConnectionInv, Sound, SubscriptionFaultsAreRaces, Consuming

\* Whatever fails, whenever: a subscription is given up on an error that a
\* reconnect would have cured, or runs without a prefetch limit, only if the
\* publisher replaced the connection in the middle of the set-up.
THEOREM FaultsAreRaces == Assumptions /\ Spec => [](TypeOK /\ SubscriptionFaultsAreRaces)
<1> SUFFICES ASSUME Assumptions PROVE Spec => [](TypeOK /\ SubscriptionFaultsAreRaces)
  BY DEF Assumptions
<1>1. Init => ConnectionInv
  BY ConnectionInit
<1>2. ConnectionInv /\ [Next]_connectionVars => ConnectionInv'
  BY ConnectionStep
<1>3. ConnectionInv => TypeOK /\ SubscriptionFaultsAreRaces
  BY FaultsExplained DEF ConnectionInv
<1> QED BY <1>1, <1>2, <1>3, PTL DEF Spec

=============================================================================
