-------------------------- MODULE Storefront_proofs --------------------------
(***************************************************************************)
(* The storefront, for any clients, users, orders, limits and starts: a    *)
(* guarded request is made for a user whom the client has logged in, the   *)
(* answers of user-service are those of its table, the mail of an order    *)
(* goes to its buyer, and the faults of either subscription are races of   *)
(* its own process.                                                        *)
(*                                                                         *)
(* FrontInv is the invariant of the gateway, user-service and order-       *)
(* service's handler (a request and the call made for it belong together), *)
(* OrdersInv that of the orders from the outbox to the mail.               *)
(***************************************************************************)
EXTENDS Storefront, FiniteSetTheorems, TLAPS

LinkFacts == INSTANCE RabbitConnection_proofs WITH
    Tasks <- {"consumer", "publisher"}, dialed <- linkDialed, open <- linkOpen,
    connection <- linkConnection, channel <- linkChannel, task <- link, qos <- linkQos,
    overtaken <- linkOvertaken

BrokerFacts == INSTANCE RabbitConnection_proofs WITH Tasks <- {"consumer"}, MaxRetries <- 1

-----------------------------------------------------------------------------
(* The gateway.                                                            *)

RequestIn(P, R, S, A, T) == [pc : P, route : R, sub : S, admitted : A, status : T]

\* A record with the fields of a request, whatever they hold.
IsRequest(r) == \E P, R, S, A, T : r \in RequestIn(P, R, S, A, T)

\* What becomes of a request r in the gateway.
Sending(r, route) == [r EXCEPT !.pc = "limiting", !.route = route]
Passing(r, pc) == [r EXCEPT !.pc = pc]
Admitting(r, sub, at) == [r EXCEPT !.pc = "handling", !.sub = sub, !.admitted = at]
Answering(r, status) == [r EXCEPT !.pc = "answered", !.status = status]

\* It remains a request, changed where it says.
LEMMA RequestFields ==
    ASSUME NEW r, IsRequest(r)
    PROVE /\ \A route : IsRequest(Sending(r, route)) /\ Sending(r, route).pc = "limiting"
          /\ \A pc : /\ IsRequest(Passing(r, pc)) /\ Passing(r, pc).pc = pc
                     /\ Passing(r, pc).route = r.route
          /\ \A sub, at : /\ IsRequest(Admitting(r, sub, at))
                          /\ Admitting(r, sub, at).sub = sub
                          /\ Admitting(r, sub, at).admitted = at
          /\ \A status : IsRequest(Answering(r, status)) /\ Answering(r, status).pc = "answered"
<1>1. PICK P, R, S, A, T : r \in RequestIn(P, R, S, A, T)
  BY DEF IsRequest
<1>2. ASSUME NEW x
      PROVE /\ IsRequest(Sending(r, x)) /\ Sending(r, x).pc = "limiting"
            /\ IsRequest(Passing(r, x)) /\ Passing(r, x).pc = x /\ Passing(r, x).route = r.route
            /\ IsRequest(Answering(r, x)) /\ Answering(r, x).pc = "answered"
  <2>1. /\ Sending(r, x) \in RequestIn({"limiting"}, {x}, S, A, T)
        /\ Passing(r, x) \in RequestIn({x}, R, S, A, T)
        /\ Answering(r, x) \in RequestIn({"answered"}, R, S, A, {x})
    BY <1>1 DEF RequestIn, Sending, Passing, Answering
  <2>2. /\ Sending(r, x).pc = "limiting"
        /\ Passing(r, x).pc = x /\ Passing(r, x).route = r.route
        /\ Answering(r, x).pc = "answered"
    BY <1>1 DEF RequestIn, Sending, Passing, Answering
  <2> QED BY <2>1, <2>2 DEF IsRequest
<1>3. ASSUME NEW x, NEW y
      PROVE /\ IsRequest(Admitting(r, x, y)) /\ Admitting(r, x, y).sub = x
            /\ Admitting(r, x, y).admitted = y
  <2>1. Admitting(r, x, y) \in RequestIn({"handling"}, R, {x}, {y}, T)
    BY <1>1 DEF RequestIn, Admitting
  <2>2. Admitting(r, x, y).sub = x /\ Admitting(r, x, y).admitted = y
    BY <1>1 DEF RequestIn, Admitting
  <2> QED BY <2>1, <2>2 DEF IsRequest
<1> QED BY <1>2, <1>3

\* No request is one, too.
LEMMA NoRequestIsOne == IsRequest(Gateway!NoRequest) /\ Gateway!NoRequest.pc = "none"
<1>1. Gateway!NoRequest \in RequestIn({"none"}, {"open"}, {NoToken}, {0}, {0})
  BY DEF Gateway!NoRequest, RequestIn
<1>2. Gateway!NoRequest.pc = "none"
  BY DEF Gateway!NoRequest
<1> QED BY <1>1, <1>2 DEF IsRequest

\* One request, one cookie and one history for each client.
PerClient ==
    /\ request = [c \in Clients |-> request[c]]
    /\ \A c \in Clients : IsRequest(request[c])
    /\ cookie = [c \in Clients |-> cookie[c]]
    /\ logins = [c \in Clients |-> logins[c]]

\* A cookie holds the token of a login of this client.
CookieOfLogin(c) ==
    cookie[c] # NoToken =>
        \E login \in logins[c] :
            login[1] = cookie[c].sub /\ cookie[c].exp = login[2] + TTL

LoginOfRequest(c) ==
    request[c].pc = "handling" /\ request[c].route \in Gateway!Guarded =>
        \E login \in logins[c] :
            login[1] = request[c].sub /\ request[c].admitted < login[2] + TTL + Leeway

GatewayInv ==
    /\ PerClient
    /\ \A c \in Clients : CookieOfLogin(c) /\ LoginOfRequest(c)

\* What the gateway does for a client, apart from what a service has answered.
Unanswered(c) == \E status : Gateway!Respond(c, status)

\* The request of c becomes next, and nothing else of the gateway's changes
\* but numbers.
Moves(c, next) ==
    /\ request' = [request EXCEPT ![c] = next]
    /\ IsRequest(next)
    /\ UNCHANGED <<cookie, logins>>

\* A request that is not handed to its handler keeps the invariant.
LEMMA MovesKeeps ==
    ASSUME GatewayInv, NEW c \in Clients, NEW next, Moves(c, next),
           next.pc = "handling" /\ next.route \in Gateway!Guarded =>
               \E login \in logins[c] :
                   login[1] = next.sub /\ next.admitted < login[2] + TTL + Leeway
    PROVE GatewayInv'
<1>1. request'[c] = next /\ \A d \in Clients \ {c} : request'[d] = request[d]
  BY DEF GatewayInv, PerClient, Moves
<1>2. PerClient'
  BY <1>1 DEF GatewayInv, PerClient, Moves
<1>3. \A d \in Clients : CookieOfLogin(d)'
  BY DEF GatewayInv, CookieOfLogin, Moves
<1>4. \A d \in Clients : LoginOfRequest(d)'
  BY <1>1 DEF GatewayInv, LoginOfRequest, Moves
<1> QED BY <1>2, <1>3, <1>4 DEF GatewayInv

\* An answered request is nobody's any more.
LEMMA RespondKeeps ==
    ASSUME GatewayInv, NEW c \in Clients, NEW status, Gateway!Respond(c, status),
           UNCHANGED <<cookie, logins>>
    PROVE GatewayInv'
<1>1. request' = [request EXCEPT ![c] = Answering(request[c], status)]
  BY DEF Gateway!Respond, Answering
<1>2. /\ IsRequest(Answering(request[c], status))
      /\ Answering(request[c], status).pc = "answered"
  BY RequestFields DEF GatewayInv, PerClient
<1> QED BY <1>1, <1>2, MovesKeeps DEF Moves

\* Every step of the gateway's own.
LEMMA GatewayStepKeeps ==
    ASSUME GatewayInv, Gateway!GatewayStep
    PROVE GatewayInv'
<1>0. \A c \in Clients : IsRequest(request[c])
  BY DEF GatewayInv, PerClient
<1>1. ASSUME NEW c \in Clients, NEW route \in Gateway!Routes, Gateway!Send(c, route)
      PROVE GatewayInv'
  <2>1. /\ request' = [request EXCEPT ![c] = Sending(Gateway!NoRequest, route)]
        /\ UNCHANGED <<cookie, logins>>
    BY <1>1 DEF Gateway!Send, Sending
  <2>2. /\ IsRequest(Sending(Gateway!NoRequest, route))
        /\ Sending(Gateway!NoRequest, route).pc = "limiting"
    BY RequestFields, NoRequestIsOne
  <2> QED BY <2>1, <2>2, MovesKeeps DEF Moves
<1>2. ASSUME NEW c \in Clients, Gateway!LimiterAllows(c) PROVE GatewayInv'
  <2> DEFINE pc == IF request[c].route \in Gateway!Guarded THEN "checking" ELSE "handling"
             next == Passing(request[c], pc)
  <2>1. request' = [request EXCEPT ![c] = next] /\ UNCHANGED <<cookie, logins>>
    BY <1>2 DEF Gateway!LimiterAllows, Passing
  <2>2. IsRequest(next) /\ next.pc = pc /\ next.route = request[c].route
    BY <1>0, RequestFields
  <2> HIDE DEF next, pc
  <2>3. ~(pc = "handling" /\ request[c].route \in Gateway!Guarded)
    BY DEF pc
  <2> QED BY <2>1, <2>2, <2>3, MovesKeeps DEF Moves
<1>3. ASSUME NEW c \in Clients, Gateway!Admit(c) PROVE GatewayInv'
  <2> DEFINE next == Admitting(request[c], cookie[c].sub, now)
  <2>1. request' = [request EXCEPT ![c] = next] /\ UNCHANGED <<cookie, logins>>
    BY <1>3 DEF Gateway!Admit, Admitting
  <2>2. IsRequest(next) /\ next.sub = cookie[c].sub /\ next.admitted = now
    BY <1>0, RequestFields
  <2> HIDE DEF next
  <2>3. cookie[c] # NoToken /\ now < cookie[c].exp + Leeway
    BY <1>3 DEF Gateway!Admit, Gateway!Valid
  <2>4. PICK login \in logins[c] :
          login[1] = cookie[c].sub /\ cookie[c].exp = login[2] + TTL
    BY <2>3 DEF GatewayInv, CookieOfLogin
  <2>5. login[1] = next.sub /\ next.admitted < login[2] + TTL + Leeway
    BY <2>2, <2>3, <2>4
  <2> QED BY <2>1, <2>2, <2>5, MovesKeeps DEF Moves
<1>4. ASSUME NEW c \in Clients,
             \/ Gateway!LimiterRefuses(c) \/ Gateway!LimiterFails(c) \/ Gateway!Reject(c)
             \/ Gateway!CartAnswered(c) \/ Gateway!ProductAnswered(c)
             \/ Gateway!CategoryAnswered(c) \/ Gateway!OpenAnswered(c)
      PROVE GatewayInv'
  <2>1. UNCHANGED <<cookie, logins>>
    BY <1>4 DEF Gateway!LimiterRefuses, Gateway!LimiterFails, Gateway!Reject,
                Gateway!CartAnswered, Gateway!ProductAnswered, Gateway!CategoryAnswered,
                Gateway!OpenAnswered
  <2>2. Unanswered(c)
    BY <1>4 DEF Gateway!LimiterRefuses, Gateway!LimiterFails, Gateway!Reject,
                Gateway!CartAnswered, Gateway!ProductAnswered, Gateway!CategoryAnswered,
                Gateway!OpenAnswered, Unanswered
  <2> QED BY <2>1, <2>2, RespondKeeps DEF Unanswered
<1>5. ASSUME NEW c \in Clients, Gateway!Logout(c) \/ Gateway!CookieExpires(c)
      PROVE GatewayInv'
  <2>1. cookie' = [cookie EXCEPT ![c] = NoToken] /\ UNCHANGED logins
    BY <1>5 DEF Gateway!Logout, Gateway!CookieExpires
  <2>2. \A d \in Clients : CookieOfLogin(d)'
    BY <2>1 DEF GatewayInv, PerClient, CookieOfLogin
  <2>3. cookie' = [d \in Clients |-> cookie'[d]]
    BY <2>1 DEF GatewayInv, PerClient
  <2>4. CASE UNCHANGED request
    BY <2>1, <2>2, <2>3, <2>4 DEF GatewayInv, PerClient, LoginOfRequest
  <2>5. CASE Gateway!Logout(c)
    <3> DEFINE next == Answering(request[c], 200)
    <3>1. request' = [request EXCEPT ![c] = next]
      BY <2>5 DEF Gateway!Logout, Gateway!Respond, Answering
    <3>2. IsRequest(next) /\ next.pc = "answered"
      BY <1>0, RequestFields
    <3> HIDE DEF next
    <3>3. request'[c] = next /\ \A d \in Clients \ {c} : request'[d] = request[d]
      BY <3>1 DEF GatewayInv, PerClient
    <3>4. PerClient'
      BY <2>1, <2>3, <3>1, <3>2, <3>3 DEF GatewayInv, PerClient
    <3>5. \A d \in Clients : LoginOfRequest(d)'
      BY <2>1, <3>2, <3>3 DEF GatewayInv, LoginOfRequest
    <3> QED BY <2>2, <3>4, <3>5 DEF GatewayInv
  <2> QED BY <1>5, <2>4, <2>5 DEF Gateway!CookieExpires
<1>6. ASSUME NEW c \in Clients, Gateway!Receive(c) PROVE GatewayInv'
  <2>1. request' = [request EXCEPT ![c] = Gateway!NoRequest] /\ UNCHANGED <<cookie, logins>>
    BY <1>6 DEF Gateway!Receive
  <2> QED BY <2>1, NoRequestIsOne, MovesKeeps DEF Moves
<1>7. CASE Gateway!Tick
  BY <1>7 DEF Gateway!Tick, GatewayInv, PerClient, CookieOfLogin, LoginOfRequest
<1> QED
  BY <1>1, <1>2, <1>3, <1>4, <1>5, <1>6, <1>7 DEF Gateway!GatewayStep

\* A login leaves its token and is remembered.
LEMMA LoginKeeps ==
    ASSUME GatewayInv, NEW c \in Clients, NEW code, NEW id, Gateway!LoginAnswered(c, code, id)
    PROVE GatewayInv'
<1>1. PICK status : Gateway!Respond(c, status)
  BY DEF Gateway!LoginAnswered
<1>2. CASE code # "OK"
  BY <1>1, <1>2, RespondKeeps DEF Gateway!LoginAnswered
<1>3. CASE code = "OK"
  <2>1. /\ cookie' = [cookie EXCEPT ![c] = [sub |-> id, exp |-> now + TTL]]
        /\ logins' = [logins EXCEPT ![c] = logins[c] \cup {<<id, now>>}]
    BY <1>3 DEF Gateway!LoginAnswered, Gateway!NewToken
  <2> DEFINE next == Answering(request[c], status)
  <2>2. request' = [request EXCEPT ![c] = next]
    BY <1>1 DEF Gateway!Respond, Answering
  <2>3. IsRequest(next) /\ next.pc = "answered"
    BY RequestFields DEF GatewayInv, PerClient
  <2> HIDE DEF next
  <2>4. request'[c] = next /\ \A d \in Clients \ {c} : request'[d] = request[d]
    BY <2>2 DEF GatewayInv, PerClient
  <2>5. /\ cookie'[c] = [sub |-> id, exp |-> now + TTL]
        /\ \A d \in Clients \ {c} : cookie'[d] = cookie[d]
    BY <2>1 DEF GatewayInv, PerClient
  <2>6. <<id, now>> \in logins'[c] /\ \A d \in Clients \ {c} : logins'[d] = logins[d]
    BY <2>1 DEF GatewayInv, PerClient
  <2>7. PerClient'
    BY <2>1, <2>2, <2>3, <2>4 DEF GatewayInv, PerClient
  <2>8. CookieOfLogin(c)'
    <3>1. <<id, now>>[1] = cookie'[c].sub /\ cookie'[c].exp = <<id, now>>[2] + TTL
      BY <2>5
    <3> QED BY <2>6, <3>1 DEF CookieOfLogin
  <2>9. \A d \in Clients \ {c} : CookieOfLogin(d)'
    BY <2>5, <2>6 DEF GatewayInv, CookieOfLogin
  <2>10. \A d \in Clients : LoginOfRequest(d)'
    BY <2>3, <2>4, <2>6 DEF GatewayInv, LoginOfRequest
  <2> QED BY <2>7, <2>8, <2>9, <2>10 DEF GatewayInv
<1> QED BY <1>2, <1>3

\* What a service has answered, and a body that is refused.
Answered(c) ==
    \/ Gateway!BadBody(c)
    \/ \E code, id : Gateway!LoginAnswered(c, code, id)
    \/ \E code : \/ Gateway!RegisterAnswered(c, code)
                 \/ Gateway!UserAnswered(c, code)
                 \/ Gateway!OrderAnswered(c, code)

\* An answer on any route.
LEMMA AnsweredKeeps ==
    ASSUME GatewayInv, NEW c \in Clients, Answered(c)
    PROVE GatewayInv'
<1>1. CASE \E code, id : Gateway!LoginAnswered(c, code, id)
  BY <1>1, LoginKeeps
<1>2. ASSUME \/ Gateway!BadBody(c)
             \/ \E code : \/ Gateway!RegisterAnswered(c, code)
                          \/ Gateway!UserAnswered(c, code)
                          \/ Gateway!OrderAnswered(c, code)
      PROVE GatewayInv'
  <2>1. UNCHANGED <<cookie, logins>> /\ Unanswered(c)
    BY <1>2 DEF Gateway!BadBody, Gateway!RegisterAnswered, Gateway!UserAnswered,
                Gateway!OrderAnswered, Unanswered
  <2> QED BY <2>1, RespondKeeps DEF Unanswered
<1> QED BY <1>1, <1>2 DEF Answered

\* What a step of the whole is for the gateway.
LEMMA GatewaySteps ==
    ASSUME [Next]_vars
    PROVE \/ UNCHANGED gatewayVars
          \/ Gateway!GatewayStep
          \/ \E c \in Clients : Answered(c)
<1>1. ASSUME NEW c \in Clients,
             RefuseBody(c) \/ ReturnAnswer(c) \/ RefuseOrder(c) \/ PaymentAnswered(c)
               \/ OrderServiceAway(c)
      PROVE Answered(c)
  BY <1>1 DEF RefuseBody, ReturnAnswer, RefuseOrder, PaymentAnswered, OrderServiceAway, Answered
<1>2. ASSUME NEW c \in Clients, NEW o \in Orders, RecordOrder(c, o)
      PROVE Answered(c) \/ UNCHANGED gatewayVars
  BY <1>2 DEF RecordOrder, Answered
<1> QED
  BY <1>1, <1>2 DEF Next, GatewayStep, UserStep, CallUserService, AskAddress, BeginPublish,
     EndPublish, PublishSucceeds, LinkStep, LinkFails, InNotification, vars

\* Nobody is logged in at the start.
LEMMA GatewayInit ==
    ASSUME Init
    PROVE GatewayInv
<1>1. Gateway!Init
  BY DEF Init
<1>2. /\ cookie = [c \in Clients |-> NoToken] /\ logins = [c \in Clients |-> {}]
      /\ request = [c \in Clients |-> Gateway!NoRequest]
  BY <1>1 DEF Gateway!Init
<1> QED BY <1>2, NoRequestIsOne DEF GatewayInv, PerClient, CookieOfLogin, LoginOfRequest

\* Every step keeps the gateway's invariant.
LEMMA GatewayKeeps ==
    ASSUME GatewayInv, [Next]_vars
    PROVE GatewayInv'
<1>1. CASE UNCHANGED gatewayVars
  BY <1>1 DEF gatewayVars, GatewayInv, PerClient, CookieOfLogin, LoginOfRequest
<1> QED BY <1>1, GatewaySteps, GatewayStepKeeps, AnsweredKeeps

\* A handler of a guarded route works for a user whom this client has logged
\* in, less than the life of a token before the token was checked.
THEOREM RequestsHaveLogins == Spec => []GuardedRequestsHaveALogin
<1>1. Init => GatewayInv
  BY GatewayInit
<1>2. GatewayInv /\ [Next]_vars => GatewayInv'
  BY GatewayKeeps
<1>3. GatewayInv => GuardedRequestsHaveALogin
  BY DEF GatewayInv, LoginOfRequest, GuardedRequestsHaveALogin,
         Gateway!GuardedRequestsHaveALogin, Gateway!At
<1> QED BY <1>1, <1>2, <1>3, PTL DEF Spec

-----------------------------------------------------------------------------
(* The two connections.                                                    *)

\* order-service's connection, in the words of RabbitConnection_proofs.
LEMMA SameLinkSteps ==
    /\ \A t \in {"consumer", "publisher"} : Link!DialStep(t) => LinkFacts!DialStep(t)
    /\ \A t \in {"consumer", "publisher"} : Link!DialFails(t) => LinkFacts!DialFails(t)
    /\ Link!ConsumerStep => LinkFacts!ConsumerStep
    /\ Link!BeginPublish => LinkFacts!BeginPublish
    /\ Link!PublishSucceeds => LinkFacts!PublishSucceeds
    /\ Link!PublishFails => LinkFacts!PublishFails
    /\ \A c \in linkOpen : Link!ConnectionDies(c) => LinkFacts!ConnectionDies(c)
<1>1. \A t, pc : Link!At(t, pc) <=> LinkFacts!At(t, pc)
  BY DEF Link!At, LinkFacts!At
<1>2. \A pc, tries : Link!Starting(pc, tries) = LinkFacts!Starting(pc, tries)
  BY DEF Link!Starting, LinkFacts!Starting
<1>3. \A t, pc : Link!Goto(t, pc) <=> LinkFacts!Goto(t, pc)
  BY DEF Link!Goto, LinkFacts!Goto, Link!Starting, LinkFacts!Starting
<1>4. Link!SettingUp <=> LinkFacts!SettingUp
  BY <1>1 DEF Link!SettingUp, LinkFacts!SettingUp
<1>5. \A t \in {"consumer", "publisher"} : Link!DialStep(t) => LinkFacts!DialStep(t)
  BY <1>1, <1>3, <1>4
     DEF Link!DialStep, LinkFacts!DialStep, Link!DialSucceeds, LinkFacts!DialSucceeds,
         Link!AssignConnection, LinkFacts!AssignConnection, Link!AssignChannel,
         LinkFacts!AssignChannel
<1>6. \A t \in {"consumer", "publisher"} : Link!DialFails(t) => LinkFacts!DialFails(t)
  BY <1>1 DEF Link!DialFails, LinkFacts!DialFails, Link!Kept, LinkFacts!Kept,
              Link!Starting, LinkFacts!Starting
<1>7. Link!ConsumerStep => LinkFacts!ConsumerStep
  BY <1>1, <1>3
     DEF Link!ConsumerStep, LinkFacts!ConsumerStep, Link!SetQos, LinkFacts!SetQos,
         Link!DeclareQueues, LinkFacts!DeclareQueues, Link!SetupFails, LinkFacts!SetupFails,
         Link!JudgeSetupError, LinkFacts!JudgeSetupError, Link!Consume, LinkFacts!Consume,
         Link!DeliveriesEnd, LinkFacts!DeliveriesEnd, Link!Kept, LinkFacts!Kept,
         Link!Starting, LinkFacts!Starting
<1>8. /\ Link!BeginPublish => LinkFacts!BeginPublish
      /\ Link!PublishSucceeds => LinkFacts!PublishSucceeds
      /\ Link!PublishFails => LinkFacts!PublishFails
  BY <1>1 DEF Link!BeginPublish, LinkFacts!BeginPublish, Link!PublishSucceeds,
              LinkFacts!PublishSucceeds, Link!PublishFails, LinkFacts!PublishFails,
              Link!Kept, LinkFacts!Kept, Link!Starting, LinkFacts!Starting
<1>9. \A c \in linkOpen : Link!ConnectionDies(c) => LinkFacts!ConnectionDies(c)
  BY DEF Link!ConnectionDies, LinkFacts!ConnectionDies
<1> QED BY <1>5, <1>6, <1>7, <1>8, <1>9

\* notification-service's connection, likewise; it has no publisher.
LEMMA SameBrokerSteps ==
    /\ Notification!Broker!DialStep("consumer") => BrokerFacts!DialStep("consumer")
    /\ Notification!Broker!DialFails("consumer") => BrokerFacts!DialFails("consumer")
    /\ Notification!Broker!ConsumerStep => BrokerFacts!ConsumerStep
    /\ \A c \in open : Notification!Broker!ConnectionDies(c) => BrokerFacts!ConnectionDies(c)
<1>1. \A t, pc : Notification!Broker!At(t, pc) <=> BrokerFacts!At(t, pc)
  BY DEF Notification!Broker!At, BrokerFacts!At
<1>3. \A t, pc : Notification!Broker!Goto(t, pc) <=> BrokerFacts!Goto(t, pc)
  BY DEF Notification!Broker!Goto, BrokerFacts!Goto, Notification!Broker!Starting,
         BrokerFacts!Starting
<1>4. Notification!Broker!SettingUp <=> BrokerFacts!SettingUp
  BY <1>1 DEF Notification!Broker!SettingUp, BrokerFacts!SettingUp
<1>5. Notification!Broker!DialStep("consumer") => BrokerFacts!DialStep("consumer")
  BY <1>1, <1>3, <1>4
     DEF Notification!Broker!DialStep, BrokerFacts!DialStep, Notification!Broker!DialSucceeds,
         BrokerFacts!DialSucceeds, Notification!Broker!AssignConnection,
         BrokerFacts!AssignConnection, Notification!Broker!AssignChannel,
         BrokerFacts!AssignChannel
<1>6. Notification!Broker!DialFails("consumer") => BrokerFacts!DialFails("consumer")
  BY <1>1 DEF Notification!Broker!DialFails, BrokerFacts!DialFails, Notification!Broker!Kept,
              BrokerFacts!Kept, Notification!Broker!Starting, BrokerFacts!Starting
<1>7. Notification!Broker!ConsumerStep => BrokerFacts!ConsumerStep
  BY <1>1, <1>3
     DEF Notification!Broker!ConsumerStep, BrokerFacts!ConsumerStep,
         Notification!Broker!SetQos, BrokerFacts!SetQos,
         Notification!Broker!DeclareQueues, BrokerFacts!DeclareQueues,
         Notification!Broker!SetupFails, BrokerFacts!SetupFails,
         Notification!Broker!JudgeSetupError, BrokerFacts!JudgeSetupError,
         Notification!Broker!Consume, BrokerFacts!Consume,
         Notification!Broker!DeliveriesEnd, BrokerFacts!DeliveriesEnd,
         Notification!Broker!Kept, BrokerFacts!Kept,
         Notification!Broker!Starting, BrokerFacts!Starting
<1>9. \A c \in open : Notification!Broker!ConnectionDies(c) => BrokerFacts!ConnectionDies(c)
  BY DEF Notification!Broker!ConnectionDies, BrokerFacts!ConnectionDies
<1> QED BY <1>5, <1>6, <1>7, <1>9

\* What the parts assume of their connection.
LEMMA ConnectionAssumptions == LinkFacts!Assumptions /\ BrokerFacts!Assumptions
<1>1. LinkFacts!Assumptions
  BY PartsAssumption
     DEF Link!TasksAssumption, Link!LimitsAssumption, LinkFacts!Assumptions,
         LinkFacts!TasksAssumption, LinkFacts!LimitsAssumption
<1>2. BrokerFacts!Assumptions
  BY PartsAssumption
     DEF Link!LimitsAssumption, BrokerFacts!Assumptions, BrokerFacts!TasksAssumption,
         BrokerFacts!LimitsAssumption
<1> QED BY <1>1, <1>2

\* A step of the whole is a step of order-service's connection or none.
LEMMA LinkSteps ==
    ASSUME [Next]_vars
    PROVE LinkFacts!Next \/ UNCHANGED managerVars
<1>1. ASSUME NEW o \in Orders, BeginPublish(o) PROVE LinkFacts!BeginPublish
  BY <1>1, SameLinkSteps DEF BeginPublish
<1>2. CASE PublishSucceeds
  BY <1>2, SameLinkSteps DEF PublishSucceeds, LinkFacts!Next
<1>3. CASE LinkStep
  BY <1>3, SameLinkSteps DEF LinkStep, LinkFacts!Next
<1>4. CASE LinkFails
  BY <1>4, SameLinkSteps DEF LinkFails, LinkFacts!Next
<1>5. ASSUME UNCHANGED linkVars \/ UNCHANGED managerVars PROVE UNCHANGED managerVars
  BY <1>5 DEF linkVars
<1>6. ASSUME NEW c \in Clients,
             \/ RefuseBody(c) \/ CallUserService(c) \/ ReturnAnswer(c) \/ AskAddress(c)
             \/ RefuseOrder(c) \/ PaymentAnswered(c) \/ OrderServiceAway(c)
             \/ \E o \in Orders : RecordOrder(c, o)
      PROVE UNCHANGED linkVars
  BY <1>6 DEF RefuseBody, CallUserService, ReturnAnswer, AskAddress, RefuseOrder,
              PaymentAnswered, OrderServiceAway, RecordOrder
<1>7. ASSUME NEW o \in Orders, EndPublish(o) PROVE UNCHANGED managerVars
  BY <1>7 DEF EndPublish
<1>8. CASE GatewayStep \/ UserStep \/ InNotification(Notification!ServiceStep)
  BY <1>5, <1>8 DEF GatewayStep, UserStep, InNotification
<1> QED
  BY <1>1, <1>2, <1>3, <1>4, <1>5, <1>6, <1>7, <1>8 DEF Next, vars, LinkFacts!Next

\* The same of notification-service's.
LEMMA BrokerSteps ==
    ASSUME [Next]_vars
    PROVE BrokerFacts!Next \/ UNCHANGED connectionVars
<1>1. CASE Notification!ConnectionStep
  BY <1>1, SameBrokerSteps DEF Notification!ConnectionStep, BrokerFacts!Next
<1>2. CASE Notification!DialFails
  BY <1>2, SameBrokerSteps DEF Notification!DialFails, BrokerFacts!Next
<1>3. ASSUME NEW c \in open, Notification!ConnectionDies(c) PROVE BrokerFacts!Next
  BY <1>3, SameBrokerSteps DEF Notification!ConnectionDies, BrokerFacts!Next
<1>4. ASSUME NEW w \in Workers,
             \/ \E o \in Orders : Notification!ReceiveOrder(w, o)
             \/ Notification!HandlerStep(w)
      PROVE UNCHANGED connectionVars
  BY <1>4 DEF Notification!ReceiveOrder, Notification!HandlerStep, Notification!SendMail,
              Notification!MailFails, Notification!MailReplyLost, Notification!AckMail,
              Notification!connectionVars, connectionVars
<1>5. CASE Notification!ServiceStep
  BY <1>1, <1>2, <1>3, <1>4, <1>5 DEF Notification!ServiceStep
<1>6. ASSUME UNCHANGED mailVars PROVE UNCHANGED connectionVars
  BY <1>6 DEF mailVars
<1>7. ASSUME NEW c \in Clients,
             \/ RefuseBody(c) \/ CallUserService(c) \/ ReturnAnswer(c) \/ AskAddress(c)
             \/ RefuseOrder(c) \/ PaymentAnswered(c) \/ OrderServiceAway(c)
             \/ \E o \in Orders : RecordOrder(c, o)
      PROVE UNCHANGED mailVars
  BY <1>7 DEF RefuseBody, CallUserService, ReturnAnswer, AskAddress, RefuseOrder,
              PaymentAnswered, OrderServiceAway, RecordOrder
<1>8. ASSUME NEW o \in Orders, BeginPublish(o) \/ EndPublish(o) PROVE UNCHANGED mailVars
  BY <1>8 DEF BeginPublish, EndPublish
<1>9. CASE PublishSucceeds
  BY <1>9 DEF PublishSucceeds
<1>10. CASE GatewayStep \/ UserStep \/ LinkStep \/ LinkFails
  BY <1>6, <1>10 DEF GatewayStep, UserStep, LinkStep, LinkFails
<1> QED
  BY <1>5, <1>6, <1>7, <1>8, <1>9, <1>10 DEF Next, InNotification, vars

\* Each process starts connected.
LEMMA ConnectionsInit ==
    ASSUME Init
    PROVE LinkFacts!Init /\ BrokerFacts!Init
<1>1. Link!Init /\ Notification!Broker!Init
  BY DEF Init, Notification!Init
<1>2. LinkFacts!Init
  BY <1>1 DEF Link!Init, LinkFacts!Init, Link!Starting, LinkFacts!Starting
<1>3. BrokerFacts!Init
  BY <1>1 DEF Notification!Broker!Init, BrokerFacts!Init, Notification!Broker!Starting,
              BrokerFacts!Starting
<1> QED BY <1>2, <1>3

ConnectionsInv == LinkFacts!ConnectionInv /\ BrokerFacts!ConnectionInv

\* Both processes start with a connection, and their steps keep it sound.
LEMMA ConnectionsKeep ==
    /\ Init => ConnectionsInv
    /\ ConnectionsInv /\ [Next]_vars => ConnectionsInv'
<1>1. Init => ConnectionsInv
  BY ConnectionsInit, ConnectionAssumptions, LinkFacts!ConnectionInit,
     BrokerFacts!ConnectionInit DEF ConnectionsInv
<1>2. ConnectionsInv /\ [Next]_vars => ConnectionsInv'
  <2> SUFFICES ASSUME ConnectionsInv, [Next]_vars PROVE ConnectionsInv'
    OBVIOUS
  <2>1. LinkFacts!ConnectionInv'
    <3>1. LinkFacts!Next \/ UNCHANGED LinkFacts!connectionVars
      BY LinkSteps DEF managerVars, LinkFacts!connectionVars
    <3> QED BY <3>1, ConnectionAssumptions, LinkFacts!ConnectionStep DEF ConnectionsInv
  <2>2. BrokerFacts!ConnectionInv'
    <3>1. BrokerFacts!Next \/ UNCHANGED BrokerFacts!connectionVars
      BY BrokerSteps DEF connectionVars, BrokerFacts!connectionVars
    <3> QED BY <3>1, ConnectionAssumptions, BrokerFacts!ConnectionStep DEF ConnectionsInv
  <2> QED BY <2>1, <2>2 DEF ConnectionsInv
<1> QED BY <1>1, <1>2

\* A subscription that is given up on an error that a reconnect would have
\* cured, or consumes without a prefetch limit, was overtaken by the publisher
\* of its own process: notification-service, which has none, never is.
THEOREM FaultsAreRaces == Spec => []SubscriptionFaultsAreRaces
<1>1. Init => ConnectionsInv
  BY ConnectionsKeep
<1>2. ConnectionsInv /\ [Next]_vars => ConnectionsInv'
  BY ConnectionsKeep
<1>3. ConnectionsInv => SubscriptionFaultsAreRaces
  <2> SUFFICES ASSUME ConnectionsInv PROVE SubscriptionFaultsAreRaces
    OBVIOUS
  <2>1. LinkFacts!SubscriptionFaultsAreRaces /\ BrokerFacts!SubscriptionFaultsAreRaces
    BY LinkFacts!FaultsExplained, BrokerFacts!FaultsExplained DEF ConnectionsInv
  <2>2. Link!SubscriptionFaultsAreRaces
    BY <2>1 DEF LinkFacts!SubscriptionFaultsAreRaces, Link!SubscriptionFaultsAreRaces,
                LinkFacts!At, Link!At, LinkFacts!Consuming, Link!Consuming
  <2>3. Notification!Broker!SubscriptionFaultsAreRaces
    BY <2>1 DEF BrokerFacts!SubscriptionFaultsAreRaces,
                Notification!Broker!SubscriptionFaultsAreRaces,
                BrokerFacts!At, Notification!Broker!At, BrokerFacts!Consuming,
                Notification!Broker!Consuming
  <2> QED BY <2>2, <2>3 DEF SubscriptionFaultsAreRaces
<1> QED BY <1>1, <1>2, <1>3, PTL DEF Spec

-----------------------------------------------------------------------------
(* user-service.                                                           *)

\* The rows of a table with address e.
RowsIn(table, e) == {i \in Ids : table[i] # NoUser /\ table[i].email = e}

\* A password in every row, an address in one.
Table(table) ==
    /\ table \in [Ids -> Accounts \cup {NoUser}]
    /\ \A i, j \in Ids : /\ table[i] # NoUser /\ table[j] # NoUser
                         /\ table[i].email = table[j].email
                         => i = j

\* Rows are added, never changed or deleted.
Grown(old, table) == \A i \in Ids : old[i] # NoUser => table[i] = old[i]

Calls ==
    [pc : {"none", "address", "hash", "table", "get", "insert", "answered"},
     op : {"none", "authorize", "get", "create"}, email : Emails \cup {NoUser},
     password : Passwords \cup {NoPassword}, id : Ids \cup {NoUser}, code : User!Codes,
     known : BOOLEAN]

\* The answer of call a is that of the table.
Exact(a, table) ==
    /\ a.code # "none"
    /\ a.op = "authorize" =>
          /\ a.code = "OK" => a.id \in RowsIn(table, a.email)
                              /\ table[a.id].password = a.password
          /\ a.code = "Unauthenticated" => ~a.known
          /\ a.code = "Internal" => a.id = NoUser
    /\ a.op = "get" =>
          /\ a.code = "OK" => a.id \in RowsIn(table, a.email)
          /\ a.code = "NotFound" => ~a.known
    /\ a.op = "create" /\ a.code = "OK" =>
          /\ a.id \in RowsIn(table, a.email)
          /\ table[a.id] = [email |-> a.email, password |-> a.password]

\* A call that is answered is answered exactly, and one that is under way has
\* found no more than there is: what was known when it began is still there.
Sound(a, table) ==
    /\ a.pc \in {"address", "hash", "table"} =>
          /\ a.op = "authorize" /\ a.email \in Emails
          /\ a.known => \E i \in RowsIn(table, a.email) : table[i].password = a.password
    /\ a.pc = "hash" => a.id \in RowsIn(table, a.email)
    /\ a.pc = "get" => a.op = "get" /\ a.id \in Ids /\ (a.known => table[a.id] # NoUser)
    /\ a.pc = "insert" => a.op = "create" /\ a.email \in Emails /\ a.password \in Passwords
    /\ a.pc = "answered" => Exact(a, table)

Jobs == Ids \X {"user", "user, then address", "address"}

\* The caches hold copies of rows, and the goroutines copy rows only.
CachesInv ==
    /\ hash \in [Ids -> Accounts \cup {NoUser}]
    /\ \A i \in Ids : hash[i] # NoUser => hash[i] = users[i]
    /\ idOf \in [Emails -> Ids \cup {NoUser}]
    /\ \A e \in Emails : idOf[e] # NoUser => idOf[e] \in RowsIn(users, e)
    /\ refills \subseteq Jobs
    /\ \A job \in refills : users[job[1]] # NoUser

CallsInv ==
    /\ call \in [Clients -> Calls]
    /\ \A c \in Clients : Sound(call[c], users)

UserInv == Table(users) /\ CachesInv /\ CallsInv

\* An account is a record, and nothing is none.
LEMMA AccountFields ==
    /\ NoUser \notin Ids /\ NoUser \notin Accounts
    /\ \A u \in Accounts : /\ u.email \in Emails /\ u.password \in Passwords
                           /\ u.password # NoPassword
                           /\ u = [email |-> u.email, password |-> u.password]
    /\ Accounts \subseteq User!Users
<1>1. Accounts \subseteq User!Users
  BY DEF Accounts, User!Users
<1>2. NoUser \notin Ids /\ NoUser \notin User!Users /\ NoPassword \notin Passwords
  BY PartsAssumption DEF User!NothingAssumption
<1> QED BY <1>1, <1>2 DEF Accounts

\* What was found in a table is found in a grown one.
LEMMA GrownRows ==
    ASSUME NEW old, NEW table, Grown(old, table), NEW e
    PROVE \A i \in RowsIn(old, e) : i \in RowsIn(table, e) /\ table[i] = old[i]
BY DEF Grown, RowsIn

\* A call stays sound as the table grows.
LEMMA SoundGrows ==
    ASSUME NEW old, NEW table, Grown(old, table), NEW a, Sound(a, old)
    PROVE Sound(a, table)
<1>1. \A i \in RowsIn(old, a.email) : i \in RowsIn(table, a.email) /\ table[i] = old[i]
  BY GrownRows
<1>2. Exact(a, old) => Exact(a, table)
  BY <1>1 DEF Exact
<1>3. a.pc = "get" /\ a.known => a.id \in Ids /\ table[a.id] # NoUser
  BY DEF Sound, Grown
<1> QED BY <1>1, <1>2, <1>3 DEF Sound

\* What becomes of a call a in user-service.
Going(a, pc) == [a EXCEPT !.pc = pc]
Replying(a, code, id) == [a EXCEPT !.pc = "answered", !.code = code, !.id = id]
Finding(a, email) == [a EXCEPT !.pc = "answered", !.code = "OK", !.email = email]
Reading(a, id) == [a EXCEPT !.pc = "hash", !.id = id]

\* It remains a call, changed where it says.
LEMMA CallFields ==
    ASSUME NEW a \in Calls
    PROVE /\ \A pc \in {"table", "answered"} :
                LET b == Going(a, pc) IN
                /\ b \in Calls /\ b.pc = pc
                /\ b.op = a.op /\ b.email = a.email /\ b.password = a.password
                /\ b.id = a.id /\ b.code = a.code /\ b.known = a.known
          /\ \A code \in User!Codes, id \in Ids \cup {NoUser} :
                LET b == Replying(a, code, id) IN
                /\ b \in Calls /\ b.pc = "answered"
                /\ b.op = a.op /\ b.email = a.email /\ b.password = a.password
                /\ b.id = id /\ b.code = code /\ b.known = a.known
          /\ \A email \in Emails :
                LET b == Finding(a, email) IN
                /\ b \in Calls /\ b.pc = "answered"
                /\ b.op = a.op /\ b.email = email /\ b.password = a.password
                /\ b.id = a.id /\ b.code = "OK" /\ b.known = a.known
          /\ \A id \in Ids :
                LET b == Reading(a, id) IN
                /\ b \in Calls /\ b.pc = "hash"
                /\ b.op = a.op /\ b.email = a.email /\ b.password = a.password
                /\ b.id = id /\ b.code = a.code /\ b.known = a.known
BY DEF Calls, Going, Replying, Finding, Reading, User!Codes

\* A step of one call.
LEMMA CallKeeps ==
    ASSUME CallsInv, Grown(users, users'), NEW c \in Clients, NEW next \in Calls,
           Sound(next, users'), call' = [call EXCEPT ![c] = next]
    PROVE CallsInv'
<1>1. call'[c] = next /\ \A d \in Clients \ {c} : call'[d] = call[d]
  BY DEF CallsInv
<1>2. \A d \in Clients : Sound(call[d], users')
  BY SoundGrows DEF CallsInv
<1>3. \A d \in Clients : Sound(call'[d], users')
  BY <1>1, <1>2
<1>4. call' \in [Clients -> Calls]
  BY DEF CallsInv
<1> QED BY <1>3, <1>4 DEF CallsInv

\* The caches are still copies as the table grows.
LEMMA CachesKeep ==
    ASSUME CachesInv, Grown(users, users'), UNCHANGED <<hash, idOf>>, refills' \subseteq Jobs,
           \A job \in refills' : job \in refills \/ users'[job[1]] # NoUser
    PROVE CachesInv'
<1>1. \A i \in Ids : hash'[i] # NoUser => hash'[i] = users'[i]
  BY DEF CachesInv, Grown
<1>2. \A e \in Emails : idOf'[e] # NoUser => idOf'[e] \in RowsIn(users', e)
  BY GrownRows DEF CachesInv
<1>3. \A job \in refills' : users'[job[1]] # NoUser
  BY DEF CachesInv, Grown, Jobs
<1> QED BY <1>1, <1>2, <1>3 DEF CachesInv

\* A row is handed to a goroutine.
LEMMA RefillKeeps ==
    ASSUME CachesInv, Grown(users, users'), UNCHANGED <<hash, idOf>>, NEW i \in Ids,
           users'[i] # NoUser, NEW what \in {"user", "user, then address"},
           refills' = refills \cup {<<i, what>>}
    PROVE CachesInv'
<1>1. <<i, what>> \in Jobs /\ <<i, what>>[1] = i
  BY DEF Jobs
<1>2. \A job \in refills' : job \in refills \/ job = <<i, what>>
  OBVIOUS
<1>3. ASSUME NEW job \in refills'
      PROVE job \in Jobs /\ (job \in refills \/ users'[job[1]] # NoUser)
  <2>1. CASE job \in refills
    BY <2>1 DEF CachesInv
  <2>2. CASE job = <<i, what>>
    BY <1>1, <2>2
  <2> QED BY <1>2, <2>1, <2>2
<1> QED BY <1>3, CachesKeep

\* Nothing changes but caller c's call.
LEMMA OnlyCallKeeps ==
    ASSUME UserInv, NEW c \in Clients, NEW next \in Calls, Sound(next, users),
           call' = [call EXCEPT ![c] = next], UNCHANGED <<users, hash, idOf, refills>>
    PROVE UserInv'
<1>1. Grown(users, users') /\ Table(users')
  BY DEF Grown, UserInv
<1>2. CallsInv'
  BY <1>1, CallKeeps DEF UserInv
<1>3. CachesInv'
  BY <1>1, CachesKeep DEF UserInv, CachesInv
<1> QED BY <1>1, <1>2, <1>3 DEF UserInv

\* A handler goes on with its call: it answers the same one, and a user found
\* is the one asked for.
Continues(a, next) ==
    /\ a.pc # "none" /\ next.pc # "none" /\ next.op = a.op
    /\ a.op = "get" /\ (next.pc = "get" \/ next.code = "OK") => a.pc = "get" /\ next.id = a.id

Moved(c) == \E next \in Calls : call' = [call EXCEPT ![c] = next] /\ Continues(call[c], next)

\* A call that fails names no user and says nothing of the table.
LEMMA FailureKeeps ==
    ASSUME UserInv, NEW c \in Clients, ~User!At(c, "none"),
           NEW code \in {"Internal", "Unauthenticated"},
           User!Answer(c, code, NoUser), UNCHANGED <<users, hash, idOf, refills>>,
           code = "Unauthenticated" => ~call[c].known
    PROVE UserInv' /\ Moved(c)
<1> DEFINE next == Replying(call[c], code, NoUser)
<1>1. call[c] \in Calls /\ code \in User!Codes
  BY DEF UserInv, CallsInv, User!Codes
<1>2. call' = [call EXCEPT ![c] = next]
  BY DEF User!Answer, Replying
<1>3. /\ next \in Calls /\ next.pc = "answered" /\ next.code = code /\ next.id = NoUser
      /\ next.op = call[c].op /\ next.known = call[c].known
  BY <1>1, CallFields
<1> HIDE DEF next
<1>4. Sound(next, users)
  BY <1>3 DEF Sound, Exact
<1>5. Continues(call[c], next)
  BY <1>3 DEF Continues, User!At
<1> QED BY <1>2, <1>3, <1>4, <1>5, OnlyCallKeeps DEF Moved

\* A login is decided by the one row of its address.
LEMMA VerdictKeeps ==
    ASSUME UserInv, NEW c \in Clients, call[c].pc \in {"hash", "table"},
           NEW i \in RowsIn(users, call[c].email),
           User!Answer(c, User!Verdict(users[i], call[c].password), i), UNCHANGED users
    PROVE CallsInv' /\ Moved(c)
<1> DEFINE verdict == User!Verdict(users[i], call[c].password)
           next == Replying(call[c], verdict, i)
<1>1. call[c] \in Calls /\ Sound(call[c], users) /\ i \in Ids /\ users[i] \in Accounts
  BY DEF UserInv, CallsInv, RowsIn, Table
<1>2. verdict = IF users[i].password = call[c].password THEN "OK" ELSE "Unauthenticated"
  BY <1>1, AccountFields DEF User!Verdict
<1>3. verdict = "Unauthenticated" => ~call[c].known
  <2> SUFFICES ASSUME call[c].known PROVE users[i].password = call[c].password
    BY <1>2
  <2>1. PICK j \in RowsIn(users, call[c].email) : users[j].password = call[c].password
    BY <1>1 DEF Sound
  <2>2. i = j
    BY <2>1 DEF UserInv, Table, RowsIn
  <2> QED BY <2>1, <2>2
<1>4. verdict \in {"OK", "Unauthenticated"} /\ verdict \in User!Codes
  BY <1>2 DEF User!Codes
<1>5. call' = [call EXCEPT ![c] = next]
  BY DEF User!Answer, Replying
<1> HIDE DEF verdict
<1>6. /\ next \in Calls /\ next.pc = "answered" /\ next.code = verdict /\ next.id = i
      /\ next.op = call[c].op /\ next.known = call[c].known /\ next.email = call[c].email
      /\ next.password = call[c].password
  BY <1>1, <1>4, CallFields
<1> HIDE DEF next
<1>7. call[c].op = "authorize"
  BY <1>1 DEF Sound
<1>8. Sound(next, users')
  BY <1>2, <1>3, <1>4, <1>6, <1>7 DEF Sound, Exact
<1>9. Continues(call[c], next)
  BY <1>6, <1>7 DEF Continues
<1>10. Grown(users, users')
  BY DEF Grown
<1> QED BY <1>5, <1>6, <1>8, <1>9, <1>10, CallKeeps DEF UserInv, Moved

\* AuthorizeUser.
LEMMA AuthorizeKeeps ==
    ASSUME UserInv, NEW c \in Clients,
           User!FindAddress(c) \/ User!FindHash(c) \/ User!MissCache(c) \/ User!FindRow(c)
    PROVE UserInv' /\ Moved(c)
<1>1. call[c] \in Calls /\ Sound(call[c], users) /\ Table(users) /\ CachesInv
  BY DEF UserInv, CallsInv
<1>2. CASE User!FindAddress(c)
  <2> DEFINE next == Reading(call[c], idOf[call[c].email])
  <2>1. call[c].pc = "address" /\ call[c].op = "authorize" /\ call[c].email \in Emails
    BY <1>1, <1>2 DEF User!FindAddress, User!At, Sound
  <2>2. idOf[call[c].email] \in RowsIn(users, call[c].email) /\ idOf[call[c].email] \in Ids
    BY <1>1, <1>2, <2>1 DEF User!FindAddress, CachesInv, RowsIn
  <2>3. call' = [call EXCEPT ![c] = next] /\ UNCHANGED <<users, hash, idOf, refills>>
    BY <1>2 DEF User!FindAddress, Reading
  <2>4. /\ next \in Calls /\ next.pc = "hash" /\ next.id = idOf[call[c].email]
        /\ next.op = call[c].op /\ next.known = call[c].known /\ next.email = call[c].email
        /\ next.password = call[c].password
    BY <1>1, <2>2, CallFields
  <2> HIDE DEF next
  <2>5. Sound(next, users)
    BY <1>1, <2>1, <2>2, <2>4 DEF Sound
  <2>6. Continues(call[c], next)
    BY <2>1, <2>4 DEF Continues
  <2> QED BY <2>3, <2>4, <2>5, <2>6, OnlyCallKeeps DEF Moved
<1>3. CASE User!FindHash(c)
  <2>1. call[c].pc = "hash" /\ call[c].id \in RowsIn(users, call[c].email) /\ call[c].id \in Ids
    BY <1>1, <1>3 DEF User!FindHash, User!At, Sound, RowsIn
  <2>2. hash[call[c].id] = users[call[c].id]
    BY <1>1, <1>3, <2>1 DEF User!FindHash, CachesInv
  <2>3. User!Answer(c, User!Verdict(users[call[c].id], call[c].password), call[c].id)
    BY <1>3, <2>2 DEF User!FindHash
  <2>4. UNCHANGED <<users, hash, idOf, refills>>
    BY <1>3 DEF User!FindHash
  <2>5. CallsInv' /\ Moved(c)
    BY <2>1, <2>3, <2>4, VerdictKeeps
  <2> QED BY <1>1, <2>4, <2>5 DEF UserInv, CachesInv
<1>4. CASE User!MissCache(c)
  <2> DEFINE next == Going(call[c], "table")
  <2>1. call[c].pc \in {"address", "hash"}
    BY <1>4 DEF User!MissCache, User!At
  <2>2. call' = [call EXCEPT ![c] = next] /\ UNCHANGED <<users, hash, idOf, refills>>
    BY <1>4 DEF User!MissCache, User!Goto, Going
  <2>3. /\ next \in Calls /\ next.pc = "table" /\ next.op = call[c].op
        /\ next.known = call[c].known /\ next.email = call[c].email
        /\ next.password = call[c].password
    BY <1>1, CallFields
  <2> HIDE DEF next
  <2>4. Sound(next, users)
    BY <1>1, <2>1, <2>3 DEF Sound
  <2>5. Continues(call[c], next)
    BY <1>1, <2>1, <2>3 DEF Continues, Sound
  <2> QED BY <2>2, <2>3, <2>4, <2>5, OnlyCallKeeps DEF Moved
<1>5. CASE User!FindRow(c)
  <2>0. /\ call[c].pc = "table" /\ ~User!At(c, "none")
        /\ User!Rows(call[c].email) = RowsIn(users, call[c].email)
    BY <1>5 DEF User!FindRow, User!At, User!Rows, RowsIn
  <2>1. CASE RowsIn(users, call[c].email) = {}
    <3>1. ~call[c].known
      BY <1>1, <2>0, <2>1 DEF Sound
    <3>2. User!Answer(c, "Unauthenticated", NoUser) /\ UNCHANGED <<users, hash, idOf, refills>>
      BY <1>5, <2>0, <2>1 DEF User!FindRow
    <3> QED BY <2>0, <3>1, <3>2, FailureKeeps
  <2>2. CASE RowsIn(users, call[c].email) # {}
    <3>1. PICK i \in RowsIn(users, call[c].email) :
            /\ User!Answer(c, User!Verdict(users[i], call[c].password), i)
            /\ refills' = IF User!Verdict(users[i], call[c].password) = "OK"
                          THEN refills \cup {<<i, "user, then address">>} ELSE refills
      BY <1>5, <2>0, <2>2 DEF User!FindRow
    <3>2. UNCHANGED <<users, hash, idOf>>
      BY <1>5 DEF User!FindRow
    <3>3. CallsInv' /\ Moved(c)
      BY <2>0, <3>1, <3>2, VerdictKeeps
    <3>4. i \in Ids /\ users'[i] # NoUser
      BY <3>2 DEF RowsIn
    <3>5. Grown(users, users') /\ Table(users')
      BY <1>1, <3>2 DEF Grown
    <3>6. CachesInv'
      <4>1. CASE refills' = refills
        BY <1>1, <3>2, <3>5, <4>1, CachesKeep DEF CachesInv
      <4>2. CASE refills' = refills \cup {<<i, "user, then address">>}
        BY <1>1, <3>2, <3>4, <3>5, <4>2, RefillKeeps
      <4> QED BY <3>1, <4>1, <4>2
    <3> QED BY <3>3, <3>5, <3>6 DEF UserInv
  <2> QED BY <2>1, <2>2
<1> QED BY <1>2, <1>3, <1>4, <1>5

\* GetUserByID.
LEMMA GetKeeps ==
    ASSUME UserInv, NEW c \in Clients, User!GetFromCache(c) \/ User!GetFromTable(c)
    PROVE UserInv' /\ Moved(c)
<1> DEFINE i == call[c].id
<1>0. call[c] \in Calls
  BY DEF UserInv, CallsInv
<1>1. call[c] \in Calls /\ Sound(call[c], users) /\ Table(users) /\ CachesInv
  BY DEF UserInv, CallsInv
<1>2. /\ call[c].pc = "get" /\ call[c].op = "get" /\ i \in Ids /\ ~User!At(c, "none")
      /\ call[c].known => users[i] # NoUser
  BY <1>1 DEF User!GetFromCache, User!GetFromTable, User!At, Sound
<1> HIDE DEF i
<1>3. ASSUME users[i] # NoUser, UNCHANGED users,
             call' = [call EXCEPT ![c].pc = "answered", ![c].code = "OK",
                                  ![c].email = users[i].email]
      PROVE CallsInv' /\ Moved(c)
  <2> DEFINE next == Finding(call[c], users[i].email)
  <2>1. users[i].email \in Emails
    BY <1>1, <1>2, <1>3, AccountFields DEF Table
  <2>2. call' = [call EXCEPT ![c] = next]
    BY <1>3 DEF Finding
  <2>3. /\ next \in Calls /\ next.pc = "answered" /\ next.code = "OK" /\ next.id = call[c].id
        /\ next.op = call[c].op /\ next.email = users[i].email
    BY <1>0, <2>1 DEF Calls, Finding, User!Codes
  <2> HIDE DEF next
  <2>4. i \in RowsIn(users, users[i].email) /\ next.id = i
    BY <1>2, <1>3, <2>3 DEF RowsIn, i
  <2>5. Sound(next, users')
    BY <1>2, <1>3, <2>3, <2>4 DEF Sound, Exact
  <2>6. Continues(call[c], next)
    BY <1>2, <2>3 DEF Continues
  <2>7. Grown(users, users')
    BY <1>3 DEF Grown
  <2> QED BY <2>2, <2>3, <2>5, <2>6, <2>7, CallKeeps DEF UserInv, Moved
<1>4. CASE User!GetFromCache(c)
  <2>1. hash[i] # NoUser /\ UNCHANGED <<users, hash, idOf, refills>>
    BY <1>4 DEF User!GetFromCache, i
  <2>2. hash[i] = users[i]
    BY <1>1, <1>2, <2>1 DEF CachesInv
  <2>3. call' = [call EXCEPT ![c].pc = "answered", ![c].code = "OK",
                             ![c].email = users[i].email]
    BY <1>4, <2>2 DEF User!GetFromCache, i
  <2>4. CallsInv' /\ Moved(c)
    BY <1>3, <2>1, <2>2, <2>3
  <2> QED BY <1>1, <2>1, <2>4 DEF UserInv, CachesInv
<1>5. CASE User!GetFromTable(c)
  <2>1. UNCHANGED <<users, hash, idOf>>
    BY <1>5 DEF User!GetFromTable
  <2>2. CASE users[i] = NoUser
    <3>1. User!Answer(c, "NotFound", NoUser) /\ UNCHANGED refills
      BY <1>5, <2>2 DEF User!GetFromTable, i
    <3> DEFINE next == Replying(call[c], "NotFound", NoUser)
    <3>2. call' = [call EXCEPT ![c] = next]
      BY <3>1 DEF User!Answer, Replying
    <3>3. /\ next \in Calls /\ next.pc = "answered" /\ next.code = "NotFound"
          /\ next.op = call[c].op /\ next.known = call[c].known
      BY <1>0 DEF Calls, Replying, User!Codes
    <3> HIDE DEF next
    <3>4. Sound(next, users)
      BY <1>2, <2>2, <3>3 DEF Sound, Exact
    <3>5. Continues(call[c], next)
      BY <1>2, <3>3 DEF Continues
    <3> QED BY <2>1, <3>1, <3>2, <3>3, <3>4, <3>5, OnlyCallKeeps DEF Moved
  <2>3. CASE users[i] # NoUser
    <3>1. /\ call' = [call EXCEPT ![c].pc = "answered", ![c].code = "OK",
                                  ![c].email = users[i].email]
          /\ refills' = refills \cup {<<i, "user">>}
      BY <1>5, <2>3 DEF User!GetFromTable, i
    <3>2. CallsInv' /\ Moved(c)
      BY <1>3, <2>1, <2>3, <3>1
    <3>3. CachesInv'
      <4>1. /\ Grown(users, users') /\ users'[i] # NoUser
            /\ "user" \in {"user", "user, then address"}
        BY <2>1, <2>3 DEF Grown
      <4> QED BY <1>1, <1>2, <2>1, <3>1, <4>1, RefillKeeps
    <3> QED BY <1>1, <2>1, <3>2, <3>3 DEF UserInv
  <2> QED BY <2>2, <2>3
<1> QED BY <1>4, <1>5

\* CreateUser: the statement adds a row with a new address.
LEMMA InsertGrows ==
    ASSUME UserInv, NEW c \in Clients, NEW i \in Ids, User!Insert(c, i)
    PROVE /\ Table(users') /\ Grown(users, users')
          /\ users'[i] = [email |-> call[c].email, password |-> call[c].password]
          /\ i \in RowsIn(users', call[c].email)
<1> DEFINE new == [email |-> call[c].email, password |-> call[c].password]
<1>1. Table(users) /\ Sound(call[c], users)
  BY DEF UserInv, CallsInv
<1>2. new \in Accounts /\ new.email = call[c].email
  BY <1>1 DEF User!Insert, User!At, Sound, Accounts
<1>3. /\ users[i] = NoUser /\ users' = [users EXCEPT ![i] = new]
      /\ \A j \in Ids : users[j] # NoUser => users[j].email # new.email
  BY <1>2 DEF User!Insert, User!Rows
<1> HIDE DEF new
<1>4. users'[i] = new /\ \A j \in Ids \ {i} : users'[j] = users[j]
  BY <1>1, <1>3 DEF Table
<1>5. users' \in [Ids -> Accounts \cup {NoUser}]
  BY <1>1, <1>2, <1>3 DEF Table
<1>6. Table(users')
  BY <1>1, <1>3, <1>4, <1>5 DEF Table
<1>7. Grown(users, users')
  BY <1>3, <1>4 DEF Grown
<1>8. i \in RowsIn(users', call[c].email)
  BY <1>2, <1>4, AccountFields DEF RowsIn
<1> QED BY <1>4, <1>6, <1>7, <1>8 DEF new

\* CreateUser and the failures of the database.
LEMMA CreateKeeps ==
    ASSUME UserInv, NEW c \in Clients,
           \/ \E i \in Ids : User!InsertUser(c, i) \/ User!InsertReplyLost(c, i)
           \/ User!InsertRefused(c)
           \/ User!StatementFails(c)
    PROVE UserInv' /\ Moved(c)
<1>1. call[c] \in Calls /\ Sound(call[c], users) /\ Table(users) /\ CachesInv
  BY DEF UserInv, CallsInv
<1>2. ASSUME NEW i \in Ids, User!InsertUser(c, i) \/ User!InsertReplyLost(c, i)
      PROVE UserInv' /\ Moved(c)
  <2>1. /\ Table(users') /\ Grown(users, users')
        /\ users'[i] = [email |-> call[c].email, password |-> call[c].password]
        /\ i \in RowsIn(users', call[c].email)
    BY <1>2, InsertGrows DEF User!InsertUser, User!InsertReplyLost
  <2>2. call[c].pc = "insert" /\ call[c].op = "create"
    BY <1>1, <1>2 DEF User!InsertUser, User!InsertReplyLost, User!Insert, User!At, Sound
  <2>3. UNCHANGED <<hash, idOf>> /\ refills' \in {refills, refills \cup {<<i, "user">>}}
    BY <1>2 DEF User!InsertUser, User!InsertReplyLost
  <2>4. CachesInv'
    <3>1. users'[i] # NoUser
      BY <2>1 DEF RowsIn
    <3>2. CASE refills' = refills
      BY <1>1, <2>1, <2>3, <3>2, CachesKeep DEF CachesInv
    <3>3. CASE refills' = refills \cup {<<i, "user">>}
      BY <1>1, <2>1, <2>3, <3>1, <3>3, RefillKeeps
    <3> QED BY <2>3, <3>2, <3>3
  <2>5. ASSUME NEW code \in {"OK", "Internal"}, NEW id \in {i, NoUser}, code = "OK" => id = i,
               User!Answer(c, code, id)
        PROVE CallsInv' /\ Moved(c)
    <3> DEFINE next == Replying(call[c], code, id)
    <3>1. call' = [call EXCEPT ![c] = next]
      BY <2>5 DEF User!Answer, Replying
    <3>2. code \in User!Codes /\ id \in Ids \cup {NoUser}
      BY DEF User!Codes
    <3>3. /\ next \in Calls /\ next.pc = "answered" /\ next.code = code /\ next.id = id
          /\ next.op = call[c].op /\ next.email = call[c].email
          /\ next.password = call[c].password
      BY <1>1, <3>2, CallFields
    <3> HIDE DEF next
    <3>4. Sound(next, users')
      BY <2>1, <2>2, <2>5, <3>3 DEF Sound, Exact
    <3>5. Continues(call[c], next)
      BY <2>2, <3>3 DEF Continues
    <3> QED BY <2>1, <3>1, <3>3, <3>4, <3>5, CallKeeps DEF UserInv, Moved
  <2>6. User!Answer(c, "OK", i) \/ User!Answer(c, "Internal", NoUser)
    BY <1>2 DEF User!InsertUser, User!InsertReplyLost
  <2> QED BY <2>1, <2>4, <2>5, <2>6 DEF UserInv
<1>3. ASSUME User!InsertRefused(c) \/ User!StatementFails(c) PROVE UserInv' /\ Moved(c)
  <2>1. /\ User!Answer(c, "Internal", NoUser) /\ ~User!At(c, "none")
        /\ UNCHANGED <<users, hash, idOf, refills>>
    BY <1>3 DEF User!InsertRefused, User!StatementFails, User!At
  <2> QED BY <2>1, FailureKeeps
<1> QED BY <1>2, <1>3

\* A step of a handler keeps the invariant and goes on with its call.
LEMMA HandlerKeeps ==
    ASSUME UserInv, NEW c \in Clients, User!HandlerStep(c)
    PROVE UserInv' /\ Moved(c)
BY AuthorizeKeeps, GetKeeps, CreateKeeps DEF User!HandlerStep

\* A call stays as it is or goes on.
GoesOn(c) == call'[c] = call[c] \/ Continues(call[c], call'[c])

\* A handler's step is one call's.
LEMMA HandlerGoesOn ==
    ASSUME UserInv, NEW c \in Clients, Moved(c)
    PROVE \A d \in Clients : GoesOn(d)
<1>1. PICK next \in Calls : call' = [call EXCEPT ![c] = next] /\ Continues(call[c], next)
  BY DEF Moved
<1>2. call'[c] = next /\ \A d \in Clients \ {c} : call'[d] = call[d]
  BY <1>1 DEF UserInv, CallsInv
<1> QED BY <1>1, <1>2 DEF GoesOn

\* Goroutines, expiries and crashes leave the table and the answered calls
\* alone and write nothing into the caches but rows.
LEMMA CacheStepKeeps ==
    ASSUME UserInv, User!CacheStep
    PROVE UserInv' /\ \A c \in Clients : GoesOn(c)
<1>1. Table(users) /\ CachesInv /\ CallsInv
  BY DEF UserInv
<1>2. ASSUME UNCHANGED <<users, call>>, CachesInv'
      PROVE UserInv' /\ \A c \in Clients : GoesOn(c)
  BY <1>1, <1>2 DEF UserInv, CallsInv, GoesOn
<1>3. ASSUME NEW job \in refills, User!CacheUser(job) \/ User!CacheUserFails(job)
      PROVE UserInv' /\ \A c \in Clients : GoesOn(c)
  <2>1. job \in Jobs /\ job[1] \in Ids /\ users[job[1]] # NoUser
        /\ users[job[1]] \in Accounts \cup {NoUser}
    BY <1>1 DEF CachesInv, Jobs, Table
  <2>2. /\ UNCHANGED <<users, idOf, call>>
        /\ hash' = hash \/ hash' = [hash EXCEPT ![job[1]] = users[job[1]]]
        /\ \A next \in refills' : next \in refills \/ next = <<job[1], "address">>
    BY <1>3 DEF User!CacheUser, User!CacheUserFails, User!UserToMap, User!AfterUser
  <2>3. <<job[1], "address">> \in Jobs /\ <<job[1], "address">>[1] = job[1]
    BY <2>1 DEF Jobs
  <2>4. \A next \in refills' : next \in Jobs /\ users[next[1]] # NoUser
    BY <1>1, <2>1, <2>2, <2>3 DEF CachesInv
  <2>5. /\ hash' \in [Ids -> Accounts \cup {NoUser}]
        /\ \A i \in Ids : hash'[i] # NoUser => hash'[i] = users[i]
    BY <1>1, <2>1, <2>2 DEF CachesInv
  <2>6. CachesInv'
    BY <1>1, <2>2, <2>4, <2>5 DEF CachesInv, RowsIn
  <2> QED BY <1>2, <2>2, <2>6
<1>4. ASSUME NEW job \in refills, User!CacheAddress(job) \/ User!CacheAddressFails(job)
      PROVE UserInv' /\ \A c \in Clients : GoesOn(c)
  <2> DEFINE e == users[job[1]].email
  <2>1. job[1] \in Ids /\ users[job[1]] # NoUser /\ users[job[1]] \in Accounts
    BY <1>1 DEF CachesInv, Jobs, Table
  <2>2. job[1] \in RowsIn(users, e) /\ e \in Emails
    BY <2>1, AccountFields DEF RowsIn
  <2>3. /\ UNCHANGED <<users, hash, call>> /\ refills' \subseteq refills
        /\ idOf' = idOf \/ idOf' = [idOf EXCEPT ![e] = job[1]]
    BY <1>4 DEF User!CacheAddress, User!CacheAddressFails
  <2> HIDE DEF e
  <2>4. /\ idOf' \in [Emails -> Ids \cup {NoUser}]
        /\ \A f \in Emails : idOf'[f] # NoUser => idOf'[f] \in RowsIn(users, f)
    BY <1>1, <2>1, <2>2, <2>3 DEF CachesInv
  <2>5. CachesInv'
    BY <1>1, <2>3, <2>4 DEF CachesInv, RowsIn
  <2> QED BY <1>2, <2>3, <2>5
<1>5. ASSUME NEW i \in Ids, User!HashExpires(i)
      PROVE UserInv' /\ \A c \in Clients : GoesOn(c)
  <2>1. UNCHANGED <<users, idOf, refills, call>> /\ hash' = [hash EXCEPT ![i] = NoUser]
    BY <1>5 DEF User!HashExpires
  <2>2. CachesInv'
    BY <1>1, <2>1 DEF CachesInv, RowsIn
  <2> QED BY <1>2, <2>1, <2>2
<1>6. ASSUME NEW e \in Emails, User!AddressExpires(e)
      PROVE UserInv' /\ \A c \in Clients : GoesOn(c)
  <2>1. UNCHANGED <<users, hash, refills, call>> /\ idOf' = [idOf EXCEPT ![e] = NoUser]
    BY <1>6 DEF User!AddressExpires
  <2>2. CachesInv'
    BY <1>1, <2>1 DEF CachesInv, RowsIn
  <2> QED BY <1>2, <2>1, <2>2
<1>7. CASE User!Crash
  <2>1. UNCHANGED <<users, hash, idOf>> /\ refills' = {}
    BY <1>7 DEF User!Crash
  <2>2. CachesInv'
    BY <1>1, <2>1 DEF CachesInv, RowsIn
  <2>3. ASSUME NEW c \in Clients
        PROVE call'[c] \in Calls /\ Sound(call'[c], users) /\ GoesOn(c)
    <3>1. call[c] \in Calls /\ Sound(call[c], users)
      BY <1>1 DEF CallsInv
    <3>2. CASE User!At(c, "none") \/ User!At(c, "answered")
      <4>1. call'[c] = call[c]
        BY <1>7, <3>2 DEF User!Crash
      <4> QED BY <3>1, <4>1 DEF GoesOn
    <3>3. CASE ~(User!At(c, "none") \/ User!At(c, "answered"))
      <4> DEFINE next == [call[c] EXCEPT !.pc = "answered", !.code = "Unavailable"]
      <4>1. call'[c] = next
        BY <1>7, <3>3 DEF User!Crash
      <4>2. /\ next \in Calls /\ next.pc = "answered" /\ next.code = "Unavailable"
            /\ next.op = call[c].op
        BY <3>1 DEF Calls, User!Codes
      <4> HIDE DEF next
      <4>3. Sound(next, users)
        BY <4>2 DEF Sound, Exact
      <4>4. Continues(call[c], next)
        BY <3>3, <4>2 DEF Continues, User!At
      <4> QED BY <4>1, <4>2, <4>3, <4>4 DEF GoesOn
    <3> QED BY <3>2, <3>3
  <2>4. call' \in [Clients -> Calls]
    BY <1>7, <2>3 DEF User!Crash
  <2> QED BY <1>1, <2>1, <2>2, <2>3, <2>4 DEF UserInv, CallsInv
<1> QED BY <1>3, <1>4, <1>5, <1>6, <1>7 DEF User!CacheStep

\* Nobody's call.
LEMMA NoCallIsOne ==
    /\ User!NoCall \in Calls /\ User!NoCall.pc = "none" /\ User!NoCall.code = "none"
    /\ \A table : Sound(User!NoCall, table)
<1>1. User!NoCall \in Calls /\ User!NoCall.pc = "none" /\ User!NoCall.code = "none"
  BY DEF User!NoCall, Calls, User!Codes
<1> QED BY <1>1 DEF Sound

\* The caller takes the answer, or gives up.
LEMMA TakeKeeps ==
    ASSUME UserInv, NEW c \in Clients, call' = [call EXCEPT ![c] = User!NoCall],
           UNCHANGED <<users, hash, idOf, refills>>
    PROVE UserInv'
BY NoCallIsOne, OnlyCallKeeps

\* A call begins, of operation op, and for a user with that id.
Begun(c, op, id) ==
    /\ call[c].pc = "none"
    /\ call'[c].pc # "none" /\ call'[c].op = op
    /\ call'[c].code = "none"
    /\ op = "get" => call'[c].id = id
    /\ \A d \in Clients \ {c} : call'[d] = call[d]

\* What a call begins with is in the table.
LEMMA BeginKeeps ==
    ASSUME UserInv, NEW c \in Clients
    PROVE /\ \A e \in Emails, pw \in Passwords :
                /\ User!Authorize(c, e, pw) => UserInv' /\ Begun(c, "authorize", NoUser)
                /\ User!CreateUser(c, e, pw) => UserInv' /\ Begun(c, "create", NoUser)
          /\ \A i \in Ids : User!GetUser(c, i) => UserInv' /\ Begun(c, "get", i)
<1>1. ASSUME NEW i \in Ids \cup {NoUser}, NEW next \in Calls, next.pc # "none",
             next.code = "none", Sound(next, users),
             call[c].pc = "none", next.op = "get" => next.id = i,
             call' = [call EXCEPT ![c] = next], UNCHANGED <<users, hash, idOf, refills>>
      PROVE UserInv' /\ Begun(c, next.op, i)
  <2>1. UserInv'
    BY <1>1, OnlyCallKeeps
  <2>2. call'[c] = next /\ \A d \in Clients \ {c} : call'[d] = call[d]
    BY <1>1 DEF UserInv, CallsInv
  <2> QED BY <1>1, <2>1, <2>2 DEF Begun
<1>2. ASSUME NEW e \in Emails, NEW pw \in Passwords, User!Authorize(c, e, pw)
      PROVE UserInv' /\ Begun(c, "authorize", NoUser)
  <2> DEFINE known == User!Knows(e, pw)
             next == [User!NoCall EXCEPT !.pc = "address", !.op = "authorize", !.email = e,
                                         !.password = pw, !.known = known]
  <2>1. /\ call[c].pc = "none" /\ call' = [call EXCEPT ![c] = next]
        /\ UNCHANGED <<users, hash, idOf, refills>>
    BY <1>2 DEF User!Authorize, User!At
  <2>2. known \in BOOLEAN
    BY DEF User!Knows
  <2>3. known => \E j \in RowsIn(users, e) : users[j].password = pw
    BY DEF User!Knows, User!Rows, RowsIn
  <2> HIDE DEF known
  <2>4. /\ next \in Calls /\ next.pc = "address" /\ next.op = "authorize" /\ next.code = "none"
        /\ next.email = e /\ next.password = pw /\ next.known = known
    BY <2>2 DEF Calls, User!NoCall, User!Codes
  <2> HIDE DEF next
  <2>5. Sound(next, users)
    BY <2>3, <2>4 DEF Sound
  <2> QED BY <1>1, <2>1, <2>4, <2>5
<1>3. ASSUME NEW e \in Emails, NEW pw \in Passwords, User!CreateUser(c, e, pw)
      PROVE UserInv' /\ Begun(c, "create", NoUser)
  <2> DEFINE next == [User!NoCall EXCEPT !.pc = "insert", !.op = "create", !.email = e,
                                         !.password = pw]
  <2>1. /\ call[c].pc = "none" /\ call' = [call EXCEPT ![c] = next]
        /\ UNCHANGED <<users, hash, idOf, refills>>
    BY <1>3 DEF User!CreateUser, User!At
  <2>2. /\ next \in Calls /\ next.pc = "insert" /\ next.op = "create" /\ next.code = "none"
        /\ next.email = e /\ next.password = pw
    BY DEF Calls, User!NoCall, User!Codes
  <2> HIDE DEF next
  <2>3. Sound(next, users)
    BY <2>2 DEF Sound
  <2> QED BY <1>1, <2>1, <2>2, <2>3
<1>4. ASSUME NEW i \in Ids, User!GetUser(c, i) PROVE UserInv' /\ Begun(c, "get", i)
  <2> DEFINE known == users[i] # NoUser
             next == [User!NoCall EXCEPT !.pc = "get", !.op = "get", !.id = i, !.known = known]
  <2>1. /\ call[c].pc = "none" /\ call' = [call EXCEPT ![c] = next]
        /\ UNCHANGED <<users, hash, idOf, refills>>
    BY <1>4 DEF User!GetUser, User!At
  <2>2. known \in BOOLEAN /\ (known => users[i] # NoUser)
    OBVIOUS
  <2> HIDE DEF known
  <2>3. /\ next \in Calls /\ next.pc = "get" /\ next.op = "get" /\ next.code = "none"
        /\ next.id = i /\ next.known = known
    BY <2>2 DEF Calls, User!NoCall, User!Codes
  <2> HIDE DEF next
  <2>4. Sound(next, users)
    BY <2>2, <2>3 DEF Sound
  <2> QED BY <1>1, <2>1, <2>3, <2>4
<1> QED BY <1>2, <1>3, <1>4

-----------------------------------------------------------------------------
(* What the gateway's variables hold.                                      *)

Requests ==
    [pc : {"none", "limiting", "checking", "handling", "answered"}, route : Gateway!Routes,
     sub : Ids \cup {NoToken}, admitted : 0..MaxTime, status : Nat]

Times == 0..MaxTime

\* Every code that a service answers has a status.
LEMMA StatusOfCode ==
    /\ \A code \in {"OK", "Unauthenticated", "NotFound", "Internal", "Unavailable",
                    "FailedPrecondition", "InvalidArgument", "Aborted"} :
          Gateway!HTTPStatusFromGRPC[code] \in Nat
    /\ \A success \in Nat : Gateway!Statuses(success) \subseteq Nat
<1>1. /\ Gateway!HTTPStatusFromGRPC["OK"] = 200
      /\ Gateway!HTTPStatusFromGRPC["Unauthenticated"] = 401
      /\ Gateway!HTTPStatusFromGRPC["NotFound"] = 404
      /\ Gateway!HTTPStatusFromGRPC["Internal"] = 500
      /\ Gateway!HTTPStatusFromGRPC["Unavailable"] = 503
      /\ Gateway!HTTPStatusFromGRPC["FailedPrecondition"] = 400
      /\ Gateway!HTTPStatusFromGRPC["InvalidArgument"] = 400
      /\ Gateway!HTTPStatusFromGRPC["Aborted"] = 409
  BY DEF Gateway!HTTPStatusFromGRPC
<1>2. \A success \in Nat : Gateway!Statuses(success) \subseteq Nat
  BY <1>1 DEF Gateway!Statuses
<1> QED BY <1>1, <1>2

\* The limits are numbers.
LEMMA LimitsAreNumbers ==
    /\ Burst \in Nat /\ Rate \in Nat /\ TTL \in Nat /\ Leeway \in Nat
    /\ MaxRequests \in Nat /\ MaxTime \in Nat
    /\ NoToken \notin Gateway!Tokens
BY PartsAssumption DEF Gateway!NumbersAssumption, Gateway!NoTokenAssumption

\* One client's request becomes another.
LEMMA RequestBecomes ==
    ASSUME request \in [Clients -> Requests], NEW c \in Clients, NEW next \in Requests,
           request' = [request EXCEPT ![c] = next]
    PROVE /\ request' \in [Clients -> Requests]
          /\ request'[c] = next
          /\ \A d \in Clients \ {c} : request'[d] = request[d]
OBVIOUS

\* It is answered.
LEMMA ResponseIsRequest ==
    ASSUME request \in [Clients -> Requests], NEW c \in Clients, NEW status \in Nat,
           Gateway!Respond(c, status)
    PROVE /\ request' \in [Clients -> Requests]
          /\ request'[c].pc = "answered"
          /\ \A d \in Clients \ {c} : request'[d] = request[d]
<1>1. request' = [request EXCEPT ![c] = Answering(request[c], status)]
  BY DEF Gateway!Respond, Answering
<1>2. request[c] \in Requests
  OBVIOUS
<1>3. Answering(request[c], status) \in Requests /\ Answering(request[c], status).pc = "answered"
  BY <1>2 DEF Requests, Answering
<1> QED BY <1>1, <1>3, RequestBecomes

\* The routes whose handlers call user- or order-service.
Served == {"login", "register", "user", "order"}

\* Only c's request changes, and not one that is with those services.
Apart(c) ==
    /\ \A d \in Clients \ {c} : request'[d] = request[d]
    /\ request'[c] = request[c] \/ ~Gateway!Handles(c, Served)

\* The gateway's own steps keep its types and leave those requests alone.
LEMMA GatewayStepTyped ==
    ASSUME Gateway!TypeOK, Gateway!GatewayStep
    PROVE /\ Gateway!TypeOK'
          /\ \A c \in Clients : request'[c] = request[c] \/ ~Gateway!Handles(c, Served)
<1>0. /\ cookie \in [Clients -> Gateway!Tokens \cup {NoToken}]
      /\ request \in [Clients -> Requests]
      /\ bucket \in [Gateway!Addresses -> 0..Burst]
      /\ now \in Times
      /\ requestsLeft \in [Clients -> 0..MaxRequests]
      /\ logins \in [Clients -> SUBSET (Ids \X Times)]
  BY DEF Gateway!TypeOK, Requests, Times
<1>a. ASSUME /\ cookie' \in [Clients -> Gateway!Tokens \cup {NoToken}]
             /\ request' \in [Clients -> Requests]
             /\ bucket' \in [Gateway!Addresses -> 0..Burst]
             /\ now' \in Times
             /\ requestsLeft' \in [Clients -> 0..MaxRequests]
             /\ logins' \in [Clients -> SUBSET (Ids \X Times)]
      PROVE Gateway!TypeOK'
  BY <1>a DEF Gateway!TypeOK, Requests, Times, Gateway!Addresses
<1>1. ASSUME NEW c \in Clients, NEW route \in Gateway!Routes, Gateway!Send(c, route)
      PROVE Gateway!TypeOK' /\ Apart(c)
  <2> DEFINE next == [Gateway!NoRequest EXCEPT !.pc = "limiting", !.route = route]
  <2>1. /\ request' = [request EXCEPT ![c] = next]
        /\ requestsLeft[c] > 0 /\ requestsLeft' = [requestsLeft EXCEPT ![c] = @ - 1]
        /\ UNCHANGED <<cookie, bucket, now, logins>>
        /\ request[c].pc = "none"
    BY <1>1 DEF Gateway!Send, Gateway!At
  <2>2. next \in Requests
    <3>1. Gateway!NoRequest \in Requests
      BY LimitsAreNumbers DEF Requests, Gateway!NoRequest, Gateway!Routes
    <3> QED BY <3>1 DEF Requests
  <2> HIDE DEF next
  <2>3. request' \in [Clients -> Requests] /\ \A d \in Clients \ {c} : request'[d] = request[d]
    BY <1>0, <2>1, <2>2, RequestBecomes
  <2>4. requestsLeft' \in [Clients -> 0..MaxRequests]
    BY <1>0, <2>1, LimitsAreNumbers
  <2> QED BY <1>0, <1>a, <2>1, <2>3, <2>4 DEF Apart, Gateway!Handles, Gateway!At
<1>2. ASSUME NEW c \in Clients, Gateway!LimiterAllows(c)
      PROVE Gateway!TypeOK' /\ Apart(c)
  <2> DEFINE pc == IF request[c].route \in Gateway!Guarded THEN "checking" ELSE "handling"
             next == Passing(request[c], pc)
  <2>1. /\ request' = [request EXCEPT ![c] = next]
        /\ bucket[AddressOf[c]] > 0
        /\ bucket' = [bucket EXCEPT ![AddressOf[c]] = @ - 1]
        /\ UNCHANGED <<cookie, now, requestsLeft, logins>>
        /\ request[c].pc = "limiting"
    BY <1>2 DEF Gateway!LimiterAllows, Gateway!At, Passing
  <2>2. pc \in {"checking", "handling"} /\ request[c] \in Requests
    BY <1>0
  <2> HIDE DEF pc
  <2>3. next \in Requests
    BY <2>2 DEF Requests, Passing
  <2> HIDE DEF next
  <2>4. request' \in [Clients -> Requests] /\ \A d \in Clients \ {c} : request'[d] = request[d]
    BY <1>0, <2>1, <2>3, RequestBecomes
  <2>5. bucket' \in [Gateway!Addresses -> 0..Burst]
    <3>1. AddressOf[c] \in Gateway!Addresses
      BY DEF Gateway!Addresses
    <3> QED BY <1>0, <2>1, <3>1, LimitsAreNumbers
  <2> QED BY <1>0, <1>a, <2>1, <2>4, <2>5 DEF Apart, Gateway!Handles, Gateway!At
<1>3. ASSUME NEW c \in Clients, Gateway!Admit(c)
      PROVE Gateway!TypeOK' /\ Apart(c)
  <2> DEFINE next == Admitting(request[c], cookie[c].sub, now)
  <2>1. /\ request' = [request EXCEPT ![c] = next]
        /\ UNCHANGED <<cookie, bucket, now, requestsLeft, logins>>
        /\ request[c].pc = "checking" /\ cookie[c] # NoToken
    BY <1>3 DEF Gateway!Admit, Gateway!Valid, Gateway!At, Admitting
  <2>2. cookie[c] \in Gateway!Tokens /\ request[c] \in Requests
    BY <1>0, <2>1
  <2>3. cookie[c].sub \in Ids /\ now \in 0..MaxTime
    BY <1>0, <2>2 DEF Gateway!Tokens, Times
  <2>4. next \in Requests
    BY <2>2, <2>3 DEF Requests, Admitting
  <2> HIDE DEF next
  <2>5. request' \in [Clients -> Requests] /\ \A d \in Clients \ {c} : request'[d] = request[d]
    BY <1>0, <2>1, <2>4, RequestBecomes
  <2> QED BY <1>0, <1>a, <2>1, <2>5 DEF Apart, Gateway!Handles, Gateway!At
<1>4. ASSUME NEW c \in Clients,
             \/ Gateway!LimiterRefuses(c) \/ Gateway!LimiterFails(c) \/ Gateway!Reject(c)
             \/ Gateway!CartAnswered(c) \/ Gateway!ProductAnswered(c)
             \/ Gateway!CategoryAnswered(c) \/ Gateway!OpenAnswered(c)
      PROVE Gateway!TypeOK' /\ Apart(c)
  <2>1. UNCHANGED <<cookie, bucket, now, requestsLeft, logins>>
    BY <1>4 DEF Gateway!LimiterRefuses, Gateway!LimiterFails, Gateway!Reject,
                Gateway!CartAnswered, Gateway!ProductAnswered, Gateway!CategoryAnswered,
                Gateway!OpenAnswered
  <2>2. ~Gateway!Handles(c, Served)
    BY <1>4 DEF Gateway!LimiterRefuses, Gateway!LimiterFails, Gateway!Reject,
                Gateway!CartAnswered, Gateway!ProductAnswered, Gateway!CategoryAnswered,
                Gateway!OpenAnswered, Gateway!Handles, Gateway!At, Served
  <2>3. \E status \in Nat : Gateway!Respond(c, status)
    BY <1>4, StatusOfCode
       DEF Gateway!LimiterRefuses, Gateway!LimiterFails, Gateway!Reject,
           Gateway!CartAnswered, Gateway!ProductAnswered, Gateway!CategoryAnswered,
           Gateway!OpenAnswered, Gateway!ContextIsOver
  <2>4. request' \in [Clients -> Requests] /\ \A d \in Clients \ {c} : request'[d] = request[d]
    BY <1>0, <2>3, ResponseIsRequest
  <2> QED BY <1>0, <1>a, <2>1, <2>2, <2>4 DEF Apart
<1>5. ASSUME NEW c \in Clients, Gateway!Logout(c)
      PROVE Gateway!TypeOK' /\ Apart(c)
  <2>1. /\ cookie' = [cookie EXCEPT ![c] = NoToken]
        /\ UNCHANGED <<bucket, now, requestsLeft, logins>>
        /\ Gateway!Respond(c, 200) /\ ~Gateway!Handles(c, Served)
    BY <1>5 DEF Gateway!Logout, Gateway!Handles, Served
  <2>2. cookie' \in [Clients -> Gateway!Tokens \cup {NoToken}]
    BY <1>0, <2>1
  <2>3. request' \in [Clients -> Requests] /\ \A d \in Clients \ {c} : request'[d] = request[d]
    BY <1>0, <2>1, ResponseIsRequest
  <2> QED BY <1>0, <1>a, <2>1, <2>2, <2>3 DEF Apart
<1>6. ASSUME NEW c \in Clients, Gateway!CookieExpires(c)
      PROVE Gateway!TypeOK' /\ Apart(c)
  <2>1. /\ cookie' = [cookie EXCEPT ![c] = NoToken]
        /\ UNCHANGED <<request, bucket, now, requestsLeft, logins>>
    BY <1>6 DEF Gateway!CookieExpires
  <2>2. cookie' \in [Clients -> Gateway!Tokens \cup {NoToken}]
    BY <1>0, <2>1
  <2> QED BY <1>0, <1>a, <2>1, <2>2 DEF Apart
<1>7. ASSUME NEW c \in Clients, Gateway!Receive(c)
      PROVE Gateway!TypeOK' /\ Apart(c)
  <2>1. /\ request' = [request EXCEPT ![c] = Gateway!NoRequest]
        /\ UNCHANGED <<cookie, bucket, now, requestsLeft, logins>>
        /\ ~Gateway!Handles(c, Served)
    BY <1>7 DEF Gateway!Receive, Gateway!Handles, Gateway!At
  <2>2. Gateway!NoRequest \in Requests
    BY LimitsAreNumbers DEF Requests, Gateway!NoRequest, Gateway!Routes
  <2>3. request' \in [Clients -> Requests] /\ \A d \in Clients \ {c} : request'[d] = request[d]
    BY <1>0, <2>1, <2>2, RequestBecomes
  <2> QED BY <1>0, <1>a, <2>1, <2>3 DEF Apart
<1>8. CASE Gateway!Tick
  <2>1. /\ now < MaxTime /\ now' = now + 1
        /\ bucket' = [a \in Gateway!Addresses |->
                        IF bucket[a] + Rate < Burst THEN bucket[a] + Rate ELSE Burst]
        /\ UNCHANGED <<cookie, request, requestsLeft, logins>>
    BY <1>8 DEF Gateway!Tick
  <2>2. now' \in Times
    BY <1>0, <2>1, LimitsAreNumbers DEF Times
  <2>3. bucket' \in [Gateway!Addresses -> 0..Burst]
    BY <1>0, <2>1, LimitsAreNumbers
  <2> QED BY <1>0, <1>a, <2>1, <2>2, <2>3
<1> QED
  BY <1>1, <1>2, <1>3, <1>4, <1>5, <1>6, <1>7, <1>8 DEF Gateway!GatewayStep, Apart

\* Codes that an answer of user- or order-service has.
Replies == {"OK", "Unauthenticated", "NotFound", "Internal", "Unavailable", "FailedPrecondition"}

\* A served request is answered with one of them, for a user if it logs in.
Replied(c) ==
    \/ Gateway!BadBody(c)
    \/ \E code \in Replies :
        \/ Gateway!RegisterAnswered(c, code) \/ Gateway!UserAnswered(c, code)
        \/ Gateway!OrderAnswered(c, code)
        \/ \E id \in Ids \cup {NoUser} :
              (code = "OK" => id \in Ids) /\ Gateway!LoginAnswered(c, code, id)

\* An answer keeps the gateway's types.
LEMMA ReplyTyped ==
    ASSUME Gateway!TypeOK, NEW c \in Clients, Replied(c)
    PROVE Gateway!TypeOK' /\ \A d \in Clients \ {c} : request'[d] = request[d]
<1>0. /\ cookie \in [Clients -> Gateway!Tokens \cup {NoToken}]
      /\ request \in [Clients -> Requests] /\ now \in Times
      /\ logins \in [Clients -> SUBSET (Ids \X Times)]
  BY DEF Gateway!TypeOK, Requests, Times
<1>1. \A code \in Replies : Gateway!HTTPStatusFromGRPC[code] \in Nat
  BY StatusOfCode DEF Replies
<1>2. \E status \in Nat : Gateway!Respond(c, status)
  BY <1>1 DEF Replied, Gateway!BadBody, Gateway!RegisterAnswered, Gateway!UserAnswered,
              Gateway!OrderAnswered, Gateway!LoginAnswered
<1>3. request' \in [Clients -> Requests] /\ \A d \in Clients \ {c} : request'[d] = request[d]
  BY <1>0, <1>2, ResponseIsRequest
<1>4. UNCHANGED <<bucket, now, requestsLeft>>
  BY DEF Replied, Gateway!BadBody, Gateway!RegisterAnswered, Gateway!UserAnswered,
         Gateway!OrderAnswered, Gateway!LoginAnswered
<1>5. /\ cookie' \in [Clients -> Gateway!Tokens \cup {NoToken}]
      /\ logins' \in [Clients -> SUBSET (Ids \X Times)]
  <2>1. CASE UNCHANGED <<cookie, logins>>
    BY <1>0, <2>1
  <2>2. ASSUME NEW id \in Ids,
               cookie' = [cookie EXCEPT ![c] = Gateway!NewToken(id)],
               logins' = [logins EXCEPT ![c] = @ \cup {<<id, now>>}]
        PROVE /\ cookie' \in [Clients -> Gateway!Tokens \cup {NoToken}]
              /\ logins' \in [Clients -> SUBSET (Ids \X Times)]
    <3>1. now + TTL \in Nat
      BY <1>0, LimitsAreNumbers DEF Times
    <3>2. Gateway!NewToken(id) \in Gateway!Tokens
      BY <3>1 DEF Gateway!NewToken, Gateway!Tokens
    <3>3. logins[c] \cup {<<id, now>>} \in SUBSET (Ids \X Times)
      BY <1>0
    <3> QED BY <1>0, <2>2, <3>2, <3>3
  <2>3. \/ UNCHANGED <<cookie, logins>>
        \/ \E id \in Ids : /\ cookie' = [cookie EXCEPT ![c] = Gateway!NewToken(id)]
                           /\ logins' = [logins EXCEPT ![c] = @ \cup {<<id, now>>}]
    BY DEF Replied, Gateway!BadBody, Gateway!RegisterAnswered, Gateway!UserAnswered,
           Gateway!OrderAnswered, Gateway!LoginAnswered
  <2> QED BY <2>1, <2>2, <2>3
<1> QED BY <1>3, <1>4, <1>5 DEF Gateway!TypeOK, Requests, Times, Gateway!Addresses

-----------------------------------------------------------------------------
(* A request and the call that is made for it.                             *)

OpOf(route) ==
    IF route = "login" THEN "authorize" ELSE IF route = "register" THEN "create" ELSE "get"

\* A call is made for a request that is with its handler, of the operation that
\* the handler calls, and for an order it asks for the address of the token's
\* subject; the payment comes after it.
Joined(a, r, waits) ==
    /\ a.pc # "none" =>
        /\ r.pc = "handling" /\ r.route \in Served /\ ~waits /\ a.op = OpOf(r.route)
        /\ r.route = "order" /\ (a.pc = "get" \/ a.code = "OK") => a.id = r.sub
    /\ waits => r.pc = "handling" /\ r.route = "order"

FrontInv ==
    /\ GatewayInv /\ Gateway!TypeOK /\ UserInv
    /\ placing \in [Clients -> BOOLEAN]
    /\ \A c \in Clients : Joined(call[c], request[c], placing[c])

\* What a step does to the requests and calls of all others.
Others(c) ==
    \A d \in Clients \ {c} : /\ request'[d] = request[d] /\ call'[d] = call[d]
                             /\ placing'[d] = placing[d]

\* A step of one client's request keeps the invariant if its own parts do.
LEMMA JoinedKeeps ==
    ASSUME FrontInv, [Next]_vars, Gateway!TypeOK', UserInv', placing' \in [Clients -> BOOLEAN],
           NEW c \in Clients, Others(c), Joined(call'[c], request'[c], placing'[c])
    PROVE FrontInv'
<1>1. GatewayInv'
  BY GatewayKeeps DEF FrontInv
<1>2. \A d \in Clients : Joined(call'[d], request'[d], placing'[d])
  BY DEF FrontInv, Others
<1> QED BY <1>1, <1>2 DEF FrontInv

\* A call that is gone leaves its request alone.
LEMMA UncalledIsJoined ==
    ASSUME NEW a, NEW r, a.pc = "none"
    PROVE Joined(a, r, FALSE)
BY DEF Joined

\* Steps of the gateway or of user-service alone.
LEMMA SeparateKeeps ==
    ASSUME FrontInv, [Next]_vars, GatewayStep \/ UserStep
    PROVE FrontInv'
<1>0. /\ Gateway!TypeOK /\ UserInv /\ placing \in [Clients -> BOOLEAN]
      /\ \A c \in Clients : Joined(call[c], request[c], placing[c])
  BY DEF FrontInv
<1>1. GatewayInv'
  BY GatewayKeeps DEF FrontInv
<1>2. CASE GatewayStep
  <2>1. Gateway!GatewayStep /\ UNCHANGED <<users, hash, idOf, refills, call, placing>>
    BY <1>2 DEF GatewayStep, userVars, orderVars
  <2>2. /\ Gateway!TypeOK'
        /\ \A c \in Clients : request'[c] = request[c] \/ ~Gateway!Handles(c, Served)
    BY <1>0, <2>1, GatewayStepTyped
  <2>3. UserInv'
    BY <1>0, <2>1 DEF UserInv, CachesInv, CallsInv
  <2>4. \A c \in Clients : Joined(call'[c], request'[c], placing'[c])
    <3> SUFFICES ASSUME NEW c \in Clients PROVE Joined(call'[c], request'[c], placing'[c])
      OBVIOUS
    <3>1. CASE request'[c] = request[c]
      BY <1>0, <2>1, <3>1
    <3>2. CASE ~Gateway!Handles(c, Served)
      BY <1>0, <2>1, <3>2 DEF Joined, Gateway!Handles, Gateway!At, Served
    <3> QED BY <2>2, <3>1, <3>2
  <2> QED BY <1>0, <1>1, <2>1, <2>2, <2>3, <2>4 DEF FrontInv
<1>3. CASE UserStep
  <2>1. /\ UNCHANGED <<cookie, request, bucket, now, requestsLeft, logins, placing>>
        /\ User!CacheStep \/ \E c \in Clients : User!HandlerStep(c)
    BY <1>3 DEF UserStep, gatewayVars, orderVars
  <2>2. UserInv' /\ \A c \in Clients : GoesOn(c)
    BY <1>0, <2>1, CacheStepKeeps, HandlerKeeps, HandlerGoesOn
  <2>3. Gateway!TypeOK'
    BY <1>0, <2>1 DEF Gateway!TypeOK, Gateway!Addresses
  <2>4. \A c \in Clients : Joined(call'[c], request'[c], placing'[c])
    <3> SUFFICES ASSUME NEW c \in Clients PROVE Joined(call'[c], request[c], placing[c])
      BY <2>1
    <3>1. CASE call'[c] = call[c]
      BY <1>0, <3>1
    <3>2. CASE Continues(call[c], call'[c])
      BY <1>0, <3>2 DEF Continues, Joined, OpOf
    <3> QED BY <2>2, <3>1, <3>2 DEF GoesOn
  <2> QED BY <1>0, <1>1, <2>1, <2>2, <2>3, <2>4 DEF FrontInv
<1> QED BY <1>2, <1>3

\* The call of a request begins.
LEMMA CallingKeeps ==
    ASSUME FrontInv, [Next]_vars, NEW c \in Clients, CallUserService(c) \/ AskAddress(c)
    PROVE FrontInv'
<1>0. /\ Gateway!TypeOK /\ UserInv /\ placing \in [Clients -> BOOLEAN]
      /\ Joined(call[c], request[c], placing[c])
  BY DEF FrontInv
<1>1. UNCHANGED <<cookie, request, bucket, now, requestsLeft, logins, placing>>
  BY DEF CallUserService, AskAddress, gatewayVars, orderVars
<1>2. Gateway!TypeOK'
  BY <1>0, <1>1 DEF Gateway!TypeOK, Gateway!Addresses
<1>3. \E op, id : /\ UserInv' /\ Begun(c, op, id)
                  /\ request[c].pc = "handling" /\ request[c].route \in Served /\ ~placing[c]
                  /\ op = OpOf(request[c].route)
                  /\ request[c].route = "order" => id = request[c].sub
  <2>1. CASE CallUserService(c)
    <3>1. ASSUME request[c].route # "order" PROVE ~placing[c]
      BY <1>0, <3>1 DEF Joined
    <3>2. ASSUME NEW e \in Emails, NEW pw \in Passwords, Gateway!Handles(c, {"login"}),
                 User!Authorize(c, e, pw)
          PROVE /\ UserInv' /\ Begun(c, "authorize", NoUser)
                /\ request[c].pc = "handling" /\ request[c].route = "login"
      BY <1>0, <3>2, BeginKeeps DEF Gateway!Handles, Gateway!At
    <3>3. ASSUME NEW e \in Emails, NEW pw \in Passwords, Gateway!Handles(c, {"register"}),
                 User!CreateUser(c, e, pw)
          PROVE /\ UserInv' /\ Begun(c, "create", NoUser)
                /\ request[c].pc = "handling" /\ request[c].route = "register"
      BY <1>0, <3>3, BeginKeeps DEF Gateway!Handles, Gateway!At
    <3>4. ASSUME NEW i \in Ids, Gateway!Handles(c, {"user"}), User!GetUser(c, i)
          PROVE /\ UserInv' /\ Begun(c, "get", i)
                /\ request[c].pc = "handling" /\ request[c].route = "user"
      BY <1>0, <3>4, BeginKeeps DEF Gateway!Handles, Gateway!At
    <3> QED BY <2>1, <3>1, <3>2, <3>3, <3>4 DEF CallUserService, Served, OpOf
  <2>2. CASE AskAddress(c)
    <3>1. /\ request[c].pc = "handling" /\ request[c].route = "order" /\ ~placing[c]
          /\ User!GetUser(c, request[c].sub)
      BY <2>2 DEF AskAddress, Gateway!Handles, Gateway!At, Uncalled
    <3>2. request[c].sub \in Ids
      <4>1. request[c].route \in Gateway!Guarded
        BY <3>1 DEF Gateway!Guarded
      <4>2. PICK login \in logins[c] : login[1] = request[c].sub
        BY <3>1, <4>1 DEF FrontInv, GatewayInv, LoginOfRequest
      <4>3. logins[c] \in SUBSET (Ids \X (0..MaxTime))
        BY <1>0 DEF Gateway!TypeOK
      <4> QED BY <4>2, <4>3
    <3>3. UserInv' /\ Begun(c, "get", request[c].sub)
      BY <1>0, <3>1, <3>2, BeginKeeps
    <3> QED BY <3>1, <3>3 DEF Served, OpOf
  <2> QED BY <2>1, <2>2
<1>4. PICK op, id : /\ UserInv' /\ Begun(c, op, id)
                    /\ request[c].pc = "handling" /\ request[c].route \in Served /\ ~placing[c]
                    /\ op = OpOf(request[c].route)
                    /\ request[c].route = "order" => id = request[c].sub
  BY <1>3
<1>5. Joined(call'[c], request'[c], placing'[c])
  BY <1>1, <1>4 DEF Begun, Joined, OpOf
<1>6. Others(c)
  BY <1>1, <1>4 DEF Begun, Others
<1> QED BY <1>0, <1>1, <1>2, <1>4, <1>5, <1>6, JoinedKeeps

\* A request is answered without a call, or its call's answer is translated.
LEMMA ReturningKeeps ==
    ASSUME FrontInv, [Next]_vars, NEW c \in Clients,
           RefuseBody(c) \/ ReturnAnswer(c) \/ RefuseOrder(c)
    PROVE FrontInv'
<1>0. /\ Gateway!TypeOK /\ UserInv /\ placing \in [Clients -> BOOLEAN]
      /\ Joined(call[c], request[c], placing[c])
      /\ call \in [Clients -> Calls] /\ Sound(call[c], users)
  BY DEF FrontInv, UserInv, CallsInv
<1>1. UNCHANGED placing
  BY DEF RefuseBody, ReturnAnswer, RefuseOrder, orderVars
<1>2. /\ ~placing[c]
      /\ \/ call[c].pc = "none" /\ UNCHANGED <<users, hash, idOf, refills, call>>
         \/ User!Take(c)
  BY <1>0 DEF RefuseBody, ReturnAnswer, RefuseOrder, Uncalled, User!At, User!Take, Joined,
              userVars
<1>3. /\ UserInv' /\ call'[c].pc = "none"
      /\ \A d \in Clients \ {c} : call'[d] = call[d]
  <2>1. CASE call[c].pc = "none" /\ UNCHANGED <<users, hash, idOf, refills, call>>
    BY <1>0, <2>1 DEF UserInv, CachesInv, CallsInv
  <2>2. CASE User!Take(c)
    <3>1. call' = [call EXCEPT ![c] = User!NoCall] /\ UNCHANGED <<users, hash, idOf, refills>>
      BY <2>2 DEF User!Take
    <3>2. UserInv'
      BY <1>0, <3>1, TakeKeeps
    <3> QED BY <1>0, <3>1, <3>2, NoCallIsOne
  <2> QED BY <1>2, <2>1, <2>2
<1>4. User!Take(c) => /\ call[c].code \in Replies /\ call[c].id \in Ids \cup {NoUser}
                      /\ Exact(call[c], users)
  BY <1>0 DEF User!Take, User!At, Sound, Exact, Calls, User!Codes, Replies
<1>5. Replied(c)
  <2>1. CASE RefuseBody(c)
    BY <2>1 DEF RefuseBody, Replied
  <2>2. CASE ReturnAnswer(c)
    <3>1. User!Take(c) /\ call[c].pc = "answered"
      BY <2>2 DEF ReturnAnswer, User!Take, User!At
    <3>2. ASSUME Gateway!LoginAnswered(c, call[c].code, call[c].id), call[c].code = "OK"
          PROVE call[c].id \in Ids
      <4>1. call[c].op = "authorize"
        BY <1>0, <3>1, <3>2 DEF Gateway!LoginAnswered, Gateway!Handles, Joined, OpOf
      <4> QED BY <1>4, <3>1, <3>2, <4>1 DEF Exact, RowsIn
    <3> QED BY <1>4, <2>2, <3>1, <3>2 DEF ReturnAnswer, Replied
  <2>3. CASE RefuseOrder(c)
    <3>1. \E code \in Replies : Gateway!OrderAnswered(c, code)
      BY <2>3 DEF RefuseOrder, Replies
    <3> QED BY <3>1 DEF Replied
  <2> QED BY <2>1, <2>2, <2>3
<1>6. Gateway!TypeOK' /\ \A d \in Clients \ {c} : request'[d] = request[d]
  BY <1>0, <1>5, ReplyTyped
<1>7. Joined(call'[c], request'[c], placing'[c])
  <2>1. placing[c] = FALSE
    BY <1>0, <1>2
  <2> QED BY <1>1, <1>3, <2>1, UncalledIsJoined
<1>8. Others(c)
  BY <1>1, <1>3, <1>6 DEF Others
<1> QED BY <1>0, <1>1, <1>3, <1>6, <1>7, <1>8, JoinedKeeps

\* CreateOrder records the order, is paid, or its service is away.
LEMMA OrderingKeeps ==
    ASSUME FrontInv, [Next]_vars, NEW c \in Clients,
           \/ \E o \in Orders : RecordOrder(c, o)
           \/ PaymentAnswered(c) \/ OrderServiceAway(c)
    PROVE FrontInv'
<1>0. /\ Gateway!TypeOK /\ UserInv /\ placing \in [Clients -> BOOLEAN]
      /\ Joined(call[c], request[c], placing[c])
      /\ call \in [Clients -> Calls] /\ Sound(call[c], users)
  BY DEF FrontInv, UserInv, CallsInv
<1>1. ASSUME NEW code \in Replies, Gateway!OrderAnswered(c, code)
      PROVE Gateway!TypeOK' /\ \A d \in Clients \ {c} : request'[d] = request[d]
  BY <1>0, <1>1, ReplyTyped DEF Replied
<1>2. ASSUME call' = [call EXCEPT ![c] = User!NoCall], UNCHANGED <<users, hash, idOf, refills>>
      PROVE /\ UserInv' /\ call'[c].pc = "none"
            /\ \A d \in Clients \ {c} : call'[d] = call[d]
  BY <1>0, <1>2, TakeKeeps, NoCallIsOne
<1>3. ASSUME NEW o \in Orders, RecordOrder(c, o) PROVE FrontInv'
  <2>1. /\ call' = [call EXCEPT ![c] = User!NoCall] /\ UNCHANGED <<users, hash, idOf, refills>>
        /\ call[c].pc = "answered" /\ request[c].pc = "handling" /\ request[c].route = "order"
        /\ \/ Gateway!OrderAnswered(c, "Internal") /\ UNCHANGED placing
           \/ placing' = [placing EXCEPT ![c] = TRUE] /\ UNCHANGED gatewayVars
    BY <1>3 DEF RecordOrder, User!Take, User!At, Gateway!Handles, Gateway!At
  <2>2. ~placing[c]
    BY <1>0, <2>1 DEF Joined
  <2>3. /\ UserInv' /\ call'[c].pc = "none"
        /\ \A d \in Clients \ {c} : call'[d] = call[d]
    BY <1>2, <2>1
  <2>4. CASE Gateway!OrderAnswered(c, "Internal") /\ UNCHANGED placing
    <3>1. Gateway!TypeOK' /\ \A d \in Clients \ {c} : request'[d] = request[d]
      BY <1>1, <2>4 DEF Replies
    <3>2. placing'[c] = FALSE
      BY <1>0, <2>2, <2>4
    <3>3. Joined(call'[c], request'[c], placing'[c])
      BY <2>3, <3>2, UncalledIsJoined
    <3>4. Others(c)
      BY <2>3, <2>4, <3>1 DEF Others
    <3> QED BY <1>0, <2>3, <2>4, <3>1, <3>3, <3>4, JoinedKeeps
  <2>5. CASE placing' = [placing EXCEPT ![c] = TRUE] /\ UNCHANGED gatewayVars
    <3>1. UNCHANGED <<cookie, request, bucket, now, requestsLeft, logins>>
      BY <2>5 DEF gatewayVars
    <3>2. Gateway!TypeOK'
      BY <1>0, <3>1 DEF Gateway!TypeOK, Gateway!Addresses
    <3>3. /\ placing' \in [Clients -> BOOLEAN]
          /\ \A d \in Clients \ {c} : placing'[d] = placing[d]
      BY <1>0, <2>5
    <3>4. Joined(call'[c], request'[c], placing'[c])
      BY <2>1, <2>3, <3>1 DEF Joined
    <3>5. Others(c)
      BY <2>3, <3>1, <3>3 DEF Others
    <3> QED BY <2>3, <3>2, <3>3, <3>4, <3>5, JoinedKeeps
  <2> QED BY <2>1, <2>4, <2>5
<1>4. ASSUME PaymentAnswered(c) \/ OrderServiceAway(c) PROVE FrontInv'
  <2>1. /\ placing' = [placing EXCEPT ![c] = FALSE]
        /\ \E code \in Replies : Gateway!OrderAnswered(c, code)
    BY <1>4 DEF PaymentAnswered, OrderServiceAway, Replies
  <2>2. Gateway!TypeOK' /\ \A d \in Clients \ {c} : request'[d] = request[d]
    BY <1>1, <2>1
  <2>3. /\ UserInv' /\ call'[c].pc = "none"
        /\ \A d \in Clients \ {c} : call'[d] = call[d]
    <3>1. CASE PaymentAnswered(c)
      <4>1. placing[c] /\ UNCHANGED <<users, hash, idOf, refills, call>>
        BY <3>1 DEF PaymentAnswered, userVars
      <4>2. call[c].pc = "none"
        BY <1>0, <4>1 DEF Joined
      <4> QED BY <1>0, <4>1, <4>2 DEF UserInv, CachesInv, CallsInv
    <3>2. CASE OrderServiceAway(c)
      BY <1>2, <3>2 DEF OrderServiceAway
    <3> QED BY <1>4, <3>1, <3>2
  <2>4. /\ placing' \in [Clients -> BOOLEAN] /\ placing'[c] = FALSE
        /\ \A d \in Clients \ {c} : placing'[d] = placing[d]
    BY <1>0, <2>1
  <2>5. Joined(call'[c], request'[c], placing'[c])
    BY <2>3, <2>4, UncalledIsJoined
  <2>6. Others(c)
    BY <2>2, <2>3, <2>4 DEF Others
  <2> QED BY <2>2, <2>3, <2>4, <2>5, <2>6, JoinedKeeps
<1> QED BY <1>3, <1>4

\* The steps behind the outbox change nothing in front of it.
BehindOutbox ==
    \/ \E o \in Orders : BeginPublish(o) \/ EndPublish(o)
    \/ PublishSucceeds \/ LinkStep \/ LinkFails
    \/ InNotification(Notification!ServiceStep)

\* So they keep what they do not know of.
LEMMA BehindIsBehind ==
    ASSUME BehindOutbox \/ UNCHANGED vars
    PROVE UNCHANGED <<gatewayVars, userVars, placing, buyer>>
<1>1. ASSUME NEW o \in Orders, BeginPublish(o) \/ EndPublish(o)
      PROVE UNCHANGED <<gatewayVars, userVars, placing, buyer>>
  BY <1>1 DEF BeginPublish, EndPublish
<1>2. ASSUME \/ PublishSucceeds \/ LinkStep \/ LinkFails
             \/ InNotification(Notification!ServiceStep) \/ UNCHANGED vars
      PROVE UNCHANGED <<gatewayVars, userVars, placing, buyer>>
  BY <1>2 DEF PublishSucceeds, LinkStep, LinkFails, InNotification, vars, orderVars
<1> QED BY <1>1, <1>2 DEF BehindOutbox

\* Every step keeps the invariant of the front.
LEMMA FrontKeeps ==
    ASSUME FrontInv, [Next]_vars
    PROVE FrontInv'
<1>1. ASSUME BehindOutbox \/ UNCHANGED vars PROVE FrontInv'
  <2>1. /\ UNCHANGED <<cookie, request, bucket, now, requestsLeft, logins>>
        /\ UNCHANGED <<users, hash, idOf, refills, call, placing>>
    BY <1>1, BehindIsBehind DEF gatewayVars, userVars
  <2>2. GatewayInv'
    BY GatewayKeeps DEF FrontInv
  <2>3. Gateway!TypeOK'
    BY <2>1 DEF FrontInv, Gateway!TypeOK, Gateway!Addresses
  <2>4. UserInv'
    BY <2>1 DEF FrontInv, UserInv, CachesInv, CallsInv
  <2> QED BY <2>1, <2>2, <2>3, <2>4 DEF FrontInv
<1> QED
  BY <1>1, SeparateKeeps, CallingKeeps, ReturningKeeps, OrderingKeeps DEF Next, BehindOutbox

\* The front starts without a call.
LEMMA FrontInit ==
    ASSUME Init
    PROVE FrontInv
<1>1. PICK s \in Starts :
        /\ Gateway!Init /\ users = s.users
        /\ hash = [i \in Ids |-> NoUser] /\ idOf = [e \in Emails |-> NoUser]
        /\ refills = {} /\ call = [c \in Clients |-> User!NoCall]
        /\ placing = [c \in Clients |-> FALSE]
  BY DEF Init
<1>2. GatewayInv
  BY GatewayInit
<1>3. Gateway!TypeOK
  <2>1. Gateway!NoRequest \in Requests
    BY LimitsAreNumbers DEF Requests, Gateway!NoRequest, Gateway!Routes
  <2>2. /\ request \in [Clients -> Requests] /\ cookie \in [Clients -> {NoToken}]
        /\ bucket \in [Gateway!Addresses -> 0..Burst] /\ now \in 0..MaxTime
        /\ requestsLeft \in [Clients -> 0..MaxRequests]
        /\ logins \in [Clients -> SUBSET (Ids \X (0..MaxTime))]
    BY <1>1, <2>1, LimitsAreNumbers DEF Gateway!Init
  <2> QED BY <2>2 DEF Gateway!TypeOK, Requests
<1>4. Table(users)
  BY <1>1, StartsAssumption DEF Table
<1>5. CachesInv
  BY <1>1 DEF CachesInv
<1>6. CallsInv
  BY <1>1, NoCallIsOne DEF CallsInv
<1>7. \A c \in Clients : Joined(call[c], request[c], placing[c])
  <2> SUFFICES ASSUME NEW c \in Clients PROVE Joined(call[c], request[c], FALSE)
    BY <1>1
  <2> QED BY <1>1, NoCallIsOne, UncalledIsJoined
<1> QED BY <1>1, <1>2, <1>3, <1>4, <1>5, <1>6, <1>7 DEF FrontInv, UserInv

\* The answers of user-service are those of its table, whatever its caches
\* hold, miss or lose and whoever else is registering.
THEOREM AnswersAreThoseOfTheTable == Spec => []AnswersAreExact
<1>1. Init => FrontInv
  BY FrontInit
<1>2. FrontInv /\ [Next]_vars => FrontInv'
  BY FrontKeeps
<1>3. FrontInv => AnswersAreExact
  <2> SUFFICES ASSUME FrontInv, NEW c \in Clients, call[c].pc = "answered"
               PROVE /\ call[c].op = "authorize" =>
                          /\ call[c].code = "OK" => /\ call[c].id \in User!Rows(call[c].email)
                                                    /\ users[call[c].id].password = call[c].password
                          /\ call[c].code = "Unauthenticated" => ~call[c].known
                          /\ call[c].code = "Internal" => call[c].id = NoUser
                     /\ call[c].op = "get" =>
                          /\ call[c].code = "OK" => call[c].id \in User!Rows(call[c].email)
                          /\ call[c].code = "NotFound" => ~call[c].known
                     /\ call[c].op = "create" /\ call[c].code = "OK" =>
                          users[call[c].id] =
                            [email |-> call[c].email, password |-> call[c].password]
    BY DEF AnswersAreExact, User!AnswersAreExact, User!LoginIsExact, User!UsersAreAsStored,
           User!Answered, User!At
  <2>1. Exact(call[c], users)
    BY DEF FrontInv, UserInv, CallsInv, Sound
  <2>2. User!Rows(call[c].email) = RowsIn(users, call[c].email)
    BY DEF User!Rows, RowsIn
  <2> QED BY <2>1, <2>2 DEF Exact
<1> QED BY <1>1, <1>2, <1>3, PTL DEF Spec

-----------------------------------------------------------------------------
(* The mails.                                                              *)

\* A goroutine's delivery while it handles one.
Delivery == [pc : {"received", "acking"}, msg : Orders, live : BOOLEAN]

MailTyped ==
    /\ ready \in [Orders -> Nat] /\ dead \in [Orders -> Nat]
    /\ worker \in [Workers -> {Notification!Queue!Idle} \cup Delivery]
    /\ mails \in [Orders -> Nat]
    /\ faultsLeft \in 0..MaxFaults

\* Order o was published: its event is in the queue or with a handler, or a
\* mail was sent.
Known(o) == ready[o] > 0 \/ mails[o] > 0 \/ \E w \in Workers : worker[w].msg = o

\* A step that lets notification-service know no order.
Nothing == MailTyped' /\ \A o \in Orders : Known(o)' => Known(o)

\* An idle goroutine has no order.
LEMMA IdleHasNone ==
    /\ Notification!Queue!Idle.msg = NoOrder /\ Notification!Queue!Idle.pc = "idle"
    /\ Notification!Queue!Idle.live = FALSE
    /\ NoOrder \notin Orders
BY PartsAssumption DEF Notification!ConsumerAssumption, Notification!Queue!Idle

\* A goroutine that is at work has an order, which is known.
LEMMA BusyKnows ==
    ASSUME MailTyped, NEW w \in Workers,
           \/ \E pc \in {"received", "acking"} : worker[w].pc = pc
           \/ worker[w].live
    PROVE worker[w] \in Delivery /\ worker[w].msg \in Orders /\ Known(worker[w].msg)
<1>1. worker[w] \in {Notification!Queue!Idle} \cup Delivery
  BY DEF MailTyped
<1>2. worker[w] \in Delivery
  BY <1>1, IdleHasNone
<1> QED BY <1>2 DEF Delivery, Known

\* Redelivery counts the messages.
LEMMA HoldersAreFinite ==
    ASSUME NEW o
    PROVE /\ Notification!Queue!Cardinality(Notification!Queue!Holders(o)) \in Nat
          /\ Notification!Queue!Cardinality(Notification!Queue!Holders(o)) > 0
               => \E w \in Workers : Notification!Queue!Live(w) /\ worker[w].msg = o
<1> DEFINE H == Notification!Queue!Holders(o)
<1>1. H \in SUBSET Workers
  BY DEF Notification!Queue!Holders
<1>2. IsFiniteSet(H)
  <2>1. IsFiniteSet(Workers)
    BY PartsAssumption DEF Notification!ConsumerAssumption, Notification!IsFiniteSet, IsFiniteSet
  <2> QED BY <1>1, <2>1, FS_Subset
<1>3. Notification!Queue!Cardinality(H) = Cardinality(H)
  BY DEF Notification!Queue!Cardinality, Cardinality
<1>4. Cardinality(H) \in Nat /\ (Cardinality(H) = 0 <=> H = {})
  BY <1>2, FS_CardinalityType, FS_EmptySet
<1>5. H # {} => \E w \in Workers : Notification!Queue!Live(w) /\ worker[w].msg = o
  BY DEF Notification!Queue!Holders
<1> QED BY <1>3, <1>4, <1>5

\* A goroutine that has an order is done or goes on with it.
LEMMA WorkerStep ==
    ASSUME MailTyped, NEW w \in Workers, worker[w] \in Delivery, Known(worker[w].msg),
           \/ worker' = [worker EXCEPT ![w] = Notification!Queue!Idle]
           \/ worker' = [worker EXCEPT ![w] = [worker[w] EXCEPT !.pc = "acking"]],
           ready' = ready \/ ready' = [ready EXCEPT ![worker[w].msg] = @ + 1],
           mails' = mails \/ mails' = [mails EXCEPT ![worker[w].msg] = @ + 1],
           dead' = dead, faultsLeft' \in 0..MaxFaults
    PROVE Nothing
<1>1. worker[w].msg \in Orders /\ [worker[w] EXCEPT !.pc = "acking"] \in Delivery
      /\ [worker[w] EXCEPT !.pc = "acking"].msg = worker[w].msg
  BY DEF Delivery
<1>2. MailTyped'
  BY <1>1 DEF MailTyped
<1>3. ASSUME NEW o \in Orders, Known(o)' PROVE Known(o)
  <2>1. CASE o = worker[w].msg
    BY <2>1
  <2>2. CASE o # worker[w].msg
    <3>1. ready'[o] = ready[o] /\ mails'[o] = mails[o]
      BY <1>1, <2>2 DEF MailTyped
    <3>2. \A v \in Workers : worker'[v].msg = o => worker[v].msg = o
      BY <1>1, <2>2, IdleHasNone DEF MailTyped
    <3> QED BY <1>3, <3>1, <3>2 DEF Known
  <2> QED BY <2>1, <2>2
<1> QED BY <1>2, <1>3 DEF Nothing

\* notification-service knows the orders that were published and no others.
LEMMA MailStepKeeps ==
    ASSUME MailTyped, Notification!ServiceStep
    PROVE Nothing
<1>0. ASSUME Notification!Fault PROVE faultsLeft' \in 0..MaxFaults
  BY <1>0, PartsAssumption DEF MailTyped, Notification!Fault, Notification!ConsumerAssumption
<1>1. ASSUME NEW w \in Workers, NEW o \in Orders, Notification!ReceiveOrder(w, o)
      PROVE Nothing
  <2> DEFINE new == [pc |-> "received", msg |-> o, live |-> TRUE]
  <2>1. /\ ready[o] > 0 /\ ready' = [ready EXCEPT ![o] = @ - 1]
        /\ worker' = [worker EXCEPT ![w] = new]
        /\ UNCHANGED <<dead, mails, faultsLeft>>
    BY <1>1 DEF Notification!ReceiveOrder, Notification!Queue!Receive
  <2>2. new \in Delivery /\ new.msg = o
    BY DEF Delivery
  <2> HIDE DEF new
  <2>3. MailTyped'
    BY <2>1, <2>2 DEF MailTyped
  <2>4. ASSUME NEW p \in Orders, Known(p)' PROVE Known(p)
    <3>1. CASE p = o
      BY <2>1, <3>1 DEF Known
    <3>2. CASE p # o
      <4>1. ready'[p] = ready[p]
        BY <2>1, <3>2 DEF MailTyped
      <4>2. \A v \in Workers : worker'[v].msg = p => worker[v].msg = p
        BY <2>1, <2>2, <3>2 DEF MailTyped
      <4> QED BY <2>1, <2>4, <4>1, <4>2 DEF Known
    <3> QED BY <3>1, <3>2
  <2> QED BY <2>3, <2>4 DEF Nothing
<1>2. ASSUME NEW w \in Workers, Notification!HandlerStep(w) PROVE Nothing
  <2>1. \E pc \in {"received", "acking"} : worker[w].pc = pc
    BY <1>2 DEF Notification!HandlerStep, Notification!SendMail, Notification!MailFails,
                Notification!MailReplyLost, Notification!AckMail, Notification!Queue!At
  <2>2. worker[w] \in Delivery /\ worker[w].msg \in Orders /\ Known(worker[w].msg)
    BY <2>1, BusyKnows
  <2>3. /\ \/ worker' = [worker EXCEPT ![w] = Notification!Queue!Idle]
           \/ worker' = [worker EXCEPT ![w].pc = "acking"]
        /\ ready' = ready \/ ready' = [ready EXCEPT ![worker[w].msg] = @ + 1]
        /\ mails' = mails \/ mails' = [mails EXCEPT ![worker[w].msg] = @ + 1]
        /\ dead' = dead
    BY <1>2 DEF Notification!HandlerStep, Notification!SendMail, Notification!MailFails,
                Notification!MailReplyLost, Notification!AckMail, Notification!Mail,
                Notification!Queue!Advance, Notification!Queue!NackRequeue,
                Notification!Queue!Ack, Notification!Queue!Finish
  <2>4. faultsLeft' \in 0..MaxFaults
    BY <1>0, <1>2 DEF Notification!HandlerStep, Notification!SendMail, Notification!MailFails,
                      Notification!MailReplyLost, Notification!AckMail, MailTyped
  <2> QED BY <2>2, <2>3, <2>4, WorkerStep
<1>3. ASSUME UNCHANGED <<ready, dead, mails>>, Notification!Exit, faultsLeft' \in 0..MaxFaults
      PROVE Nothing
  <2>1. worker' = worker \/ worker' = [w \in Workers |-> Notification!Queue!Idle]
    BY <1>3 DEF Notification!Exit
  <2>2. MailTyped'
    BY <1>3, <2>1 DEF MailTyped
  <2>3. \A w \in Workers, o \in Orders : worker'[w].msg = o => worker[w].msg = o
    BY <2>1, IdleHasNone
  <2> QED BY <1>3, <2>2, <2>3 DEF Nothing, Known
<1>4. CASE Notification!ConnectionStep
  BY <1>3, <1>4 DEF Notification!ConnectionStep, MailTyped
<1>5. CASE Notification!DialFails
  BY <1>0, <1>3, <1>5 DEF Notification!DialFails
<1>6. ASSUME NEW c \in open, Notification!ConnectionDies(c) PROVE Nothing
  <2>1. /\ faultsLeft' \in 0..MaxFaults /\ UNCHANGED <<dead, mails>>
        /\ \/ UNCHANGED <<ready, worker>>
           \/ /\ ready' = Notification!Queue!Redelivered
              /\ worker' = [w \in Workers |->
                              IF Notification!Queue!Live(w)
                              THEN [worker[w] EXCEPT !.live = FALSE] ELSE worker[w]]
    BY <1>0, <1>6 DEF Notification!ConnectionDies, Notification!Queue!DropConnection,
                      Notification!queueVars
  <2>2. CASE UNCHANGED <<ready, worker>>
    BY <2>1, <2>2 DEF Nothing, MailTyped, Known
  <2>3. CASE /\ ready' = Notification!Queue!Redelivered
             /\ worker' = [w \in Workers |->
                             IF Notification!Queue!Live(w)
                             THEN [worker[w] EXCEPT !.live = FALSE] ELSE worker[w]]
    <3>1. ASSUME NEW w \in Workers
          PROVE /\ worker'[w] \in {Notification!Queue!Idle} \cup Delivery
                /\ worker'[w].msg = worker[w].msg
      <4>1. CASE Notification!Queue!Live(w)
        <5>1. worker[w] \in Delivery
          BY <4>1, BusyKnows DEF Notification!Queue!Live
        <5> QED BY <2>3, <4>1, <5>1 DEF Delivery
      <4>2. CASE ~Notification!Queue!Live(w)
        BY <2>3, <4>2 DEF MailTyped
      <4> QED BY <4>1, <4>2
    <3>2. ready' = [o \in Orders |->
                      ready[o] + Notification!Queue!Cardinality(Notification!Queue!Holders(o))]
      BY <2>3 DEF Notification!Queue!Redelivered
    <3>3. ready' \in [Orders -> Nat]
      BY <3>2, HoldersAreFinite DEF MailTyped
    <3>4. MailTyped'
      BY <2>1, <2>3, <3>1, <3>3 DEF MailTyped
    <3>5. ASSUME NEW o \in Orders, ready'[o] > 0 PROVE Known(o)
      <4>1. ready[o] \in Nat
        BY DEF MailTyped
      <4>2. ready[o] > 0 \/ Notification!Queue!Cardinality(Notification!Queue!Holders(o)) > 0
        BY <3>2, <3>5, <4>1, HoldersAreFinite
      <4> QED BY <4>2, HoldersAreFinite DEF Known
    <3>6. \A o \in Orders : Known(o)' => Known(o)
      BY <2>1, <3>1, <3>5 DEF Known
    <3> QED BY <3>4, <3>6 DEF Nothing
  <2> QED BY <2>1, <2>2, <2>3
<1> QED BY <1>1, <1>2, <1>4, <1>5, <1>6 DEF Notification!ServiceStep

-----------------------------------------------------------------------------
(* The orders.                                                             *)

\* A buyer is a user, with his address.
BuyerIn(b, table) ==
    b # NoBuyer => /\ b.user \in Ids /\ table[b.user] # NoUser
                   /\ table[b.user].email = b.email

OrderInv(o) ==
    /\ BuyerIn(buyer[o], users)
    /\ row[o] # "absent" => buyer[o] # NoBuyer
    /\ publishing = o \/ Known(o) => row[o] # "absent"

\* An order is recorded for its buyer before its event is there, published and
\* mailed; the publisher works for the outbox only.
OrdersInv ==
    /\ buyer \in [Orders -> Buyers \cup {NoBuyer}]
    /\ row \in [Orders -> {"absent", "pending", "settled"}]
    /\ copies \in [Orders -> Nat]
    /\ publishing \in Orders \cup {NoOrder}
    /\ accepted \in BOOLEAN
    /\ linkFaultsLeft \in 0..MaxFaults
    /\ \A o \in Orders : OrderInv(o)
    /\ publishing = NoOrder => link["publisher"].pc = "resting"

\* No row is changed or deleted.
LEMMA TableGrows ==
    ASSUME UserInv, [Next]_vars
    PROVE Grown(users, users')
<1>1. UNCHANGED users => Grown(users, users')
  BY DEF Grown
<1>2. CASE UserStep
  <2>1. ASSUME NEW c \in Clients, User!HandlerStep(c) PROVE Grown(users, users')
    <3>1. ASSUME NEW i \in Ids, User!InsertUser(c, i) \/ User!InsertReplyLost(c, i)
          PROVE Grown(users, users')
      BY <3>1, InsertGrows DEF User!InsertUser, User!InsertReplyLost
    <3> QED
      BY <1>1, <2>1, <3>1
         DEF User!HandlerStep, User!FindAddress, User!FindHash, User!MissCache, User!FindRow,
             User!GetFromCache, User!GetFromTable, User!InsertRefused, User!StatementFails
  <2>2. User!CacheStep => UNCHANGED users
    BY DEF User!CacheStep, User!CacheUser, User!CacheUserFails, User!CacheAddress,
           User!CacheAddressFails, User!HashExpires, User!AddressExpires, User!Crash
  <2> QED BY <1>1, <1>2, <2>1, <2>2 DEF UserStep
<1>3. ASSUME NEW c \in Clients,
             \/ RefuseBody(c) \/ CallUserService(c) \/ ReturnAnswer(c) \/ AskAddress(c)
             \/ RefuseOrder(c) \/ PaymentAnswered(c) \/ OrderServiceAway(c)
             \/ \E o \in Orders : RecordOrder(c, o)
      PROVE UNCHANGED users
  BY <1>3 DEF RefuseBody, CallUserService, ReturnAnswer, AskAddress, RefuseOrder,
              PaymentAnswered, OrderServiceAway, RecordOrder, User!Take, User!Authorize,
              User!CreateUser, User!GetUser, userVars
<1>4. GatewayStep => UNCHANGED users
  BY DEF GatewayStep, userVars
<1>5. BehindOutbox \/ UNCHANGED vars => UNCHANGED users
  BY BehindIsBehind DEF userVars
<1> QED BY <1>1, <1>2, <1>3, <1>4, <1>5 DEF Next, BehindOutbox

\* A buyer remains one.
LEMMA BuyersStay ==
    ASSUME UserInv, [Next]_vars, NEW b, BuyerIn(b, users)
    PROVE BuyerIn(b, users')
BY TableGrows DEF Grown, BuyerIn

\* A publisher at rest stays there until it is called.
LEMMA PublisherRests ==
    ASSUME LinkFacts!ConnectionInv, LinkStep \/ LinkFails, link["publisher"].pc = "resting"
    PROVE link'["publisher"].pc = "resting"
<1>1. link = [t \in {"consumer", "publisher"} |-> link[t]]
  BY DEF LinkFacts!ConnectionInv, LinkFacts!TypeOK
<1>2. ASSUME NEW t \in {"consumer", "publisher"}, Link!DialStep(t) \/ Link!DialFails(t)
      PROVE link'["publisher"] = link["publisher"]
  BY <1>1, <1>2 DEF Link!DialStep, Link!DialSucceeds, Link!AssignConnection, Link!AssignChannel,
                    Link!DialFails, Link!At, Link!Goto
<1>3. CASE Link!ConsumerStep
  BY <1>1, <1>3 DEF Link!ConsumerStep, Link!SetQos, Link!DeclareQueues, Link!SetupFails,
                    Link!JudgeSetupError, Link!Consume, Link!DeliveriesEnd, Link!Goto
<1>4. ASSUME NEW c \in linkOpen, Link!ConnectionDies(c) PROVE link' = link
  BY <1>4 DEF Link!ConnectionDies
<1>5. ~Link!PublishFails
  BY DEF Link!PublishFails, Link!At
<1> QED BY <1>2, <1>3, <1>4, <1>5 DEF LinkStep, LinkFails

\* An order is recorded for the user who asked for it.
LEMMA RecordKeeps ==
    ASSUME FrontInv, OrdersInv, MailTyped, [Next]_vars, NEW c \in Clients, NEW o \in Orders,
           RecordOrder(c, o)
    PROVE OrdersInv' /\ MailTyped'
<1>1. /\ buyer' = [buyer EXCEPT ![o] = Buyer(c)]
      /\ row[o] = "absent" /\ row' = [row EXCEPT ![o] = "pending"] /\ UNCHANGED copies
      /\ UNCHANGED <<publishing, accepted, linkFaultsLeft, link>>
      /\ UNCHANGED <<ready, worker, dead, mails, faultsLeft, users>>
  BY DEF RecordOrder, Outbox!Commit, linkVars, managerVars, mailVars, User!Take
<1>2. /\ request[c].route = "order" /\ call[c].pc = "answered" /\ call[c].code = "OK"
  BY DEF RecordOrder, Gateway!Handles, User!At
<1>3. call[c].op = "get" /\ call[c].id = request[c].sub /\ Exact(call[c], users)
  BY <1>2 DEF FrontInv, Joined, OpOf, UserInv, CallsInv, Sound
<1>4. /\ Buyer(c).user \in RowsIn(users, call[c].email)
      /\ Buyer(c).email = call[c].email /\ Buyer(c).user = request[c].sub
  BY <1>2, <1>3 DEF Exact, Buyer
<1>5. Buyer(c) \in Buyers /\ Buyer(c) # NoBuyer /\ BuyerIn(Buyer(c), users)
  <2>1. users[request[c].sub] \in Accounts /\ request[c].sub \in Ids
    BY <1>4 DEF RowsIn, FrontInv, UserInv, Table
  <2>2. call[c].email \in Emails
    BY <1>4, <2>1, AccountFields DEF RowsIn
  <2>3. Buyer(c) \in Buyers /\ BuyerIn(Buyer(c), users)
    BY <1>4, <2>1, <2>2 DEF Buyer, Buyers, BuyerIn, RowsIn
  <2>4. NoBuyer.user = NoUser
    BY DEF NoBuyer
  <2> QED BY <1>4, <2>1, <2>3, <2>4, AccountFields
<1> HIDE DEF Buyer
<1>6. /\ buyer' \in [Orders -> Buyers \cup {NoBuyer}]
      /\ row' \in [Orders -> {"absent", "pending", "settled"}]
      /\ buyer'[o] = Buyer(c) /\ row'[o] = "pending"
      /\ \A p \in Orders \ {o} : buyer'[p] = buyer[p] /\ row'[p] = row[p]
  BY <1>1, <1>5 DEF OrdersInv
<1>7. MailTyped' /\ \A p \in Orders : Known(p)' => Known(p)
  BY <1>1 DEF MailTyped, Known
<1>8. \A p \in Orders : OrderInv(p)'
  BY <1>1, <1>5, <1>6, <1>7 DEF OrdersInv, OrderInv
<1> QED BY <1>1, <1>6, <1>7, <1>8 DEF OrdersInv

\* The outbox publishes what was recorded.
LEMMA PublishKeeps ==
    ASSUME OrdersInv, MailTyped, LinkFacts!ConnectionInv, UNCHANGED <<users, buyer>>,
           \/ \E o \in Orders : BeginPublish(o) \/ EndPublish(o)
           \/ PublishSucceeds
    PROVE OrdersInv' /\ MailTyped'
<1>1. UNCHANGED <<worker, dead, mails, faultsLeft>>
  BY DEF BeginPublish, EndPublish, PublishSucceeds, mailVars, Notification!Queue!Enqueue
<1>2. ASSUME NEW o \in Orders, BeginPublish(o) PROVE OrdersInv' /\ MailTyped'
  <2>1. /\ row[o] = "pending" /\ publishing' = o
        /\ UNCHANGED <<row, copies, accepted, linkFaultsLeft, ready>>
    BY <1>2 DEF BeginPublish, mailVars
  <2>2. \A p \in Orders : Known(p)' => Known(p)
    BY <1>1, <2>1 DEF Known
  <2>3. \A p \in Orders : OrderInv(p)'
    BY <2>1, <2>2 DEF OrdersInv, OrderInv
  <2>4. publishing' # NoOrder
    BY <2>1, IdleHasNone
  <2> QED BY <1>1, <2>1, <2>3, <2>4 DEF OrdersInv, MailTyped
<1>3. ASSUME NEW o \in Orders, EndPublish(o) PROVE OrdersInv' /\ MailTyped'
  <2>1. /\ publishing = o /\ publishing' = NoOrder /\ accepted' = FALSE
        /\ link["publisher"].pc = "resting"
        /\ UNCHANGED <<link, ready, copies>>
        /\ row' = row \/ row' = [row EXCEPT ![o] = "settled"]
        /\ linkFaultsLeft' = linkFaultsLeft \/ LinkFault
    BY <1>3 DEF EndPublish, Link!At, managerVars, mailVars, Outbox!Settle
  <2>2. linkFaultsLeft' \in 0..MaxFaults
    BY <2>1, PartsAssumption DEF OrdersInv, LinkFault, Notification!ConsumerAssumption
  <2>3. \A p \in Orders : Known(p)' => Known(p)
    BY <1>1, <2>1 DEF Known
  <2>4. /\ row' \in [Orders -> {"absent", "pending", "settled"}]
        /\ \A p \in Orders : row'[p] = "absent" <=> row[p] = "absent"
    <3>1. row[o] # "absent"
      BY <2>1 DEF OrdersInv, OrderInv
    <3> QED BY <2>1, <3>1 DEF OrdersInv
  <2>5. \A p \in Orders : OrderInv(p)'
    BY <2>1, <2>3, <2>4, IdleHasNone DEF OrdersInv, OrderInv
  <2> QED BY <1>1, <2>1, <2>2, <2>4, <2>5 DEF OrdersInv, MailTyped
<1>4. CASE PublishSucceeds
  <2>1. /\ link["publisher"].pc = "publishing" /\ row[publishing] = "pending"
        /\ copies' = [copies EXCEPT ![publishing] = @ + 1]
        /\ ready' = [ready EXCEPT ![publishing] = @ + 1] /\ accepted' = TRUE
        /\ UNCHANGED <<row, publishing, linkFaultsLeft>>
    BY <1>4 DEF PublishSucceeds, Link!PublishSucceeds, Link!At, Outbox!Send,
                Notification!Queue!Enqueue
  <2>2. publishing \in Orders
    BY <2>1 DEF OrdersInv
  <2>3. ready' \in [Orders -> Nat] /\ copies' \in [Orders -> Nat]
    BY <2>1, <2>2 DEF OrdersInv, MailTyped
  <2>4. \A p \in Orders \ {publishing} : ready'[p] = ready[p]
    BY <2>1 DEF MailTyped
  <2>5. \A p \in Orders : Known(p)' => Known(p) \/ p = publishing
    BY <1>1, <2>4 DEF Known
  <2>6. \A p \in Orders : OrderInv(p)'
    BY <2>1, <2>5 DEF OrdersInv, OrderInv
  <2> QED BY <1>1, <2>1, <2>2, <2>3, <2>6, IdleHasNone DEF OrdersInv, MailTyped
<1> QED BY <1>2, <1>3, <1>4

\* Every step keeps the invariant of the orders.
LEMMA OrdersKeep ==
    ASSUME FrontInv, OrdersInv, MailTyped, LinkFacts!ConnectionInv, [Next]_vars
    PROVE OrdersInv' /\ MailTyped'
<1>0. UserInv
  BY DEF FrontInv
<1>1. ASSUME UNCHANGED <<buyer, row, copies, publishing, accepted>>,
             linkFaultsLeft' \in 0..MaxFaults,
             link["publisher"].pc = "resting" => link'["publisher"].pc = "resting",
             Nothing
      PROVE OrdersInv' /\ MailTyped'
  <2>1. \A o \in Orders : BuyerIn(buyer'[o], users')
    BY <1>0, <1>1, BuyersStay DEF OrdersInv, OrderInv
  <2>2. \A o \in Orders : OrderInv(o)'
    BY <1>1, <2>1 DEF OrdersInv, OrderInv, Nothing
  <2> QED BY <1>1, <2>2 DEF OrdersInv, Nothing
<1>2. ASSUME UNCHANGED mailVars PROVE Nothing
  BY <1>2 DEF mailVars, Nothing, MailTyped, Known
<1>3. ASSUME UNCHANGED <<buyer, eventVars, linkVars, mailVars>> PROVE OrdersInv' /\ MailTyped'
  <2>1. UNCHANGED <<row, copies, publishing, accepted, link, linkFaultsLeft>>
    BY <1>3 DEF eventVars, linkVars, managerVars
  <2> QED BY <1>1, <1>2, <1>3, <2>1 DEF OrdersInv
<1>4. ASSUME NEW c \in Clients,
             \/ RefuseBody(c) \/ CallUserService(c) \/ ReturnAnswer(c) \/ AskAddress(c)
             \/ RefuseOrder(c) \/ PaymentAnswered(c) \/ OrderServiceAway(c)
      PROVE UNCHANGED <<buyer, eventVars, linkVars, mailVars>>
  BY <1>4 DEF RefuseBody, CallUserService, ReturnAnswer, AskAddress, RefuseOrder,
              PaymentAnswered, OrderServiceAway, orderVars
<1>5. ASSUME GatewayStep \/ UserStep \/ UNCHANGED vars
      PROVE UNCHANGED <<buyer, eventVars, linkVars, mailVars>>
  BY <1>5 DEF GatewayStep, UserStep, vars, orderVars
<1>6. ASSUME LinkStep \/ LinkFails PROVE OrdersInv' /\ MailTyped'
  <2>1. UNCHANGED <<buyer, row, copies, publishing, accepted, mailVars>>
    BY <1>6 DEF LinkStep, LinkFails, orderVars, eventVars
  <2>2. linkFaultsLeft' \in 0..MaxFaults
    BY <1>6, PartsAssumption
       DEF LinkStep, LinkFails, LinkFault, OrdersInv, Notification!ConsumerAssumption
  <2> QED BY <1>1, <1>2, <1>6, <2>1, <2>2, PublisherRests
<1>7. CASE InNotification(Notification!ServiceStep)
  <2>1. /\ Notification!ServiceStep
        /\ UNCHANGED <<buyer, row, copies, publishing, accepted, link, linkFaultsLeft>>
    BY <1>7 DEF InNotification, orderVars, eventVars, linkVars, managerVars
  <2> QED BY <1>1, <2>1, MailStepKeeps DEF OrdersInv
<1>8. ASSUME (\E o \in Orders : BeginPublish(o) \/ EndPublish(o)) \/ PublishSucceeds
      PROVE OrdersInv' /\ MailTyped'
  <2>1. UNCHANGED <<users, buyer>>
    BY <1>8, BehindIsBehind DEF BehindOutbox, userVars
  <2> QED BY <1>8, <2>1, PublishKeeps
<1> QED BY <1>3, <1>4, <1>5, <1>6, <1>7, <1>8, RecordKeeps DEF Next

\* The orders of the start have buyers, and none of their events was sent.
LEMMA OrdersInit ==
    ASSUME Init
    PROVE OrdersInv /\ MailTyped
<1>1. PICK s \in Starts :
        /\ users = s.users /\ buyer = s.buyers
        /\ row = [o \in Orders |-> IF buyer[o] = NoBuyer THEN "absent" ELSE "pending"]
        /\ copies = [o \in Orders |-> 0] /\ publishing = NoOrder /\ accepted = FALSE
        /\ linkFaultsLeft = s.linkFaults /\ Link!Init /\ Notification!Init
  BY DEF Init
<1>2. /\ ready = [o \in Orders |-> 0] /\ dead = [o \in Orders |-> 0]
      /\ worker = [w \in Workers |-> Notification!Queue!Idle]
      /\ mails = [o \in Orders |-> 0] /\ faultsLeft \in 0..MaxFaults
  BY <1>1 DEF Notification!Init, Notification!Queue!QueueInit
<1>3. MailTyped
  BY <1>2 DEF MailTyped
<1>4. \A o \in Orders : ~Known(o)
  BY <1>2, IdleHasNone DEF Known
<1>5. link["publisher"].pc = "resting"
  BY <1>1 DEF Link!Init, Link!Starting
<1>6. ASSUME NEW o \in Orders PROVE OrderInv(o)
  <2>1. BuyerIn(buyer[o], users)
    <3> SUFFICES ASSUME s.buyers[o] # NoBuyer
                 PROVE /\ s.buyers[o].user \in Ids /\ s.users[s.buyers[o].user] # NoUser
                       /\ s.users[s.buyers[o].user].email = s.buyers[o].email
      BY <1>1 DEF BuyerIn
    <3>1. s.buyers[o] \in Buyers
      BY StartsAssumption
    <3> QED BY <3>1, StartsAssumption DEF Buyers
  <2> QED BY <1>1, <1>4, <2>1, IdleHasNone DEF OrderInv
<1>7. /\ buyer \in [Orders -> Buyers \cup {NoBuyer}]
      /\ linkFaultsLeft \in 0..MaxFaults
  BY <1>1, StartsAssumption
<1> QED BY <1>1, <1>3, <1>5, <1>6, <1>7 DEF OrdersInv

StoreInv == FrontInv /\ OrdersInv /\ MailTyped /\ ConnectionsInv

\* The parts keep the invariant of the whole.
LEMMA StoreKeeps == Spec => []StoreInv
<1>1. Init => StoreInv
  BY FrontInit, OrdersInit, ConnectionsKeep DEF StoreInv
<1>2. StoreInv /\ [Next]_vars => StoreInv'
  <2> SUFFICES ASSUME StoreInv, [Next]_vars PROVE StoreInv'
    OBVIOUS
  <2>1. FrontInv'
    BY FrontKeeps DEF StoreInv
  <2>2. OrdersInv' /\ MailTyped'
    BY OrdersKeep DEF StoreInv, ConnectionsInv
  <2>3. ConnectionsInv'
    BY ConnectionsKeep DEF StoreInv
  <2> QED BY <2>1, <2>2, <2>3 DEF StoreInv
<1> QED BY <1>1, <1>2, PTL DEF Spec

\* Every variable of the storefront keeps its type, whatever the clients, users
\* and orders of the start are and however many faults there are.
THEOREM StoreIsTyped == Spec => []TypeOK
<1>1. StoreInv => TypeOK
  <2> SUFFICES ASSUME StoreInv PROVE TypeOK
    OBVIOUS
  <2>1. User!TypeOK
    <3>1. Table(users) /\ CachesInv /\ CallsInv
      BY DEF StoreInv, FrontInv, UserInv
    <3>2. Accounts \subseteq User!Users
      BY AccountFields
    <3>3. /\ users \in [Ids -> User!Users \cup {NoUser}]
          /\ hash \in [Ids -> User!Users \cup {NoUser}]
      BY <3>1, <3>2 DEF Table, CachesInv
    <3> QED BY <3>1, <3>3 DEF CachesInv, CallsInv, Calls, Jobs, User!TypeOK
  <2>2. Link!TypeOK
    BY DEF StoreInv, ConnectionsInv, LinkFacts!ConnectionInv, LinkFacts!TypeOK, Link!TypeOK
  <2>3. Notification!TypeOK
    <3>1. Notification!Broker!TypeOK
      BY DEF StoreInv, ConnectionsInv, BrokerFacts!ConnectionInv, BrokerFacts!TypeOK,
             Notification!Broker!TypeOK
    <3> QED BY <3>1 DEF StoreInv, MailTyped, Delivery, Notification!TypeOK,
                        Notification!Queue!QueueTypeOK
  <2> QED BY <2>1, <2>2, <2>3 DEF StoreInv, FrontInv, OrdersInv, TypeOK
<1> QED BY <1>1, StoreKeeps, PTL

\* The mail of an order goes to the address of the user who placed it: through
\* the token, the look-up by order-service, the outbox and the queue.
THEOREM MailsReachBuyers == Spec => []MailsGoToBuyers
<1>1. StoreInv => MailsGoToBuyers
  <2> SUFFICES ASSUME StoreInv, NEW o \in Orders, mails[o] > 0
               PROVE /\ buyer[o] \in Buyers
                     /\ users[buyer[o].user] # NoUser
                     /\ users[buyer[o].user].email = buyer[o].email
    BY DEF MailsGoToBuyers
  <2>1. OrdersInv /\ OrderInv(o) /\ Known(o)
    BY DEF StoreInv, OrdersInv, Known
  <2>2. buyer[o] # NoBuyer
    BY <2>1 DEF OrderInv
  <2> QED BY <2>1, <2>2 DEF OrderInv, OrdersInv, BuyerIn
<1> QED BY <1>1, StoreKeeps, PTL

=============================================================================
