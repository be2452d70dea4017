----------------------------- MODULE Storefront -----------------------------
(***************************************************************************)
(* The way of a customer through the services: register and log in at the  *)
(* gateway, order with the token, and get the mail.  It joins ApiGateway,  *)
(* UserService and NotificationService with the part of order-service that *)
(* lies between them: the order is recorded for the token's subject with   *)
(* the address user-service has for it, its event is published over the    *)
(* connection that order-service's worker and consumer share, and the      *)
(* fanout exchange copies it to notification-service's queue.  The cart,   *)
(* the payment and the stock are those of CartService and Checkout: here   *)
(* they just answer.                                                       *)
(***************************************************************************)
EXTENDS Naturals, FiniteSets

CONSTANTS
    Clients, AddressOf, Emails, Passwords, Ids, NoUser, NoPassword, NoToken,
    Burst, Rate, TTL, Leeway, MaxRequests, MaxTime,
    Orders, NoOrder, Workers, Prefetch, MaxAttempts, MaxRetries, MaxDials, MaxFaults,
    Starts    \* bound: the users and orders of before, the requests and the faults
              \* of either process to come

VARIABLES
    cookie, request, bucket, now, requestsLeft, logins,
    users, hash, idOf, refills, call,
    placing,       \* order-service is between recording and payment, for this client
    buyer,         \* the user and the address each order was recorded with
    row, copies,   \* outbox_events of order-service
    publishing,    \* the event its worker is at
    accepted,      \* Publish has returned without an error
    linkDialed, linkOpen, linkConnection, linkChannel, link, linkQos, linkOvertaken,
    linkFaultsLeft,
    ready, worker, dead, mails, faultsLeft,
    dialed, open, connection, channel, task, qos, overtaken

gatewayVars == <<cookie, request, bucket, now, requestsLeft, logins>>
userVars == <<users, hash, idOf, refills, call>>
eventVars == <<row, copies, publishing, accepted>>
orderVars == <<placing, buyer, eventVars>>
managerVars == <<linkDialed, linkOpen, linkConnection, linkChannel, link, linkQos, linkOvertaken>>
linkVars == <<managerVars, linkFaultsLeft>>
connectionVars == <<dialed, open, connection, channel, task, qos, overtaken>>
mailVars == <<ready, worker, dead, mails, faultsLeft, connectionVars>>
vars == <<gatewayVars, userVars, orderVars, linkVars, mailVars>>

Gateway == INSTANCE ApiGateway WITH Subjects <- Ids

User == INSTANCE UserService WITH Callers <- Clients

Outbox == INSTANCE OutboxContract WITH Events <- Orders

\* The connection of order-service.
Link == INSTANCE RabbitConnection WITH
    Tasks <- {"consumer", "publisher"}, dialed <- linkDialed, open <- linkOpen,
    connection <- linkConnection, channel <- linkChannel, task <- link, qos <- linkQos,
    overtaken <- linkOvertaken

Notification == INSTANCE NotificationService

\* What the parts assume of their constants.
ASSUME PartsAssumption ==
    /\ Gateway!NumbersAssumption /\ Gateway!NoTokenAssumption
    /\ User!NothingAssumption
    /\ Link!TasksAssumption /\ Link!LimitsAssumption
    /\ Notification!ConsumerAssumption

Buyers == [user : Ids, email : Emails]

NoBuyer == [user |-> NoUser, email |-> NoUser]

Accounts == [email : Emails, password : Passwords]

\* What is there before came about the same way: the table has a password in every
\* row and an address in one, and an order has its buyer's address.
ASSUME StartsAssumption ==
    \A s \in Starts :
        /\ s.users \in [Ids -> Accounts \cup {NoUser}]
        /\ \A i, j \in Ids : /\ s.users[i] # NoUser /\ s.users[j] # NoUser
                            /\ s.users[i].email = s.users[j].email
                            => i = j
        /\ s.buyers \in [Orders -> Buyers \cup {NoBuyer}]
        /\ \A o \in Orders : s.buyers[o] # NoBuyer =>
              LET u == s.users[s.buyers[o].user] IN
              u # NoUser /\ u.email = s.buyers[o].email
        /\ s.linkFaults \in 0..MaxFaults

\* A user who was there before, with an order whose event is still to be sent.
Init ==
    \E s \in Starts :
        /\ Gateway!Init /\ requestsLeft = s.requests /\ now = s.now
        /\ users = s.users
        /\ hash = [i \in Ids |-> NoUser]
        /\ idOf = [e \in Emails |-> NoUser]
        /\ refills = {}
        /\ call = [c \in Clients |-> User!NoCall]
        /\ placing = [c \in Clients |-> FALSE]
        /\ buyer = s.buyers
        /\ row = [o \in Orders |-> IF buyer[o] = NoBuyer THEN "absent" ELSE "pending"]
        /\ copies = [o \in Orders |-> 0]
        /\ publishing = NoOrder
        /\ accepted = FALSE
        /\ Link!Init /\ Link!Consuming = (s.linkFaults = 0)
        /\ linkFaultsLeft = s.linkFaults
        /\ Notification!Init /\ Notification!Broker!Consuming = (s.faults = 0)
        /\ faultsLeft = s.faults

-----------------------------------------------------------------------------
(* The gateway and user-service.                                           *)

GatewayStep ==
    /\ Gateway!GatewayStep
    /\ UNCHANGED <<userVars, orderVars, linkVars, mailVars>>

\* No call was made for the request yet.
Uncalled(c) == User!At(c, "none") /\ ~placing[c]

RefuseBody(c) ==
    /\ Uncalled(c)
    /\ Gateway!BadBody(c)
    /\ UNCHANGED <<userVars, orderVars, linkVars, mailVars>>

CallUserService(c) ==
    /\ \/ /\ Gateway!Handles(c, {"login"})
          /\ \E e \in Emails, pw \in Passwords : User!Authorize(c, e, pw)
       \/ /\ Gateway!Handles(c, {"register"})
          /\ \E e \in Emails, pw \in Passwords : User!CreateUser(c, e, pw)
       \/ /\ Gateway!Handles(c, {"user"})
          /\ \E i \in Ids : User!GetUser(c, i)
    /\ UNCHANGED <<gatewayVars, orderVars, linkVars, mailVars>>

ReturnAnswer(c) ==
    /\ User!Take(c)
    /\ LET a == call[c] IN
       \/ Gateway!LoginAnswered(c, a.code, a.id)
       \/ Gateway!RegisterAnswered(c, a.code)
       \/ Gateway!UserAnswered(c, a.code)
    /\ UNCHANGED <<orderVars, linkVars, mailVars>>

UserStep ==
    /\ User!CacheStep \/ \E c \in Clients : User!HandlerStep(c)
    /\ UNCHANGED <<gatewayVars, orderVars, linkVars, mailVars>>

-----------------------------------------------------------------------------
(* CreateOrder of order-service.                                           *)

\* getCart has answered; getUserEmail asks for the address of the subject.
AskAddress(c) ==
    /\ ~Link!Stopped
    /\ Gateway!Handles(c, {"order"}) /\ Uncalled(c)
    /\ User!GetUser(c, request[c].sub)
    /\ UNCHANGED <<gatewayVars, orderVars, linkVars, mailVars>>

\* No cart, no answer, or the transaction is rolled back: nothing is recorded.
RefuseOrder(c) ==
    /\ Gateway!Handles(c, {"order"})
    /\ \/ /\ Uncalled(c) /\ UNCHANGED userVars
          /\ \E code \in {"FailedPrecondition", "Unavailable", "Internal"} :
                Gateway!OrderAnswered(c, code)
       \/ /\ User!Take(c)
          /\ Gateway!OrderAnswered(c, CASE call[c].code = "NotFound" -> "FailedPrecondition"
                                        [] call[c].code = "Unavailable" -> "Unavailable"
                                        [] OTHER -> "Internal")
    /\ UNCHANGED <<orderVars, linkVars, mailVars>>

BugBuyer(c) == [user |-> CHOOSE i \in Ids : users[i] # NoUser, email |-> call[c].email]

\* Whose order it is, and where the mail goes.
Buyer(c) == [user |-> request[c].sub, email |-> call[c].email]

\* The transaction of the order and its event; the answer may be lost.
RecordOrder(c, o) ==
    /\ ~Link!Stopped
    /\ Gateway!Handles(c, {"order"}) /\ User!At(c, "answered") /\ call[c].code = "OK"
    /\ User!Take(c)
    /\ buyer' = [buyer EXCEPT ![o] = Buyer(c)]
    /\ Outbox!Commit(o)
    /\ \/ Gateway!OrderAnswered(c, "Internal") /\ UNCHANGED placing
       \/ placing' = [placing EXCEPT ![c] = TRUE] /\ UNCHANGED gatewayVars
    /\ UNCHANGED <<publishing, accepted, linkVars, mailVars>>

PaymentAnswered(c) ==
    /\ placing[c]
    /\ placing' = [placing EXCEPT ![c] = FALSE]
    /\ \E code \in {"OK", "FailedPrecondition", "Unavailable", "Internal"} :
          Gateway!OrderAnswered(c, code)
    /\ UNCHANGED <<userVars, buyer, eventVars, linkVars, mailVars>>

\* Its consumer has returned an error: order-service has exited.
OrderServiceAway(c) ==
    /\ Link!Stopped
    /\ Gateway!Handles(c, {"order"})
    /\ call' = [call EXCEPT ![c] = User!NoCall]
    /\ placing' = [placing EXCEPT ![c] = FALSE]
    /\ Gateway!OrderAnswered(c, "Unavailable")
    /\ UNCHANGED <<users, hash, idOf, refills, buyer, eventVars, linkVars, mailVars>>

-----------------------------------------------------------------------------
(* The worker and the connection of order-service.                         *)

LinkFault == linkFaultsLeft > 0 /\ linkFaultsLeft' = linkFaultsLeft - 1

BeginPublish(o) ==
    /\ ~Link!Stopped
    /\ publishing = NoOrder /\ row[o] = "pending"
    /\ publishing' = o
    /\ Link!BeginPublish
    /\ UNCHANGED linkFaultsLeft
    /\ UNCHANGED <<gatewayVars, userVars, placing, buyer, row, copies, accepted, mailVars>>

\* The exchange puts a copy into notification-service's queue.
PublishSucceeds ==
    /\ ~Link!Stopped
    /\ Link!PublishSucceeds
    /\ Outbox!Send(publishing)
    /\ Notification!Queue!Enqueue(publishing, 1)
    /\ accepted' = TRUE
    /\ UNCHANGED <<gatewayVars, userVars, placing, buyer, publishing, linkFaultsLeft, mails,
                   faultsLeft, connectionVars>>

\* Publish has returned.  The row is marked, or the mark fails and, like after
\* an error of Publish, it stays for the next poll.
EndPublish(o) ==
    /\ ~Link!Stopped
    /\ publishing = o /\ Link!At("publisher", "resting")
    /\ publishing' = NoOrder
    /\ accepted' = FALSE
    /\ \/ accepted /\ Outbox!Settle(o) /\ UNCHANGED linkFaultsLeft
       \/ accepted /\ LinkFault /\ UNCHANGED <<row, copies>>
       \/ ~accepted /\ UNCHANGED <<row, copies, linkFaultsLeft>>
    /\ UNCHANGED <<gatewayVars, userVars, placing, buyer, managerVars, mailVars>>

LinkStep ==
    /\ ~Link!Stopped
    /\ \/ \E t \in {"consumer", "publisher"} : Link!DialStep(t)
       \/ Link!ConsumerStep
       \/ Link!PublishFails
    /\ UNCHANGED <<gatewayVars, userVars, orderVars, linkFaultsLeft, mailVars>>

LinkFails ==
    /\ ~Link!Stopped
    /\ LinkFault
    /\ \/ \E t \in {"consumer", "publisher"} : Link!DialFails(t)
       \/ \E c \in linkOpen : Link!ConnectionDies(c)
    /\ UNCHANGED <<gatewayVars, userVars, orderVars, mailVars>>

-----------------------------------------------------------------------------
(* notification-service.                                                   *)

InNotification(Step) == Step /\ UNCHANGED <<gatewayVars, userVars, orderVars, linkVars>>

-----------------------------------------------------------------------------

Next ==
    \/ GatewayStep
    \/ UserStep
    \/ \E c \in Clients :
        \/ RefuseBody(c) \/ CallUserService(c) \/ ReturnAnswer(c)
        \/ AskAddress(c) \/ RefuseOrder(c) \/ PaymentAnswered(c) \/ OrderServiceAway(c)
        \/ \E o \in Orders : RecordOrder(c, o)
    \/ \E o \in Orders : BeginPublish(o) \/ EndPublish(o)
    \/ PublishSucceeds \/ LinkStep \/ LinkFails
    \/ InNotification(Notification!ServiceStep)

Spec == Init /\ [][Next]_vars

\* The goroutines of both connections and the handlers of the mails go on;
\* nothing is assumed of the clients, and faults are as rare as their bound.
FairSpec ==
    /\ Spec
    /\ WF_vars(\E o \in Orders : BeginPublish(o) \/ EndPublish(o))
    /\ WF_vars(PublishSucceeds) /\ WF_vars(LinkStep)
    /\ WF_vars(InNotification(Notification!ConnectionStep))
    /\ WF_vars(InNotification(\E w \in Workers, o \in Orders : Notification!ReceiveOrder(w, o)))
    /\ WF_vars(InNotification(\E w \in Workers :
                  Notification!SendMail(w) \/ Notification!AckMail(w)))

-----------------------------------------------------------------------------
(* Properties.                                                             *)

\* Every variable has its type.
TypeOK ==
    /\ Gateway!TypeOK /\ User!TypeOK /\ Link!TypeOK /\ Notification!TypeOK
    /\ placing \in [Clients -> BOOLEAN]
    /\ buyer \in [Orders -> Buyers \cup {NoBuyer}]
    /\ row \in [Orders -> {"absent", "pending", "settled"}]
    /\ copies \in [Orders -> Nat]
    /\ publishing \in Orders \cup {NoOrder}
    /\ accepted \in BOOLEAN
    /\ linkFaultsLeft \in 0..MaxFaults

\* Users are told apart by their tokens all the way: the mail of an order goes
\* to the address of the user who placed it.
MailsGoToBuyers ==
    \A o \in Orders : mails[o] > 0 =>
        /\ buyer[o] \in Buyers
        /\ users[buyer[o].user] # NoUser
        /\ users[buyer[o].user].email = buyer[o].email

\* UserService's and ApiGateway's properties of their answers.
AnswersAreExact == User!AnswersAreExact
GuardedRequestsHaveALogin == Gateway!GuardedRequestsHaveALogin

\* RabbitConnection's property, of a process with a publisher and of one without.
SubscriptionFaultsAreRaces ==
    Link!SubscriptionFaultsAreRaces /\ Notification!Broker!SubscriptionFaultsAreRaces

\* Every recorded order is mailed, unless one of the two services has given its
\* subscription up and exited.
MailedOrStopped ==
    \A o \in Orders :
        buyer[o] # NoBuyer ~> mails[o] > 0 \/ Link!Stopped \/ Notification!Broker!Stopped

=============================================================================
