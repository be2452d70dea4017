----------------------------- MODULE ApiGateway -----------------------------
(***************************************************************************)
(* api-gateway: every request passes the rate limiter, then, on a guarded  *)
(* route, the check of the token in the cookie, and only then its handler, *)
(* which makes one gRPC call and translates the answer.  The gateway       *)
(* keeps no session: what a login leaves is in the client's cookie, and a  *)
(* logout only clears it there.                                            *)
(*                                                                         *)
(* The limiter wraps the routes, so it never sees the claims: it counts by *)
(* address, with the limits of unknown clients.  A client has one request  *)
(* at a time.                                                              *)
(***************************************************************************)
EXTENDS Naturals

CONSTANTS
    Clients,
    AddressOf,     \* the address each client comes from
    Subjects,      \* ids of users
    NoToken,
    Burst, Rate,   \* RATE_LIMITER_UNKNOWN_BURST and _RPS
    TTL, Leeway,   \* of tokens, in seconds like Rate
    MaxRequests,   \* bound: requests of one client
    MaxTime        \* bound: seconds

NumbersAssumption ==
    {Burst, Rate, TTL, Leeway, MaxRequests, MaxTime} \subseteq Nat

Tokens == [sub : Subjects, exp : Nat]

NoTokenAssumption == NoToken \notin Tokens /\ NoToken \notin Subjects

VARIABLES
    cookie,        \* what each client keeps
    request,       \* the request of each client
    bucket,        \* requests each address may still make at once, in Redis
    now,
    requestsLeft,
    logins         \* history: the successful logins of each client, and when

gatewayVars == <<cookie, request, bucket, now, requestsLeft, logins>>

Addresses == {AddressOf[c] : c \in Clients}

\* "cart" and "order" are all routes of their handlers, "product", "category" and
\* "user" those that read and "edit..." those that write; "open" is the search
\* and the health check.
Routes == {"login", "logout", "register", "user", "order", "cart",
           "product", "editProduct", "category", "editCategory", "open"}

\* The routes behind authMiddleware.
Guarded == {"user", "order", "cart", "editProduct", "editCategory"}

NoRequest == [pc |-> "none", route |-> "open", sub |-> NoToken, admitted |-> 0, status |-> 0]

Init ==
    /\ cookie = [c \in Clients |-> NoToken]
    /\ request = [c \in Clients |-> NoRequest]
    /\ bucket = [a \in Addresses |-> Burst]
    /\ now \in 0..MaxTime
    /\ requestsLeft \in [Clients -> 0..MaxRequests]
    /\ logins = [c \in Clients |-> {}]

At(c, pc) == request[c].pc = pc

\* The request is with its handler, on one of the routes.
Handles(c, routes) == At(c, "handling") /\ request[c].route \in routes

Respond(c, status) ==
    request' = [request EXCEPT ![c].pc = "answered", ![c].status = status]

HTTPStatusFromGRPC ==
    [OK |-> 200, Canceled |-> 499, Unknown |-> 500, InvalidArgument |-> 400,
     DeadlineExceeded |-> 504, NotFound |-> 404, AlreadyExists |-> 409, PermissionDenied |-> 403,
     ResourceExhausted |-> 429, FailedPrecondition |-> 400, Aborted |-> 409, OutOfRange |-> 400,
     Unimplemented |-> 501, Internal |-> 500, Unavailable |-> 503, DataLoss |-> 500,
     Unauthenticated |-> 401]

\* What a service answers that is not modelled here: the handler's own status on
\* success, or the translated error.
Statuses(success) ==
    {success} \cup {HTTPStatusFromGRPC[code] :
        code \in {"InvalidArgument", "NotFound", "Aborted", "Internal", "Unavailable"}}

\* CheckContext: the client has gone away, or its deadline has passed.
ContextIsOver == {499, 504}

-----------------------------------------------------------------------------
(* The limiter.                                                            *)

Send(c, route) ==
    /\ At(c, "none")
    /\ requestsLeft[c] > 0
    /\ requestsLeft' = [requestsLeft EXCEPT ![c] = @ - 1]
    /\ request' = [request EXCEPT ![c] = [NoRequest EXCEPT !.pc = "limiting", !.route = route]]
    /\ UNCHANGED <<cookie, bucket, now, logins>>

BugLimiterAllows(c) ==
    /\ At(c, "limiting")
    /\ bucket' = [bucket EXCEPT ![AddressOf[c]] = @ - 1]
    /\ request' = [request EXCEPT
                     ![c].pc = IF request[c].route \in Guarded THEN "checking" ELSE "handling"]
    /\ UNCHANGED <<cookie, now, requestsLeft, logins>>

\* limiter.Allow: Redis takes one from the bucket.
LimiterAllows(c) ==
    /\ At(c, "limiting")
    /\ bucket[AddressOf[c]] > 0
    /\ bucket' = [bucket EXCEPT ![AddressOf[c]] = @ - 1]
    /\ request' = [request EXCEPT
                     ![c].pc = IF request[c].route \in Guarded THEN "checking" ELSE "handling"]
    /\ UNCHANGED <<cookie, now, requestsLeft, logins>>

LimiterRefuses(c) ==
    /\ At(c, "limiting")
    /\ bucket[AddressOf[c]] = 0
    /\ Respond(c, 429)
    /\ UNCHANGED <<cookie, bucket, now, requestsLeft, logins>>

\* Redis is away.
LimiterFails(c) ==
    /\ At(c, "limiting")
    /\ Respond(c, 500)
    /\ UNCHANGED <<cookie, bucket, now, requestsLeft, logins>>

-----------------------------------------------------------------------------
(* AuthMiddleware.                                                         *)

BugValid(token) == token # NoToken

\* ValidateToken: the signature is the gateway's own, the rest is time.
Valid(token) == token # NoToken /\ now < token.exp + Leeway

Admit(c) ==
    /\ At(c, "checking")
    /\ Valid(cookie[c])
    /\ request' = [request EXCEPT ![c].pc = "handling", ![c].sub = cookie[c].sub,
                                   ![c].admitted = now]
    /\ UNCHANGED <<cookie, bucket, now, requestsLeft, logins>>

Reject(c) ==
    /\ At(c, "checking")
    /\ ~Valid(cookie[c])
    /\ Respond(c, 401)
    /\ UNCHANGED <<cookie, bucket, now, requestsLeft, logins>>

-----------------------------------------------------------------------------
(* Handlers.                                                               *)

BadBody(c) ==
    /\ Handles(c, {"login", "register"})
    /\ Respond(c, 400)
    /\ UNCHANGED <<cookie, bucket, now, requestsLeft, logins>>

\* The five handlers of the cart; cart-service is called for the subject.
CartAnswered(c) ==
    /\ Handles(c, {"cart"})
    /\ \E status \in Statuses(200) \cup Statuses(204) : Respond(c, status)
    /\ UNCHANGED <<cookie, bucket, now, requestsLeft, logins>>

\* The six handlers of products.
ProductAnswered(c) ==
    /\ \/ /\ Handles(c, {"product"})
          /\ \E status \in Statuses(200) \cup {408, 504} : Respond(c, status)
       \/ /\ Handles(c, {"editProduct"})
          /\ \E status \in Statuses(200) \cup {201, 204} : Respond(c, status)
    /\ UNCHANGED <<cookie, bucket, now, requestsLeft, logins>>

\* The four handlers of categories.
CategoryAnswered(c) ==
    /\ \/ /\ Handles(c, {"category"})
          /\ \E status \in Statuses(200) \cup ContextIsOver : Respond(c, status)
       \/ /\ Handles(c, {"editCategory"})
          /\ \E status \in Statuses(201) \cup {204} \cup ContextIsOver : Respond(c, status)
    /\ UNCHANGED <<cookie, bucket, now, requestsLeft, logins>>

\* The health check, or what search-service answers through the proxy.
OpenAnswered(c) ==
    /\ Handles(c, {"open"})
    /\ \E status \in {200, 400, 404, 500, 502} : Respond(c, status)
    /\ UNCHANGED <<cookie, bucket, now, requestsLeft, logins>>

Logout(c) ==
    /\ Handles(c, {"logout"})
    /\ Respond(c, 200)
    /\ cookie' = [cookie EXCEPT ![c] = NoToken]
    /\ UNCHANGED <<bucket, now, requestsLeft, logins>>

\* GenerateToken
NewToken(id) == [sub |-> id, exp |-> now + TTL]

\* LoginHandler with the answer of user-service.
LoginAnswered(c, code, id) ==
    /\ Handles(c, {"login"})
    /\ Respond(c, HTTPStatusFromGRPC[code])
    /\ IF code = "OK"
       THEN /\ cookie' = [cookie EXCEPT ![c] = NewToken(id)]
            /\ logins' = [logins EXCEPT ![c] = @ \cup {<<id, now>>}]
       ELSE UNCHANGED <<cookie, logins>>
    /\ UNCHANGED <<bucket, now, requestsLeft>>

\* CreateUserHandler: every error of user-service is an internal one.
RegisterAnswered(c, code) ==
    /\ Handles(c, {"register"})
    /\ Respond(c, IF code = "OK" THEN 201 ELSE 500)
    /\ UNCHANGED <<cookie, bucket, now, requestsLeft, logins>>

UserAnswered(c, code) ==
    /\ Handles(c, {"user"})
    /\ Respond(c, HTTPStatusFromGRPC[code])
    /\ UNCHANGED <<cookie, bucket, now, requestsLeft, logins>>

OrderAnswered(c, code) ==
    /\ Handles(c, {"order"})
    /\ Respond(c, IF code = "OK" THEN 201 ELSE HTTPStatusFromGRPC[code])
    /\ UNCHANGED <<cookie, bucket, now, requestsLeft, logins>>

Receive(c) ==
    /\ At(c, "answered")
    /\ request' = [request EXCEPT ![c] = NoRequest]
    /\ UNCHANGED <<cookie, bucket, now, requestsLeft, logins>>

-----------------------------------------------------------------------------

\* A second passes; the limiter refills the buckets.
Tick ==
    /\ now < MaxTime
    /\ now' = now + 1
    /\ bucket' = [a \in Addresses |-> IF bucket[a] + Rate < Burst THEN bucket[a] + Rate ELSE Burst]
    /\ UNCHANGED <<cookie, request, requestsLeft, logins>>

\* The cookie has outlived its MaxAge.
CookieExpires(c) ==
    /\ cookie[c] # NoToken
    /\ now >= cookie[c].exp
    /\ cookie' = [cookie EXCEPT ![c] = NoToken]
    /\ UNCHANGED <<request, bucket, now, requestsLeft, logins>>

\* The steps the gateway takes by itself.
GatewayStep ==
    \/ \E c \in Clients : \/ \E route \in Routes : Send(c, route)
                          \/ LimiterAllows(c) \/ LimiterRefuses(c) \/ LimiterFails(c)
                          \/ Admit(c) \/ Reject(c)
                          \/ CartAnswered(c) \/ ProductAnswered(c)
                          \/ CategoryAnswered(c) \/ OpenAnswered(c)
                          \/ Logout(c) \/ Receive(c)
                          \/ CookieExpires(c)
    \/ Tick

-----------------------------------------------------------------------------
(* Properties.                                                             *)

\* Every variable has its type.
TypeOK ==
    /\ cookie \in [Clients -> Tokens \cup {NoToken}]
    /\ request \in [Clients ->
        [pc : {"none", "limiting", "checking", "handling", "answered"}, route : Routes,
         sub : Subjects \cup {NoToken}, admitted : 0..MaxTime, status : Nat]]
    /\ bucket \in [Addresses -> 0..Burst]
    /\ now \in 0..MaxTime
    /\ requestsLeft \in [Clients -> 0..MaxRequests]
    /\ logins \in [Clients -> SUBSET (Subjects \X (0..MaxTime))]

\* A handler of a guarded route works for a user whom this client has logged
\* in, less than TTL and leeway before the token was checked - through logouts,
\* later logins as somebody else and cookies that outlive the token.
GuardedRequestsHaveALogin ==
    \A c \in Clients : At(c, "handling") /\ request[c].route \in Guarded =>
        \E login \in logins[c] :
            login[1] = request[c].sub /\ request[c].admitted < login[2] + TTL + Leeway

=============================================================================
