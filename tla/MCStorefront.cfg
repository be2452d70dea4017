SPECIFICATION FairSpec
CONSTANTS
    u1 = u1
    u2 = u2
    e1 = e1
    e2 = e2
    o1 = o1
    c1 = c1
    c2 = c2
    a1 = a1
    NoUser = NoUser
    NoPassword = NoPassword
    NoToken = NoToken
    NoOrder = NoOrder
    Clients <- MCClients
    AddressOf <- MCAddressOf
    Emails = {e1, e2}
    Passwords = {"p", "q"}
    Ids = {u1, u2}
    Burst = 2
    Rate = 1
    TTL = 1
    Leeway = 1
    MaxRequests = 3
    MaxTime = 2
    Orders <- MCOrders
    Workers = {w1, w2}
    Prefetch = 2
    MaxAttempts = 2
    MaxRetries = 2
    MaxDials = 7
    MaxFaults = 4
    Starts <- MCStarts
INVARIANTS
    TypeOK
    AnswersAreExact
    GuardedRequestsHaveALogin
    MailsGoToBuyers
    
PROPERTIES
    MailedOrStopped
CHECK_DEADLOCK FALSE
