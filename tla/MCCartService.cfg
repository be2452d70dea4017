SPECIFICATION FairSpec
CONSTANTS
    r1 = r1
    r2 = r2
    p1 = p1
    o1 = o1
    NoOrder = NoOrder
    Requests <- MCRequests
    Products <- MCProducts
    Quantities = {1}
    Orders <- MCOrders
    Workers = {w1, w2}
    Prefetch = 2
    MaxCopies = 2
    MaxCarts = 2
    MaxCalls = 3
INVARIANTS
    TypeOK
    StaleCacheIsExplained
    OrderEmptiesOneCart
    NoOrderLost
    FreshCartLostOnlyToRace
PROPERTY
    OrderedCartIsEmptied
CHECK_DEADLOCK FALSE
