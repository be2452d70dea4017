SPECIFICATION FairSpec
CONSTANTS
    o1 = o1
    o2 = o2
    p1 = p1
    p2 = p2
    NoOrder = NoOrder
    Orders <- MCOrders
    Products <- MCProducts
    Items <- MCItems
    InitialStocks <- MCInitialStocks
    Workers = {w1, w2}
    Prefetch = 2
    MaxCopies = 2
INVARIANTS
    TypeOK
    NoEventLost
    TakenOncePerHandler
    FailureIffShort
    DeadLetterIsCompensated
PROPERTIES
    DeliveredIsProcessed
CHECK_DEADLOCK FALSE
