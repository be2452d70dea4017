SPECIFICATION FairSpec
CONSTANTS
    o1 = o1
    p1 = p1
    p2 = p2
    NoOrder = NoOrder
    Orders <- MCOrders
    Products <- MCProducts
    Items <- MCItems
    InitialStocks <- MCStocksShort
    Cancellers = {c1}
    StockWorkers = {w1}
    Prefetch = 2
    BatchSize = 2
    MaxRetries = 2
    MaxFaults = 0
    MaxRowFaults = 1
    MaxFailures = 1
PROPERTIES
    SagaCompletes
CHECK_DEADLOCK FALSE
