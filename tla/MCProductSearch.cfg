SPECIFICATION Spec
CONSTANTS
    p1 = p1
    c1 = c1
    c2 = c2
    AllCategories = AllCategories
    NoEvent = NoEvent
    Products <- MCProducts
    Callers <- MCCallers
    Workers = {w1, w2}
    Prefetch = 2
    MaxCalls = 4
    MaxCopies = 4
    Starts <- MCStarts
INVARIANTS
    TypeOK
    StaleCopyIsExplained
    NoEventLost
    StaleDocumentIsExplained
    EndlessDeletionIsSpare
PROPERTIES
    PartsKeepTheirSpecs
CHECK_DEADLOCK FALSE
