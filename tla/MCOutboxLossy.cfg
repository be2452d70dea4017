SPECIFICATION Spec
CONSTANTS
    e1 = e1
    e2 = e2
    e3 = e3
    Events <- MCEvents
    Poison <- MCPoison
    BatchSize = 2
    MaxRetries = 2
    MaxFaults = 0
    BrokerDrops = TRUE
INVARIANTS
    PublishedWasSent
