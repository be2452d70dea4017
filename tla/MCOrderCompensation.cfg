SPECIFICATION Spec
CONSTANTS
    o1 = o1
    NoOrder = NoOrder
    Orders <- MCOrders
    Cancellers = {w1, w2}
    Prefetch = 2
    MaxFailedCopies = 2
INVARIANTS
    FailedPaymentCancels
CHECK_DEADLOCK FALSE
