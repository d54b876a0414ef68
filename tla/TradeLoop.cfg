SPECIFICATION Spec
CONSTANTS
    ThreadIds = {t1}
    Actors <- Approver
    Troubles <- Outages
    MaxFaults = 2
    MaxRequests = 0
    Fifo = TRUE
    GoneIsOk = TRUE
    OneRun = TRUE
    Restored = {}
INVARIANTS
    SentAtMostOnce
    OrdersOwned
PROPERTIES
    NakedIsNoticed
