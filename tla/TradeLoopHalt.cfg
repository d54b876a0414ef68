SPECIFICATION Spec
CONSTANTS
    ThreadIds = {t1}
    Actors <- Halter
    Troubles <- HaltTroubles
    MaxFaults = 2
    MaxRequests = 2
    Fifo = FALSE
    GoneIsOk = TRUE
    OneRun = FALSE
    Restored = {t1}
PROPERTIES
    HaltFlattens
