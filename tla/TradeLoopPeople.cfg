SPECIFICATION Spec
CONSTANTS
    ThreadIds = {t1}
    Actors <- Everybody
    Troubles <- PartialOrExpired
    MaxFaults = 2
    MaxRequests = 1
    Fifo = TRUE
    GoneIsOk = TRUE
    OneRun = FALSE
    Restored = {}
PROPERTIES
    RemainderIsCanceled
