SPECIFICATION Spec
CONSTANTS
    ThreadIds = {t1}
    Actors <- Closers
    Troubles <- Leaving
    MaxFaults = 0
    MaxRequests = 2
    Fifo = TRUE
    GoneIsOk = FALSE
    OneRun = TRUE
    Restored = {}
PROPERTIES
    ClosesSafely
