SPECIFICATION Spec
CONSTANTS
    ThreadIds = {t1}
    Actors <- Approver
    Troubles <- LostReceipts
    MaxFaults = 2
    MaxRequests = 0
    Fifo = TRUE
    GoneIsOk = TRUE
    OneRun = TRUE
    Restored = {}
PROPERTIES
    StopOrFlat
