SPECIFICATION Spec
CONSTANTS
    k1 = k1
    b1 = b1
    b2 = b2
    Keys = {k1}
    Bodies = {b1, b2}
    MaxStarts = 2
    Scripts <- MCScripts
    MaxRetries = 1
    BusCap = 3
    Page = 3
    Outbound = 1
INVARIANTS
    IntentsSound
    LogTellsAll
    LeaseIsMine
PROPERTIES
    EventsArrive
CHECK_DEADLOCK FALSE
