SPECIFICATION DeskSpec
CONSTANTS
    Symbols <- MCSymbols
    Channels <- MCChannels
    ThreadIds <- MCThreads
    Plays <- MCPlays
    Keys <- MCKeys
    ChatKeys <- MCChats
    None <- MCNone
    MaxChats = 2
    max_opens_per_day = 1
    Losses <- MCLosses
    Transfers <- MCTransfers
    LossStop = 10
INVARIANTS
    QueueSafe
    OpeningsWithinLimits
    ReviewFitsStatus
    ExecutionNamesBackend
    NoTimerLost
PROPERTIES
    ImplementsKeyedMutex
    LossesCount
    EveryJobStarts
CHECK_DEADLOCK FALSE
