SPECIFICATION Spec
CONSTANTS
    Tasks <- MCTasks
    Scripts <- MCScripts
    Refusals <- MCRefusals
    MaxFaults = 1
    Prices <- TwoPrices
    Sizes = {1, 2}
    FeePart = 36
    CLOSED_KEEP = 2
    MaxIds = 3
    MaxMoves = 6
    Careless <- None
INVARIANTS
    AnswersHonest
    ReadsAreFresh
    CanaryHonest
    PaperSound
    RestartIsSeamless
CHECK_DEADLOCK FALSE
