SPECIFICATION FairSpec
CONSTANTS
  o1 = o1
  Ids <- MCIds
  StaleAfter = 1
  MaxTrades = 2
  MaxFaults = 2
INVARIANTS
    FreshIsTrue
PROPERTIES
    EventuallyTracks
CHECK_DEADLOCK FALSE
