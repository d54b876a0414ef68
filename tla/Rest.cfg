SPECIFICATION FairSpec
CONSTANTS
  t1 = t1
  t2 = t2
  Tasks <- MCTasks
  Programs <- MCPrograms
  Legs <- Both
  Capacity = 4
  Refill = 2
  MaxWait = 2
  MaxBan = 3
  BanSpan = 2
  MaxAttempts = 2
  MaxFaults = 2
  TornBodies <- TornReads
INVARIANTS
    OrdersHonest
PROPERTIES
    KnownBanKept
    OperationsEnd
CHECK_DEADLOCK FALSE
