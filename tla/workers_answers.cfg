SPECIFICATION FairSpec
CONSTANTS
  Callers = {a, b}
  Closer = closer
  MaxRequests = 2
  Timeouts <- AllKinds
  OpenMayFail = TRUE
  MayClose = TRUE
  MaxWorkers = 2
  MaxOps = 2
  MaxCrashes = 1
CHECK_DEADLOCK FALSE
INVARIANTS EveryCallIsKept
PROPERTIES CallersAreAnswered
