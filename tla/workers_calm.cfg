SPECIFICATION Spec
CONSTANTS
  Callers = {a, b, c}
  Closer = closer
  MaxRequests = 2
  Timeouts <- NoKind
  OpenMayFail = FALSE
  MayClose = FALSE
  MaxWorkers = 3
  MaxOps = 4
  MaxCrashes = 2
SYMMETRY CallerSymmetry
CHECK_DEADLOCK FALSE
INVARIANTS EntryIsTheOwner OneCallAtATime
