SPECIFICATION Spec
CONSTANTS
  ann = ann
  ben = ben
  Users <- Everybody
  Households <- EmptyOrShared
  WithPassword <- OneOfThem
  Requests = {r1, r2}
  Threshold = 2
  LockSteps = 1
  Window = 0
  Ttl = 1
  MaxClock = 2
  MaxSessions = 2
  MaxProvisions = 1
SYMMETRY LoginSymmetry
INVARIANTS CodesAreSpentOnce GuessesAreBounded ChangesEndSessions AnOwnerRemains
CHECK_DEADLOCK FALSE
