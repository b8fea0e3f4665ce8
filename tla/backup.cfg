SPECIFICATION Spec
CONSTANTS
  Jobs = {j1, j2}
  Keep = 2
  Foreign <- SecondDay
  MaxClock = 6
  RestoreDays = 1
  MaxStarts = 2
  MaxRestores = 2
  MaxDatabases = 4
  MaxFaults = 2
SYMMETRY JobSymmetry
INVARIANTS NothingIsLost RestoreEndsWhole SnapshotsAreWhole
PROPERTIES RetentionHolds
CHECK_DEADLOCK FALSE
