SPECIFICATION Spec
CONSTANTS
  Actual = {a1, a2}
  Ghostfolio = {g1}
  Names = {n1}
  OwnerKinds = {"investment"}
  MonthDays = 1
  FirstMonth = 0
  History = 2
  MaxDay = 2
  MaxSyncs = 2
  MaxChanges = 3
  MaxNights = 1
SYMMETRY AccountSymmetry
INVARIANTS OneSpeaker
PROPERTIES DecisionsStand TwinsCountOnce StoredDatesAreLeft
CHECK_DEADLOCK FALSE
