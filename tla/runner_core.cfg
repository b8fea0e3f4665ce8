SPECIFICATION Spec
CONSTANTS
  a = a
  b = b
  TenantOrder <- TwoTenant
  Registry <- TwoJobs
  Dependents <- TwoDependents
  Schedule <- NightlySchedules
  Local <- MidMonth
  Requests <- TwoRequests
  ResetJobs <- TwoReset
  Keep = 2
  Outcomes = {"partial"}
  DbMayFail = FALSE
  MaxClock = 1
  MaxRefreshes = 3
  MaxStops = 1
INVARIANTS ClaimsAreReal RunningRowsAreLive ChainsRunInOrder
PROPERTIES EndsAreSettled
CHECK_DEADLOCK FALSE
