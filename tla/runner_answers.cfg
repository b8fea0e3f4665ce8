SPECIFICATION FairSpec
CONSTANTS
  a = a
  b = b
  TenantOrder <- OneTenant
  Registry <- TwoJobs
  Dependents <- TwoDependents
  Schedule <- MonthlySchedules
  Local <- MonthEnd
  Requests <- TwoRequests
  ResetJobs <- TwoReset
  Keep = 1
  Outcomes = {"partial", "error", "timeout"}
  DbMayFail = TRUE
  MaxClock = 1
  MaxRefreshes = 1
  MaxStops = 0
PROPERTIES PassEnds RefreshesEnd
CHECK_DEADLOCK FALSE
