SPECIFICATION Inputs
CONSTANTS
  MonthLengths <- Year2028
  FirstWeekday = 6
  ScanSlack = 4
  SummerFrom <- SpringForward
  SummerTo <- AutumnBack
  ProbeHorizon = 48
  Window = 2
  Low = 3
  High = 7
  PersistentMonths = 3
  Horizon = 12
  Detection = 24
  RateOf = 24
  Common = 12
  Configured = {"home", "away"}
  Itself = {"self"}
  MaxRedirects = 2
INVARIANTS PaymentsAreOwedOnce SlotsRunOnce WindowCountsItsOwn MonthsOutsideAreEarned ForecastSpendsOnce GoalsAreKept PayoffAgreesWithBalance RedirectsAreGuarded
CHECK_DEADLOCK FALSE
