SPECIFICATION ControlSpec
CONSTANTS
  Lease = 2
  JobTimeout = 3
  MaxCommandAttempts = 2
  MaxDispatchAttempts = 2
  PhysicalSheets = 1
  Amounts = {0, 5}
  MaxTime = 4
INVARIANTS
  TypeOK
  CommandFollowsJob
  SessionFollowsJob
  MoneyFollowsOutcome
PROPERTIES
  SettledForever
  AmbiguityIsNotRefunded
  EveryJobSettles
CHECK_DEADLOCK FALSE
