SPECIFICATION FairSystemSpec
CONSTANTS
  Lease = 1
  JobTimeout = 2
  MaxCommandAttempts = 1
  MaxDispatchAttempts = 1
  PhysicalSheets = 1
  Amounts = {5}
  MaxTime = 5
  Agents = {a1}
  Retention = 2
  MaxCrashes = 1
PROPERTIES
  SpoolIsCleared
CHECK_DEADLOCK FALSE
