SPECIFICATION SystemSpec
CONSTANTS
  Lease = 1
  JobTimeout = 2
  MaxCommandAttempts = 2
  MaxDispatchAttempts = 1
  PhysicalSheets = 1
  Amounts = {5}
  MaxTime = 3
  Agents = {a1}
  Retention = 2
  MaxCrashes = 1
INVARIANTS
  SystemTypeOK
  AtMostOnePrint
  HandoverIsKnown

  
CHECK_DEADLOCK FALSE
