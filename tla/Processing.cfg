SPECIFICATION ProcessingSpec
CONSTANTS
  Workers = {w1, w2}
  MayStall = {}
  Artifacts = {"normalized", "preview"}
  MaxAttempts = 2
  MaxFaults = 1
INVARIANTS
  ProcessingTypeOK
  ReadyHasBytes
  LedgerNamesEveryObject
PROPERTIES
  NeverRevived
  ProcessingSettles
CHECK_DEADLOCK FALSE
