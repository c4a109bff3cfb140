SPECIFICATION RetentionSpec
CONSTANTS
  Sessions = {s1}
  Runners = {r1, r2}
  MaxAttempts = 2
  MaxFaults = 1
INVARIANTS
  NothingIsForgotten
PROPERTIES
  GraceIsHonored
  
CHECK_DEADLOCK FALSE
