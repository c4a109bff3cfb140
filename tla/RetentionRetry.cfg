SPECIFICATION RetentionSpec
CONSTANTS
  Sessions = {s1}
  Runners = {r1}
  MaxAttempts = 1
  MaxFaults = 0
PROPERTIES
  RetryIsHonored
CHECK_DEADLOCK FALSE
