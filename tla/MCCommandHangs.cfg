SPECIFICATION FairSpec
CONSTANTS
  Timeout = 2
  Lag = 1
  MaxTime = 5
  MaxHelpers = 1
PROPERTY TimeoutLimitsTheRun
CHECK_DEADLOCK FALSE
