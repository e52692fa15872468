SPECIFICATION FairSpec
CONSTANTS
  Callers = {c1, c2}
  Models <- MCTwoModels
  RPMLimit = 1
  RPDLimit = 2
  Minute = 2
  Day = 4
  RetryAfters = {1}
  MaxRetries = 2
  MaxWait = 1
  BoundaryReads = TRUE
  MaxTime = 2
PROPERTY EveryCallReturns
CHECK_DEADLOCK FALSE
