SPECIFICATION Spec
CONSTANTS
  Callers = {c1, c2}
  Models <- MCOneModel
  RPMLimit = 2
  RPDLimit = 3
  Minute = 3
  Day = 7
  RetryAfters = {3}
  MaxRetries = 1
  MaxWait = 2
  BoundaryReads = FALSE
  MaxTime = 9
INVARIANT TypeOK
INVARIANT ReservationsWithinLimits
PROPERTY CooldownsHold
PROPERTY RefusalIsExact
CHECK_DEADLOCK FALSE
