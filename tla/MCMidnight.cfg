SPECIFICATION MCSpec
CONSTANTS
  FiveMinutes = 1
  TenMinutes = 1
  EightHours = 1
  OneDay = 2
  TwoDays = 4
  ReviewGaps <- MCOneReviewGap
  Words = {w1, w2}
  DayLen = 2
  MaxDay = 1
  MaxId = 3
  NewLimit = 1
  FollowUpFaults = FALSE
  MaxExtras = 1
  MayRelist = FALSE
INVARIANT TypeOK
INVARIANT EveryRowSchedulable
INVARIANT OpenPoolCoversDueWords
PROPERTY UndoTakesBackItsOwnAnswer
CHECK_DEADLOCK FALSE
