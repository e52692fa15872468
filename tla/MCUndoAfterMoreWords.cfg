SPECIFICATION MCSpec
CONSTANTS
  FiveMinutes = 1
  TenMinutes = 1
  EightHours = 1
  OneDay = 3
  TwoDays = 6
  ReviewGaps <- MCOneReviewGap
  Words = {w1, w2}
  DayLen = 3
  MaxDay = 0
  MaxId = 4
  NewLimit = 1
  FollowUpFaults = FALSE
  MaxExtras = 1
  MayRelist = TRUE
PROPERTY UndoReopensCard
CHECK_DEADLOCK FALSE
