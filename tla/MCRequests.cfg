SPECIFICATION MCSpec
CONSTANTS
  FiveMinutes = 1
  TenMinutes = 1
  EightHours = 1
  OneDay = 2
  TwoDays = 4
  ReviewGaps <- MCOneReviewGap
  Words = {w1, w2}
  DayLen = 2
  MaxDay = 0
  MaxId = 3
  NewLimit = 1
  FollowUpFaults = TRUE
  MaxExtras = 2
  MayRelist = TRUE
INVARIANT CountersMatchCards
INVARIANT PositionsAreUnique
PROPERTY UndoInvertsAnswer
CHECK_DEADLOCK FALSE
