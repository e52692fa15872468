SPECIFICATION MCSpec
CONSTANTS
  FiveMinutes = 1
  TenMinutes = 1
  EightHours = 1
  OneDay = 3
  TwoDays = 6
  ReviewGaps <- MCReviewGaps
  Words = {w1, w2}
  DayLen = 3
  MaxDay = 1
  MaxId = 5
  NewLimit = 1
  FollowUpFaults = FALSE
  MaxExtras = 0
  MayRelist = TRUE
INVARIANT NewWordsWithinLimit
INVARIANT NoOrphanReviewCard
INVARIANT NewCardsAreUnseen
CHECK_DEADLOCK FALSE
