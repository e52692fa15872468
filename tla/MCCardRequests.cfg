SPECIFICATION FairSpec
CONSTANTS
  Null = Null
  NoRow = NoRow
  cron = cron
  a = a
  b = b
  w1 = w1
  w2 = w2
  k1 = k1
  k2 = k2
  Cron = cron
  Words = {w1}
  CardIds = {1, 2}
  Keys = {k1, k2}
  Callers = {cron, a}
  Mixes <- MCMixes
  MaxCount = 2
INVARIANTS
  TypeOK
  RecordedAnswersCount
  CountIsCovered
PROPERTIES
  CreationRaceIsHarmless
  DueWordsAreDealt
