SPECIFICATION FairSpec
CONSTANTS
  Null = Null
  NoRow = NoRow
  cron = cron
  a = a
  b = b
  w1 = w1
  Cron = cron
  SetIds = {1, 2}
  Words = {w1}
  Callers = {cron, a, b}
  Mixes <- MCMixes
INVARIANTS
  OneViewPerCard
  DefaultCanBeEnsured
PROPERTIES
  WordsKeepTheirSet
  ActiveSetReturns
  UnownedRowsAreAdopted
