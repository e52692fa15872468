CONSTANTS
  a = a
  b = b
  a1 = a1
  b1 = b1
  b2 = b2
  f1 = f1
  p1 = p1
  d1 = d1
  d2 = d2
  NoCard = NoCard
  Words = {a, b}
  ReviewCards = {f1}
  NewCards = {a1, b1, b2}
  PracticeCards = {p1}
  WordOf <- MCWordOf
  Devices = {d1, d2}
  Anonymous = {d2}
  NamesEvents = {TRUE}
  NewLimit = 1
  catchUpSessionTotalCap = 2
  catchUpSessionReviewRunCap = 1
  catchUpSessionNewRunCap = 1
  MaxEvents = 3
  MaxEdits = 1
SPECIFICATION Spec
INVARIANTS TypeOK CountedAnswersStand LimitsAgree
PROPERTIES NothingLeftIsTrue ImplementsBudget
SYMMETRY Symmetry
CHECK_DEADLOCK FALSE
