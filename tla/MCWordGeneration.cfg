\* Three words of two vocabularies; one generation at a time, of one or two words in up
\* to two attempts, with up to two requests while it is under way.
SPECIFICATION Spec
CONSTANTS
  listed = listed
  variant = variant
  other = other
  noGroup = noGroup
  Words <- MCWords
  Vocabularies <- MCVocabularies
  NoGroup = noGroup
  Quotas = {1, 2}
  maxGenerationAttempts = 2
  MaxRequests = 2
INVARIANTS
  TypeOK
  SelectedWordsAreFresh
  ConfusablesStayApart
  QuotaIsShared
