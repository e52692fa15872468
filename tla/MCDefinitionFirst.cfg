SPECIFICATION FairSpec
CONSTANTS
  word = word
  phrase = phrase
  Phrases = {phrase}
  Learners <- MCDefinitionLearner
  dailyListeningItemLimit = 2
PROPERTIES
  ShownCardsGetDone
CHECK_DEADLOCK FALSE
