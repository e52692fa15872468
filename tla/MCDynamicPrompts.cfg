SPECIFICATION PromptsSpec
CONSTANTS
  word = word
  phrase = phrase
  cron = cron
  device = device
  Phrases = {phrase}
  Learners <- MCLearners
  dailyListeningItemLimit = 2
  dynamicReviewPromptChunkSize = 1
  dynamicReviewPromptCooldown = 2
INVARIANTS
  PromptsTypeOK
  ListeningWithinLimit
  HardestThriceAtMost
  PromptsAreNotRepeated
  PreparedPromptsAreFound
PROPERTIES
  ShownModeIsEnabled
CHECK_DEADLOCK FALSE
