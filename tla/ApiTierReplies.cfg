SPECIFICATION ApiSpec
CONSTANTS
  HasRedial = TRUE
  ReadHealth = FALSE
  Monitors = TRUE
  RedialEvery = 2
  LabelsEvery = 2
  Strange = FALSE
  MaxReboots = 1
  MaxFailures = 2
  MaxUnread = 1
INVARIANT AnswersItsCommand
