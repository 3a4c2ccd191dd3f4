SPECIFICATION FairSpec
CONSTANTS
  HasAPI = TRUE
  Refractory = 1
  LeadUp = 2
  FrozenKeep = 3
  Hold = 2
  LogWait = 1
  ReportsIDs <- Always
  Jumps <- KeptOrLost
  MaxLives = 3
  MaxSeq = 2
  MaxWall = 5
INVARIANTS TypeOK LogOfItsBoot DetectedOnce
PROPERTIES BootLogSettles
CHECK_DEADLOCK FALSE
