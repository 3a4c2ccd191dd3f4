SPECIFICATION Spec
CONSTANTS
  HasAPI = FALSE
  Refractory = 1
  LeadUp = 2
  FrozenKeep = 3
  Hold = 2
  LogWait = 1
  ReportsIDs <- Always
  Jumps <- Lost
  MaxLives = 3
  MaxSeq = 2
  MaxWall = 5
INVARIANT RebootTold
CHECK_DEADLOCK FALSE
