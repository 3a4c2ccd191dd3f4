CONSTANTS
  Capacities <- MCCapacities
  Clients <- MCClients
  Batch = 2
  ReplyMax = 3
  MaxDrain = 2
  MaxSeq = 4
  MaxLives = 2
  MaxTriggers = 1
  MaxFailures = 1
SPECIFICATION FairSpec
INVARIANTS
  TypeOK
  
  NoSilentLoss
PROPERTIES
  ResyncOnlyOnRestart
  CatchesUp
CHECK_DEADLOCK FALSE
