SPECIFICATION ApiFairSpec
CONSTANTS
  HasRedial = TRUE
  ReadHealth = FALSE
  Monitors = TRUE
  RedialEvery = 2
  LabelsEvery = 2
  Strange = TRUE
  MaxReboots = 1
  MaxFailures = 2
  MaxUnread = 1
INVARIANTS ApiTypeOK StaleIsReread SinksHoldInventory
PROPERTIES Reconnects
