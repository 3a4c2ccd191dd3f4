CONSTANTS
  Disciplines <- MCDisciplines
  Sizes <- MCSizes
  MaxQ = 3
  MaxBatch = 3
  BackoffFirst = 2
  BackoffCap = 5
  MaxEvents = 4
  MaxErrors = 2
SPECIFICATION FairSpec
INVARIANTS
  TypeOK
  Conservation
  BytesExact
PROPERTIES
  BudgetEnforced
  ImplementsPromise
  CloseEnds
  Drains
CHECK_DEADLOCK FALSE
