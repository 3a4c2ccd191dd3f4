CONSTANTS
  Capacity = 3
  Conditions <- MCConditions
  Pre = 1
  Post = 1
  Refractory = 3
  Budget = 7
  Policies <- MCPolicies
  LineBytes <- MCLineBytes
  MaxMarkers = 2
  Word = 100
  Callers <- MCCallers
  Limit = 2
  MaxSeq = 4
  MaxManual = 1
SPECIFICATION Spec
INVARIANTS
  TypeOK
  Accounting
  WindowExact
  MarkerBeforeSample
CHECK_DEADLOCK FALSE
