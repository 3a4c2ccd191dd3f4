CONSTANTS
  Drivers = {d1, d2}
  None = None
  Homes <- MCHomes
  MaxRuns = 3
  MaxFaults = 1
SPECIFICATION Spec
INVARIANTS
  TypeOK
  SnapshotExact
  ResetRestores
SYMMETRY Alike
CHECK_DEADLOCK FALSE
