SPECIFICATION DeploySpec
CONSTANTS
  Shapes <- MCShapes
  Legacy <- MCLegacy
  Theirs <- MCTheirs
  Items <- MCItems
  OurItems <- MCOurItems
  MaxRuns = 3
  MaxFailures = 2
  MaxOperator = 1
INVARIANTS DeployTypeOK RecordsOutlive RefusalsRight UninstallTruthful
PROPERTIES ForeignUntouched
CHECK_DEADLOCK FALSE
