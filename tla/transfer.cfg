SPECIFICATION FairSpec
CONSTANTS
  j1 = j1
  j2 = j2
  Jobs = {j1, j2}
  Files = {1, 2}
  MaxRuns = 2
  Scenarios <- AllScenarios
INVARIANTS RowAgreesWithTarget
PROPERTIES NeverReplaced StopsTakeEffect
CHECK_DEADLOCK FALSE
