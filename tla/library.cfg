SPECIFICATION FairSpec
CONSTANTS
  a = a
  b = b
  c = c
  d = d
  Objects = {a, b, c, d}
  Names = {1, 2}
  Scenarios <- AllScenarios
INVARIANTS MarksFollow 
PROPERTIES ActiveUnmoved 
CHECK_DEADLOCK FALSE
