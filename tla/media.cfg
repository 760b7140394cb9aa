SPECIFICATION Spec
CONSTANTS
  j1 = j1
  j2 = j2
  w1 = w1
  w2 = w2
  s1 = s1
  s2 = s2
  Jobs = {j1, j2}
  Workers = {w1, w2}
  Sources = {s1, s2}
  MaxVersion = 2
  Scenarios <- AllScenarios
INVARIANTS OfferedIsTrue BegunHasOwner
CHECK_DEADLOCK FALSE
