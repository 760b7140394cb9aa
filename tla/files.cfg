SPECIFICATION FairSpec
CONSTANTS
  j1 = j1
  j2 = j2
  d1 = d1
  d2 = d2
  n1 = n1
  n2 = n2
  u1 = u1
  u2 = u2
  NoFile = NoFile
  NoName = NoName
  Jobs = {j1, j2}
  Clients = {c1}
  Dirs = {d1, d2}
  Names = {n1, n2}
  Urls = {u1, u2}
  Size = 2
  Scenarios <- AllScenarios
  Disposition <- ServerNames
  FairJobs = {j2}
INVARIANTS FinalWhole
PROPERTIES PartsAreFound StopKeepsBytes ControlTakesEffect
CHECK_DEADLOCK FALSE
