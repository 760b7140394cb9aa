SPECIFICATION ScenarioSpec
CONSTANTS
  MaxJobs = 3
  InitialRows = 1
  all = all
  copy = copy
  zip = zip
  unknown = unknown
  c1 = c1
  c2 = c2
  Payloads = {all, copy, zip, unknown}
  Heavy = {all, zip}
  Reused = {all}
  NoHandler = {unknown}
  Runners = {r1, r2, r3}
  Clients = {c1, c2}
  Cap = 2
  ResumeLimit = 3
  Operations = {"create", "batch", "reindex", "pause", "resume", "retry", "delete", "clear", "policy", "stop", "crash"}
  Scenarios <- SafetyScenarios
SYMMETRY ThreadSymmetry
INVARIANTS StatusHasOwner ClosedPolicyKept
PROPERTIES ReindexReused
CHECK_DEADLOCK FALSE
