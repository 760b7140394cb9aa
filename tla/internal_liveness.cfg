SPECIFICATION FairScenarioSpec
CONSTANTS
  MaxJobs = 2
  InitialRows = 1
  all = all
  copy = copy
  zip = zip
  unknown = unknown
  c1 = c1
  c2 = c2
  Payloads = {all, zip, copy}
  Heavy = {all, zip}
  Reused = {all}
  NoHandler = {}
  Runners = {r1}
  Clients = {c1, c2}
  Cap = 1
  ResumeLimit = 2
  Operations = {"create", "reindex", "pause", "delete", "clear", "clock", "stop", "crash"}
  Scenarios <- LivenessScenarios
PROPERTIES QueueDrains
CHECK_DEADLOCK FALSE
