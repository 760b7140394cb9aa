SPECIFICATION FairScenarioSpec
CONSTANTS
  MaxJobs = 4
  InitialRows = 1
  p1 = p1
  p2 = p2
  c1 = c1
  c2 = c2
  Providers = {p1, p2}
  ProviderOf <- TwoBuckets
  BadPayload = {1}
  Runners = {r1, r2}
  Clients = {c1}
  GlobalCap = 2
  ProviderCap = 2
  ResumeLimit = 2
  CooldownDraws = {TRUE}
  WatchdogOn = TRUE
  Operations = {"add", "pause", "delete", "settings", "stop"}
  Scenarios <- LivenessScenarios
PROPERTIES QueueDrains ControlTakesEffect
CHECK_DEADLOCK FALSE
