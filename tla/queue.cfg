SPECIFICATION ScenarioSpec
CONSTANTS
  MaxJobs = 4
  InitialRows = 1
  p1 = p1
  p2 = p2
  c1 = c1
  c2 = c2
  Providers = {p1, p2}
  ProviderOf <- TwoBuckets
  BadPayload = {}
  Runners = {r1, r2, r3}
  Clients = {c1, c2}
  GlobalCap = 2
  ProviderCap = 1
  ResumeLimit = 2
  CooldownDraws = {TRUE, FALSE}
  WatchdogOn = TRUE
  Operations = {"add", "pause", "resume", "retry", "delete", "clear", "settings", "stop", "crash"}
  Scenarios <- SafetyScenarios
SYMMETRY ThreadSymmetry
INVARIANTS TypeOK StatusHasOwner WaitIsJustified
PROPERTIES RestartSettles ImplementsSlots
CHECK_DEADLOCK FALSE
