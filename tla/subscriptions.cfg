SPECIFICATION FairScenarioSpec
CONSTANTS
  s1 = s1
  Subs = {s1}
  SourceOf <- OneSource
  Clients = {c1}
  Videos = {1, 2, 3}
  Older = {1, 2}
  Recent = {3}
  InitialPolicies = {"from_now", "latest_n", "full_backfill"}
  LatestN = 1
  ChecksEnabled = TRUE
  DownloadsEnabled = TRUE
  MaxAttempts = 2
  MaxRequests = 4
  Operations = {"create", "enable", "auto", "remove", "check", "queue", "skip", "retry", "stop", "crash"}
INVARIANTS ChecksExclude StatusHasOwner PolicyKept
PROPERTIES ChecksRecur ItemsDrain
CHECK_DEADLOCK FALSE
