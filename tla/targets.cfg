SPECIFICATION TargetSpec
CONSTANTS
  Names <- MCNames
  Lower <- MCLower
  Rank <- MCRank
  Canonical <- MCCanonical
  AliasOf <- MCAliasOf
  RouteMap <- MCRouteMap
  PageLimit = 2
  Clients = {c1, c2}
  Copies = {j1}
  Leaf = "f"
  TargetScenarios <- AllScenarios
INVARIANTS RowFitsKind CopiesAreForetold PagesCoverFolder
CHECK_DEADLOCK FALSE
