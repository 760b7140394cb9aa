SPECIFICATION FairSpec
CONSTANTS
  p1 = p1
  p2 = p2
  i1 = i1
  i2 = i2
  i3 = i3
  NoMeta = NoMeta
  Parents = {p1, p2}
  Items = {i1, i2, i3}
  MaxRows = 3
  Scenarios <- AllScenarios
INVARIANTS ListingIsTrue
PROPERTIES NoDuplicateChildren FailuresRest FamilyEnds
CHECK_DEADLOCK FALSE
