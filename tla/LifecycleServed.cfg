SPECIFICATION FairSpec
CONSTANTS
  p1 = p1
  p2 = p2
  p3 = p3
  alice = alice
  bob = bob
  Plans = {p1, p2}
  NoPlan = NoPlan
  Operators = {alice}
  Attributes <- TwoProducts
  Multistate = Multistate
  Served = {p1}
  Verdicts = {"sound", "broken"}
  Revised = {p1, p2}
  Traced = {}
  MaxFailures = 0
  MaxCrashes = 1
INVARIANTS
  LineageStands
  ExposedHasRow
  NoOrphanVersions
PROPERTIES
  PromoteCompletes
CHECK_DEADLOCK FALSE
