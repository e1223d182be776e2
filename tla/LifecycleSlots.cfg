SPECIFICATION Spec
CONSTANTS
  p1 = p1
  p2 = p2
  p3 = p3
  alice = alice
  bob = bob
  Plans = {p1, p2, p3}
  NoPlan = NoPlan
  Operators = {alice}
  Attributes <- TwoProducts
  Multistate = Multistate
  Served = {}
  Verdicts = {"sound", "broken"}
  Revised = {}
  Traced = {"fork", "duplicate", "discard"}
  MaxFailures = 1
  MaxCrashes = 0
SYMMETRY Alike
INVARIANTS
  UniqueActive PromotedIsValid ReadsHold OneOpenForkPerOperator NeverHalfBuilds LiveIsExplained
PROPERTIES
  StatusFollowsMachine
CHECK_DEADLOCK FALSE
