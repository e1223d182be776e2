SPECIFICATION Spec
CONSTANTS
  c1 = c1
  c2 = c2
  i1 = i1
  Plans = {1}
  Callers = {c1}
  Contents <- TwoBodies
  Asked <- OneDoesAll
  MaxVersions = 2
INVARIANTS PinsReplay
CHECK_DEADLOCK FALSE
