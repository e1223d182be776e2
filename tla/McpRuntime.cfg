SPECIFICATION FairSpec
CONSTANTS
  t1 = t1
  t2 = t2
  d1 = d1
  Tools = {t1, t2}
  Doctors = {d1}
  MaxBoots = 3
  MaxDeaths = 3
INVARIANTS OneEngineInTurn NoOrphans
PROPERTIES CallsAreAnswered
CHECK_DEADLOCK FALSE
