SPECIFICATION FairSpec
CONSTANTS
  d1 = d1
  m1 = m1
  o1 = o1
  Docs = {d1}
  Kinds = {"collection", "mapping", "tail"}
  Mine = {m1}
  Theirs = {o1}
  MaxFlights = 2
  MaxFailures = 1
INVARIANTS TypeOK FreezeCarriesEdits
PROPERTIES NothingUnseenIsWiped EditsLand
CHECK_DEADLOCK FALSE
