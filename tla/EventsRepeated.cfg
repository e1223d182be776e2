SPECIFICATION Spec
CONSTANTS
  i1 = i1
  i2 = i2
  e1 = e1
  e2 = e2
  k1 = k1
  d1 = d1
  d2 = d2
  Integrations = {i1, i2}
  Ids = {e1, e2}
  Carriers = {k1}
  Batches <- RepeatedBatches
  Deliveries = {d1, d2}
  MaxFaults = 1
SYMMETRY Alike
INVARIANTS AckIsRecorded FenceHolds
PROPERTIES KeepsPromise
CHECK_DEADLOCK FALSE
