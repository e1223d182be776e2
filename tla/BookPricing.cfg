SPECIFICATION Spec
CONSTANTS
  None = None
  Shapes <- SomeShapes
  Plans <- SomePlans
  Mappings <- SomeMappings
  ChunkSizes = {1, 2}
  MaxRows = 3
INVARIANTS TypeOK NothingWithheldLeaks TotalsAreFiled RowsMatchQuotes LedgerIsWhatWasStored
CHECK_DEADLOCK FALSE
