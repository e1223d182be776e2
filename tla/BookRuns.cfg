SPECIFICATION FairSpec
CONSTANTS
  book = book
  batch = batch
  w1 = w1
  w2 = w2
  r1 = r1
  Jobs = {book, batch}
  Books = {book}
  Rows <- BookAndBatch
  Workers = {w1, w2}
  Readers = {r1}
  Chunk = 2
  PageSize = 2
  Drivers = {"memory", "redis"}
  MaxRestarts = 2
  MaxFaults = 2
INVARIANTS RatedOnce EndedIsOver DoneIsWhole PagesAreWhole
PROPERTIES KeepsPromise EveryRunEnds
CHECK_DEADLOCK FALSE
