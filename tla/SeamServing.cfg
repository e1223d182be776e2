SPECIFICATION Spec
CONSTANTS
  c1 = c1
  c2 = c2
  i1 = i1
  Plans = {1}
  Callers = {c1, c2}
  Contents <- OneInput
  Asked <- OneTests
  MaxVersions = 2
INVARIANTS AnswerWasPublished PauseHolds TestedWhileAsked
PROPERTIES GoesLiveTested
CHECK_DEADLOCK FALSE
