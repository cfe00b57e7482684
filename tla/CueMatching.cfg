SPECIFICATION Spec
CONSTANTS
  CueCount = 2
  SourceLengths = {0, 1, 2, 6, 7}
  CueLengths = {0, 1, 2, 3}
  Windows <- MCWindows
  Requests <- MCRequests
  Scores = {1, 2, 3}
  Threshold = 2
  MaxOccurrences = 2
INVARIANTS
  SelectionIsTheBest
  VerdictOfTheBestLag
  AcceptedWindowNeverRaises
  OccurrencesInWindow
PROPERTIES
  EveryCueGetsAnOutcome
