SPECIFICATION FairSpec
CONSTANTS
  a1 = a1
  a2 = a2
  Analyses <- TwoAnalyses
  NoAnalysis = none
  MaxRuns = 2
CHECK_DEADLOCK FALSE
INVARIANTS
  PageIsOfOneAnalysis
  PollsUntilOneVerdict
PROPERTIES
  PollingEnds
  ResultArrives
