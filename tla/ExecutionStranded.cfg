SPECIFICATION FairSpec
CONSTANTS
  a1 = a1
  a2 = a2
  a3 = a3
  w1 = w1
  w2 = w2
  NoJob = NoJob
  Analyses <- TwoAnalyses
  Workers <- OneWorker
  MaxResubmissions = 0
  MaxFaults = 0
  MaxCrashes = 1
PROPERTIES
  EveryAnalysisTerminates
