SPECIFICATION FairSpec
CONSTANTS
  a1 = a1
  a2 = a2
  a3 = a3
  w1 = w1
  w2 = w2
  NoJob = NoJob
  Analyses <- TwoAnalyses
  Workers <- TwoWorkers
  MaxResubmissions = 1
  MaxFaults = 1
  MaxCrashes = 2
INVARIANTS
  NoAnalysisRunsTwice
  OpenAnalysesAreCarried
  IntegrityErrorsOnlyAfterRestart
PROPERTIES
  ImplementsLifecycle
  CarriedAnalysesTerminate
  StopCompletes
