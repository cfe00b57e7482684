SPECIFICATION FairSpec
CONSTANTS
  a1 = a1
  a2 = a2
  x1 = x1
  x2 = x2
  r1 = r1
  r2 = r2
  Analyses <- OneAnalysis
  Requests <- OneRequest
  Assets <- OneAsset
  RetentionWindow = 1
  GraceWindow = 1
  MaxClock = 2
  MaxFaults = 1
  MaxCrashes = 1
PROPERTIES
  GarbageIsReclaimed
  RequestsGetPastTheLock
