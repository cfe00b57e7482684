SPECIFICATION Spec
CONSTANTS
  a1 = a1
  a2 = a2
  x1 = x1
  x2 = x2
  r1 = r1
  r2 = r2
  Analyses <- TwoAnalyses
  Requests <- TwoRequests
  Assets <- OneAsset
  RetentionWindow = 2
  GraceWindow = 1
  MaxClock = 3
  MaxFaults = 0
  MaxCrashes = 1
SYMMETRY SymmetryOneAsset
INVARIANTS
  AssetsInUseStay
  PromisedWindowsAreKept
  CleanupIsExact
  ReservationCountsAreExact
PROPERTIES
  ImplementsStore
