SPECIFICATION Spec
CONSTANTS
  a1 = a1
  main = main
  t1 = t1
  t2 = t2
  x1 = x1
  Analyses <- OneAnalysis
  Derived <- OneDerived
  Threads <- ThreeThreads
  Main = main
  Nobody = Nobody
  NoCall = NoCall
  MaxCrashes = 1
INVARIANTS
  RowsAreGrantedAndReadable
  UpgradeMeetsNobody
PROPERTIES
  OwnershipPrecedesTheClock
  ImplementsLifecycle
