\* A crash, a failing write and a failing unlink over two uploads and two
\* lifespans of a process.
SPECIFICATION FairSpec
CONSTANTS
  u1 = u1
  u2 = u2
  i1 = i1
  i2 = i2
  t1 = t1
  t2 = t2
  NoId = NoId
  NoThread = NoThread
  Uploads <- TwoUploads
  Ids <- TwoIds
  Threads <- TwoThreads
  Names <- MCNames
  MaxSize <- MCMaxSize
  MaxNameLength = 2
  MaxChunk = 2
  MaxAttempts = 2
  MaxFaults = 2
  MaxCrashes = 1
INVARIANTS
  AnsweredAssetsAreWhole
  LeftoversAreTemporary
  BodiesAreBounded
  OneMaintenanceThread
PROPERTIES
  ImplementsStore
  LeftoversAreReclaimed
  ShutdownEnds
