SPECIFICATION Spec
CONSTANTS
  s = s
  c = c
  CanonicalRate = 2
  MaxSourceDuration = 4
  MaxCueDuration = 4
  MaxAuditionDuration = 3
  MaxResponse = 16
  WavHeader = 4
  Assets <- TwoAssets
  Contents <- MCContents
  Sources <- OneSource
  CueRequests <- MCCueRequests
  MaxCueCount = 2
  NoRecord = NoRecord
INVARIANTS
  RejectionsHaveACauseAndNoEffect
  SubmittedMatchesRecord
  AcceptedCuesCanBePlayed
