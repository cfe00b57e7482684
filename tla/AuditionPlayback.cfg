\* Two cues, each with its own button and that of an occurrence; four
\* disposals or auditions. Without a click the system stops.
SPECIFICATION FairSpec
CONSTANTS
  c1 = c1
  c2 = c2
  Cues <- TwoCues
  NoCue = NoCue
  MaxVersion = 4
CHECK_DEADLOCK FALSE
INVARIANTS
  ResourcesFollowTheTarget
  OneVoice
PROPERTIES
  LateAnswerIsInert
  LoadingEnds
