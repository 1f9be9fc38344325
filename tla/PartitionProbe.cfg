SPECIFICATION FairSpec
CONSTANTS
  Caller = {c1, c2, c3}
INVARIANTS
  SingleFlight
  CachedTruth
  AnswerExplained
PROPERTIES
  WaitEnds
