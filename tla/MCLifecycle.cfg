SPECIFICATION FairSpec
CONSTANTS
  Files <- MCFiles
  Call = {c1, c2}
  Millisecond = 2
  Second = 4
  Top64 = 512
  Top32 = 2048
INVARIANTS
  DsnAsMeant
  LimitsAsMeant
  AdvertisedResolves
  ClosesLast
  NothingLeft
PROPERTIES
  ShutdownEnds
