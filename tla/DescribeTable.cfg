SPECIFICATION FairSpec
CONSTANTS
  Caller = {c1, c2}
  Limit = 1
INVARIANTS
  AsksWhatExists
  KindExplained
  PartitionsExplained
  ListingTold
PROPERTIES
  DescribeEnds
