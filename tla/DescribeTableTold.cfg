SPECIFICATION Spec
CONSTANTS
  Caller = {c1, c2}
  Limit = 1
INVARIANT PartitionsTold
