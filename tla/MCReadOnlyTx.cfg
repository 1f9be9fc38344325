SPECIFICATION FairSpec
CONSTANTS
  c1 = c1
  c2 = c2
  k1 = k1
  k2 = k2
  Call = {c1, c2}
  SelectCall = {c1}
  Deadline = {c1}
  Conn = {k1, k2}
  NoConn = NoConn
  NoCall = NoCall
  Foreign = Foreign
  HandOvers = {"T", "E"}
  Faulty = TRUE
INVARIANTS
  TypeOK
  OwnReadOnlyTx
  IdleConnsClean
  Possession
  DeliveredComplete
  CollectedNotLost
PROPERTIES
  ImplementsQueryService
  UsesPool
  DeadlineReturns
  ConnComesBack
