SPECIFICATION FairSpec
CONSTANTS
  Clients = {"client"}
  Admins = {"admin"}
  Docs = {1}
  Pairs = {"pair"}
  PairOf <- MCPairOf
  Requests = {"r1", "r2"}
  Asks <- MCAsks
  NewVersions <- MCNewVersions
  PoolSize = 2
  MaxLimit = 2
  MaxContent = 1
  MaxClock = 2
  MaxChanges = 2
INVARIANTS
  BypassAudited
  AnswersInScope
  AnswersWhole
PROPERTIES
  Answered
CHECK_DEADLOCK FALSE
