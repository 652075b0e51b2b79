CONSTANTS
  Job <- TwoJobs
  Channel <- OneChannel
  Root = "root"
  Up <- OneUp
  Order <- OneOrder
  Capacity <- OneCapacity
  Sequential <- NoSequential
  Throttle <- OneThrottle
  Prio <- OnePrio
  NoJob = NoJob
  ChannelOf <- InRoot
  PrioOf <- SamePrio
  DependsOn <- NoDepends
  Graph <- Singles
  Etas <- NoEta
  MaxRetries = 1
  RetryDelay = 1
  Call = {k1, k2}
  MaxClock = 1
  MaxRetry = 1
  MaxFaults = 1
  d1 = d1
  d2 = d2
  u1 = u1
  u2 = u2
  NoDb = NoDb
  Db = {d1, d2}
  Uuid = {u1, u2}
  DbNames <- MCNames
  Tables <- MCTables
  MaxFailures = 2
  UserOps <- NoOps
  Requeued <- NoStates
SPECIFICATION MCSpec
PROPERTIES PendingIsTried ServesAndStops
