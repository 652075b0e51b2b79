CONSTANTS
  Job <- TwoJobs
  Channel <- OneChannel
  Root = "root"
  Up <- OneUp
  Order <- OneOrder
  Capacity <- OneCapacity
  Sequential <- NoSequential
  Throttle <- OneThrottle
  Prio <- OnePrio
  NoJob = NoJob
  ChannelOf <- InRoot
  PrioOf <- SamePrio
  DependsOn <- NoDepends
  Graph <- Singles
  Etas <- NoEta
  MaxRetries = 1
  RetryDelay = 1
  Call <- OneCall
  MaxClock = 1
  MaxRetry = 1
  MaxFaults = 0
  UserOps <- CancelOps
  Requeued <- NoStates
SPECIFICATION FairSpec
PROPERTIES PendingIsTried
