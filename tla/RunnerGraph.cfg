CONSTANTS
  Job <- ThreeJobs
  Channel <- OneChannel
  Root = "root"
  Up <- OneUp
  Order <- OneOrder
  Capacity <- OneCapacity
  Sequential <- NoSequential
  Throttle <- OneThrottle
  Prio <- OnePrio
  NoJob = NoJob
  ChannelOf <- InRoot
  PrioOf <- SamePrio
  DependsOn <- Join
  Graph <- Whole
  Etas <- NoEta
  MaxRetries = 2
  RetryDelay = 1
  Call <- OneCall
  MaxClock = 1
  MaxRetry = 2
  MaxFaults = 0
  UserOps <- RequeueOps
  Requeued <- FailedOnly
SPECIFICATION FairSpec
PROPERTIES JobsBegin DependentsReleased
