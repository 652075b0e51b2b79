CONSTANTS
  Job <- TwoJobs
  Channel <- OneChannel
  Root = "root"
  Up <- OneUp
  Order <- OneOrder
  Capacity <- OneCapacity
  Sequential <- RootSequential
  Throttle <- OneThrottle
  Prio <- OnePrio
  NoJob = NoJob
  ChannelOf <- InRoot
  PrioOf <- SamePrio
  DependsOn <- NoDepends
  Graph <- Singles
  Etas <- NoEta
  MaxRetries = 0
  RetryDelay = 1
  Call = {k1, k2}
  MaxClock = 2
  MaxRetry = 0
  MaxFaults = 2
  UserOps <- RequeueOps
  Requeued <- FailedOnly
SPECIFICATION Spec
INVARIANTS TypeOK OneWorkerPerJob BusyIsRunning TableIsFollowed
PROPERTIES DoneIsFinal JobsBegin
SYMMETRY CallSymmetry
