CONSTANTS
  Job <- OneJob
  Channel <- TwoChannels
  Root = "root"
  Up <- TwoUp
  Order <- TwoOrder
  Capacity <- TwoCapacity
  Sequential <- SeqOnly
  Throttle <- TwoThrottle
  Prio <- OnePrio
  NoJob = NoJob
  ChannelOf <- InSeq
  PrioOf <- SamePrio
  DependsOn <- NoDepends
  Graph <- Whole
  Etas <- NoEta
  MaxRetries = 0
  RetryDelay = 1
  Call = {k1, k2}
  MaxClock = 1
  MaxRetry = 0
  MaxFaults = 2
  UserOps <- AllOps
  Requeued <- NotStarted
SPECIFICATION Spec
INVARIANTS UsersHarmNothing
SYMMETRY CallSymmetry
