CONSTANTS
  Job <- MCJobs
  Channel <- MCChannels
  Root = "root"
  Up <- MCUp
  Order <- MCOrder
  Capacity <- MCCapacity
  Sequential <- MCSequential
  Throttle <- MCThrottle
  Prio <- MCPrio
  NoJob = NoJob
  Clock <- MCClock
  Etas <- MCEtas
  Config <- MCChannels
SPECIFICATION Spec
INVARIANTS TypeOK PlacedOnce
PROPERTIES WakeupIsRight 
