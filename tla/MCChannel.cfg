SPECIFICATION Spec
CONSTANTS
  producer = producer
  both = both
  consumer = consumer
  Threads <- MCThreads
  Capacities <- MCCapacities
  MayCall <- MCMayCall
  MaxCalls = 3
INVARIANTS
  TypeOK
  CapacityRespected
  NoLostWakeup
PROPERTIES
  CloseReleasesBlocked
  ImplementsContract
CHECK_DEADLOCK FALSE
