SPECIFICATION Spec
CONSTANTS
  w1 = w1
  w2 = w2
  w3 = w3
  outside = outside
  inside = inside
  none = none
  Pools <- MCPools
  MaxWorkers = 3
  Calls <- MCCalls
  Outer <- MCOuter
  Kind <- MCKind
  Sizes <- MCSizes
  NoJob = none
INVARIANTS
  TypeOK
  FrameOutlivesHelpers
  EachIndexOnce
  ErrorsReachCaller
PROPERTIES
  CallsReturn
CHECK_DEADLOCK FALSE
