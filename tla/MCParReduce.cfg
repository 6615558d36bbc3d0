SPECIFICATION Spec
CONSTANTS
  w1 = w1
  w2 = w2
  w3 = w3
  outside = outside
  inside = inside
  none = none
  Pools <- ReducePools
  MaxWorkers = 3
  Calls <- ReduceCalls
  Outer <- ReduceOuter
  Kind <- ReduceKind
  Sizes <- ReduceSizes
  NoJob = none
INVARIANTS
  ReadsStayInBounds
CHECK_DEADLOCK FALSE
