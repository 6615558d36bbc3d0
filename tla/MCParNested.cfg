SPECIFICATION Spec
CONSTANTS
  w1 = w1
  w2 = w2
  w3 = w3
  outside = outside
  inside = inside
  none = none
  Pools <- NestedPools
  MaxWorkers = 3
  Calls <- MCCalls
  Outer <- MCCalls
  Kind <- MCKind
  Sizes <- NestedSizes
  NoJob = none
PROPERTIES
  CallsReturn
CHECK_DEADLOCK FALSE
