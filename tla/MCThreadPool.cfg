SPECIFICATION Spec
CONSTANTS
  w1 = w1
  w2 = w2
  c1 = c1
  c2 = c2
  plain = plain
  nested = nested
  guarded = guarded
  late = late
  none = none
  NoTask = none
  Workers <- MCWorkers
  Clients <- MCClients
  Tasks <- MCTasks
  IssuedBy <- MCIssuedBy
  Cancellable <- MCCancellable
INVARIANTS
  TypeOK
  NoLostWakeup
  EachTaskOnce
  DrainedOnExit
PROPERTIES
  StoppedNeverStarts
  AcceptedIsResolved
  DestructorReturns
CHECK_DEADLOCK FALSE
