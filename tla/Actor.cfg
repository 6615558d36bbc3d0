\* Two clients that send or ask twice each, take one snapshot each, and an owner that destroys
\* the actor at any moment no client is inside it; the mailbox is unbounded or holds one message.
SPECIFICATION Spec
CONSTANTS
  Clients = {c1, c2}
  Loop = loop
  Owner = owner
  Capacities = {0, 1}
  MaxCalls = 5
  MaxSends = 2
  MaxSnapshots = 1
  NoOne = none
INVARIANTS
  AppliedInOrder
  FreshSnapshots
  DrainedOnDestroy
PROPERTIES
  AskAnswered
CHECK_DEADLOCK FALSE
