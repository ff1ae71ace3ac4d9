CONSTANTS
  Callers = {c1, c2, c3}
  MaxSlots = 2
  Capacities = {1, 2}
  Timeouts = {0, 1}
  MaxTimeout = 1
SPECIFICATION FairSpec
INVARIANTS
  TypeOK
  QueueMatchesWaiters
  LeaseOwnership
  Exclusion
  WorkConserving
PROPERTIES
  ImplementsAdmission
  WaitersReturn
