CONSTANTS
  h1 = h1
  h2 = h2
  h3 = h3
  Configured = {a, b}
  New = {n}
  Handlers = {h1, h2, h3}
  Workloads <- Mixes
  Sweepers = {s}
  Nobody = nobody
  Limit = 1
SPECIFICATION FairSpec
INVARIANTS
  TypeOK
  RunsAreGuarded
  ResidentLimit
PROPERTY
  ThreadsEnd
CHECK_DEADLOCK FALSE
