CONSTANTS
  Threads = {m, w1, w2, w3}
  Main = m
  Width = 2
  Waits = 3
  MaxJobs = 3
SPECIFICATION FairSpec
INVARIANTS
  TypeOK
  NobodyRunsAhead
  WorkOutlivesUse
  RunIsComplete
PROPERTIES
  CallersReturn
CHECK_DEADLOCK FALSE
