CONSTANTS
  h1 = h1
  h2 = h2
  h3 = h3
  Configured = {a}
  New = {}
  Handlers = {h1, h2, h3}
  Workloads <- ListedLoads
  Sweepers = {}
  Nobody = nobody
  Limit = 1
SPECIFICATION FairSpec
PROPERTY BoundedRequestsReturn
CHECK_DEADLOCK FALSE
