CONSTANTS
  Models = {a, b}
  Callers = {c1, c2}
  Idlers = {idler}
  Nobody = nobody
  Capacities = {2}
  Limit = 1
SPECIFICATION FairSpec
INVARIANT ClaimsMatchHandlers
PROPERTY EveryHandlerReturns
