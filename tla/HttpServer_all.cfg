CONSTANTS
  Clients = {c1, c2}
  Nobody = nobody
  Kinds = {"plain", "sse", "live"}
  MaxEvents = 2
SPECIFICATION FairSpec
INVARIANTS
  TypeOK
  ThreadsAreOwned
  InterruptsOpenSockets
PROPERTIES
  LiveClientsCannotPin
  ShutdownCompletes
CHECK_DEADLOCK FALSE
