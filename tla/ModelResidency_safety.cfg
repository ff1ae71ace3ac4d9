CONSTANTS
  Models = {a, b}
  Callers = {c1, c2, c3}
  Idlers = {idler}
  Nobody = nobody
  Capacities = {1, 2}
  Limit = 1
SPECIFICATION Spec
SYMMETRY Symmetry
CONSTRAINT ThreeAtWork
INVARIANTS
  TypeOK
  ResidentLimit
  SessionsAreOwned
PROPERTY
  UsesAdmission
