CONSTANTS
  Key = {k1}
  Node = {n1, n2}
  MaxGen = 2
  MaxLeaves = 1
  Put = {p1, p2}
  NoPut = NoPut
  Task = {c1}

SPECIFICATION ISpec
SYMMETRY Symmetry
INVARIANTS
  TypeOK
  DepartedCovered
  
  LiveReplicaIsCurrent
  IndexFollowsRoutes
 
CHECK_DEADLOCK FALSE
