CONSTANTS
  Key = {k1}
  Node = {n1, n2}
  MaxGen = 1
  MaxLeaves = 1
  Put = {p1}
  NoPut = NoPut
  Task = {c1, c2}

SPECIFICATION Spec
SYMMETRY Symmetry
PROPERTY CleanupSparesLive
CHECK_DEADLOCK FALSE
