CONSTANTS
  Key = {k1}
  Node = {n1}
  MaxGen = 1
  MaxLeaves = 0
  Put = {p1, p2}
  NoPut = NoPut
  Task = {c1}

SPECIFICATION ISpec
SYMMETRY Symmetry
INVARIANT IndexIsCurrent
CHECK_DEADLOCK FALSE
