CONSTANTS
  Key = {k1}
  Node = {n1, n2}
  MaxGen = 1
  MaxLeaves = 2
  Put = {p1, p2}
  NoPut = NoPut
  Task = {c1}

SPECIFICATION FairSpec
PROPERTY DepartedRoutesVanish
CHECK_DEADLOCK FALSE
