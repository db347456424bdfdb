CONSTANTS
  Key = {k1}
  NoKey = NoKey
  Put = {p1, p2, p3}
  NoPut = NoPut
  Lease = {l1, l2}
  NoLease = NoLease

SPECIFICATION FairSpec
INVARIANTS
  TypeOK
  OutlivesLeaseOnlyIfRaced
PROPERTIES
  LeasedRouteGoes
  
CHECK_DEADLOCK FALSE
