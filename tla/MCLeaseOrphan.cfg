CONSTANTS
  Key = {k1}
  NoKey = NoKey
  Put = {p1}
  NoPut = NoPut
  Lease = {l1}
  NoLease = NoLease

SPECIFICATION FairSpec
PROPERTY NoLeasedRouteOutlives
CHECK_DEADLOCK FALSE
