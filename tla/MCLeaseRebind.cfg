CONSTANTS
  Key = {k1}
  NoKey = NoKey
  Put = {p1, p2}
  NoPut = NoPut
  Lease = {l1, l2}
  NoLease = NoLease

SPECIFICATION Spec
PROPERTY OnlyAttachedDeleted
CHECK_DEADLOCK FALSE
