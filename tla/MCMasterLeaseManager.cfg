CONSTANTS
  MaxLeases = 2
  Task = {k1, k2}
  TTL = {0, 1, 2}
  CustomTTL = {0}
  MinTTL = 1
  DefaultSleep = 3
  MinSleep = 1
  MaxTime = 3
SPECIFICATION Spec
SYMMETRY TaskSymmetry
INVARIANTS TypeOK NoOrphanLease SleepCoversHeap
PROPERTY ImplementsLeaseTable
