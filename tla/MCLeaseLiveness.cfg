CONSTANTS
  MaxLeases = 1
  Task = {k1, k2}
  TTL = {2}
  CustomTTL = {0, 1}
  MinTTL = 2
  DefaultSleep = 3
  MinSleep = 1
  MaxTime = 3
SPECIFICATION FairSpec
PROPERTY LapsedLeaseLeaves
