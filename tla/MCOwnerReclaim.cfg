SPECIFICATION Spec
CONSTANTS
  MaxGen = 2
  MaxEpoch = 2
  MaxOp = 2
  MaxTry = 1
  MaxReader = 1
CONSTRAINT WithinBudget
INVARIANTS
  TypeOK
  NoAssertionFails
  RoutedSlotReadable
  ReleaseUnderFence
  ReadersKeepSlot
  AbandonedOnlyIfUntold
PROPERTY NoSlotRevived
CHECK_DEADLOCK FALSE
