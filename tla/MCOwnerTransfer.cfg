SPECIFICATION Spec
CONSTANTS
  g1 = g1
  g2 = g2
  r = r
  lg1 = lg1
  lg2 = lg2
  lr1 = lr1
  lr2 = lr2
  p1 = p1
  p2 = p2
  Ops <- MCOps
  Legs <- MCLegs
  Peers <- MCPeers
  OpOf <- MCOpOf
  PeerOf <- MCPeerOf
  Kind <- MCKind
  MaxSend = 2
  MaxExec = 2
CONSTRAINT WithinBudget
INVARIANTS
  TypeOK
  AckIsSettledPrefix
  ExecutedOnceWhileWaiting
  OneExecutionAtATime
  AccessOnlyWhileLent
  LeaseHasExecution
  CommittedIsRouted
  KeptIsWritten
CHECK_DEADLOCK FALSE
