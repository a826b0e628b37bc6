CONSTANTS
  b1 = b1
  b2 = b2
  Node = {n1, n2}
  Boot = {b1, b2, b3}
  Key = {active}
  Cluster = active
  Item = {i1}
  NoBoot = NoBoot
  NoOwner = NoOwner
  LeaseTtl = 2
  SelfFence = 1
  Watchdog = TRUE
  Approval = {o1, o2}
  Caller = {c1, c2}
  NoAction = NoAction
SPECIFICATION PartsSpec
SYMMETRY Symmetry
CHECK_DEADLOCK FALSE
INVARIANTS
  StoreTypeOK
  FencedBootIsPowerless
  FencingIsQuiesced
  PermitHolderUndisturbed
  NoOrphanedLease
  OneNodeServes
  FencingFindsProcessDead
  ApprovalIsSpentOnce
PROPERTY ImplementsExclusiveOwner
