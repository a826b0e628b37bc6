CONSTANTS
  Node = {n1, n2}
  Boot = {b1, b2}
  Key = {active, s1}
  Cluster = active
  Item = {}
  NoBoot = NoBoot
  NoOwner = NoOwner
  LeaseTtl = 1
  SelfFence = 1
  Watchdog = FALSE
SPECIFICATION SessionsSpec
SYMMETRY Symmetry
INVARIANTS
  LocalDeadlineIsEarlier
  SocketsAreOwned
