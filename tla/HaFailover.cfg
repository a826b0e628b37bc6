CONSTANTS
  Node = {n1, n2}
  Boot = {b1, b2}
  Key = {active}
  Cluster = active
  Item = {}
  NoBoot = NoBoot
  NoOwner = NoOwner
  LeaseTtl = 2
  SelfFence = 1
  Watchdog = TRUE
SPECIFICATION FailoverSpec
PROPERTY ServiceComesBack
