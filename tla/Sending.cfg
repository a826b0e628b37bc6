CONSTANTS
  Job = {o1, m1, u1}
  Operational = {o1}
  Unattended = {u1}
  NoJob = NoJob
  Minute = 1
  PerMinute = 1
  Hour = 1
  PerHour = 1
  Day = 4
  DailyCap = 2
  GapMin = 1
  GapMax = 2
  MaxFailures = 2
  MaxTime = 2
  Node = {n1, n2}
  Boot = {b1, b2}
  Key = {active}
  Item = {}
  NoBoot = NoBoot
  NoOwner = NoOwner
  LeaseTtl = 2
  Transmission = {s1, s2}
  NoSend = NoSend
  Sender = n1
  Mine = b1
  Chat = active
SPECIFICATION SendingSpec
CHECK_DEADLOCK FALSE
INVARIANTS
  NoLostWakeup
  QueuedIsWanted
  BrakeHolds
  SendsAreShielded
PROPERTIES
  NoSendWhilePaused
  OperationalServed
  SendIsSettled
