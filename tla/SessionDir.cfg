CONSTANTS
  Boot = {b1, b2, b3}
  Pid = {p1, p2}
  NoPid = NoPid
  MaxId = 2
  MaxRev = 2
  MaxQueue = 2
  a1 = a1
  a2 = a2
  Asking = {a1, a2}
  AlertGap = 2
  WatchedRead = "slot"
  MaxChange = 1
  MaxSent = 4
  Kept = 1
  Every = 2
  Ttl = 1
  OrphanAge = 1
  LastTime = 3
SPECIFICATION StartsSpec
SYMMETRY Symmetry
CONSTRAINT StillSaid
CHECK_DEADLOCK FALSE
INVARIANTS
  OpenersHoldLock
  DiskIsSound
  GoneStaysGone
  AnswerFollowsLicence
  RetriesAreKept
PROPERTY
  AlertsAreSpaced
