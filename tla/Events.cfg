CONSTANTS
  Handler = {h1, h2}
  Beat = {t1, t2}
  Window = 1
  Nobody = Nobody
  Pass = {p1, p2}
  OutageAlert = 2
  b1 = b1
  b2 = b2
  e1 = e1
  e2 = e2
  e3 = e3
  e4 = e4
  Batch = {b1, b2}
  Body <- MCBody
  MaxRetries = 3
  MaxFailuresStored = 2
SPECIFICATION EventsSpec
CHECK_DEADLOCK FALSE
INVARIANTS
  SlotIsReservation
  NoEventIsPassedBy
PROPERTIES
  RowConverges
  AlertFollows
  HealthFollows
