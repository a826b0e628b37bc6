CONSTANTS
  Req = {r1, r2}
  NoRoute = NoRoute
  QueryTimeout = 1
  CacheTtl = 1
  MaxNow = 5
  q1 = q1
  q2 = q2
  m1 = m1
  m2 = m2
  m3 = m3
  Sending = {q1, q2}
  Message = {m1, m2, m3}
  Queued = {m2}
  NoMsg = NoMsg
  Path <- MCPath
  Body <- MCBody
  MaxSock = 2
  MaxFlip = 2
SPECIFICATION MCRoutesSpec
CHECK_DEADLOCK FALSE
INVARIANTS
  PolicyIsKept
  DoneIsReported
  ProfileIsRecent
  AnswersAreTrue
PROPERTIES
  RequestsAnswered
