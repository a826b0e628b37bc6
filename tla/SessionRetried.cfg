CONSTANTS
  Start = {a1, a2}
  None = None
  Throws = FALSE
SPECIFICATION FairSpec
PROPERTY SessionRetried
