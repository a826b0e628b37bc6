CONSTANTS
  Start = {a1, a2}
  None = None
  Throws = TRUE
SPECIFICATION Spec
SYMMETRY Symmetry
PROPERTY RetryNextInterval
