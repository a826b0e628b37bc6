CONSTANTS
  Start = {a1, a2, a3}
  None = None
  Throws = TRUE
SPECIFICATION Spec
SYMMETRY Symmetry
INVARIANT OneLockedSocket
INVARIANT StoppedIsQuiet
PROPERTY RecoveryIsAlone
