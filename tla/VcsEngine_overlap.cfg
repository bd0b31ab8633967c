CONSTANTS
  None = None
  Callers = {c1, c2, c3}
  Kinds = {"commit", "integrate", "restore", "read", "checkpoint"}
  Overlap = TRUE
  MaxMishaps = 1
  MaxPushes = 1
SPECIFICATION VcsSpec
SYMMETRY Symmetry
CONSTRAINT PushesApart
CHECK_DEADLOCK FALSE
INVARIANTS OpLogComplete CommitsStayVisible TurnsAreEnough
