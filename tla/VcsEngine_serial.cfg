CONSTANTS
  None = None
  Callers = {c1, c2, c3}
  Kinds = {"commit", "integrate", "checkpoint", "restore", "read"}
  Overlap = FALSE
  MaxMishaps = 1
  MaxPushes = 1
SPECIFICATION VcsSpec
SYMMETRY Symmetry
CHECK_DEADLOCK FALSE
INVARIANTS MainKeepsLandings LandedEditsStay
