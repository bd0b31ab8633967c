SPECIFICATION FairSpec
CONSTANTS
  Jobs = {j1}
  Gateways = {g1, g2}
  Workers = {w1, w2}
  None = None
  MaxFiles = 2
  MaxFaults = 2
CHECK_DEADLOCK FALSE
INVARIANTS ImportsAreAccounted
PROPERTIES ImplementsLeasedJob EveryImportEnds
