SPECIFICATION FairSpec
CONSTANTS
  Runs = {r1}
  Commits = {c1}
  Gateways = {g1, g2}
  Tasks = {t1, t2}
  None = None
  MaxFaults = 2
CHECK_DEADLOCK FALSE
PROPERTIES EveryRunFinishes
