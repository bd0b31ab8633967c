SPECIFICATION Spec
CONSTANTS
  Calls = {c1, c2, c3}
  Ids = {d1}
  Payloads = {p1, p2}
  Deletions = {p2}
  Repos = {r1, r2}
  Gateways = {g1, g2}
  None = None
  MaxEnded = 1
  MaxFaults = 1
SYMMETRY Symmetry
CHECK_DEADLOCK FALSE
INVARIANTS PushesStartOnce RetriesAreJudgedByContent LostRunsHaveACause
