CONSTANTS
  Names = {1, 2}
  Orgs = {o1, o2}
  Bootstrap = o1
  Users = {u1, u2}
  Operator = u1
  Requests = {q1, q2}
  Existing = {e1, e2}
  Updates <- MCUpdates
  None = None
  PageSize = 1
  MaxTime = 1
  MaxFaults = 1
SPECIFICATION Spec
CHECK_DEADLOCK FALSE
SYMMETRY MCSymmetry
INVARIANTS RowsAreSound OrphansHaveACause AnsweredCreations WalksAreComplete
