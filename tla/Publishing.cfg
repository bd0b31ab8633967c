SPECIFICATION Spec
CONSTANTS
  Requests = {q1, q2}
  Kinds = {"merge_pull", "put_merge_policy", "create_release", "hub", "get_release_file"}
  Versions = {"v1", "c0"}
  Base = "c0"
  Heads = {"c1", "c2"}
  Users = {"clotho", "alice"}
  Tree <- MCTree
  None = None
  MaxMoves = 3
  MaxFaults = 1
  MaxOffset = 2
SYMMETRY Symmetry
CONSTRAINT Related
CHECK_DEADLOCK FALSE
INVARIANTS MergesAreDeserved ReleasesAreHonoured DownloadsAreExact HubSessionsAgree
