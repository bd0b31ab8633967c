CONSTANTS
  c1 = c1
  c2 = c2
  Chunks = {c1, c2}
  Payloads <- MCPayloads
  Ranges <- MCRanges
  Uploads = {u1, u2, u3}
  Downloads = {d1}
  XorbLimit = 1
  ChunkBytes = 2
  MaxWord = 5
  MaxFaults = 1
SPECIFICATION Spec
CHECK_DEADLOCK FALSE
SYMMETRY MCSymmetry
INVARIANTS AcknowledgedIsSafe ReferencesResolve DownloadsAreExact
