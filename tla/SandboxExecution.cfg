SPECIFICATION Spec
CONSTANTS
  Requests = {q1, q2}
  Singles <- MCSingles
  Registered <- MCRegistered
  Default = "daytona"
  Bridge = "computesdk"
  Names <- MCNames
  Upstreams <- MCUpstreams
  Old = Old
  Boot = Boot
  Env = Env
  None = None
  Files = 2
  Commands = 2
  MaxFaults = 1
  MaxMoves = 1
CONSTRAINT Related
VIEW Seen
SYMMETRY Symmetry
ACTION_CONSTRAINT Apart
CHECK_DEADLOCK FALSE
INVARIANTS SecretsAreKept KeysReachTheirJob SandboxesEndWell
