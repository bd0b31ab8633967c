CONSTANTS
  r1 = r1
  r2 = r2
  s1 = s1
  s2 = s2
  b1 = b1
  b2 = b2
  k1 = k1
  g1 = g1
  Repos = {r1, r2}
  Public = {r1}
  Agents = {a1}
  AgentTokens = {t1, t2}
  ApiTokens = {b1, b2}
  BootToken = b1
  Sessions = {s1, s2}
  Claims <- MCClaims
  Home = home
  HomeName = "home"
  Operator = u1
  OldUsers = {u1, u2}
  Calls = {c1, c2}
  Asks <- MCAsks
  Scopes <- MCScopes
  None = None
  MaxFaults = 1
SPECIFICATION Spec
CHECK_DEADLOCK FALSE
SYMMETRY MCSymmetry
INVARIANTS EffectsWereAllowed DecisionsAgree AuditIsTrue SignInsAgree
