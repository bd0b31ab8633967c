SPECIFICATION StartSpec
CONSTANTS
  Reqs = {q1, q2, q3}
  Keys = {k1}
  Intents = {i1, i2}
  Commits = {c1, c2}
  Null = Null
  MaxExpiries = 1
  MaxConfig = 1
SYMMETRY Symmetry
CHECK_DEADLOCK FALSE
INVARIANTS KeysAreHonoured AnswersAreTrue
