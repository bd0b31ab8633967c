SPECIFICATION Spec
CONSTANTS
  Runs = {r1, r2}
  Commits = {c1}
  Gateways = {g1, g2}
  Tasks = {t1, t2, t3}
  None = None
  MaxFaults = 1
SYMMETRY Symmetry
CHECK_DEADLOCK FALSE
INVARIANTS TypeOK LockMatchesHolder ResultIsNewestAttempts LogMatchesResult NotifiedOnceOnFailure FaultFreeOutcome
PROPERTIES FinishedIsFinal ImplementsLeasedJob
