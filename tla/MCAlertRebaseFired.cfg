SPECIFICATION FairSpec
CONSTANTS
  Null = Null
  Alert = {a1}
  Worker = {w1}
  Split = {1, 2}
  Level = {1}
  MaxTime = 2
  MaxEdits = 0
  MaxFailures = 0
INVARIANTS StandingLevelsCurrent
CHECK_DEADLOCK FALSE
