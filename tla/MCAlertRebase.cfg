SPECIFICATION FairSpec
CONSTANTS
  Null = Null
  Alert = {a1}
  Worker = {w1, w2}
  Split = {1, 2}
  Level = {1, 2}
  MaxTime = 2
  MaxEdits = 2
  MaxFailures = 1
INVARIANTS TypeOK NeverTwice UnfiredLevelsCurrent
PROPERTY EventuallyRebased
CHECK_DEADLOCK FALSE
