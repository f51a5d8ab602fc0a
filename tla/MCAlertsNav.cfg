SPECIFICATION Spec
CONSTANTS
  Null = Null
  r1 = r1
  r2 = r2
  a1 = a1
  a2 = a2
  s1 = s1
  s2 = s2
  Alert = {a1}
  Symbol = {s1, s2}
  Fund = {s2}
  Level = {1, 2}
  Run = {r1}
  Kind <- FundKind
  Cooldown = 1
  DayLength = 1
  MaxTime = 2
  MaxEdits = 2
INVARIANT NavFiresOnce
CHECK_DEADLOCK FALSE
