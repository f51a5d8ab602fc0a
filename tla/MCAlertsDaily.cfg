SPECIFICATION DailySpec
CONSTANTS
  Null = Null
  r1 = r1
  r2 = r2
  a1 = a1
  a2 = a2
  s1 = s1
  s2 = s2
  Alert = {a1, a2}
  Symbol = {s1, s2}
  Fund = {s2}
  Level = {1}
  Run = {r1, r2}
  Kind <- BarsKind
  Cooldown = 1
  DayLength = 1
  MaxTime = 1
  MaxEdits = 1
PROPERTIES DueNeverForever
CHECK_DEADLOCK FALSE
