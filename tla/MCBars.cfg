SPECIFICATION Spec
CONSTANTS
  LastDay = 1
  Keep = 0
  Canary = FALSE
  MaxJobs = 2
  Null = Null
INVARIANT CheckedBarsAreFinal
CHECK_DEADLOCK FALSE
