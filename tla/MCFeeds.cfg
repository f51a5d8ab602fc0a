SPECIFICATION FairSpec
CONSTANTS
  Null = Null
  Connections = 2
  Users = {"u1", "u2"}
  Token <- MCToken
  NumSlots = 3
  Workers = 2
  Symbol = {"SCB", "MEGA.BK", "MEGA.BK "}
  Stripped <- MCStripped
  Shape <- MCShape
  Told <- MCTold
  Listed <- MCListed
  Traded = {"SCB"}
  List = {"list"}
  Request = {1}
  Registrar = {1}
  MaxTasks = 1
  Symbols <- MCSymbols
  MaxQueued = 1
  Histories <- MCHistories
  FractalK = 1
  TolerancePct = 1
  BandBp = 25
  TopN = 2
  MinBars = 3
  Imports <- MCImports
  PivotRun = {1, 2}
  User = {"u1"}
  Post = {1, 2}
  StopId = {1, 2, 3}
  MaxMarks = 1
  LastSession = 1
  Keep = 0
  Canary = TRUE
  MaxJobs = 1
  Project = {"own", "near"}
  Own = "own"
  House <- MCHouse
  Tries <- MCTries
  Class = {"asked", "like", "first"}
  Asked = "asked"
  Alike = {"like"}
  LookBack = 2
  LastDay = 2
  Closes = {1, 2, 4}
  Fast = 1
  Slow = 3
  Signal = 2
  Period = 3
  Oversold = 30
  Overbought = 70
  StdDev = 1
  Enough = 4
  MaxBars = 7
INVARIANTS
  AllTypes
  StoredBarsHavePrices
PROPERTIES
  NobodyIsPassedOver
  GoneIsForgotten
  EveryMarketIsServed
  FollowedGetsRegistered
  AskedIsServed
  LevelsSetRight
  NavIsTheFunds
  BacktestIsSound
CHECK_DEADLOCK FALSE
