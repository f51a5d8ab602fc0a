SPECIFICATION Spec
CONSTANTS
  ProximityPct = 5
  TolerancePct = 1
  MaxSymbols = 1
  MaxRows = 1
  NoQuote = NoQuote
  NoMinimum = NoMinimum
  Nobody = Nobody
  Workers = 2
  User = {"ann", "bob"}
  Symbol = {"PTT", "NVDA"}
  Desk <- MCDesk
  Snapshot <- MCSnapshot
  OpenAt <- MCOpenAt
  DayLength = 4
  BeatAt <- MCBeatAt
  Behind <- MCBehind
  FirstWeekday = 4
  LockTtl = 1
  NoJob = NoJob
  MaxTime = 4
  MaxTriggers = 1
  MaxFailures = 1
INVARIANTS TypeOK OneDayOneMessage NearestIsShown BookIsAccountedFor
PROPERTY EveryoneGetsATurn
CHECK_DEADLOCK FALSE
