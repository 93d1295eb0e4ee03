CONSTANTS
  job = job
  cli = cli
  Planners <- Processes
  Symbols = {"a", "b"}
  SymbolOrder <- SortedSymbols
  Targets = {"a"}
  Accounts <- OneShareOrFull
  SymbolCap = 2
  TotalCap = 3
  MinCash = 2
  DailyCap = 3
  MaxAttempts = 2
  MaxRejects = 1
  MaxFailures = 1
  MaxPlans = 2
  MaxTrouble = 1
  Shapes <- ThreeSharesOrPairs
  MaxRevisions = 1
  MaxAttestations = 1
  MaxReplays = 1
  MaxExplanations = 1
  CalCollectors <- Processes
  CalConfirmers = {"b1"}
  TicksPerDay = 2
  TradingDay = 0
  LastTick = 2
  MaxNews = 1
  MaxCalFaults = 1
  KisProcesses <- Processes
  Lifetime = 4
  SafetyMargin = 3
  WaitLimit = 2
  LockTtl = 2
  SlotInterval = 1
  MaxIssues = 2
  MaxKisFaults = 1
  FactCollectors <- Processes
  FactValues = {"x", "y"}
  IntervalEnd = 2
  LastTime = 3
  MaxFactChanges = 2
  MaxCollections = 3
  Sweepers <- Processes
  Universe <- SortedSymbols
  Days = 3
  ChunkDays = 2
  DailyQuota = 3
  MaxSweeps = 2
  MaxPublished = 1
  MaxSweepFaults = 1
  ActionWriters <- Processes
  Announcements <- TwoAmounts
  Calendars <- HolidayBeforeOrAtTheEnd
  MaxEvents = 2
  LastStamp = 4
  Builders <- Processes
  Cutoff = 4
  Closes = {3, 6}
  KnownActions <- DividendAndSplit
  MaxCorrections = 2
  MaxBuilds = 2
SPECIFICATION CompanionsSpec
INVARIANTS CompanionsTypeOK RepairContract
PROPERTIES
  PlanningContract CalendarContract CoordinationContract VersionsContract SweepsContract
  ActionsContract PricesContract
SYMMETRY EitherProcess
CHECK_DEADLOCK FALSE
