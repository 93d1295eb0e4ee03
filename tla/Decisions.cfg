CONSTANTS
  Callers = {c1, c2}
  MaxDay = 2
  Interleaved = TRUE
  Symbols = {"a", "b"}
  Sectors = {"s"}
  NoSector = "unclassified"
  Scale = 10
  Limits <- TenthLimits
  PlanRequests <- MCRequests
  BtSymbols <- SortedSymbols
  Proxy = "b"
  InitialCash = 40
  DaysOfBars <- SixDays
  Payments <- TwoDividends
  Reports <- CorrectedOrIncomplete
  MonthEnds = {2, 3, 4}
  Lookback = 1
  Short = 1
  Long = 2
  RsiPeriod = 2
  RsiLimit = 95
  FeeRate = 10
  StockSlippage = 10
  EtfSlippage = 5
  StockTax <- TaxFromDayTwo
  Learnt <- SortedSymbols
  Benchmark = "i"
  CalendarDays = 9
  Gaps <- FewGaps
  Warmup = 1
  MinTrainDays = 2
  ValidDays = 2
  MinSamples = 2
  Horizons = {1, 2}
  Embargoes = {1, 2}
  Windows <- ThreeWindows
  CorrectedDays = {3, 7}
  MaxBarCorrections = 1
  Filings <- CompanyFilings
  TrueAmounts <- Books
  Observations <- SplitOfTwo
  MaxFiled = 2
  MaxObserved = 1
  MaxListingChanges = 1
  PageLimits <- PageRules
  Unit = 100
  RecentOrders = 3
  GateWindow = 2
  NetAssets = {904, 1300}
  Databases <- FewDatabases
  MaxFacts = 2
SPECIFICATION DecisionsSpec
INVARIANTS DecisionsTypeOK RunningWasOrderedToday PurchasesFit EvaluationIsSound
PROPERTIES StartDisables StopLands EvaluationEnds BacktestContract TrainingContract FundamentalsContract ConsoleContract
CHECK_DEADLOCK FALSE
