SPECIFICATION AutomationSpec
CONSTANTS
  AutomationThreads = {t1, t2}
  AutomationCycles = {c1, c2}
  NoCycle = NoCycle
  MaxAutomationFaults = 1
  MaxTrades = 2
  MaxLoss = 1
  Amount = 1
  RiskManagerLimits <- Limits
  RiskPolicy <- Policy
  RecordWorkers = {t1, t2}
  RecordOperators = {o}
  MaxRecords = 2
  MaxRecordFaults = 1
  MarketThreads = {t1, t2}
  Symbols = {s1, s2}
  Timeframes = {1, 2}
  MaxAge = 1
  MaxTime = 2
  MaxLag = 1
  PaperIds = {c1, c2}
  GivenIds = {p1}
  MaxPapers = 3
  Outcomes = {"WIN", "LOSS"}
  Gains = {g}
  NoGain = NoGain
  Reports <- SomeReports
  Completed = {p1}
  Blocked = {p2}
  StateThreads = {t1, t2}
  Fields = {f1, f2}
  MaxStateCalls = 3
  MaxStateFaults = 2
  GuardThreads = {t1, t2}
  Clients = {h1, h2}
  Limit = 2
  Window = 2
  MaxTracked = 1
  MaxSeconds = 2
  MaxRequests = 4
  LibraryThreads = {t1, t2}
  Subjects = {k1}
  MaxObservations = 1
  MarketHealths = {"HEALTHY"}
  MaxSinkFaults = 0
CHECK_DEADLOCK FALSE
INVARIANTS DuplicatesAreRepeats
