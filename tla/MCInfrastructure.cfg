CONSTANTS
  Callers = {a, b}
  NSites = 3
  MaxRounds = 3
  Symbols = {a, b}
  Categories = {k, l}
  HiPrices = {0, 222}
  YahooPrices = {180}
  BackupPrices = {223}
  RowCloses = {0, 200}
  RefCloses = {0, 200, 210}
  MaxReloads = 1
  Securities = {q}
  Markets = {1, 2}
  Weights = {0, 1}
  MaxDelist = 1
  MaxMoves = 2
  MaxSaves = 2
  MaxRefreshes = 1
  Threads = {a, b}
  Capacity = 2
  BatchSize = 2
  MaxSize = 2
  MaxAge = 2
  DayLength = 2
  MaxLines = 5
  MaxTime = 3
  MaxFaults = 1
  Crawlers = {q}
  Recipients = {k, l}
  Permits = 1
  MaxNetworkRetries = 3
  MaxRateLimitRetries = 1
  Ranked = {1, 2, 3}
  RankDates = {1, 2}
  Returns = {0, 1, 2}
  Filters <- SomeFilters
  Limits = {1}
  MaxRankingSaves = 1

SPECIFICATION Spec
SYMMETRY Symmetry
VIEW View
CHECK_DEADLOCK FALSE

INVARIANT InfrastructureTypes
INVARIANT EverySiteIsTried
INVARIANT SavesReachEveryone
INVARIANT LinesAreAccounted
INVARIANT PagesMakeOneRanking
PROPERTY SnapshotsAreKept
PROPERTY DelistedStayGone
PROPERTY OneAlertPerRefusal
