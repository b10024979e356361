\* As CacheGroupLeave with v1 workers, and nothing goes wrong.
SPECIFICATION FairSpec
CONSTANTS
  w1 = w1
  w2 = w2
  w3 = w3
  Workers <- W2
  MaxTime = 3
  MaxGen = 1
  V2Gens <- None
  RebalanceDelay = 0
  LeaveDelay = 0
  Margin = 0
  BackupDuration = 2
  WaitingMax = 2
  StatsMaxAge = 1
  MinLeave = 1
  MaxUnavailable = 1
  Percent = FALSE
  AutoJoin = FALSE
  InitWorkers <- W2
  InitV2 = FALSE
  InitCacheSize = "some"
  Strategies = {FALSE}
  ExpectSets <- ShrinkSets
  Receives = {"unknown"}
  Transfers = {"moving", "zero"}
  CacheReports = {"some"}
  CleanCache = TRUE
  ColdWorkers = FALSE
  FreshLists = TRUE
  FaultKinds <- None
  MaxEdits = 2
  MaxFaults = 0
PROPERTY Converges
