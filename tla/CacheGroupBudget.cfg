\* Three workers are updated, one of them may be removed, and one thing may go wrong.
SPECIFICATION Spec
CONSTANTS
  w1 = w1
  w2 = w2
  w3 = w3
  Workers <- W3
  MaxTime = 1
  MaxGen = 2
  V2Gens <- None
  RebalanceDelay = 0
  LeaveDelay = 0
  Margin = 0
  BackupDuration = 1
  WaitingMax = 0
  StatsMaxAge = 1
  MinLeave = 0
  MaxUnavailable = 50
  Percent = TRUE
  AutoJoin = FALSE
  InitWorkers <- W3
  InitV2 = FALSE
  InitCacheSize = ""
  Strategies = {FALSE}
  ExpectSets <- ShrinkSets3
  Receives <- None
  Transfers <- None
  CacheReports <- None
  CleanCache = TRUE
  ColdWorkers = TRUE
  FreshLists = TRUE
  FaultKinds = {"api", "crash", "delete", "exec", "pod", "slow"}
  MaxEdits = 1
  MaxFaults = 1
INVARIANT FaultsCostABoundedNumber
INVARIANT PassWithinBudget
INVARIANT CacheNotLeftBehind
