\* Two v1 workers are updated to a v2 template, or removed, with lists that lag,
\* a pod that fails or takes long to terminate, an API call that fails, and an operator that
\* crashes.
SPECIFICATION FairSpec
CONSTANTS
  w1 = w1
  w2 = w2
  w3 = w3
  Workers <- W2
  MaxTime = 1
  MaxGen = 2
  V2Gens = {2}
  RebalanceDelay = 0
  LeaveDelay = 0
  Margin = 0
  BackupDuration = 1
  WaitingMax = 0
  StatsMaxAge = 1
  MinLeave = 0
  MaxUnavailable = 1
  Percent = FALSE
  AutoJoin = FALSE
  InitWorkers <- W2
  InitV2 = FALSE
  InitCacheSize = ""
  Strategies = {FALSE}
  ExpectSets <- Sets2
  Receives <- None
  Transfers <- None
  CacheReports <- None
  CleanCache = TRUE
  ColdWorkers = FALSE
  FreshLists = FALSE
  FaultKinds = {"api", "crash", "pod", "slow"}
  MaxEdits = 1
  MaxFaults = 1
PROPERTY DeletesWhatItListed
PROPERTY Converges
