\* Two workers join a group of one in one or two edits, and one of them may have to leave again; the
\* operator may crash. No sample is ever taken, so the join phase of a worker ends by its duration.
SPECIFICATION Spec
CONSTANTS
  w1 = w1
  w2 = w2
  w3 = w3
  Workers <- W3
  MaxTime = 4
  MaxGen = 1
  V2Gens <- G1
  RebalanceDelay = 2
  LeaveDelay = 0
  Margin = 1
  BackupDuration = 2
  WaitingMax = 2
  StatsMaxAge = 1
  MinLeave = 1
  MaxUnavailable = 1
  Percent = FALSE
  AutoJoin = TRUE
  InitWorkers <- OnlyW1
  InitV2 = TRUE
  InitCacheSize = "some"
  Strategies = {FALSE}
  ExpectSets <- ShrinkSets3
  Receives <- None
  Transfers <- None
  CacheReports <- None
  CleanCache = TRUE
  ColdWorkers = FALSE
  FreshLists = TRUE
  FaultKinds = {"crash"}
  MaxEdits = 2
  MaxFaults = 1
INVARIANT BatchCoversJoiners
PROPERTY JoinsInWindow
 
