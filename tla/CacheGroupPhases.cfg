\* A worker is added, another is removed and wanted again, and each joins or leaves while the
\* stats controller samples it, under both update strategies; the operator may crash, and samples may fail.
SPECIFICATION FairSpec
CONSTANTS
  w1 = w1
  w2 = w2
  w3 = w3
  Workers <- W2
  MaxTime = 4
  MaxGen = 1
  V2Gens <- G1
  RebalanceDelay = 1
  LeaveDelay = 0
  Margin = 1
  BackupDuration = 3
  WaitingMax = 1
  StatsMaxAge = 1
  MinLeave = 1
  MaxUnavailable = 1
  Percent = FALSE
  AutoJoin = TRUE
  InitWorkers <- W2
  InitV2 = TRUE
  InitCacheSize = "some"
  Strategies = {FALSE, TRUE}
  ExpectSets <- ShrinkSets
  Receives = {"moving", "idle"}
  Transfers = {"moving", "zero"}
  CacheReports = {"some"}
  CleanCache = TRUE
  ColdWorkers = FALSE
  FreshLists = TRUE
  FaultKinds = {"crash", "sample"}
  MaxEdits = 2
  MaxFaults = 1
PROPERTY JoinEndsOnEvidence
PROPERTY Converges
PROPERTY MigratesFirst
INVARIANT TypeOK
