\* One Sync with two workers: API errors, crashes of the operator, deletion.
SPECIFICATION FairSpec
CONSTANTS
  Worker = {w1, w2}
  Manager = m
  Namesakes = {}
  PreparingTimeout = FALSE
  TTL = TRUE
  Losable = {}
  MaxGen = 0
  Kinds = {"error", "crash", "delete"}
  MaxFaults = 1
CHECK_DEADLOCK FALSE
INVARIANT TypeOK
PROPERTY KeepsPromise
PROPERTY WorkersGo
PROPERTY WorkersOutliveManager
PROPERTY ManagerHasItsWorkers
