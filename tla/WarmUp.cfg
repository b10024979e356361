CONSTANTS
  Specs = {"once", "cron", "secret"}
  SpecOf <- MCSpecOf
  Workers = {"w1", "w2"}
  PodOf <- MCPodOf
  Cleaner = Cleaner
  Secret = Secret
  None = None
  MaxProgress = 1
  Kinds = {"error", "log", "crash", "retry", "deleteJob", "delete", "edit", "group"}
  MaxFaults = 1
SPECIFICATION FairSpec
INVARIANTS
  TypeOK
  MountsAsClient
CHECK_DEADLOCK FALSE
PROPERTIES
  KeepsPromise
  Settles
  ShowsProgress
  CronJobFollows
