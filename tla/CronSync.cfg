\* Each concurrency policy, with API errors, failed creations, crashes and suspension.
SPECIFICATION FairSpec
CONSTANTS
  Period = 2
  Policies = {"Allow", "Forbid", "Replace"}
  SuccessfulLimit = 1
  FailedLimit = 1
  MaxTime = 4
  FaultKinds = {"error", "create", "crash", "edit"}
  MaxFaults = 1
CHECK_DEADLOCK FALSE
INVARIANT TypeOK
 
 
 
PROPERTY PrunesHistory
PROPERTY ScheduleGoesOn
