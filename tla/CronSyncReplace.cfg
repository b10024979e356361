\* Replace, without any fault.
SPECIFICATION Spec
CONSTANTS
  Period = 2
  Policies = {"Replace"}
  SuccessfulLimit = 1
  FailedLimit = 1
  MaxTime = 4
  FaultKinds = {}
  MaxFaults = 0
CHECK_DEADLOCK FALSE
PROPERTY OncePerDueTime
