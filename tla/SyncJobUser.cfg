\* The pods fail, logs cannot be read, the user edits and deletes the Sync and creates it anew.
SPECIFICATION FairSpec
CONSTANTS
  Worker = {w1}
  Manager = m
  Namesakes = {}
  PreparingTimeout = TRUE
  TTL = FALSE
  Losable = {w1, m}
  MaxGen = 1
  Kinds = {"lost", "log", "edit", "delete"}
  MaxFaults = 1
CHECK_DEADLOCK FALSE
PROPERTY Settles
