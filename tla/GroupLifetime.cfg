CONSTANTS
  NodesByName <- MCNodesByName
  ReplicaNames <- MCReplicaNames
  Specs = {"nodes", "scheduled", "alone", "one", "two", "large"}
  SpecOf <- MCSpecOf
  NodeObjects <- MCNodeObjects
  OtherPods <- MCOtherPods
  None = None
  Patient = TRUE
  Clusters <- MCClusters
  Kinds <- MCKinds
  MaxEvents <- MCMaxEvents
SPECIFICATION FairSpec
INVARIANTS
  TypeOK
  AtHome
PROPERTIES
  CreatesUnderFinalizer
  AllFit
  Converges
  CacheIsCleaned
CHECK_DEADLOCK FALSE
