CONSTANTS
  k1 = k1
  k2 = k2
  Key = {k1, k2}
  MaxVersion = 3
  MaxLimboTargets = 3
  MaxConcurrentLimbo = 1
  MaxFaults <- MCFaults
SPECIFICATION FairSpec
CONSTRAINT OneTrouble
INVARIANTS
  TypeOK
  SyncedIsServer
  ChangesFit
  QueryMissesNothing
PROPERTIES
  EventuallySynced
CHECK_DEADLOCK FALSE
