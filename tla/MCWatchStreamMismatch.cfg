CONSTANTS
  k1 = k1
  k2 = k2
  Key = {k1, k2}
  MaxVersion = 2
  MaxLimboTargets = 3
  MaxConcurrentLimbo = 1
  MaxFaults <- MismatchFaults
SPECIFICATION Spec
INVARIANTS
  SyncedIsServer
CHECK_DEADLOCK FALSE
