CONSTANTS
  Mutexes = {gl, mtx}
  GL = gl
  MaxLevel = 3
  MaxAcquire = 2
  MaxHeld = 4
SPECIFICATION FairSpec
INVARIANTS TrackingIsTruthful ChainFollowsScopes ScopeExitReleases LockExcludesFirmware
PROPERTIES CallersKeepTheirMutexes OperationsEnd
CHECK_DEADLOCK FALSE
