CONSTANTS
  Mutexes = {gl, mtx}
  GL = gl
  MaxLevel = 2
  MaxAcquire = 2
  MaxHeld = 3
SPECIFICATION Spec
INVARIANTS HoldCountMeansOwned
CHECK_DEADLOCK FALSE
