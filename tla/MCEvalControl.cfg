CONSTANTS
  MaxDepth = 4
  MaxIterations = 2
  MaxTerms = 2
  MaxLeaks = 1
SPECIFICATION FairSpec
INVARIANTS StateMatchesFrames IdleIsClean DepthCoversStack SnapshotsHoldScopes
PROPERTIES EveryEntryReturns
CHECK_DEADLOCK FALSE
