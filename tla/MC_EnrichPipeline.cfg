CONSTANTS
  MaxPosts = 3
  MaxBatch = 2
  MaxLimit = 2
  DefaultLimit = 1
  Messages = 2
  MaxCrashes = 1
SPECIFICATION FairPipeSpec
INVARIANTS CollectedBelowCursor CommittedIsAccounted
PROPERTIES EveryMessageSettles
