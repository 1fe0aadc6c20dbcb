CONSTANTS
  MaxPosts = 2
  MaxBatch = 2
  MaxLimit = 2
  DefaultLimit = 1
  Messages = 2
  MaxCrashes = 0
SPECIFICATION PipeSpec
INVARIANTS CollectorMissesNothing
