CONSTANTS
  MaxPosts = 4
  MaxBatch = 2
  MaxLimit = 2
  DefaultLimit = 1
SPECIFICATION FairSpec
INVARIANTS Conservation PostOrder
PROPERTIES ImplementsFeed EveryRecordSettles
