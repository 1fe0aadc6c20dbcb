CONSTANTS
  Target = 5
  Cap = 3
  Batch = 2
  MaxRuns = 2
  MaxFaults = 1
SPECIFICATION FairSpec
INVARIANTS NoOverfill SplitsFillInOrder ChildrenMatchTheirCustomer RunSeedsItsChildren
PROPERTIES ShardFills
CHECK_DEADLOCK FALSE
