CONSTANTS
  Target = 4
  Cap = 2
  Batch = 3
  MaxRuns = 3
  MaxFaults = 2
SPECIFICATION FairSpec
INVARIANTS GrowthIsBounded SplitsFillInOrder ChildrenNameTheirOrder RunSeedsItsChildren
PROPERTIES CityFills
CHECK_DEADLOCK FALSE
