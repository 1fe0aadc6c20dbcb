CONSTANTS
  Brand = {blinkit}
  Cities = 2
  Workers = 2
  Count = 2
  Chunk = 1
  SplitRowCap = 2
  MaxTicks = 2
  MaxFaults = 1
SPECIFICATION FairSpec
INVARIANTS OneWorkerPerCity SplitsFillInOrder CascadeWithinOrders TickCascades
PROPERTIES EveryTickEnds
CHECK_DEADLOCK FALSE
