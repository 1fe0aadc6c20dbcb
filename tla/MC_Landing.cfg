CONSTANTS
  RowsPerPart = 2
  Totals = {1, 3}
  MaxRuns = 2
  MaxKills = 1
  MaxCrashes = 1
SPECIFICATION FairSpec
INVARIANTS PartsAreContiguous RunIsWhole
PROPERTIES PartsAreKept MovementsArrive
CHECK_DEADLOCK FALSE
