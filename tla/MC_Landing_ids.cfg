CONSTANTS
  RowsPerPart = 2
  Totals = {1, 3}
  MaxRuns = 2
  MaxKills = 0
  MaxCrashes = 0
SPECIFICATION Spec
INVARIANTS MovementIdsAreUnique
CHECK_DEADLOCK FALSE
