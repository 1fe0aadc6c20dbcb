CONSTANTS
  MaxTotal = 6
  Totals <- SomeTotals
  Rates <- SomeRates
  Limits <- SomeLimits
  DefaultLimit = 2
  MaxLimit = 3
  NoCursor = NoCursor
  MaxRestarts = 2
  MaxKills = 1
  MaxStarts = 4
SPECIFICATION FairSpec
INVARIANTS NothingSkipped  FaultsTakeTurns
PROPERTIES FeedSettles
CHECK_DEADLOCK FALSE
