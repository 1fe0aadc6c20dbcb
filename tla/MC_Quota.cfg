CONSTANTS
  web = web
  ios = ios
  Property = {web, ios}
  Request <- MCRequest
  Thread = {r1, r2}
  HourlyTokenLimit = 5
  DailyTokenLimit = 7
  RealtimeDailyLimit = 1
  RowsPerDay = 1500
  HoursPerDay = 2
  MaxHours = 2
SPECIFICATION FairSpec
INVARIANTS OneBucketPerProperty GrantsWithinLimits
PROPERTIES ImplementsBudget EveryRequestAnswered
