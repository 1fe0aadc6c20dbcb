CONSTANTS
  Brands = {zomato}
  NoLsn = NoLsn
  MaxChanges = 3
  MaxRuns = 3
  MaxFaults = 2
SPECIFICATION FairSpec
INVARIANTS BookmarkIsStreamable ColdAndHotMeet
PROPERTIES EveryBrandStreams
CHECK_DEADLOCK FALSE
