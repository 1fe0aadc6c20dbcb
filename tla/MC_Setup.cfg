CONSTANTS
  Zones <- SomeZones
  Companies <- SomeCompanies
  Brands <- SomeBrands
  Cities <- SomeCities
  Cases <- AllCases
  SeedRows = 2
  MaxSetups = 3
  MaxFaults = 2
  MaxEdits = 1
SPECIFICATION FairSetup
INVARIANTS ReadyIsComplete
PROPERTIES EditsSurvive SetupCompletes
CHECK_DEADLOCK FALSE
