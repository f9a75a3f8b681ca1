SPECIFICATION Spec
CONSTANTS
  Scenarios <- TwoDeliveries
  Seed <- SeedRows
  SeedLists <- SeedPrices
  NewID <- NewIDs
INVARIANT InitializationConflictIsReal
