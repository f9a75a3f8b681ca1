SPECIFICATION Spec
CONSTANTS
  Scenarios <- Groups
  Seed <- SeedRows
  SeedLists <- SeedPrices
  NewID <- NewIDs
INVARIANTS
  PostsSettle
  UpdatesAddUp
  CopiesAgreeUnlessOverlapped
  ListsAreWhole
  DisabledKeyIsNotOffered
  IdentitiesSettle
  RevocationsHold
