SPECIFICATION FairSpec
CONSTANTS
  o1 = o1
  o2 = o2
  o3 = o3
  NoOrder = NoOrder
  Orders <- Three
  Free <- Empty
  OverCommission <- Empty
  Foreign <- Second
  Rejected <- First
  BatchSize = 2
  AbandonAfter = 1
  AmbiguousRemote = TRUE
  AmbiguousLocal = TRUE
  MaxNow = 1
  MaxFaults = 2
INVARIANTS
  ReportedIsCharged
PROPERTY HealthyOrdersAreCharged
