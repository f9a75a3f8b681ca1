SPECIFICATION Spec
CONSTANTS
  o1 = o1
  o2 = o2
  o3 = o3
  NoOrder = NoOrder
  Orders <- One
  Free <- Empty
  OverCommission <- Empty
  Foreign <- Empty
  Rejected <- Empty
  BatchSize = 1
  AbandonAfter = 1
  AmbiguousRemote = TRUE
  AmbiguousLocal = FALSE
  MaxNow = 2
  MaxFaults = 3
INVARIANT FailedIsNotCharged
