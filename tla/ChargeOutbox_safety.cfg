SPECIFICATION Spec
CONSTANTS
  o1 = o1
  o2 = o2
  o3 = o3
  NoOrder = NoOrder
  Orders <- Three
  Free <- Empty
  OverCommission <- Third
  Foreign <- Empty
  Rejected <- Empty
  BatchSize = 1
  AbandonAfter = 1
  AmbiguousRemote = FALSE
  AmbiguousLocal = FALSE
  MaxNow = 2
  MaxFaults = 3
INVARIANTS
  ChargedAtMostOnce
  EarnedOncePerCharge
  UncertaintyPersisted
  FailedIsNotCharged
PROPERTIES
  SettledIsFinal
  ImplementsBilling
