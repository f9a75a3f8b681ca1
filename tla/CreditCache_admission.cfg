SPECIFICATION FairSpec
CONSTANTS
  c1 = c1
  c2 = c2
  c3 = c3
  NoCall = NoCall
  Calls <- ThreeCalls
  Cost <- ThreeCosts
  Recheck = 1
  Timeout = 1
  Skew = 0
  MinInt <- SmallInt
  Balances = {0, 3}
  MaxNow = 2
INVARIANTS
  SingleFlight
  RevocationBites
PROPERTIES
  QuotaOnlyShrinks
  EveryCallReturns
