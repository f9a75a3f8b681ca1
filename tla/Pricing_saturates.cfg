SPECIFICATION Spec
CONSTANTS
  k1 = k1
  k2 = k2
  k3 = k3
  Word = 32
  Keys <- ThreeKeys
  PriceLists <- OneOrTwo
  Usages <- SomeUses
INVARIANT UnrepresentableSaturates
CHECK_DEADLOCK FALSE
