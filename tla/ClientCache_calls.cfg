SPECIFICATION FairSpec
CONSTANTS
  k1 = k1
  k2 = k2
  k3 = k3
  Keys <- ThreeKeys
  Default <- NewOpenAI
  MaxClients = 1
  MaxClock = 5
INVARIANTS
  CountsHolders
  EvictionSparesHeld
  CachedAreOpen
PROPERTY OverflowDrains
CHECK_DEADLOCK FALSE
