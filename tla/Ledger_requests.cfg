SPECIFICATION FairSpec
CONSTANTS
  Requests <- Sent
  Req <- Bodies
  Scenarios <- Together
  Accounts <- Owners
  Merchants <- Shops
  Settle <- ShopOwner
  Keys <- KeysOf
  Payer <- KeyPayer
  Main <- KeyMain
  PlatformFeeBPS = 5000
  Switchable = {"B"}
  Revocable = {"kA"}
  MaxNow = 1
\* Every request may have been answered.
CHECK_DEADLOCK FALSE
INVARIANTS
  ProjectionMatchesLedger
  EntriesBalance
  RevokedKeysStopped
  IdsSettle
PROPERTIES
  MainMerchantIsActive
  EveryRequestEnds
