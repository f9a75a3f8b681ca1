SPECIFICATION Spec
CONSTANTS
  Chats = {"c1"}
  Streams = {"x1"}
  Scenarios <- Pairs
  Sockets = {"w1", "w2"}
  Sessions = {"s1"}
  Keys = {"k1"}
  Ratings <- Costs
  RealtimeSessionTTL = 1
  MaxTime = 2
  Buffer = 1
INVARIANTS
  SecretsServeOnce
  OneLogPerCall
  OrdersArePaidFor
  LastUsedIsLatest
PROPERTY RelaysEnd
