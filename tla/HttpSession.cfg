\* two connections, the one thread that is the default, pipelined requests
SPECIFICATION FairSpec
CONSTANTS
  c1 = c1
  c2 = c2
  Connections <- TwoConnections
  Threads = 1
  MaxRequests <- OneAndTwo
  Unruly <- OneConnection
INVARIANTS
  SInv
  LostOnlyWhenBroken
PROPERTIES
  ImplementsExchange
  EveryRequestAnswered
  SilentSessionsEnd
CHECK_DEADLOCK FALSE
