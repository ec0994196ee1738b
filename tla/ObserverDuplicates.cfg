\* a file written in place, listed before it is closed
SPECIFICATION Spec
CONSTANTS
  IndexSpan = 4
  MaxLumiSection = 3
  EoRBit = 64
  Files <- OneLumisection
  InPlace <- First
  Early <- Nothing
  EventLimit = 6
  ReadBatch = 2
  StopRequests <- NoStops
INVARIANTS
  HandedOutOnce
CHECK_DEADLOCK FALSE
