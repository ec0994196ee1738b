\* stopls=2, and no data in lumisection 2
SPECIFICATION Spec
CONSTANTS
  IndexSpan = 4
  MaxLumiSection = 3
  EoRBit = 64
  Files <- EmptyBetween
  InPlace <- Nothing
  Early <- Nothing
  EventLimit = 6
  ReadBatch = 2
  StopRequests <- StopAt2
INVARIANTS
  StopLSRespected
CHECK_DEADLOCK FALSE
