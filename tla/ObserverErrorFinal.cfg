\* the states said to be non recoverable
SPECIFICATION Spec
CONSTANTS
  IndexSpan = 4
  MaxLumiSection = 3
  EoRBit = 64
  Files <- NoData
  InPlace <- Nothing
  Early <- Nothing
  EventLimit = 6
  ReadBatch = 2
  StopRequests <- NoStops
PROPERTIES
  ErrorIsFinal
CHECK_DEADLOCK FALSE
