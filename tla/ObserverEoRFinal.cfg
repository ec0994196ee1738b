\* an index file, its EoLS and EoR, all there when the run is started
SPECIFICATION Spec
CONSTANTS
  IndexSpan = 4
  MaxLumiSection = 3
  EoRBit = 64
  Files <- OneLumisection
  InPlace <- Nothing
  Early <- Nothing
  EventLimit = 6
  ReadBatch = 2
  StopRequests <- NoStops
PROPERTIES
  EoRIsFinal
CHECK_DEADLOCK FALSE
