\* a file written in place, a marker written too early, events dropped
SPECIFICATION SSpec
CONSTANTS
  IndexSpan = 4
  MaxLumiSection = 3
  EoRBit = 64
  Files <- TwoLumisections
  InPlace <- First
  Early <- FirstEoLS
  EventLimit = 2
  ReadBatch = 2
  StopRequests <- StopAt1
  MaxRequests = 3
INVARIANTS
  NothingLost
  FilesAccountedFor
  RequestsAccountedFor
PROPERTIES
  LateFilesNotGiven
CHECK_DEADLOCK FALSE
