\* two lumisections, files moved in, no event dropped
SPECIFICATION FairSpec
CONSTANTS
  IndexSpan = 4
  MaxLumiSection = 3
  EoRBit = 64
  Files <- TwoLumisections
  InPlace <- Nothing
  Early <- Nothing
  EventLimit = 6
  ReadBatch = 2
  StopRequests <- StopAt1
INVARIANTS
  IInv
  NoConsistencyFailure
  NothingLost
  HandedOutOnce
  EoLSMeansComplete
  EoRMeansDrained
PROPERTIES
  ImplementsFileFlow
  EveryFileIsGivenOut
  EoREndsTheRunner
CHECK_DEADLOCK FALSE
