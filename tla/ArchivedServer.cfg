\* two connections; requests arrive in pieces of 12 or 15 characters
SPECIFICATION FairSpec
CONSTANTS
  c1 = c1
  c2 = c2
  Connections <- TwoConnections
  Sendings <- TwoSendings
  PieceSizes <- Pieces
INVARIANTS
  CInv
  AnsweredByTheGrammar
PROPERTIES
  StopEndsTheServer
CHECK_DEADLOCK FALSE
