\* two server threads, the process killed or the file
\* system refusing once, one /restart in each life
SPECIFICATION FairSpec
CONSTANTS
  IndexSpan = 4
  MaxLumiSection = 3
  EoRBit = 64
  w1 = w1
  w2 = w2
  Workers <- TwoWorkers
  Files <- TwoLumisections
  TestFiles <- EightFiles
  runNumber = 7
  Word = 12
  RunWidth = 2
  LSWidth = 1
  IndexWidth = 2
  Numerals <- TestNumerals
  Numbers <- TestNumbers
  MaxFailures = 1
  MaxRestarts = 1
INVARIANTS
  BInv
  FewStranded
  ClosedMeansTaken
  ScoreRealisesOrder
  QueueIsTheLoops
  NamesReadBack
PROPERTIES
  KilledOnlyByFaultOrRestart
  ImplementsDelivery
  EveryFileMoved
CHECK_DEADLOCK FALSE
