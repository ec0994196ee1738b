\* unsigned long of 7 bits, int of 4; values of up to four characters
SPECIFICATION Spec
CONSTANTS
  Requests <- SmallRequests
  Contents <- SmallContents
  MaxLong = 63
  MaxInt = 7
INVARIANTS
  DecodedAfterSplitting
  RunNumbersArrive
  DotsAreRefused
  ParsedAsBefore
  RepliesReadBack
