SPECIFICATION Spec
CONSTANTS
  SourceLen = 4
  Ranges <- MCRanges
  ReadSizes = {0, 1, 2, 4}
  MaxBuf = 3
INVARIANTS
  ReadTypeOK
  ReadsStayInRange
  PositionIsWhatWasRead
PROPERTIES
  ReadReturns
  ImplementsRangeReader
