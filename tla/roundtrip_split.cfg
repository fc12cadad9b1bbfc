SPECIFICATION RoundTripSpec
CONSTANTS
  Names = {"a", "b"}
  NameLen <- MCNameLen
  HashOf <- MCHashOf
  Layout <- MCLayout
  Split = TRUE
  TokioIo = FALSE
  Preludes <- AnyPrelude
  Metas <- DirAndFile
  FileSizes = {0, 2}
  WriteSizes = {1, 2}
  TargetLens = {1}
  MaxItems = 2
  MaxDepth = 3
  MaxNames = 3
  TornBytes = {0}
  FaultKinds = {}
  PayloadInput = TRUE
  GoodbyeModes = {}
  ReadSizes = {1, 2}
  Losses = {}
INVARIANTS
  FinishedOkIsComplete
  PayloadRefsAscend
  SoundArchivesDecode
  SeenAsListed
  ContentsAreTheFiles
  ConsumedIsPosition
PROPERTIES
  ImplementsBuilder
