SPECIFICATION RoundTripSpec
CONSTANTS
  Names = {"a", "b"}
  NameLen <- MCNameLen
  HashOf <- MCHashOf
  Layout <- MCLayout
  Split = FALSE
  TokioIo = TRUE
  Preludes <- NoPrelude
  Metas <- AllMetas
  FileSizes = {2}
  WriteSizes = {2}
  TargetLens = {1}
  MaxItems = 2
  MaxDepth = 3
  MaxNames = 3
  TornBytes = {0}
  FaultKinds = {}
  PayloadInput = FALSE
  GoodbyeModes = {TRUE}
  ReadSizes = {1}
  Losses = {}
INVARIANTS
  RowsTileDirectory
  SoundArchivesDecode
  SeenAsListed
  ContentsAreTheFiles
PROPERTIES
  NextReturns
