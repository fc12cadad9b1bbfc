SPECIFICATION RoundTripSpec
CONSTANTS
  Names = {"a"}
  NameLen <- MCNameLen
  HashOf <- MCHashOf
  Layout <- MCLayout
  Split = FALSE
  TokioIo = FALSE
  Preludes <- NoPrelude
  Metas <- AllMetas
  FileSizes = {2}
  WriteSizes = {1, 2}
  TargetLens = {1}
  MaxItems = 2
  MaxDepth = 2
  MaxNames = 3
  TornBytes = {0}
  FaultKinds = {"call", "finish", "write"}
  PayloadInput = FALSE
  GoodbyeModes = {}
  ReadSizes = {1}
  Losses = {0, 20}
INVARIANTS
  DecoderTypeOK
  CleanEndMeansWhole
