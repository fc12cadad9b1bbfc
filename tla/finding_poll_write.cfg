SPECIFICATION Spec
CONSTANTS
  Names = {"a"}
  NameLen <- MCNameLen
  HashOf <- MCHashOf
  Layout <- MCLayout
  Split = TRUE
  TokioIo = TRUE
  Preludes <- NoPrelude
  Metas <- DirAndFile
  FileSizes = {2}
  WriteSizes = {1, 2}
  TargetLens = {}
  MaxItems = 2
  MaxDepth = 2
  MaxNames = 2
  TornBytes = {0, 1}
  FaultKinds = {}
INVARIANTS
  ContentsInPayloadStream
