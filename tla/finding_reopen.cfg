SPECIFICATION RandomAccessSpec
CONSTANTS
  Names = {"a", "bb"}
  NameLen <- MCNameLen
  HashOf <- MCHashOf
  Layout <- MCLayout
  Split = TRUE
  TokioIo = FALSE
  Preludes <- NoPrelude
  Metas <- DirAndFile
  FileSizes = {2}
  WriteSizes = {2}
  TargetLens = {1}
  MaxItems = 2
  MaxDepth = 1
  MaxNames = 2
  TornBytes = {}
  FaultKinds = {}
  Tasks = {1}
  PayloadSource = TRUE
  CallKinds = {"open_root", "lookup", "follow_hardlink"}
  Paths <- SomePaths
  SkipCounts = {}
  Caches = {}
  NameUses = 1
INVARIANTS
  RangesReopen
