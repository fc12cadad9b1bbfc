SPECIFICATION RandomAccessSpec
CONSTANTS
  Names = {"a", "bb"}
  NameLen <- MCNameLen
  HashOf <- MCHashOf
  Layout <- MCLayout
  Split = TRUE
  TokioIo = FALSE
  Preludes <- OnePrelude
  Metas <- WithSymlink
  FileSizes = {2}
  WriteSizes = {2}
  TargetLens = {1}
  MaxItems = 1
  MaxDepth = 2
  MaxNames = 1
  TornBytes = {}
  FaultKinds = {}
  Tasks = {1, 2}
  PayloadSource = TRUE
  CallKinds = {"open_root", "lookup", "contents"}
  Paths <- DeepPaths
  SkipCounts = {}
  Caches = {"c"}
  NameUses = 1
INVARIANTS
  CachedTablesAreTables
  DirectoriesAreTheirs
  OpenedContentsAreTheFiles
PROPERTIES
  CallsReturn
