SPECIFICATION RandomAccessSpec
CONSTANTS
  Names = {"a", "b", "bb"}
  NameLen <- MCNameLen
  HashOf <- MCHashOf
  Layout <- MCLayout
  Split = FALSE
  TokioIo = FALSE
  Preludes <- NoPrelude
  Metas <- WithFifo
  FileSizes = {2}
  WriteSizes = {2}
  TargetLens = {1}
  MaxItems = 3
  MaxDepth = 3
  MaxNames = 3
  TornBytes = {}
  FaultKinds = {}
  Tasks = {1}
  PayloadSource = FALSE
  CallKinds <- AllCalls
  Paths <- SomePaths
  SkipCounts = {1}
  Caches = {}
  NameUses = 1
INVARIANTS
  EntriesAreTheirs
  LookupsAreRight
  ErrorsHaveReasons
  ListingsAreComplete
  OpenedContentsAreTheFiles
  HardlinksLeadToFiles
