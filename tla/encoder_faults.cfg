SPECIFICATION Spec
CONSTANTS
  Names = {"b", "bb"}
  NameLen <- MCNameLen
  HashOf <- MCHashOf
  Layout <- MCLayout
  Split = TRUE
  TokioIo = TRUE
  Preludes <- AnyPrelude
  Metas <- AllMetas
  FileSizes = {2}
  WriteSizes = {1, 2}
  TargetLens = {1}
  MaxItems = 3
  MaxDepth = 3
  MaxNames = 2
  TornBytes = {0, 1}
  FaultKinds = {"call", "write", "finish", "close"}
INVARIANTS
  TypeOK
  NothingUnderflows
  PositionsTrackStreams
  EveryNameListedOnce
  GoodbyeTablesResolve
  TailsLeadToDirectory
  PayloadRefsResolve
  HardlinksResolve
