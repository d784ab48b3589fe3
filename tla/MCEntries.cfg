CONSTANTS
  Sections <- MCSections
  Beyond = {255}
  U32 = 1073741824
  MAXIMUM_DATA_STRUCTURE_DEPTH = 4
  LONG_MAX = 99
  Starts = {0}
  Roots = {0}
  Paths <- MCPaths
  Uninitialised <- MCUninitialised
  Element = {1, 2, 3, 4, 5, 6, 7, 8, 9, 10}
  NULL = NULL

SPECIFICATION Spec

INVARIANTS
  TypeOK
  ListIsPreorder
  ListFailsForCause
  NothingLeaks
  AllocationIsBounded
  PathFindsTheValue
  DumpFollowsList

PROPERTY
  EveryCallReturns
