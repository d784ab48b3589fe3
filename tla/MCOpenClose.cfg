CONSTANTS
  FileSizes <- MCFileSizes
  NodeCounts = {0, 1, 4, 8}
  RecordBytes = {6, 8}
  MaxLanguages = 2
  MaxDescriptions = 2
  MMDB_DATA_SECTION_SEPARATOR = 4
  SSIZE_MAX = 20
  UINT32_MAX = 7
  MaxOpens = 2

SPECIFICATION Spec

INVARIANTS
  TypeOK
  NoDanglingPointer
  OpenHandleOwnsAll
  FailedOpenFreesAlmostAll
  OpenFileIsWellFormed
  ErrnoIsTheCause
