CONSTANTS
  Threads = {1}
  V4Prefix = 2
  V4Bits = 1
  MMDB_DATA_SECTION_SEPARATOR = 2
  RecordLength = 6
  MaxNodeCount = 2
  DataSize = 3
  RecordValues <- MCRecordValues
  NodeNumbers = {0, 1, 2}
  U32 = 64

SPECIFICATION Spec

INVARIANTS
  TypeOK
  LookupIsCorrect
  NodesAgreeWithLookups

PROPERTY
  EveryCallReturns
