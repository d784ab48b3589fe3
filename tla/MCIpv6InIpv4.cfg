CONSTANTS
  Threads = {1}
  V4Prefix = 2
  V4Bits = 1
  MMDB_DATA_SECTION_SEPARATOR = 2
  RecordLength = 6
  MaxNodeCount = 2
  DataSize = 3
  RecordValues <- MCRecordValues
  NodeNumbers = {}
  U32 = 64

SPECIFICATION SafetySpec

INVARIANTS
  Ipv6InIpv4DatabaseSucceeds
