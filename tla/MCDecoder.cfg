CONSTANTS
  Sections <- MCSections
  Beyond = {255}
  Offsets = {0, 1, 2, 3, 4, 1073741823}
  U32 = 1073741824
  MAXIMUM_DATA_STRUCTURE_DEPTH = 512

SPECIFICATION Spec

INVARIANTS
  TypeOK
  ReadsStayInside
  NextIsAhead
