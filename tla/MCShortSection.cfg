CONSTANTS
  Sections <- MCShortSections
  Beyond = {255}
  Offsets = {0, 1}
  U32 = 1073741824
  MAXIMUM_DATA_STRUCTURE_DEPTH = 512

SPECIFICATION Spec

INVARIANTS
  EveryReadIsInside
