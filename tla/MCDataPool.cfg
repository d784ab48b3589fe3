CONSTANTS
  DATA_POOL_NUM_BLOCKS = 3
  SizeMax = 23
  ElemSize = 2
  NULL = NULL
  b1 = b1
  b2 = b2
  b3 = b3
  b4 = b4
  Block <- MCBlock
  InitSizes <- MCInitSizes

SPECIFICATION Spec

INVARIANTS
  TypeOK
  HandedOutIsOwned
  ListInAllocationOrder
  OwnsItsBlocks
  NoByteCountWraps

PROPERTY
  ImplementsArena
