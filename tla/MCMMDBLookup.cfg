CONSTANTS
  Commands <- MCCommands
  INT_MAX = 7
  ULLONG = 256
  MaxLooked = 11
  Threads = {0, 1, 2}

SPECIFICATION Spec

CHECK_DEADLOCK FALSE

INVARIANTS
  TypeOK
  ThreadsOutlivedByTheirData
  ReleasedOnReturn
  ReportIsExact
  ExitCodeIsTrue

PROPERTY
  ProgramExits
