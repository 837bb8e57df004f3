SPECIFICATION FairSpec
CONSTANTS
  Proc = {p, q}
  NoProc = NoProc
  first = p
  Byte = {0}
  PIPESIZE = 2
  Wrap = 4
  MaxCount = 3
CHECK_DEADLOCK FALSE
INVARIANTS
  NoUseAfterFree
  NoLeak
  WritersHaveCause
PROPERTIES
  CloseEndsCalls
  KilledWritersFreeReaders
