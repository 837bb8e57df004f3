SPECIFICATION Spec
CONSTANTS
  Proc = {p, q}
  NoProc = NoProc
  first = p
  Byte = {0, 1}
  PIPESIZE = 2
  Wrap = 4
  MaxCount = 3
CHECK_DEADLOCK FALSE
INVARIANTS
  TypeOK
  ReadersHaveCause
PROPERTY PipeIsFifo
