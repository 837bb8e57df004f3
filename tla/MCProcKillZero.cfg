SPECIFICATION Spec
CONSTANTS
  Proc = {i, p, q}
  initproc = i
  NoProc = NoProc
CHECK_DEADLOCK FALSE
INVARIANT OnlyProcessesKilled
