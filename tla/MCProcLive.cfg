SPECIFICATION FairSpec
CONSTANTS
  Proc = {i, p, q}
  initproc = i
  NoProc = NoProc
CHECK_DEADLOCK FALSE
PROPERTIES
  OrphansReaped
  WaitReturns
