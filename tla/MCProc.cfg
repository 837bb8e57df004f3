SPECIFICATION Spec
CONSTANTS
  Proc = {i, p, q, r}
  initproc = i
  NoProc = NoProc
SYMMETRY Symmetry
CHECK_DEADLOCK FALSE
INVARIANTS
  TypeOK
  StackIsFree
  ParentsLive
  NoLostExit
