SPECIFICATION Spec
CONSTANTS
  Cpu = {c, d}
  Proc = {p, q, r}
  NoCpu = NoCpu
  NoProc = NoProc
SYMMETRY Symmetry
INVARIANTS
  TypeOK
  YieldsWhenRunning
  OneStack
  SchedChecks
  LocksMaskInterrupts
  InterruptsRestored
  MutualExclusion
  NoLostWakeup
