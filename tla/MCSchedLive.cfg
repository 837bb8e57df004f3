SPECIFICATION FairSpec
CONSTANTS
  Cpu = {c, d}
  Proc = {p, q}
  NoCpu = NoCpu
  NoProc = NoProc
PROPERTY SleepLockPasses
