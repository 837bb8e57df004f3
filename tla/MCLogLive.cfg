SPECIFICATION FairSpec
CONSTANTS
  Op = {p, q}
  Block = {a, b, c}
  Value = {x}
  MAXOPBLOCKS = 2
  OpBlocks = 1
  LOGSIZE = 4
  NLOG = 4
  NoValue = NoValue
  NoBlock = NoBlock
INVARIANT NoPanic
PROPERTIES SleepersWake CommitEnds
