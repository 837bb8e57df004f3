SPECIFICATION Spec
CONSTANTS
  Op = {p, q}
  Block = {a, b}
  Value = {x, y}
  MAXOPBLOCKS = 2
  OpBlocks = 2
  LOGSIZE = 4
  NLOG = 4
  NoValue = NoValue
  NoBlock = NoBlock
INVARIANTS TypeOK PinnedWhileLogged CacheCurrent SleepersHaveCause
PROPERTY AtomicGroups
