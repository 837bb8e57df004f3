SPECIFICATION Spec
CONSTANTS
  Op = {p}
  Block = {a}
  Value = {x, y}
  MAXOPBLOCKS = 1
  OpBlocks = 1
  LOGSIZE = 2
  NLOG = 3
  NoValue = NoValue
  NoBlock = NoBlock
INVARIANT ChangesAreLogged
