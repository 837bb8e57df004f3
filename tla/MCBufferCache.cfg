SPECIFICATION Spec
CONSTANTS
  Proc = {p, q}
  Buf = {b, c, d}
  Block = {k, l, m, n}
  Value = {x, y}
  MaxPins = 2
  NoProc = NoProc
  NoBlock = NoBlock
  NoBuf = NoBuf
SYMMETRY Symmetry
CHECK_DEADLOCK FALSE
INVARIANTS
  TypeOK
  OneBufferPerBlock
  NotRecycledInUse
  RefcntExact
  NoLostChange
  PanicsOnlyWhenFull
  SortedByUse
