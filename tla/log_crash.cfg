SPECIFICATION Spec
CONSTANTS
  Blocks = {b1, b2, b3}
  Vals = {0, 1}
  Ops = {o1, o2, o3}
  Boot = Boot
  MAXOPBLOCKS = 3
  LOGSIZE = 6
  Size = 6
  OpBlocks = 2
SYMMETRY Sym
INVARIANTS QuiescentDurable UnpinnedClean
PROPERTY AtomicSpec
