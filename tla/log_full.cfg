SPECIFICATION Spec
CONSTANTS
  Blocks = {b1, b2, b3, b4, b5, b6}
  Vals = {0}
  Ops = {o1, o2, o3}
  Boot = Boot
  MAXOPBLOCKS = 2
  LOGSIZE = 6
  Size = 6
  OpBlocks = 2
SYMMETRY Sym
INVARIANT ReservationHonoured
