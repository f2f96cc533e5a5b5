SPECIFICATION FairSpec
CONSTANTS
  Blocks = {b1, b2, b3, b4, b5}
  Vals = {0}
  Ops = {o1, o2, o3}
  Boot = Boot
  MAXOPBLOCKS = 3
  LOGSIZE = 6
  Size = 6
  OpBlocks = 2
INVARIANTS LogFits SleeperHasWaker
PROPERTY SleeperWakes
