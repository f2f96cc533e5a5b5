SPECIFICATION MCSpec
CONSTANTS
  Procs = {p1, p2}
  Files = {"a", "b"}
  NINODES = 3
  NBLOCKS = 3
  MAXFILE = 2
  DPB = 3
  Programs <- MCPrograms
  NewPaths <- MCNewPaths
  p1 = p1
  p2 = p2
  None = none
  NPROC = 2
  NPAGE = 17
  Fan = 2
  PGSIZE = 2
  Incs = {1, 3}
  Decs = {1, 9}
  Word = 64
  MaxSz = 6
  SegEnds = {1, 3}
  MaxSegs = 2
  MaxArgs = 1
  Held = {0, 4}
INVARIANTS InodeInUse LinkCount NoLockCycle BlocksOwned PagesOwned TableExact
PROPERTY MemoryStable
CHECK_DEADLOCK FALSE
