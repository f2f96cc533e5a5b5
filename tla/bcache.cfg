SPECIFICATION Spec
CONSTANTS
  Procs = {p1, p2, p3}
  Bufs = {u1, u2}
  Blocks = {k1, k2, k3}
  Vals = {0, 1}
  None = None
SYMMETRY Sym
CHECK_DEADLOCK FALSE
INVARIANTS OneBuffer RefExact SleeperHasHolder
PROPERTY CacheSpec
