SPECIFICATION Spec
CONSTANTS
  Procs = {p1, p2, p3}
  Bufs = {u1, u2, u3}
  Blocks = {1}
  Vals = {0, 1}
  None = None
  NUM = 7
  Wrap = 7
SYMMETRY Sym
INVARIANTS DescriptorsOwned CompletionPending DescWakeup
PROPERTY DevSpec
