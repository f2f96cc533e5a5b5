SPECIFICATION Spec
CONSTANTS
  NPROC = 3
  Cpus = {c1, c2}
  Null = Null
  MaxPid = 3
  Syscalls = {"fork", "exit", "wait"}
SYMMETRY Sym
INVARIANTS StackExclusive SchedLocks NoLostWakeup Family
PROPERTY TreeSpec
