SPECIFICATION Spec
CONSTANTS
  NPROC = 2
  Cpus = {c1}
  Null = Null
  MaxPid = 2
  Syscalls = {"fork", "kill"}
INVARIANT UnusedNotKilled
