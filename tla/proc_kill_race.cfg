SPECIFICATION FairSpec
CONSTANTS
  NPROC = 2
  Cpus = {c1, c2}
  Null = Null
  MaxPid = 2
  Syscalls = {"fork", "wait", "kill"}
PROPERTY KilledLeavesWait
