SPECIFICATION FairSpec
CONSTANTS
  NPROC = 2
  Cpus = {c1}
  Null = Null
  MaxPid = 2
  Syscalls = {"fork", "exit", "wait", "kill"}
PROPERTIES RunnableRuns WaitReturns ZombieOnlyReaped
