SPECIFICATION MCSpec
CONSTANTS
  Parts = {"files", "heap", "grep", "shell"}
  Procs = {p1, p2}
  First = p1
  NFILE = 3
  NOFILE = 2
  Pages = {g1}
  Bytes = {a, b}
  PIPESIZE = 2
  Wrap = 4
  MaxN = 3
  None = None
  Units = {1, 2, 5}
  Core = 4
  HeapEnd = 10
  Jobs <- MCJobs
  BUFSIZE = 5
  CmdLines <- MCCmdLines
  MAXARGS = 4
SYMMETRY Sym
CHECK_DEADLOCK FALSE
INVARIANTS RefExact PipeLives PipeWakeup HeapExact GrepExact ShellExact
PROPERTY PipeFifo
