CONSTANTS
  PAGE_SIZE = 4
  ENTRIES = 16
  DIRS = 4
  NPT = 10
  PmmFrames <- MCFrames
  Pids <- MCPids
  Files <- MCFilesBig
  Progs <- MCProgsBig
  KernelEntries <- MCEntries
SPECIFICATION Spec
INVARIANT ImageMapsStagedFrames
CHECK_DEADLOCK FALSE
