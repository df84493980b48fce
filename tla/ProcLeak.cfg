CONSTANTS
  PAGE_SIZE = 4
  ENTRIES = 16
  DIRS = 4
  NPT = 16
  PmmFrames <- MCFrames
  Pids <- MCPids1
  Files <- MCFilesInitOnly
  Progs <- MCProgsInitOnly
  KernelEntries <- MCNoEntries
SPECIFICATION Spec
INVARIANT NoLeak
CHECK_DEADLOCK FALSE
