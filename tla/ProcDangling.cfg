CONSTANTS
  PAGE_SIZE = 4
  ENTRIES = 16
  DIRS = 4
  NPT = 10
  PmmFrames <- MCFrames
  Pids <- MCPids
  Files <- MCFilesInit
  Progs <- MCProgsInit
  KernelEntries <- MCEntries
SPECIFICATION Spec
INVARIANT NoDanglingMapping
CHECK_DEADLOCK FALSE
