CONSTANTS
  PAGE_SIZE = 4
  ENTRIES = 16
  DIRS = 4
  NPT = 16
  PmmFrames <- MCFrames
  Pids <- MCPids
  Files <- MCFilesInit
  Progs <- MCProgsInit
  KernelEntries <- MCNoEntries
SPECIFICATION Spec
INVARIANT NoKernelFault
CHECK_DEADLOCK FALSE
