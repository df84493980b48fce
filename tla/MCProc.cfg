CONSTANTS
  PAGE_SIZE = 4
  ENTRIES = 16
  DIRS = 4
  NPT = 16
  PmmFrames <- MCFrames
  Pids <- MCPids
  Files <- MCFilesPass
  Progs <- MCProgsPass
  KernelEntries <- MCEntries
SPECIFICATION Spec
CHECK_DEADLOCK FALSE
INVARIANT TypeOK
INVARIANT PageTableExclusive
INVARIANT ReturnTrampolineReachable
PROPERTY LifecycleRefined
