CONSTANTS
  HDR = 4
  HEAP_SIZE = 64
  Lens <- MCLens
  MaxLive = 3
  MaxOffset = 128
SPECIFICATION Spec
INVARIANT TypeOK
INVARIANT NextAscending
