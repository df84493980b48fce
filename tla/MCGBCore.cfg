CONSTANTS
  Rom <- MCRom
  StackWindow <- MCStackWindow
  Vectors <- MCVectors
  InitBytes <- MCInitBytes
SPECIFICATION Spec
INVARIANT TypeOK
INVARIANT PcOnInstruction
PROPERTY StackRefined
