CONSTANTS
    RegVals <- MCRegVals
    SegVals <- MCSegVals
    Disp8s <- MCDisp8s
    Disp16s <- MCDisp16s
    Disp32s <- MCDisp32s
    Sibs <- MCSibs
    ADDR32 <- MCADDR32
    RME_BLOCK_SIZE <- MCBlock
SPECIFICATION Spec
INVARIANT OperandMatchesX86
