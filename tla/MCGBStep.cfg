CONSTANTS
    LcdcWrites <- MCLcdcOnOff
    TacWrites <- MCTacStopped
    IeWrites <- MCIe
    StatWrites <- MCStat
SPECIFICATION Spec
INVARIANT TypeOK
INVARIANT ModeStaleOnlyOnLineZero
PROPERTY FrameCompletesWhileLcdOn
