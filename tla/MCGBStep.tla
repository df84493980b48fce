------------------------------ MODULE MCGBStep ------------------------------
EXTENDS GBStep

\* A program that keeps the LCD on, writes TAC with the timer stopped,
\* enables the VBLANK interrupt and selects the HBLANK STAT interrupt.
MCLcdcOn == {TRUE}
MCLcdcOnOff == {TRUE, FALSE}
MCTacStopped == {[enable |-> 0, rate |-> 0]}
MCTacFast == {[enable |-> 1, rate |-> 1]}
MCIe == {{"VBLANK"}}
MCStat == {{"MODE0"}}
====
