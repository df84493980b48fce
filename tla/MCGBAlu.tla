------------------------------ MODULE MCGBAlu -------------------------------
EXTENDS GBAlu

\* Operand bytes at the nibble and BCD boundaries the flag logic tests.
MCOperands == {0, 1, 6, 9, 10, 15, 16, 96, 102, 127, 128, 153, 154, 160, 240, 255}
====
