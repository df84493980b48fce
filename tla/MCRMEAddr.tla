----------------------------- MODULE MCRMEAddr -----------------------------
EXTENDS RMEAddr

\* Registers with high halves set, so .W and .D differ; two segment values.
MCRegVals == {2, 65538}
MCSegVals == {4096, 8192}
\* A negative and a positive disp8 (0xFE is -2).
MCDisp8s == {254, 4}
MCDisp16s == {16}
\* A disp32 wider than 16 bits.
MCDisp32s == {65552}
\* SIB: index SI, scale 1, base EAX; and index none, base 5.
MCSibs == {48, 37}
MCADDR32 == 16777216
MCBlock == 4096
=============================================================================
