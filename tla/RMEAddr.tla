------------------------------ MODULE RMEAddr ------------------------------
(***************************************************************************)
(* The ModR/M and SIB operand decoder of the real-mode emulator            *)
(* (src/extra/rme.c): RME_Int_ParseModRMX, RME_Int_DecodeModMX,            *)
(* RME_Int_GetMMM, DoFunc (16-bit addressing) and DoFunc32 (32-bit         *)
(* addressing, after an 0x67 prefix).                                      *)
(*                                                                         *)
(* An instruction's operand bytes are read from the instruction stream by  *)
(* the READ_INSTR8/8S/16/32 macros; the model takes the ModR/M fields, the *)
(* SIB byte and the displacement bytes as inputs.  The decoder's           *)
(* OverrideSegment and bOverrideAddress are set by the prefix opcodes of   *)
(* opcode_table.h, not in the repository; a decode takes them as inputs    *)
(* too.  Seg() gives a segment register's value; registers hold values    *)
(* from small sets.  32-bit address arithmetic is taken modulo ADDR32,     *)
(* since TLC's integers are 32-bit signed; the bound is named and every    *)
(* input stays below it.                                                   *)
(***************************************************************************)
EXTENDS Integers

CONSTANTS
    RegVals,        \* values of the 32-bit general registers
    SegVals,        \* values of the segment registers
    Disp8s,         \* displacement bytes after the ModR/M byte
    Disp16s,        \* 16-bit displacement words
    Disp32s,        \* 32-bit displacement dwords (below ADDR32)
    Sibs,           \* SIB bytes
    ADDR32,         \* modulus standing for 2^32 in address arithmetic
    RME_BLOCK_SIZE  \* memory block size of rme_internal.h

\* General registers in encoding order (AX.D .. DI.D), and segment registers.
GPR == <<"AX", "CX", "DX", "BX", "SP", "BP", "SI", "DI">>
SRegs == {"ES", "CS", "SS", "DS"}
NoOverride == "none"

W16 == 65536
\* The .W half of a register.
Wd(regs, r) == regs[r] % W16
\* A uint16_t or uint32_t assignment.
U16(v) == v % W16
U32(v) == v % ADDR32
\* READ_INSTR8S: the byte taken as a signed char.
S8(b) == IF b < 128 THEN b ELSE b - 256
\* A uint16_t value converted to int16_t.
S16(w) == IF w < 32768 THEN w ELSE w - W16

\* DoFunc: the segment register chosen by mmm (with 8 ORed in for mod=0),
\* replaced by an override prefix, and the 16-bit base sum plus disp,
\* computed in a uint32_t.
DoFunc(regs, ov, mmm, disp, d16) ==
    LET seg == IF ov # NoOverride THEN ov
               ELSE IF mmm \in {2, 3, 6} THEN "SS" ELSE "DS"
        m == mmm % 8
        base == CASE m = 0 -> Wd(regs, "BX") + Wd(regs, "SI")
                  [] m = 1 -> Wd(regs, "BX") + Wd(regs, "DI")
                  [] m = 2 -> Wd(regs, "BP") + Wd(regs, "SI")
                  [] m = 3 -> Wd(regs, "BP") + Wd(regs, "DI")
                  [] m = 4 -> Wd(regs, "SI")
                  [] m = 5 -> Wd(regs, "DI")
                  [] m = 6 -> IF mmm >= 8 THEN U32(S16(d16)) ELSE Wd(regs, "BP")
                  [] m = 7 -> Wd(regs, "BX")
    IN [seg |-> seg, ofs |-> IF mmm >= 8 THEN base ELSE U32(base + disp)]

\* DoFunc32: the same segment choice by mmm; rm=4 reads a SIB byte (index
\* register, none for 4, shifted by the scale, plus the base register, with
\* base 5 under mod=0 reading a disp32); rm=5 under mod=0 reads the address.
DoFunc32(regs, ov, mmm, disp, sib, d32) ==
    LET seg == IF ov # NoOverride THEN ov
               ELSE IF mmm \in {2, 3, 6} THEN "SS" ELSE "DS"
        m == mmm % 8
        R(i) == regs[GPR[i + 1]]
        idx == (sib \div 8) % 8
        base == sib % 8
        sibAddr == U32((IF idx = 4 THEN 0 ELSE R(idx)) * 2 ^ (sib \div 64)
                       + (IF base = 5 /\ mmm >= 8 THEN 0 ELSE R(base)))
        addr == CASE m = 4 -> sibAddr
                  [] m = 5 -> IF mmm >= 8 THEN d32 ELSE R(5)
                  [] m \notin {4, 5} -> R(m)
    IN [seg |-> seg, ofs |-> IF mmm >= 8 THEN addr ELSE U32(addr + disp)]

\* RME_Int_GetMMM for mod 0..2: the displacement is read into the uint16_t
\* ofs (READ_INSTR8S, READ_INSTR16 or READ_INSTR32) and passed on as
\* DoFunc's int16_t or DoFunc32's int32_t disp.
GetMMM(regs, ov, a32, mod, rm, sib, d8, d16, d32) ==
    LET ofs == CASE mod = 0 -> 0
                 [] mod = 1 -> U16(S8(d8))
                 [] mod = 2 -> IF a32 THEN U16(d32) ELSE d16
        mmm == IF mod = 0 THEN rm + 8 ELSE rm
    IN IF a32 THEN DoFunc32(regs, ov, mmm, ofs, sib, d32)
              ELSE DoFunc(regs, ov, mmm, U32(S16(ofs)), d16)
(***************************************************************************)
(* The x86 effective address the decoder stands for (Intel SDM vol. 2A,    *)
(* tables 2-1 to 2-3): 16-bit sums wrap at 64K, mod=0 rm=6 is a direct     *)
(* address; disp8 is sign-extended, disp32 is 32 bits wide; SIB base 5     *)
(* under mod=0 means disp32 and no base; SS is the default segment exactly *)
(* when BP, EBP or ESP is the base.                                        *)
(***************************************************************************)
Ref16(regs, ov, mod, rm, d8, d16) ==
    LET direct == mod = 0 /\ rm = 6
        base == CASE rm = 0 -> Wd(regs, "BX") + Wd(regs, "SI")
                  [] rm = 1 -> Wd(regs, "BX") + Wd(regs, "DI")
                  [] rm = 2 -> Wd(regs, "BP") + Wd(regs, "SI")
                  [] rm = 3 -> Wd(regs, "BP") + Wd(regs, "DI")
                  [] rm = 4 -> Wd(regs, "SI")
                  [] rm = 5 -> Wd(regs, "DI")
                  [] rm = 6 -> Wd(regs, "BP")
                  [] rm = 7 -> Wd(regs, "BX")
        disp == CASE mod = 0 -> 0 [] mod = 1 -> S8(d8) [] mod = 2 -> d16
    IN [seg |-> IF ov # NoOverride THEN ov
                ELSE IF ~direct /\ rm \in {2, 3, 6} THEN "SS" ELSE "DS",
        ofs |-> (IF direct THEN d16 ELSE base + disp) % W16]

Ref32(regs, ov, mod, rm, sib, d8, d32) ==
    LET R(i) == regs[GPR[i + 1]]
        baseReg == IF rm = 4 THEN sib % 8 ELSE rm
        noBase == mod = 0 /\ baseReg = 5
        idx == (sib \div 8) % 8
        index == IF rm = 4 /\ idx # 4 THEN R(idx) * 2 ^ (sib \div 64) ELSE 0
        disp == CASE mod = 0 -> IF noBase THEN d32 ELSE 0
                  [] mod = 1 -> S8(d8)
                  [] mod = 2 -> d32
    IN [seg |-> IF ov # NoOverride THEN ov
                ELSE IF ~noBase /\ baseReg \in {4, 5} THEN "SS" ELSE "DS",
        ofs |-> U32(index + (IF noBase THEN 0 ELSE R(baseReg)) + disp)]

VARIABLES
    regs,     \* AX.D .. DI.D
    sregs,    \* ES, CS, SS, DS
    operand   \* the last operand decoded by RME_Int_ParseModRMX

vars == <<regs, sregs, operand>>

NoOperand == [kind |-> "none"]

\* RME_Int_DecodeModMX: a register for mod=3; otherwise GetMMM's segment
\* and offset, refused when the word would straddle a memory block.
DecodeModMX(in) ==
    IF in.mod = 3 THEN [in EXCEPT !.kind = "reg"]
    ELSE LET ea == GetMMM(regs, in.ov, in.a32, in.mod, in.rm, in.sib,
                          in.d8, in.d16, in.d32)
         IN [in EXCEPT !.seg = ea.seg, !.ofs = ea.ofs,
                       !.kind = IF (sregs[ea.seg] * 16 + ea.ofs) % RME_BLOCK_SIZE
                                     = RME_BLOCK_SIZE - 1
                                THEN "badmem" ELSE "mem"]

Init ==
    /\ regs \in [{GPR[i] : i \in 1..8} -> RegVals]
    /\ sregs \in [SRegs -> SegVals]
    /\ operand = NoOperand

\* RME_Int_ParseModRMX for an instruction of DoOpcode's loop: its ModR/M
\* byte, the SIB and displacement bytes after it, and the prefixes before.
ParseModRMX ==
    /\ \E mod \in 0..3, rm \in 0..7, a32 \in BOOLEAN,
          ov \in SRegs \cup {NoOverride}, sib \in Sibs,
          d8 \in Disp8s, d16 \in Disp16s, d32 \in Disp32s :
          operand' = DecodeModMX([kind |-> "none", mod |-> mod, rm |-> rm,
                                  a32 |-> a32, ov |-> ov, sib |-> sib, d8 |-> d8,
                                  d16 |-> d16, d32 |-> d32, seg |-> "DS", ofs |-> 0])
    /\ UNCHANGED <<regs, sregs>>

\* RME_Int_ParseModRMX_FarPtr (CALL/JMP far indirect): mod=3 is refused as
\* an undefined opcode; otherwise GetMMM's address, with no boundary test,
\* from which the offset and segment words are read.
ParseModRMX_FarPtr ==
    /\ \E mod \in 0..3, rm \in 0..7, a32 \in BOOLEAN,
          ov \in SRegs \cup {NoOverride}, sib \in Sibs,
          d8 \in Disp8s, d16 \in Disp16s, d32 \in Disp32s :
          LET in == [kind |-> "none", mod |-> mod, rm |-> rm, a32 |-> a32,
                     ov |-> ov, sib |-> sib, d8 |-> d8, d16 |-> d16,
                     d32 |-> d32, seg |-> "DS", ofs |-> 0]
              ea == GetMMM(regs, ov, a32, mod, rm, sib, d8, d16, d32)
          IN operand' = IF mod = 3 THEN [in EXCEPT !.kind = "undef"]
                        ELSE [in EXCEPT !.kind = "far", !.seg = ea.seg, !.ofs = ea.ofs]
    /\ UNCHANGED <<regs, sregs>>

Next == ParseModRMX \/ ParseModRMX_FarPtr

Spec == Init /\ [][Next]_vars

TypeOK ==
    /\ regs \in [{GPR[i] : i \in 1..8} -> RegVals]
    /\ operand.kind \in {"none", "reg", "mem", "badmem", "far", "undef"}

\* A memory operand (or far pointer) decoded by GetMMM/DoFunc/DoFunc32 is
\* the x86 effective
\* address: the default or override segment's value and the offset
\* (modulo 64K under 16-bit addressing).
OperandMatchesX86 ==
    operand.kind \in {"mem", "badmem", "far"} =>
        LET ref == IF operand.a32
                   THEN Ref32(regs, operand.ov, operand.mod, operand.rm,
                              operand.sib, operand.d8, operand.d32)
                   ELSE Ref16(regs, operand.ov, operand.mod, operand.rm,
                              operand.d8, operand.d16)
        IN /\ sregs[operand.seg] = sregs[ref.seg]
           /\ IF operand.a32 THEN operand.ofs = ref.ofs
                             ELSE operand.ofs % W16 = ref.ofs
=============================================================================
