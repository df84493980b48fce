------------------------------- MODULE GBAlu --------------------------------
(***************************************************************************)
(* The 8-bit data path of the Game Boy CPU in src/gameboy/cpu.c: the      *)
(* accumulator a and the flags z, n, h, c of gb->cpu_reg, and the opcode  *)
(* cases of __gb_step_cpu and __gb_execute_cb that compute them.           *)
(*                                                                         *)
(* Each opcode group is an operator from a CPU state and an operand byte  *)
(* to the next CPU state.  The source register of an "op A, r" case       *)
(* (B, C, D, E, H, L or the byte at (HL)) is abstracted to its value v:   *)
(* the cases of one group differ only in that register (checked by a     *)
(* diff of the 0x80..0xBF cases), except the "op A, A" case, which is a   *)
(* separate operator because the code special-cases it.  Unsigned short   *)
(* and unsigned char results keep their width (% 2^16, % 2^8).            *)
(***************************************************************************)
EXTENDS Naturals, Bitwise

CONSTANT Operands          \* bytes the operand of a step is drawn from

Byte == 0..255
ASSUME Operands \subseteq Byte

VARIABLE cpu

B(cond) == IF cond THEN 1 ELSE 0
Bit(x, i) == (x \div 2^i) % 2
Cpu(a, z, n, h, c) == [a |-> a, z |-> z, n |-> n, h |-> h, c |-> c]

\* Bit 4 of x ^ y ^ t, the half-carry test (x ^ y ^ temp) & 0x10.
XorBit4(x, y, t) == (Bit(x, 4) + Bit(y, 4) + Bit(t, 4)) % 2

(***************************************************************************)
(* ADD, ADC, SUB, SBC, AND, XOR, OR, CP with a register or (HL) operand   *)
(* (0x80..0xBF) and with an immediate (0xC6..0xFE).                        *)
(***************************************************************************)
AddR(s, v) == LET temp == s.a + v
              IN Cpu(temp % 256, B(temp % 256 = 0), 0, XorBit4(s.a, v, temp), B(temp \div 256 # 0))
AddAA(s) == LET temp == s.a + s.a
            IN Cpu(temp % 256, B(temp % 256 = 0), 0, Bit(temp, 4), B(temp \div 256 # 0))
AdcR(s, v) == LET temp == s.a + v + s.c
              IN Cpu(temp % 256, B(temp % 256 = 0), 0, XorBit4(s.a, v, temp), B(temp \div 256 # 0))
AdcAA(s) == AdcR(s, s.a)
SubR(s, v) == LET temp == (s.a - v) % 65536
              IN Cpu(temp % 256, B(temp % 256 = 0), 1, XorBit4(s.a, v, temp), B(temp \div 256 # 0))
SubAA(s) == Cpu(0, 1, 1, 0, 0)
SbcR(s, v) == LET temp == (s.a - v - s.c) % 65536
              IN Cpu(temp % 256, B(temp % 256 = 0), 1, XorBit4(s.a, v, temp), B(temp \div 256 # 0))
SbcAAKeepHalf(s) == Cpu(IF s.c = 1 THEN 255 ELSE 0, 1 - s.c, 1, 0, s.c)
SbcAA(s) == Cpu(IF s.c = 1 THEN 255 ELSE 0, 1 - s.c, 1, s.c, s.c)
AndR(s, v) == LET r == s.a & v IN Cpu(r, B(r = 0), 0, 1, 0)
AndAA(s) == Cpu(s.a, B(s.a = 0), 0, 1, 0)
XorR(s, v) == LET r == s.a ^^ v IN Cpu(r, B(r = 0), 0, 0, 0)
XorAA(s) == Cpu(0, 1, 0, 0, 0)
OrR(s, v) == LET r == s.a | v IN Cpu(r, B(r = 0), 0, 0, 0)
OrAA(s) == Cpu(s.a, B(s.a = 0), 0, 0, 0)
CpR(s, v) == [SubR(s, v) EXCEPT !.a = s.a]
CpAA(s) == Cpu(s.a, 1, 1, 0, 0)

AddImm(s, v) == LET calc == s.a + v
                IN Cpu(calc % 256, B(calc % 256 = 0), 0, B((s.a % 16) + (v % 16) > 15), B(calc > 255))
AdcImmNoCarryHalf(s, v) == LET r == (s.a + v + s.c) % 256
                           IN Cpu(r, B(r = 0), 0, B((s.a % 16) + (v % 16) > 15), B(s.a + v + s.c > 255))
AdcImm(s, v) == LET r == (s.a + v + s.c) % 256
                IN Cpu(r, B(r = 0), 0, B((s.a % 16) + (v % 16) + s.c > 15), B(s.a + v + s.c > 255))
SubImm(s, v) == SubR(s, v)
SbcImm(s, v) == SbcR(s, v)
AndImm(s, v) == AndR(s, v)
XorImm(s, v) == XorR(s, v)
OrImm(s, v) == OrR(s, v)
CpImm(s, v) == CpR(s, v)

(***************************************************************************)
(* INC A, DEC A, LD A,imm, DAA, CPL, SCF, CCF and the accumulator rotates. *)
(***************************************************************************)
IncA(s) == LET r == (s.a + 1) % 256 IN Cpu(r, B(r = 0), 0, B(r % 16 = 0), s.c)
DecANoWrap(s) == LET r == s.a - 1 IN Cpu(r, B(r = 0), 1, B(r % 16 = 15), s.c)
DecA(s) == LET r == (s.a - 1) % 256 IN Cpu(r, B(r = 0), 1, B(r % 16 = 15), s.c)
LdAImm(s, v) == [s EXCEPT !.a = v]

\* DAA keeps the adjusted value in an unsigned short a and sets c from its bit 8.
DaaNoNibbleTest(s) ==
    LET low == IF s.n = 1
               THEN IF s.h = 1 THEN (s.a - 6) % 256 ELSE s.a
               ELSE IF s.h = 1 THEN s.a + 6 ELSE s.a
        adj == IF s.n = 1
               THEN IF s.c = 1 THEN (low - 96) % 65536 ELSE low
               ELSE IF s.c = 1 \/ low > 159 THEN low + 96 ELSE low
    IN Cpu(adj % 256, B(adj % 256 = 0), s.n, 0, IF Bit(adj, 8) = 1 THEN 1 ELSE s.c)
Daa(s) ==
    LET low == IF s.n = 1
               THEN IF s.h = 1 THEN (s.a - 6) % 256 ELSE s.a
               ELSE IF s.h = 1 \/ s.a % 16 > 9 THEN s.a + 6 ELSE s.a
        adj == IF s.n = 1
               THEN IF s.c = 1 THEN (low - 96) % 65536 ELSE low
               ELSE IF s.c = 1 \/ low > 159 THEN low + 96 ELSE low
    IN Cpu(adj % 256, B(adj % 256 = 0), s.n, 0, IF Bit(adj, 8) = 1 THEN 1 ELSE s.c)
Cpl(s) == [s EXCEPT !.a = 255 - s.a, !.n = 1, !.h = 1]
Scf(s) == [s EXCEPT !.n = 0, !.h = 0, !.c = 1]
Ccf(s) == [s EXCEPT !.n = 0, !.h = 0, !.c = 1 - s.c]
Rlca(s) == LET r == ((2 * s.a) % 256) + s.a \div 128 IN Cpu(r, 0, 0, 0, r % 2)
Rrca(s) == Cpu(s.a \div 2 + 128 * (s.a % 2), 0, 0, 0, s.a % 2)
Rla(s) == Cpu(((2 * s.a) % 256) + s.c, 0, 0, 0, s.a \div 128)
Rra(s) == Cpu(s.a \div 2 + s.c * 128, 0, 0, 0, s.a % 2)
(***************************************************************************)
(* __gb_execute_cb on register A (r = 7): the rotates and shifts, BIT,    *)
(* RES and SET.  val is written back to A except after BIT.                *)
(***************************************************************************)
CbShift(s, k, d) ==
    LET val == s.a
        rot == CASE k \in {0, 1} /\ d = 1 ->
                      [v |-> val \div 2 + 128 * (IF k = 1 THEN s.c ELSE val % 2), c |-> val % 2]
                 [] k \in {0, 1} /\ d = 0 ->
                      [v |-> ((2 * val) % 256) + (IF k = 1 THEN s.c ELSE val \div 128), c |-> val \div 128]
                 [] k = 2 /\ d = 1 -> [v |-> val \div 2 + (val \div 128) * 128, c |-> val % 2]
                 [] k = 2 /\ d = 0 -> [v |-> (2 * val) % 256, c |-> val \div 128]
                 [] k = 3 /\ d = 1 -> [v |-> val \div 2, c |-> val % 2]
                 [] k = 3 /\ d = 0 -> [v |-> val \div 16 + ((val * 16) % 256), c |-> 0]
    IN Cpu(rot.v, B(rot.v = 0), 0, 0, rot.c)
ResMaskOffByOne(b) == (254 * 2^b) | (255 \div 2^(7 - b))
ResMask(b) == (254 * 2^b) | (255 \div 2^(8 - b))
ExecuteCb(s, cbop) ==
    LET b == (cbop \div 8) % 8
        d == b % 2
    IN CASE cbop \div 64 = 0 -> CbShift(s, (cbop \div 16) % 4, d)
         [] cbop \div 64 = 1 -> [s EXCEPT !.z = 1 - Bit(s.a, b), !.n = 0, !.h = 1]
         [] cbop \div 64 = 2 -> [s EXCEPT !.a = s.a & ResMask(b)]
         [] cbop \div 64 = 3 -> [s EXCEPT !.a = s.a | 2^b]

\* The CB opcodes whose register field r is 7 (A).
CbOnA == {op \in Byte : op % 8 = 7}

-----------------------------------------------------------------------------
(***************************************************************************)
(* gb_reset sets af = 0x01B0: a = 0x01, flags z, h, c set.  Each step      *)
(* executes one of the modelled opcodes.                                   *)
(***************************************************************************)
Init == cpu = Cpu(1, 1, 0, 1, 1)

WithOperand(v) ==
    \/ cpu' = AddR(cpu, v)   \/ cpu' = AdcR(cpu, v)   \/ cpu' = SubR(cpu, v)
    \/ cpu' = SbcR(cpu, v)   \/ cpu' = AndR(cpu, v)   \/ cpu' = XorR(cpu, v)
    \/ cpu' = OrR(cpu, v)    \/ cpu' = CpR(cpu, v)    \/ cpu' = AddImm(cpu, v)
    \/ cpu' = AdcImm(cpu, v) \/ cpu' = SubImm(cpu, v) \/ cpu' = SbcImm(cpu, v)
    \/ cpu' = AndImm(cpu, v) \/ cpu' = XorImm(cpu, v) \/ cpu' = OrImm(cpu, v)
    \/ cpu' = CpImm(cpu, v)  \/ cpu' = LdAImm(cpu, v)

OnAccumulator ==
    \/ cpu' = AddAA(cpu) \/ cpu' = AdcAA(cpu) \/ cpu' = SubAA(cpu) \/ cpu' = SbcAA(cpu)
    \/ cpu' = AndAA(cpu) \/ cpu' = XorAA(cpu) \/ cpu' = OrAA(cpu)  \/ cpu' = CpAA(cpu)
    \/ cpu' = IncA(cpu)  \/ cpu' = DecA(cpu)  \/ cpu' = Daa(cpu)   \/ cpu' = Cpl(cpu)
    \/ cpu' = Scf(cpu)   \/ cpu' = Ccf(cpu)   \/ cpu' = Rlca(cpu)  \/ cpu' = Rrca(cpu)
    \/ cpu' = Rla(cpu)   \/ cpu' = Rra(cpu)

Next == \/ \E v \in Operands : WithOperand(v)
        \/ OnAccumulator
        \/ \E op \in CbOnA : cpu' = ExecuteCb(cpu, op)

Spec == Init /\ [][Next]_cpu

-----------------------------------------------------------------------------
Flag == {0, 1}
TypeOK == cpu \in [a : Byte, z : Flag, n : Flag, h : Flag, c : Flag]

\* Reference semantics of 8-bit addition and subtraction with carry in:
\* h is the carry (borrow) out of bit 3, c the carry (borrow) out of bit 7.
RefAdd(s, v, cin) ==
    LET t == s.a + v + cin
    IN Cpu(t % 256, B(t % 256 = 0), 0, B((s.a % 16) + (v % 16) + cin > 15), B(t > 255))
RefSub(s, v, cin) ==
    LET t == s.a - v - cin
    IN Cpu(t % 256, B(t % 256 = 0), 1, B(s.a % 16 < (v % 16) + cin), B(t < 0))

\* Every add/subtract opcode form (register and (HL) with the xor half-carry
\* test on an unsigned short, the special-cased A,A forms, the immediate
\* forms with the nibble-sum test, INC A, DEC A) sets A and all four flags
\* as 8-bit addition/subtraction with carry does, for every operand byte.
ArithmeticMatchesReference ==
    /\ \A v \in Byte :
         /\ AddR(cpu, v) = RefAdd(cpu, v, 0)     /\ AddImm(cpu, v) = RefAdd(cpu, v, 0)
         /\ AdcR(cpu, v) = RefAdd(cpu, v, cpu.c) /\ AdcImm(cpu, v) = RefAdd(cpu, v, cpu.c)
         /\ SubR(cpu, v) = RefSub(cpu, v, 0)     /\ SbcR(cpu, v) = RefSub(cpu, v, cpu.c)
         /\ CpR(cpu, v) = [RefSub(cpu, v, 0) EXCEPT !.a = cpu.a]
    /\ AddAA(cpu) = RefAdd(cpu, cpu.a, 0) /\ AdcAA(cpu) = RefAdd(cpu, cpu.a, cpu.c)
    /\ SubAA(cpu) = RefSub(cpu, cpu.a, 0) /\ SbcAA(cpu) = RefSub(cpu, cpu.a, cpu.c)
    /\ CpAA(cpu) = [RefSub(cpu, cpu.a, 0) EXCEPT !.a = cpu.a]
    /\ IncA(cpu) = [RefAdd(cpu, 1, 0) EXCEPT !.c = cpu.c]
    /\ DecA(cpu) = [RefSub(cpu, 1, 0) EXCEPT !.c = cpu.c]

IsBcd(x) == x \div 16 <= 9 /\ x % 16 <= 9
Dec(x) == 10 * (x \div 16) + (x % 16)
ToBcd(k) == 16 * (k \div 10) + (k % 10)

\* When A and the operand are packed BCD, ADD/ADC/SUB/SBC followed by DAA
\* (case 0x27, which reads n, h and c left by the first instruction) leaves
\* the packed BCD of the decimal result in A, its zero test in z, and the
\* decimal carry or borrow in c.
DaaAdjustsBcd ==
    IsBcd(cpu.a) =>
      \A x \in {y \in Byte : IsBcd(y)} :
        LET Ok(s, t) == s.a = ToBcd(t % 100) /\ s.z = B(t % 100 = 0) /\ s.c = B(t < 0 \/ t > 99)
        IN /\ Ok(Daa(AddR(cpu, x)), Dec(cpu.a) + Dec(x))
           /\ Ok(Daa(AdcR(cpu, x)), Dec(cpu.a) + Dec(x) + cpu.c)
           /\ Ok(Daa(SubR(cpu, x)), Dec(cpu.a) - Dec(x))
           /\ Ok(Daa(SbcR(cpu, x)), Dec(cpu.a) - Dec(x) - cpu.c)

\* BIT b,A reports the complement of bit b in z and leaves A alone; RES b,A
\* (the mask (0xFE << b) | (0xFF >> (8 - b))) clears exactly bit b and
\* SET b,A sets exactly bit b, neither touching the flags.
CbBitOpsExact ==
    \A b \in 0..7 :
      LET bit == Bit(cpu.a, b)
      IN /\ ExecuteCb(cpu, 64 + 8 * b + 7) = [cpu EXCEPT !.z = 1 - bit, !.n = 0, !.h = 1]
         /\ ExecuteCb(cpu, 128 + 8 * b + 7) = [cpu EXCEPT !.a = cpu.a - bit * 2^b]
         /\ ExecuteCb(cpu, 192 + 8 * b + 7) = [cpu EXCEPT !.a = cpu.a + (1 - bit) * 2^b]
====
