------------------------------- MODULE GBCore --------------------------------
(***************************************************************************)
(* The Game Boy CPU of src/gameboy/cpu.c running a program: the register  *)
(* file of gb->cpu_reg, IME, and the RAM that holds the stack, stepped by *)
(* __gb_step_cpu through the instructions of a ROM.  The 8-bit ALU is     *)
(* GBAlu's; this module adds the register pairs, loads, INC/DEC, the      *)
(* 16-bit ADD HL, jumps, CALL/RET/RST, PUSH/POP and interrupt dispatch,   *)
(* with the byte order and 16-bit wrap of the code.                       *)
(***************************************************************************)
EXTENDS Naturals, Bitwise

CONSTANTS
  Rom,          \* address -> instruction [op, x, y] of the cartridge program
  StackWindow,  \* the RAM addresses the stack may use
  Vectors,      \* the interrupt vectors a pending interrupt may select
  InitBytes     \* what the uninitialised stack RAM may hold at reset

Byte == 0..255
Word == 0..65535
ASSUME StackWindow \subseteq Word /\ InitBytes \subseteq Byte

Alu == INSTANCE GBAlu WITH Operands <- Byte, cpu <- [a |-> 0, z |-> 0, n |-> 0, h |-> 0, c |-> 0]

VARIABLE gb   \* [cpu |-> GBAlu's [a, z, n, h, c], r |-> [b, c, d, e, h, l], sp, pc, ime, mem]

Lo(w) == w % 256
Hi(w) == w \div 256
W(hi, lo) == 256 * hi + lo
Wrap(x) == x % 65536
\* Mutant of Signed: char taken as unsigned, as on an ARM build.
SignedAsUnsigned(v) == v
\* A char operand (JR offsets) on the x86 build, where char is signed.
Signed(v) == IF v < 128 THEN v ELSE v - 256

FlagsByte(f) == 128 * f.z + 64 * f.n + 32 * f.h + 16 * f.c
Get8(s, x) == IF x = "a" THEN s.cpu.a ELSE s.r[x]
Set8(s, x, v) == IF x = "a" THEN [s EXCEPT !.cpu.a = v] ELSE [s EXCEPT !.r[x] = v]
Pair(s, x) ==
  CASE x = "bc" -> W(s.r.b, s.r.c) [] x = "de" -> W(s.r.d, s.r.e)
    [] x = "hl" -> W(s.r.h, s.r.l) [] x = "af" -> W(s.cpu.a, FlagsByte(s.cpu))
    [] x = "sp" -> s.sp
\* POP AF sets the four flag bits from bits 7..4 of the low byte.
SetPair(s, x, w) ==
  CASE x = "bc" -> [s EXCEPT !.r.b = Hi(w), !.r.c = Lo(w)]
    [] x = "de" -> [s EXCEPT !.r.d = Hi(w), !.r.e = Lo(w)]
    [] x = "hl" -> [s EXCEPT !.r.h = Hi(w), !.r.l = Lo(w)]
    [] x = "sp" -> [s EXCEPT !.sp = w]
    [] x = "af" -> [s EXCEPT !.cpu = Alu!Cpu(Hi(w), Alu!Bit(w, 7), Alu!Bit(w, 6),
                                                 Alu!Bit(w, 5), Alu!Bit(w, 4))]
Cond(s, x) ==
  CASE x = "nz" -> s.cpu.z = 0 [] x = "z" -> s.cpu.z = 1
    [] x = "nc" -> s.cpu.c = 0 [] x = "c" -> s.cpu.c = 1

\* Mutant of PushWord: the low byte is written first, at sp - 1.
PushWordLowFirst(s, w) ==
  [s EXCEPT !.sp = Wrap(@ - 2),
            !.mem = [@ EXCEPT ![Wrap(s.sp - 1)] = Lo(w), ![Wrap(s.sp - 2)] = Hi(w)]]
\* __gb_write(--sp, w >> 8); __gb_write(--sp, w & 0xFF)
PushWord(s, w) ==
  [s EXCEPT !.sp = Wrap(@ - 2),
            !.mem = [@ EXCEPT ![Wrap(s.sp - 1)] = Hi(w), ![Wrap(s.sp - 2)] = Lo(w)]]
\* lo = __gb_read(sp++); hi = __gb_read(sp++)
TopWord(s) == W(s.mem[Wrap(s.sp + 1)], s.mem[s.sp])
Popped(s) == [s EXCEPT !.sp = Wrap(@ + 2)]

(***************************************************************************)
(* The opcode groups.  s.pc is the address of the opcode; pc1, pc2, pc3  *)
(* are the addresses after it and its one or two operand bytes, and i.y  *)
(* is the operand the ROM holds there (a byte, a word, or a vector).     *)
(***************************************************************************)
\* Mutant of DecRR: the unsigned short decrement does not wrap.
DecRRNoWrap(s, x) == SetPair(s, x, Pair(s, x) - 1)
IncRR(s, x) == SetPair(s, x, Wrap(Pair(s, x) + 1))
DecRR(s, x) == SetPair(s, x, Wrap(Pair(s, x) - 1))
\* INC r / DEC r are INC A / DEC A on register r: same flags, C kept.
IncR(s, x) == LET f == Alu!IncA([s.cpu EXCEPT !.a = Get8(s, x)])
              IN Set8([s EXCEPT !.cpu = [f EXCEPT !.a = s.cpu.a]], x, f.a)
DecR(s, x) == LET f == Alu!DecA([s.cpu EXCEPT !.a = Get8(s, x)])
              IN Set8([s EXCEPT !.cpu = [f EXCEPT !.a = s.cpu.a]], x, f.a)
\* ADD HL, rr: unsigned int temp; h from bit 12 of temp ^ hl ^ rr.
AddHL(s, x) ==
  LET hl == Pair(s, "hl")
      v == Pair(s, x)
      temp == hl + v
  IN [SetPair(s, "hl", temp % 65536) EXCEPT
        !.cpu.n = 0,
        !.cpu.h = (Alu!Bit(temp, 12) + Alu!Bit(hl, 12) + Alu!Bit(v, 12)) % 2,
        !.cpu.c = Alu!B(temp >= 65536)]
\* The 0x80..0xBF cases on register y, and the immediate forms.
AluReg(s, op, y) ==
  LET c == s.cpu
      v == Get8(s, y)
      AA == y = "a"
  IN [s EXCEPT !.cpu =
        CASE op = "add" -> IF AA THEN Alu!AddAA(c) ELSE Alu!AddR(c, v)
          [] op = "adc" -> IF AA THEN Alu!AdcAA(c) ELSE Alu!AdcR(c, v)
          [] op = "sub" -> IF AA THEN Alu!SubAA(c) ELSE Alu!SubR(c, v)
          [] op = "sbc" -> IF AA THEN Alu!SbcAA(c) ELSE Alu!SbcR(c, v)
          [] op = "and" -> IF AA THEN Alu!AndAA(c) ELSE Alu!AndR(c, v)
          [] op = "xor" -> IF AA THEN Alu!XorAA(c) ELSE Alu!XorR(c, v)
          [] op = "or"  -> IF AA THEN Alu!OrAA(c)  ELSE Alu!OrR(c, v)
          [] op = "cp"  -> IF AA THEN Alu!CpAA(c)  ELSE Alu!CpR(c, v)]
AluImm(s, op, v) ==
  LET c == s.cpu
  IN [s EXCEPT !.cpu =
        CASE op = "add" -> Alu!AddImm(c, v) [] op = "adc" -> Alu!AdcImm(c, v)
          [] op = "sub" -> Alu!SubImm(c, v) [] op = "sbc" -> Alu!SbcImm(c, v)
          [] op = "and" -> Alu!AndImm(c, v) [] op = "xor" -> Alu!XorImm(c, v)
          [] op = "or"  -> Alu!OrImm(c, v)  [] op = "cp"  -> Alu!CpImm(c, v)]
Goto(s, a) == [s EXCEPT !.pc = a]
\* JR: pc after the operand plus the signed char offset, as unsigned short.
JrTarget(s, v) == Wrap(s.pc + 2 + Signed(v))
CallTo(s, a, ret) == Goto(PushWord(s, ret), a)
RetFrom(s) == Goto(Popped(s), TopWord(s))
\* POP AF: the flag byte at sp, then A at sp + 1.
PopInto(s, x) == SetPair(Popped(s), x, TopWord(s))

\* The switch of __gb_step_cpu for the instruction i at s.pc.
Execute(s, i) ==
  LET pc1 == Wrap(s.pc + 1)
      pc2 == Wrap(s.pc + 2)
      pc3 == Wrap(s.pc + 3)
      x == i.x
      y == i.y
  IN CASE i.op = "nop"      -> Goto(s, pc1)
       [] i.op = "ld_rr"    -> Goto(SetPair(s, x, y), pc3)
       [] i.op = "inc_rr"   -> Goto(IncRR(s, x), pc1)
       [] i.op = "dec_rr"   -> Goto(DecRR(s, x), pc1)
       [] i.op = "inc_r"    -> Goto(IncR(s, x), pc1)
       [] i.op = "dec_r"    -> Goto(DecR(s, x), pc1)
       [] i.op = "add_hl"   -> Goto(AddHL(s, x), pc1)
       [] i.op = "ld_r_imm" -> Goto(Set8(s, x, y), pc2)
       [] i.op = "ld_r_r"   -> Goto(Set8(s, x, Get8(s, y)), pc1)
       [] i.op = "alu"      -> Goto(AluReg(s, x, y), pc1)
       [] i.op = "alu_imm"  -> Goto(AluImm(s, x, y), pc2)
       [] i.op = "jp"       -> Goto(s, y)
       [] i.op = "jp_cc"    -> Goto(s, IF Cond(s, x) THEN y ELSE pc3)
       [] i.op = "jr"       -> Goto(s, JrTarget(s, y))
       [] i.op = "jr_cc"    -> Goto(s, IF Cond(s, x) THEN JrTarget(s, y) ELSE pc2)
       [] i.op = "jp_hl"    -> Goto(s, Pair(s, "hl"))
       [] i.op = "call"     -> CallTo(s, y, pc3)
       [] i.op = "call_cc"  -> IF Cond(s, x) THEN CallTo(s, y, pc3) ELSE Goto(s, pc3)
       [] i.op = "rst"      -> CallTo(s, y, pc1)
       [] i.op = "ret"      -> RetFrom(s)
       [] i.op = "ret_cc"   -> IF Cond(s, x) THEN RetFrom(s) ELSE Goto(s, pc1)
       [] i.op = "reti"     -> [RetFrom(s) EXCEPT !.ime = 1]
       [] i.op = "push"     -> Goto(PushWord(s, Pair(s, x)), pc1)
       [] i.op = "pop"      -> Goto(PopInto(s, x), pc1)
       [] i.op = "ei"       -> [s EXCEPT !.ime = 1, !.pc = pc1]
       [] i.op = "di"       -> [s EXCEPT !.ime = 0, !.pc = pc1]

\* Head of __gb_step_cpu with IME set and an enabled interrupt pending:
\* IME is cleared, pc pushed, and the vector is where the opcode is read.
Dispatch(s, v) == [CallTo(s, v, s.pc) EXCEPT !.ime = 0]

Init ==
  gb \in {[cpu |-> Alu!Cpu(1, 1, 0, 1, 1),
           r |-> [b |-> 0, c |-> 19, d |-> 0, e |-> 216, h |-> 1, l |-> 77],
           sp |-> 65534, pc |-> 256, ime |-> 1, mem |-> m] : m \in [StackWindow -> InitBytes]}

\* One __gb_step_cpu with no interrupt taken.
Step == gb.pc \in DOMAIN Rom /\ gb' = Execute(gb, Rom[gb.pc])

\* One __gb_step_cpu that dispatches interrupt v first.
Interrupt(v) ==
  /\ gb.ime = 1
  /\ LET s == Dispatch(gb, v) IN s.pc \in DOMAIN Rom /\ gb' = Execute(s, Rom[s.pc])

Next == Step \/ \E v \in Vectors : Interrupt(v)

Spec == Init /\ [][Next]_gb

-----------------------------------------------------------------------------
TypeOK ==
  gb \in [cpu : [a : Byte, z : {0, 1}, n : {0, 1}, h : {0, 1}, c : {0, 1}],
          r : [{"b", "c", "d", "e", "h", "l"} -> Byte], sp : Word, pc : Word,
          ime : {0, 1}, mem : [StackWindow -> Byte]]

\* Control never leaves the program: every jump, relative jump, call, RST,
\* interrupt and return (with the word popped back from the stack) lands on
\* the first byte of an instruction of the ROM.
PcOnInstruction == gb.pc \in DOMAIN Rom

\* The words between sp and the top of the stack window, top first.
StackTop == 65534
StackWords ==
  [k \in 1..((StackTop - gb.sp) \div 2) |->
     W(gb.mem[gb.sp + 2 * k - 1], gb.mem[gb.sp + 2 * k - 2])]

Abs == INSTANCE GBStackSpec WITH
  stk <- StackWords,
  regs <- [x \in {"pc", "bc", "de", "hl", "af"} |-> IF x = "pc" THEN gb.pc ELSE Pair(gb, x)]

\* The byte-level stack of the code implements the word stack of
\* GBStackSpec: every POP and RET reads back the word of the matching PUSH,
\* CALL, RST or interrupt, which saved the address of the next (or the
\* interrupted) instruction.
StackRefined == Abs!SSpec

=============================================================================
