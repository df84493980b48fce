----------------------------- MODULE GBStackSpec -----------------------------
(***************************************************************************)
(* What the Game Boy CPU's stack instructions promise, with the stack as  *)
(* a sequence of 16-bit words instead of bytes below SP: PUSH saves a     *)
(* register pair, POP restores the word last saved (POP AF keeps only the *)
(* four flag bits), CALL and RST save the address of the next             *)
(* instruction, an interrupt saves the address of the interrupted one,    *)
(* and RET / RETI jump to the word last saved.  Every other instruction   *)
(* may change any register but leaves the stack alone.                    *)
(***************************************************************************)
EXTENDS Naturals, Sequences

CONSTANT Vectors              \* the interrupt vectors a dispatch may jump to

VARIABLES
  stk,     \* the saved words, top first
  regs     \* "pc", "bc", "de", "hl", "af" -> 16-bit value

svars == <<stk, regs>>

Pairs == {"bc", "de", "hl", "af"}
Regs == Pairs \cup {"pc"}

\* The value a pair holds after popping w: F's low nibble does not exist.
Restored(x, w) == IF x = "af" THEN w - (w % 16) ELSE w

\* The registers other than those in ex keep their values rg.
Keep(rg, ex) == \A x \in Regs \ ex : regs'[x] = rg[x]

\* One instruction from stack st and registers rg.
Compute(st, rg) == stk' = st
Save(st, rg, x) == stk' = <<rg[x]>> \o st /\ Keep(rg, {"pc"})
Restore(st, rg, x) ==
  /\ st # <<>>
  /\ stk' = Tail(st)
  /\ regs'[x] = Restored(x, Head(st))
  /\ Keep(rg, {"pc", x})
Call(st, rg, len) == stk' = <<(rg["pc"] + len) % 65536>> \o st /\ Keep(rg, {"pc"})
Return(st, rg) ==
  /\ st # <<>>
  /\ stk' = Tail(st)
  /\ regs'["pc"] = Head(st)
  /\ Keep(rg, {"pc"})

Instruction(st, rg) ==
  \/ Compute(st, rg)
  \/ \E x \in Pairs : Save(st, rg, x) \/ Restore(st, rg, x)
  \/ \E len \in {1, 3} : Call(st, rg, len)
  \/ Return(st, rg)

\* A step may first take an interrupt: the current pc is saved and the
\* instruction at the vector runs.
SNext ==
  \/ Instruction(stk, regs)
  \/ \E v \in Vectors : Instruction(<<regs["pc"]>> \o stk, [regs EXCEPT !["pc"] = v])

SInit == stk = <<>>

SSpec == SInit /\ [][SNext]_svars

=============================================================================
