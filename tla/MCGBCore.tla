------------------------------ MODULE MCGBCore --------------------------------
(***************************************************************************)
(* A cartridge program for GBCore that runs forever from the reset vector *)
(* 0x0100 and reaches every opcode group, both ways of every conditional  *)
(* one, a DEC BC from 0 (16-bit wrap), a backward JR, a CALL into a       *)
(* subroutine that saves AF, an RST into a routine that saves HL, and an  *)
(* interrupt handler at 0x0040 that saves AF and HL and ends with RETI.   *)
(* The interrupt may be taken at any step with IME set, inside the        *)
(* subroutines too, so the stack is at most 12 bytes deep.                *)
(***************************************************************************)
EXTENDS GBCore, TLC

I(op, x, y) == [op |-> op, x |-> x, y |-> y]

MCRom ==
  (256 :> I("ei", "-", 0)) @@
  (257 :> I("ld_rr", "bc", 0)) @@
  (260 :> I("dec_rr", "bc", 0)) @@          \* bc = 0xFFFF
  (261 :> I("push", "bc", 0)) @@
  (262 :> I("call", "-", 512)) @@
  (265 :> I("pop", "de", 0)) @@
  (266 :> I("ld_r_imm", "b", 2)) @@
  (268 :> I("dec_r", "b", 0)) @@
  (269 :> I("jr_cc", "nz", 253)) @@         \* offset -3: back to 268
  (271 :> I("alu", "xor", "a")) @@
  (272 :> I("call_cc", "nz", 512)) @@       \* not taken: z = 1
  (275 :> I("call_cc", "z", 512)) @@        \* taken
  (278 :> I("ret_cc", "nz", 0)) @@          \* not taken
  (279 :> I("rst", "-", 8)) @@
  (280 :> I("add_hl", "de", 0)) @@
  (281 :> I("inc_rr", "hl", 0)) @@
  (282 :> I("ld_r_r", "a", "h")) @@
  (283 :> I("alu_imm", "and", 15)) @@
  (285 :> I("jp_cc", "nc", 288)) @@
  (288 :> I("ld_rr", "hl", 292)) @@
  (291 :> I("jp_hl", "-", 0)) @@
  (292 :> I("inc_r", "c", 0)) @@
  (293 :> I("di", "-", 0)) @@
  (294 :> I("jr", "-", 216)) @@             \* offset -40: back to 256
  \* RST 0x08 routine
  (8 :> I("push", "hl", 0)) @@
  (9 :> I("ld_r_imm", "h", 0)) @@
  (11 :> I("pop", "hl", 0)) @@
  (12 :> I("alu_imm", "sub", 0)) @@
  (14 :> I("ret_cc", "nc", 0)) @@           \* taken: SUB 0 clears C
  \* interrupt handler
  (64 :> I("push", "af", 0)) @@
  (65 :> I("push", "hl", 0)) @@
  (66 :> I("inc_r", "a", 0)) @@
  (67 :> I("pop", "hl", 0)) @@
  (68 :> I("pop", "af", 0)) @@
  (69 :> I("reti", "-", 0)) @@
  \* subroutine at 0x0200
  (512 :> I("push", "af", 0)) @@
  (513 :> I("alu_imm", "cp", 0)) @@
  (515 :> I("jp", "-", 518)) @@
  (518 :> I("pop", "af", 0)) @@
  (519 :> I("ret", "-", 0))

MCStackWindow == 65520..65533
MCVectors == {64}
MCInitBytes == {0}

=============================================================================
