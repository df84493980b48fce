------------------------------- MODULE GBStep --------------------------------
(***************************************************************************)
(* The step loop of the Game Boy emulator in src/gameboy/cpu.c:           *)
(* gb_run_frame calls __gb_step_cpu until gb_frame is set.  One step      *)
(* dispatches a pending enabled interrupt, executes one instruction, and  *)
(* advances the timer (TIMA) and LCD (lcd_count, LY, lcd_mode) counters   *)
(* by the instruction's cycles.                                            *)
(*                                                                         *)
(* The instruction is abstracted to its cycle count and to the effect it  *)
(* has on the modelled state: EI, DI, RETI, HALT, and writes to LCDC,     *)
(* TAC, IE and STAT (the __gb_write cases 0x40, 0x07, 0xFF, 0x41).  The   *)
(* register file, memory, DIV, the serial port and drawing are left out:  *)
(* none of them feeds the modelled counters.                               *)
(***************************************************************************)
EXTENDS Naturals, FiniteSets

CONSTANTS
    LcdcWrites,   \* LCDC values the program writes: TRUE = LCDC_ENABLE set
    TacWrites,    \* TAC values the program writes: [enable, rate]
    IeWrites,     \* IE values the program writes: sets of interrupts
    StatWrites    \* STAT interrupt-select values the program writes

\* Interrupt sources in the priority order of the dispatch if-chain.
Intr == <<"VBLANK", "LCDC", "TIMER">>
IntrSet == {Intr[k] : k \in 1..3}
StatSel == {"LYC", "MODE2", "MODE1", "MODE0"}

ASSUME LcdcWrites \subseteq BOOLEAN
ASSUME TacWrites \subseteq [enable : {0, 1}, rate : 0..3]
ASSUME IeWrites \subseteq SUBSET IntrSet
ASSUME StatWrites \subseteq SUBSET StatSel

LCD_LINE_CYCLES == 456
LCD_MODE_2_CYCLES == 204
LCD_MODE_3_CYCLES == 284
LCD_VERT_LINES == 154
LCD_HEIGHT == 144
LCD_HBLANK == 0
LCD_VBLANK == 1
LCD_SEARCH_OAM == 2
LCD_TRANSFER == 3
TAC_CYCLES == [r \in 0..3 |-> CASE r = 0 -> 1024 [] r = 1 -> 16 [] r = 2 -> 64 [] r = 3 -> 256]
LYC == 0
TMA == 0

\* op_cycles entries of the non-prefixed opcodes, with the +4 and +12 of
\* taken conditional jumps, calls and returns.
InstCycles == {4, 8, 12, 16, 20, 24}

NoVal == "none"
Instr ==
    {[op |-> "other", cyc |-> c, val |-> NoVal] : c \in InstCycles}
    \cup {[op |-> o, cyc |-> 4, val |-> NoVal] : o \in {"ei", "di", "halt"}}
    \cup {[op |-> "reti", cyc |-> 16, val |-> NoVal]}
    \cup {[op |-> "lcdc", cyc |-> 12, val |-> v] : v \in LcdcWrites}
    \cup {[op |-> "tac", cyc |-> 12, val |-> v] : v \in TacWrites}
    \cup {[op |-> "ie", cyc |-> 12, val |-> v] : v \in IeWrites}
    \cup {[op |-> "stat", cyc |-> 12, val |-> v] : v \in StatWrites}
Nop == [op |-> "other", cyc |-> 4, val |-> NoVal]

VARIABLES
    intr,    \* [ime, halt, IFR, IE]: gb_ime, gb_halt, gb_reg.IF, gb_reg.IE
    lcd,     \* [on, count, LY, mode, stat, coinc]: LCDC_ENABLE, lcd_count, LY, lcd_mode,
             \* the STAT interrupt selects and STAT_LYC_COINC
    timer,   \* [enable, rate, count, TIMA]: tac_enable, tac_rate, tima_count, TIMA
    frame    \* gb_frame (TRUE = 1)

vars == <<intr, lcd, timer, frame>>

(***************************************************************************)
(* Head of __gb_step_cpu: a pending enabled interrupt ends HALT and, with *)
(* IME set, clears IME and the IF bit of the highest-priority one (the    *)
(* push of pc and the jump to the vector are not modelled).               *)
(***************************************************************************)
Dispatch(i) ==
    LET pending == i.IFR \cap i.IE
        top == Intr[CHOOSE k \in 1..3 : Intr[k] \in pending /\ \A j \in 1..(k - 1) : Intr[j] \notin pending]
    IN CASE (i.ime = 1 \/ i.halt = 1) /\ pending # {} /\ i.ime = 1 ->
              [i EXCEPT !.halt = 0, !.ime = 0, !.IFR = @ \ {top}]
         [] (i.ime = 1 \/ i.halt = 1) /\ pending # {} -> [i EXCEPT !.halt = 0]
         [] OTHER -> i

\* __gb_write(0xFF40): clearing LCDC_ENABLE outside VBLANK is refused (the
\* code sets the bit again); inside VBLANK it stops the LCD at LY 0.
LcdcWrite(l, on) ==
    CASE on -> [l EXCEPT !.on = TRUE]
      [] l.mode # LCD_VBLANK -> l
      [] OTHER -> [l EXCEPT !.on = FALSE, !.LY = 0, !.count = 0]

\* The switch of __gb_step_cpu for the modelled instructions.
Execute(i, l, t, ins) ==
    CASE ins.op = "ei" \/ ins.op = "reti" -> [intr |-> [i EXCEPT !.ime = 1], lcd |-> l, timer |-> t]
      [] ins.op = "di"   -> [intr |-> [i EXCEPT !.ime = 0], lcd |-> l, timer |-> t]
      [] ins.op = "halt" -> [intr |-> [i EXCEPT !.halt = 1], lcd |-> l, timer |-> t]
      [] ins.op = "lcdc" -> [intr |-> i, lcd |-> LcdcWrite(l, ins.val), timer |-> t]
      [] ins.op = "tac"  -> [intr |-> i, lcd |-> l, timer |-> [t EXCEPT !.enable = ins.val.enable, !.rate = ins.val.rate]]
      [] ins.op = "ie"   -> [intr |-> [i EXCEPT !.IE = ins.val], lcd |-> l, timer |-> t]
      [] ins.op = "stat" -> [intr |-> i, lcd |-> [l EXCEPT !.stat = ins.val], timer |-> t]
      [] OTHER -> [intr |-> i, lcd |-> l, timer |-> t]

\* Timer part of the tail: one TAC period is taken off tima_count per step.
TimerTick(t, cyc) ==
    IF t.enable = 0 THEN [timer |-> t, irq |-> {}]
    ELSE LET cnt == t.count + cyc
             tima == (t.TIMA + 1) % 256
         IN IF cnt < TAC_CYCLES[t.rate] THEN [timer |-> [t EXCEPT !.count = cnt], irq |-> {}]
            ELSE [timer |-> [t EXCEPT !.count = cnt - TAC_CYCLES[t.rate], !.TIMA = IF tima = 0 THEN TMA ELSE tima],
                  irq |-> IF tima = 0 THEN {"TIMER"} ELSE {}]

\* STAT selects that request the LCDC interrupt.
StatIrq(l, sel) == IF sel \in l.stat THEN {"LCDC"} ELSE {}

\* Mutants of LcdTick for the properties below.
LcdTickWrapAtHeight(l, cyc) ==
    LET cnt == l.count + cyc
        ly == (l.LY + 1) % LCD_HEIGHT
        lyc == IF l.LY = LYC THEN StatIrq(l, "LYC") ELSE {}
    IN CASE ~l.on -> [lcd |-> l, irq |-> {}, frame |-> FALSE]
         [] cnt > LCD_LINE_CYCLES /\ ly = LCD_HEIGHT ->
              [lcd |-> [l EXCEPT !.count = cnt - LCD_LINE_CYCLES, !.LY = ly, !.mode = LCD_VBLANK, !.coinc = (l.LY = LYC)],
               irq |-> {"VBLANK"} \cup lyc \cup StatIrq(l, "MODE1"), frame |-> TRUE]
         [] cnt > LCD_LINE_CYCLES /\ ly < LCD_HEIGHT ->
              [lcd |-> [l EXCEPT !.count = cnt - LCD_LINE_CYCLES, !.LY = ly, !.mode = LCD_HBLANK, !.coinc = (l.LY = LYC)],
               irq |-> lyc \cup StatIrq(l, "MODE0"), frame |-> FALSE]
         [] cnt > LCD_LINE_CYCLES ->
              [lcd |-> [l EXCEPT !.count = cnt - LCD_LINE_CYCLES, !.LY = ly, !.coinc = (l.LY = LYC)], irq |-> lyc, frame |-> FALSE]
         [] l.mode = LCD_HBLANK /\ cnt >= LCD_MODE_2_CYCLES ->
              [lcd |-> [l EXCEPT !.count = cnt, !.mode = LCD_SEARCH_OAM], irq |-> StatIrq(l, "MODE2"), frame |-> FALSE]
         [] l.mode = LCD_SEARCH_OAM /\ cnt >= LCD_MODE_3_CYCLES ->
              [lcd |-> [l EXCEPT !.count = cnt, !.mode = LCD_TRANSFER], irq |-> {}, frame |-> FALSE]
         [] OTHER -> [lcd |-> [l EXCEPT !.count = cnt], irq |-> {}, frame |-> FALSE]
LcdTickNoWrap(l, cyc) ==
    LET cnt == l.count + cyc
        ly == l.LY + 1
        lyc == IF l.LY = LYC THEN StatIrq(l, "LYC") ELSE {}
    IN CASE ~l.on -> [lcd |-> l, irq |-> {}, frame |-> FALSE]
         [] cnt > LCD_LINE_CYCLES /\ ly = LCD_HEIGHT ->
              [lcd |-> [l EXCEPT !.count = cnt - LCD_LINE_CYCLES, !.LY = ly, !.mode = LCD_VBLANK, !.coinc = (l.LY = LYC)],
               irq |-> {"VBLANK"} \cup lyc \cup StatIrq(l, "MODE1"), frame |-> TRUE]
         [] cnt > LCD_LINE_CYCLES /\ ly < LCD_HEIGHT ->
              [lcd |-> [l EXCEPT !.count = cnt - LCD_LINE_CYCLES, !.LY = ly, !.mode = LCD_HBLANK, !.coinc = (l.LY = LYC)],
               irq |-> lyc \cup StatIrq(l, "MODE0"), frame |-> FALSE]
         [] cnt > LCD_LINE_CYCLES ->
              [lcd |-> [l EXCEPT !.count = cnt - LCD_LINE_CYCLES, !.LY = ly, !.coinc = (l.LY = LYC)], irq |-> lyc, frame |-> FALSE]
         [] l.mode = LCD_HBLANK /\ cnt >= LCD_MODE_2_CYCLES ->
              [lcd |-> [l EXCEPT !.count = cnt, !.mode = LCD_SEARCH_OAM], irq |-> StatIrq(l, "MODE2"), frame |-> FALSE]
         [] l.mode = LCD_SEARCH_OAM /\ cnt >= LCD_MODE_3_CYCLES ->
              [lcd |-> [l EXCEPT !.count = cnt, !.mode = LCD_TRANSFER], irq |-> {}, frame |-> FALSE]
         [] OTHER -> [lcd |-> [l EXCEPT !.count = cnt], irq |-> {}, frame |-> FALSE]
LcdTickKeepMode(l, cyc) ==
    LET cnt == l.count + cyc
        ly == (l.LY + 1) % LCD_VERT_LINES
        lyc == IF l.LY = LYC THEN StatIrq(l, "LYC") ELSE {}
    IN CASE ~l.on -> [lcd |-> l, irq |-> {}, frame |-> FALSE]
         [] cnt > LCD_LINE_CYCLES /\ ly = LCD_HEIGHT ->
              [lcd |-> [l EXCEPT !.count = cnt - LCD_LINE_CYCLES, !.LY = ly, !.mode = LCD_VBLANK, !.coinc = (l.LY = LYC)],
               irq |-> {"VBLANK"} \cup lyc \cup StatIrq(l, "MODE1"), frame |-> TRUE]
         [] cnt > LCD_LINE_CYCLES /\ ly < LCD_HEIGHT ->
              [lcd |-> [l EXCEPT !.count = cnt - LCD_LINE_CYCLES, !.LY = ly, !.coinc = (l.LY = LYC)],
               irq |-> lyc \cup StatIrq(l, "MODE0"), frame |-> FALSE]
         [] cnt > LCD_LINE_CYCLES ->
              [lcd |-> [l EXCEPT !.count = cnt - LCD_LINE_CYCLES, !.LY = ly, !.coinc = (l.LY = LYC)], irq |-> lyc, frame |-> FALSE]
         [] l.mode = LCD_HBLANK /\ cnt >= LCD_MODE_2_CYCLES ->
              [lcd |-> [l EXCEPT !.count = cnt, !.mode = LCD_SEARCH_OAM], irq |-> StatIrq(l, "MODE2"), frame |-> FALSE]
         [] l.mode = LCD_SEARCH_OAM /\ cnt >= LCD_MODE_3_CYCLES ->
              [lcd |-> [l EXCEPT !.count = cnt, !.mode = LCD_TRANSFER], irq |-> {}, frame |-> FALSE]
         [] OTHER -> [lcd |-> [l EXCEPT !.count = cnt], irq |-> {}, frame |-> FALSE]

\* LCD part of the tail (nothing when LCDC_ENABLE is clear): a line ends
\* when lcd_count passes LCD_LINE_CYCLES; entering line LCD_HEIGHT starts
\* VBLANK and sets gb_frame; a visible line starts in HBLANK, then OAM search
\* and transfer follow at LCD_MODE_2_CYCLES and LCD_MODE_3_CYCLES.
LcdTick(l, cyc) ==
    LET cnt == l.count + cyc
        ly == (l.LY + 1) % LCD_VERT_LINES
        lyc == IF l.LY = LYC THEN StatIrq(l, "LYC") ELSE {}
    IN CASE ~l.on -> [lcd |-> l, irq |-> {}, frame |-> FALSE]
         [] cnt > LCD_LINE_CYCLES /\ ly = LCD_HEIGHT ->
              [lcd |-> [l EXCEPT !.count = cnt - LCD_LINE_CYCLES, !.LY = ly, !.mode = LCD_VBLANK, !.coinc = (l.LY = LYC)],
               irq |-> {"VBLANK"} \cup lyc \cup StatIrq(l, "MODE1"), frame |-> TRUE]
         [] cnt > LCD_LINE_CYCLES /\ ly < LCD_HEIGHT ->
              [lcd |-> [l EXCEPT !.count = cnt - LCD_LINE_CYCLES, !.LY = ly, !.mode = LCD_HBLANK, !.coinc = (l.LY = LYC)],
               irq |-> lyc \cup StatIrq(l, "MODE0"), frame |-> FALSE]
         [] cnt > LCD_LINE_CYCLES ->
              [lcd |-> [l EXCEPT !.count = cnt - LCD_LINE_CYCLES, !.LY = ly, !.coinc = (l.LY = LYC)], irq |-> lyc, frame |-> FALSE]
         [] l.mode = LCD_HBLANK /\ cnt >= LCD_MODE_2_CYCLES ->
              [lcd |-> [l EXCEPT !.count = cnt, !.mode = LCD_SEARCH_OAM], irq |-> StatIrq(l, "MODE2"), frame |-> FALSE]
         [] l.mode = LCD_SEARCH_OAM /\ cnt >= LCD_MODE_3_CYCLES ->
              [lcd |-> [l EXCEPT !.count = cnt, !.mode = LCD_TRANSFER], irq |-> {}, frame |-> FALSE]
         [] OTHER -> [lcd |-> [l EXCEPT !.count = cnt], irq |-> {}, frame |-> FALSE]

(***************************************************************************)
(* One call of __gb_step_cpu inside gb_run_frame's loop.  A halted CPU    *)
(* executes NOP (opcode 0x00, 4 cycles).                                   *)
(***************************************************************************)
\* Mutant of Step: a halted CPU spends no cycles, as if op_cycles were
\* looked up for no opcode while gb_halt is set.
StepHaltedNoCycles ==
    /\ ~frame
    /\ LET i1 == Dispatch(intr)
       IN \E ins \in (IF i1.halt = 1 THEN {[Nop EXCEPT !.cyc = 0]} ELSE Instr) :
            LET ex == Execute(i1, lcd, timer, ins)
                tm == TimerTick(ex.timer, ins.cyc)
                lc == LcdTick(ex.lcd, ins.cyc)
            IN /\ intr' = [ex.intr EXCEPT !.IFR = @ \cup tm.irq \cup lc.irq]
               /\ timer' = tm.timer
               /\ lcd' = lc.lcd
               /\ frame' = lc.frame
Step ==
    /\ ~frame
    /\ LET i1 == Dispatch(intr)
       IN \E ins \in (IF i1.halt = 1 THEN {Nop} ELSE Instr) :
            LET ex == Execute(i1, lcd, timer, ins)
                tm == TimerTick(ex.timer, ins.cyc)
                lc == LcdTick(ex.lcd, ins.cyc)
            IN /\ intr' = [ex.intr EXCEPT !.IFR = @ \cup tm.irq \cup lc.irq]
               /\ timer' = tm.timer
               /\ lcd' = lc.lcd
               /\ frame' = lc.frame

\* The host calls gb_run_frame again, which clears gb_frame.
RunFrame ==
    /\ frame
    /\ frame' = FALSE
    /\ UNCHANGED <<intr, lcd, timer>>

\* gb_reset: IME set, IF = 0xE1 (VBLANK pending), IE = 0, LCDC = 0x91
\* (enabled), STAT = 0, LY = 0, lcd_mode = HBLANK, TAC = 0xF8 (stopped,
\* rate 0), TIMA = 0 and all counters 0.
Init ==
    /\ intr = [ime |-> 1, halt |-> 0, IFR |-> {"VBLANK"}, IE |-> {}]
    /\ lcd = [on |-> TRUE, count |-> 0, LY |-> 0, mode |-> LCD_HBLANK, stat |-> {}, coinc |-> FALSE]
    /\ timer = [enable |-> 0, rate |-> 0, count |-> 0, TIMA |-> 0]
    /\ frame = FALSE

Next == Step \/ RunFrame

\* gb_run_frame's loop calls __gb_step_cpu whenever gb_frame is clear.
Spec == Init /\ [][Next]_vars /\ WF_vars(Step)

-----------------------------------------------------------------------------
TypeOK ==
    /\ intr \in [ime : {0, 1}, halt : {0, 1}, IFR : SUBSET IntrSet, IE : SUBSET IntrSet]
    /\ lcd \in [on : BOOLEAN, count : 0..(LCD_LINE_CYCLES + 24), LY : 0..(LCD_VERT_LINES - 1),
                mode : 0..3, stat : SUBSET StatSel, coinc : BOOLEAN]
    /\ timer \in [enable : {0, 1}, rate : 0..3, count : Nat, TIMA : 0..255]
    /\ frame \in BOOLEAN

\* While the LCD is on, lcd_mode is VBLANK exactly on the lines LCD_HEIGHT..
\* LCD_VERT_LINES - 1, so a program polling STAT sees VBLANK only there.
ModeMatchesLine ==
    lcd.on => (lcd.mode = LCD_VBLANK <=> lcd.LY >= LCD_HEIGHT)

\* With the LCD switched off and on again (__gb_write 0xFF40 stops it in
\* VBLANK, resets LY and lcd_count, and leaves lcd_mode VBLANK), the mode is
\* still VBLANK on every line from LCD_HEIGHT on, and is VBLANK on a visible
\* line only on line 0, before the first line end after re-enabling.
ModeStaleOnlyOnLineZero ==
    lcd.on => /\ lcd.LY >= LCD_HEIGHT => lcd.mode = LCD_VBLANK
              /\ lcd.mode = LCD_VBLANK /\ lcd.LY < LCD_HEIGHT => lcd.LY = 0

\* A call of gb_run_frame returns unless the game turns the LCD off: while
\* gb_frame is clear, the steps of its loop set it or LCDC_ENABLE is clear.
FrameCompletesWhileLcdOn == ~frame ~> (frame \/ ~lcd.on)

\* Every call of gb_run_frame returns: once gb_frame is cleared, the steps
\* of its loop eventually set it again.
FrameCompletes == ~frame ~> frame

\* The timer never owes a tick: after each step, tima_count is below one
\* period of the selected TAC rate, so TIMA has counted every elapsed period.
TimerNotBehind ==
    timer.enable = 1 => timer.count < TAC_CYCLES[timer.rate]
====
