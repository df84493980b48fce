# TLA+ models of the HeisenKernel memory and process core and its Game Boy CPU

These modules model two parts of HeisenKernel. The first builds and tears
down processes, and has four pieces:

- the virtual memory manager, `src/kernel/mm/vmm.c`;
- the kernel heap, `src/kernel/mm/kheap.c`;
- the ELF loader, `src/kernel/proc/elf.c`;
- the process manager, `src/kernel/proc/proc.c`.

The second is the Game Boy emulator's CPU, `src/src/gameboy/cpu.c`: its 8-bit
ALU; its core of registers, jumps, calls and the stack, running a program; and
its step loop with interrupts, the timer and the LCD line counter.

A third, smaller part is the operand decoder of the real-mode x86 emulator,
`src/extra/rme.c`. This is the ModR/M and SIB code that turns an
instruction's addressing bytes into a segment and an offset.

Two abstract specifications state what a component promises, and a detailed
module is checked to implement each one through `INSTANCE … WITH` and a
refinement mapping:

- `ProcLifecycle` is the New → Active → Stopped lifecycle of a process and
  its registration with the scheduler, implemented by `Proc`;
- `GBStackSpec` is the CPU stack as a sequence of 16-bit words, implemented
  by `GBCore`'s bytes below SP.

The rest of the repository is not modelled. That covers drivers, the rest of
the Game Boy emulator, the rest of `extra/rme.c`, applications and headers. `PROJECT.json` lists each
of these with the reason.

## 1. Inventory

### Parts and how they interact

| part | state | operations that change it |
|---|---|---|
| VMM (`vmm.c`) | `kern_dir`, page directories and tables from `page_table_malloc`, physical frames from `pmm_malloc` | `vmm_init`/`map_kernel`, `vmm_create_page_table`, `vmm_map`, `vmm_map_phys`, `vmm_unmap`, `vmm_unmap_phys`, `create_address_space`, `delete_address_space`, `vmm_unmap_page_table`, `change_page_directory` |
| Kernel heap (`kheap.c`) | `heap_info` (`start`, `size`, `used`, `first_header`) and the header list laid out in the heap | `kheap_init`, `kmalloc`/`first_free`, `kfree` |
| ELF loader (`elf.c`) | the staging window at `MEMORY_LOAD_ADDRESS` (0x700000) in `kern_dir` | `load_elf`, `load_elf_file`, `load_elf_relocate` (`elf_validate` is pure) |
| Process manager (`proc.c`) | `process_t`/`thread_t`, the process's directory, its image, stack, kernel stack and heap pages | `start_proc` (with `build_stack`, `build_heap`, `heap_fill`, `stack_fill`), `start_kernel_proc`, `end_proc`, `remove_proc` |
| Scheduler switch (`pit.c`) | `sched_on` | `sched_state` |
| Game Boy ALU (`cpu.c`) | `cpu_reg.a` and the flags `z`, `n`, `h`, `c` | the opcode cases of `__gb_step_cpu` and `__gb_execute_cb` that compute them |
| Game Boy core (`cpu.c`) | `cpu_reg` (`af`, `bc`, `de`, `hl`, `sp`, `pc`), `gb_ime`, the stack RAM | the load, INC/DEC, ADD HL, jump, call, return, RST, PUSH/POP, EI/DI cases and the interrupt dispatch of `__gb_step_cpu`, `gb_reset` |
| RME operand decoder (`rme.c`) | `Decoder.OverrideSegment`, `bOverrideAddress`, the general and segment registers it reads | `RME_Int_ParseModRMX`, `RME_Int_ParseModRMX_FarPtr` (through `RME_Int_DecodeModMX`, `RME_Int_GetMMM`, `DoFunc`, `DoFunc32`) |
| Game Boy step loop (`cpu.c`) | `gb_ime`, `gb_halt`, `IF`, `IE`, `LCDC_ENABLE`, `lcd_count`, `LY`, `lcd_mode`, `STAT`, `tac_enable`, `tac_rate`, `tima_count`, `TIMA`, `gb_frame` | `__gb_step_cpu` (dispatch, the instructions that write these, the timer and LCD tail), `gb_run_frame`, `gb_reset` |

The call chain is process manager → ELF loader → VMM → the frame and
page-table allocators. `proc.c` allocates its control blocks from the kernel
heap.

The Game Boy CPU does not touch the kernel's state. `gb_run_frame` calls
`__gb_step_cpu` until the LCD sets `gb_frame`. Each step does four things:

1. it dispatches a pending enabled interrupt;
2. it executes one instruction;
3. it advances the timer by that instruction's cycles;
4. it advances the LCD by the same cycles.

The timer and the LCD raise interrupts in `IF`, and the next step dispatches
them.

Every page a process gets is built by "stage-then-alias":

1. `vmm_map(kern_dir, v)` takes a frame.
2. The kernel writes the page through `kern_dir`.
3. `vmm_map_phys(pdir, v, get_phys_addr(kern_dir, …), PAGE_USER)` aliases the
   frame into the process.
4. Some of those aliases are later removed from `kern_dir` with
   `vmm_unmap_phys`.

The allocators (`pmm_malloc`, `page_table_malloc`), `create_thread`, the
scheduler (`sched_add_proc`, `get_proc_by_id`) and the VFS are declared in
headers but are not under `src/`. The model writes them from their contracts
in `spec.md`; those map entries are marked `spec_modelled`.

### Hard behaviours

- **Failure paths in the middle of a sequence.** Any of these can fail part
  way: `vmm_map`, `create_address_space`, `load_elf_file`,
  `load_elf_relocate`, `build_stack` and `build_heap`. Each early return leaves
  behind whatever was already allocated.
- **Aliasing.** The same frame is mapped in `kern_dir` and in a process. A
  table created while staging in `kern_dir` is later cloned into other
  directories.
- **Teardown order.** `remove_proc` frees frames that `kern_dir` may still
  map. `delete_address_space` decides which tables to free.
- **Interleaving.** `start_proc` never calls `sched_state(0)`. A timer tick
  can therefore run another process, and so its `end_proc`, between the steps
  of a `start_proc`.
- **Game Boy edges.** These include:
  - the half carry `(a ^ v ^ temp) & 0x10` on a 16-bit `temp` that wraps
    below zero;
  - the separate `op A, A` cases;
  - DAA's flag-dependent corrections;
  - the timer's single subtraction per step;
  - the LCD's early return when it is off.
- **Numeric edges.** The heap's header-scaled pointer arithmetic and its
  unsigned `size - len - header`. The `(uint32_t)-1` that `load_elf_file`
  returns. `image_size` measured from `eip`.

`PROJECT.json` `hazards` lists each hazard at its source line, with the
properties that cover it.

## 2. Modules

| module | models | state |
|---|---|---|
| `VMM.tla` | `vmm.c`, as pure operators over a memory record | none (operators over `m`) |
| `Proc.tla` | `elf.c` and `proc.c` over `VMM` | `mem`, `procs`, `sched`, `call`, `staged`, `fault` |
| `MCProc.tla` | constants for `Proc`: ELF files, frame pools, pids | — |
| `KHeap.tla` | `kheap.c` | `hdr`, `used`, `live` |
| `MCKHeap.tla` | constants for `KHeap` | — |
| `GBAlu.tla` | the 8-bit data path of `cpu.c` | `cpu` = `[a, z, n, h, c]` |
| `MCGBAlu.tla` | the operand bytes for `GBAlu` | — |
| `GBStep.tla` | `__gb_step_cpu`'s interrupts, timer and LCD, `gb_run_frame`, `gb_reset` | `intr`, `lcd`, `timer`, `frame` |
| `MCGBStep.tla` | the register values that games write, for `GBStep` | — |
| `ProcLifecycle.tla` | what `proc.c` promises of a process's state and registration | `pstate`, `registered` |
| `GBStackSpec.tla` | what the stack instructions of `cpu.c` promise | `stk`, `regs` |
| `GBCore.tla` | `__gb_step_cpu` running a ROM, over `GBAlu` | `gb` |
| `MCGBCore.tla` | the ROM, stack window and vectors for `GBCore` | — |
| `RMEAddr.tla` | the ModR/M and SIB decoder of `rme.c`, and the x86 reference tables | `regs`, `sregs`, `operand` |
| `MCRMEAddr.tla` | register values, displacements and SIB bytes for `RMEAddr` | — |

### VMM

The memory record `m` has four fields:

- `pd[d][k]`: directory entries `[p, t, u]` (present, table, user);
- `pt[t][i]`: table entries `[p, f, u]`;
- `ff`: the free frames;
- `pf`: the free page-table pool.

Directory 0 is `kern_dir`. Every other directory, and every table, is a pool
page. The sizes are scaled down, with the same index arithmetic as the code:

- `PAGE_SIZE = 4` and `ENTRIES = 16`, so one directory entry covers 64 bytes.
- `DirIndex` and `TableIndex` are `virt >> 22` and `virt << 10 >> 10 >> 12`.
- `DIRS = 4` directory entries are enough for the layout in `vmm.c`:
  - index 0 is the identity-mapped kernel;
  - index 1 holds the common page (`RETURN_ADDR`), the kernel-process stacks
    at `+0x5000` and the staging window at 0x700000;
  - index 2 holds the programs, at 0x800000.

Each operator is the whole C function, including the early returns. Some
details worth knowing:

- `VmmMap` takes the frame before it creates the table, and does not give the
  frame back when the table cannot be created.
- `CloneFrom` is the loop of `create_address_space`. It creates each table
  with `kern_dir`'s flags and copies `kern_dir`'s table into it.
- `DeleteVisited` is the set of indices that `delete_address_space` really
  tests: `i * PAGE_SIZE >> 22`.

`PAGEDIR_SIZE` is read as the 1024 entries of a directory, since the loop
steps `addr` by 4 MiB. The allocators return the lowest free page and 0 when
none is left.

### Proc

A `start_proc` is a sequence of atomic steps. `call` holds the step that runs
next. Each step is a whole function of the code:

| action | code |
|---|---|
| `StartProc` | `kmalloc`, `create_address_space` and `create_thread` |
| `LoadElf` | `load_elf` with `load_elf_file`, `elf_validate` and `load_elf_relocate` |
| `BuildStack` | `build_stack` |
| `BuildHeap` | `build_heap` |
| `FillAndRegister` | `heap_fill` and `stack_fill` (their `kern_dir` unmaps), the `PROC_ACTIVE` assignments and `sched_add_proc` |

Every early return that gives `PROC_STOPPED` is `Stopped`. It drops the
`process_t` and keeps whatever memory had already been allocated.

`StartKernelProc`, `EndProc` and `RemoveProc` are actions of their own.
`EndProc` may come between the steps of a `start_proc`.

`LoadElf` follows the branches of `load_elf`, in this order:

- `load_elf_file` returns 0;
- the header is read from an unmapped staging page, which is a kernel page
  fault;
- `elf_validate` fails;
- `memset` runs into an unmapped page, which is a kernel page fault;
- relocation fails;
- the file size is `-1`, and the 2^32−1-iteration unmap loop follows;
- success.

The ghost variable `staged` remembers which file's bytes the staging window
still holds. A failed load leaves those pages mapped, and a later load whose
first staging map fails reads that old header.

Two more details:

- A kernel page fault sets `fault`. It has no successor, because the kernel
  halts.
- The ghost field `img` of a process records the frame that each image page's
  bytes were copied into.

File contents are abstracted: a file is a block count, an ELF header record
and a sequence of program headers.

### KHeap

`hdr` maps each offset where the code has written a header to that header's
fields. A header written at an offset overwrites the one already there.

`first_free` is modelled from the code as written:

- it refuses the request when `used >= size`;
- it picks the first header that is free, large enough and has the magic
  value (`FirstFit`);
- it puts the remainder header at `head + (len + HDR) * HDR`, because the
  arithmetic is on a `heap_header_t *`;
- it gives the remainder `next = NULL`;
- it adds `len + HDR` to `used`.

`kfree` checks `is_free` and the magic value, subtracts `head->size` and
merges forward (`Merge`).

Unsigned fields are held as signed values and compared with `UGE`. The
callers are the environment: they allocate one of `Lens` and free only blocks
they hold. `live` is a bag of the blocks they hold, so a block handed out
twice is counted twice.

### GBAlu

Each opcode group is an operator from a CPU state, and an operand byte where
the group has one, to the next state:

- `AddR`, `AdcR`, `SubR`, `SbcR`, `AndR`, `XorR`, `OrR` and `CpR` are the
  0x80–0xBF cases. A Python diff of those cases showed that the cases of one
  group differ only in the source register, so the register is abstracted to
  its value `v`.
- `AddAA` through `CpAA` are the `op A, A` cases, which the code writes
  separately.
- The `…Imm` operators are the 0xC6–0xFE cases.
- The rest are `IncA`, `DecA`, `LdAImm`, `Daa`, `Cpl`, `Scf`, `Ccf`, the four
  A rotates, and `ExecuteCb` for every CB opcode whose target is A.

Each operator mirrors the C arithmetic:

- `temp` wraps at 2^16 (`% 65536`), as an `unsigned short` does, and `a` wraps
  at 2^8;
- the half carry is bit 4 of `a ^ v ^ temp` (`XorBit4`);
- AND, OR, XOR and the RES mask use the `Bitwise` operators.

`Init` is `gb_reset`'s `AF = 0x01B0`. `Next` applies any of these operators
to any operand in `Operands`.

### GBStep

`Step` is one `__gb_step_cpu`. It runs, in the code's order:

1. `Dispatch`. A pending enabled interrupt ends HALT. With IME set, it also
   clears IME and the highest-priority `IF` bit.
2. `Execute`. A halted CPU executes only a 4-cycle NOP. Otherwise `Execute`
   takes one instruction from `Instr`:
   - an instruction that changes none of this state, of any op_cycles count;
   - `EI`, `DI`, `HALT` or `RETI`;
   - a write to LCDC, TAC, IE or STAT, with a value from the MC constants.
3. `TimerTick`.
4. `LcdTick`, which has the code's branches:
   - it does nothing while the LCD is off;
   - at the end of a line it sets the LYC coincidence and increments LY mod
     154; at LY 144 it enters VBLANK and sets `gb_frame`, and on a visible
     line it enters HBLANK;
   - otherwise it moves HBLANK→OAM at 204 cycles and OAM→TRANSFER at 284.

`LcdcWrite` is `__gb_write(0xFF40)`:

- it refuses to switch the LCD off outside VBLANK;
- in VBLANK it stops the LCD at LY 0 and leaves `lcd_mode` as it is.

`RunFrame` is the host calling `gb_run_frame` again, which clears `gb_frame`.
`LCD_HEIGHT` and the mode numbers come from `cpu.h`, which is not in the
repository, so they are taken from the spec.

### ProcLifecycle and the refinement of Proc

`ProcLifecycle` keeps only what a caller of `proc.c` may rely on: each pid is
`none`, `new`, `active` or `stopped`, and `registered` is the set handed to
`sched_add_proc` and not yet removed. Its actions are:

- `Create`: `start_proc` or `start_kernel_proc` allocates a `PROC_NEW`
  `process_t`;
- `Fail`: an early return with `PROC_STOPPED` (`proc.c` 36–76) drops the
  process, never registered;
- `Activate`: lines 78–84 make it `PROC_ACTIVE` and register it in one step;
- `CreateActive`: `start_kernel_proc` does both at once;
- `End`: `end_proc` makes it `PROC_STOPPED`, still registered;
- `Remove`: `remove_proc` deregisters and frees it.

`Proc` defines `Lifecycle == INSTANCE ProcLifecycle WITH pstate <- …,
registered <- sched`. A pid's state is its entry in `procs`, or `none` when
it has none. `LifecycleRefined == Lifecycle!LSpec` is a `PROPERTY` of
`proc_lifecycle`. Every `Proc` step that leaves the state alone, such as
`LoadElf`, `BuildStack` and `BuildHeap`, is a stuttering step of the
abstract specification.

### GBStackSpec and GBCore

`GBStackSpec` has a stack `stk` of words and the registers `pc`, `bc`, `de`,
`hl` and `af`. It allows one of these per instruction:

- `Save`: PUSH;
- `Restore`: POP. The popped word goes back to the pair. For AF, the low
  nibble is cleared first;
- `Call`: CALL or RST saves `pc + 3` or `pc + 1`;
- `Return`: RET or RETI;
- `Compute`: any change to the registers, with the stack left alone.

An interrupt first saves `pc` and continues at a vector.

`GBCore` has one variable, `gb`. It holds:

- `cpu`, GBAlu's record of A and the flags;
- `r`, the registers B–L;
- `sp`, `pc` and `ime`;
- `mem`, the stack RAM over `StackWindow`.

`Alu == INSTANCE GBAlu` supplies the 8-bit operators. `IncR` and `DecR` run
`IncA` and `DecA` on a copy of the CPU whose A holds the register. This is
the same code pattern as the INC/DEC cases of every register.

The helpers follow `cpu.c`:

- `PushWord` writes the high byte at `sp - 1` and the low byte at `sp - 2`.
- `TopWord` and `Popped` read the word back and add 2 to SP.
- `SetPair` splits a word into the two registers of the union. For AF it
  keeps bits 7..4 of F as the four flags.
- `FlagsByte` rebuilds F as PUSH AF does.
- `JrTarget` adds the signed `char` offset to the address after the operand.

`Execute` is the switch, one arm per opcode group, and `Dispatch` is the
head of `__gb_step_cpu`. `Step` executes the instruction at `pc`.
`Interrupt(v)` dispatches vector `v`, when IME is set, and then executes the
instruction at `v` in the same step, as the code does.

`Abs == INSTANCE GBStackSpec WITH stk <- StackWords, regs <- …` maps the
bytes between SP and `0xFFFE`, the SP of `gb_reset`, to words, top first.
`StackRefined == Abs!SSpec`.

### RMEAddr

`DoFunc`, `DoFunc32` and `GetMMM` are pure operators, one per C function:

- `GetMMM` reads the displacement into the `uint16_t ofs`, as the code does.
  `READ_INSTR8S` is `U16(S8(d8))`, `READ_INSTR16` is the word, and
  `READ_INSTR32` is `U16(d32)`. Then it passes `mmm | 8` for mod=0.
- `DoFunc` picks SS or DS by `mmm` and applies an override. It then adds the
  `.W` halves in a `uint32_t` and adds the `int16_t disp`.
- `DoFunc32` does the same with the `.D` registers and the SIB byte.

`Ref16` and `Ref32` are the Intel tables for the same inputs. The
displacement bytes, the SIB byte and the prefixes' `OverrideSegment` and
`bOverrideAddress` are inputs of each decode. The prefix handlers are in
`opcode_table.h`, which is not in the repository.

There are two actions:

- `ParseModRMX` goes through `DecodeModMX`. It gives a register for mod=3.
  It refuses a word that straddles an `RME_BLOCK_SIZE` block.
- `ParseModRMX_FarPtr` refuses mod=3 as an undefined opcode.

`RME_BLOCK_SIZE` comes from the missing `rme_internal.h` and is a constant.
`GetPtr` is missing too, so the 16-bit offset is compared modulo 64K, the
most the decoder can be held to. 32-bit arithmetic is taken modulo
`ADDR32` (2^24 in the MC module). TLC's integers are signed 32-bit, and
every input is below 2^24.

## 3. Runs

A mutant is a plausible bug written as an operator next to the definition it
replaces. TLC must report the property violated when the mutant is used.

| run | cfg | expect | what it shows |
|---|---|---|---|
| `proc_lifecycle` | `MCProc.cfg` | pass | Any interleaving of `start_proc` (every step and failure), `start_kernel_proc`, `end_proc` and `remove_proc` over 3 pids, 12 frames and 16 pool pages, with every file kind including the `bss` file. Two things stay true: page tables are owned by one directory entry, and the return page stays user-reachable in every registered process. The run also checks that the whole run implements `ProcLifecycle`. 407,788 distinct states in 46 s. |
| `kheap_walk` | `MCKHeap.cfg` | pass | Every `kmalloc`/`kfree` sequence of blocks of 4, 8 or 16 bytes keeps the header list pointing forward, so the walks end. 271,634 distinct states. |
| `user_pages_cloned_supervisor` | `ProcUserPages.cfg` | violation | The second process's image directory entry is cloned supervisor-only from `kern_dir`. |
| `image_alias_first_page` | `ProcImageAlias.cfg` | violation | Every page of a two-page segment maps the first page's frame. |
| `remove_leaks` | `ProcLeak.cfg` | violation | `start_proc` followed by `remove_proc` leaks the directory and the tables above index 0. |
| `kernel_alias_dangling` | `ProcDangling.cfg` | violation | After `remove_proc`, `kern_dir` still maps the freed kernel-stack and heap frames. |
| `staging_failure_as_success` | `ProcHeaderFault.cfg` | violation | The `-1` from `load_elf_file` is taken as success, and the header is read from an unmapped page. |
| `kheap_blocks_overlap` | `KHeapLiveBlocksDisjoint.cfg` | violation | `first_free` hands out a block that overlaps one still held. |
| `gb_alu` | `MCGBAlu.cfg` | pass | Every 8-bit ALU, rotate, DAA and CB-on-A opcode, from every reachable A and flag state, agrees with a reference written in integer arithmetic. 4,096 distinct states. |
| `gb_frames` | `MCGBStep.cfg` | pass | The game turns the LCD off and on, and interrupts, HALT, EI/DI/RETI, IE, STAT and TAC writes and instructions of every cycle count interleave with it. `lcd_mode` is stale only on line 0 after re-enabling, and every `gb_run_frame` returns while the LCD is on. 577,518 distinct states in about 2 minutes. |
| `gb_core` | `MCGBCore.cfg` | pass | A ROM reaches every modelled opcode group. Its conditional jumps, calls and returns are both taken and not taken, and an interrupt is possible at every step where IME is set. Registers stay in range, control always lands on an instruction of the ROM, and the run implements `GBStackSpec`. 26,327 distinct states in 2 s. |
| `rme_operand_address` | `MCRMEAddr.cfg` | violation | The RME decoder gives a segment and offset other than the x86 effective address. TLC's first counterexample is an 0x67 mod=2 operand whose disp32 is cut to 16 bits. |

### The properties of the passing runs

- **`PageTableExclusive`** (`Proc`). Each table that a live directory points
  to:
  - is referenced by that one entry only;
  - is not on the free pool;
  - is not itself a directory.

  The mutant `CloneFromShared` shares `kern_dir`'s tables, which is the usual
  design of a higher-half kernel. TLC reports the property violated.
- **`ReturnTrampolineReachable`**. In every registered user process the
  common page at `RETURN_ADDR` maps the common frame, with the user bit set in
  both the directory entry and the table entry. The mutant
  `CloneFromSupervisor` drops the cloned flags.
- **`TypeOK`** (`Proc`). Its mutant `StoppedKeepCall` forgets to end the call
  on an early return.
- **`NextAscending`** (`KHeap`). Every header's `next` lies above it, so the
  `first_free` and `kfree` loops end. The mutant `first_free_relink` links the
  remainder back to the first header.
- **`TypeOK`** (`KHeap`). It includes `used ∈ Nat`. The mutant
  `kfree_merge_first` decrements `used` after the merge, by the merged size.

- **`ArithmeticMatchesReference`** (`GBAlu`). For every operand byte, every
  add and subtract form agrees with `RefAdd`/`RefSub` on the result and the
  Z, N, H and C flags. So do the `A, A` forms and INC/DEC A. `RefAdd` and
  `RefSub` compute the half carry from the low nibbles and the carry from the
  full sum. The mutant `SbcAAKeepHalf` leaves H at 0 in `SBC A,A`.
- **`DaaAdjustsBcd`**. For all BCD operands, `DAA` after `ADD`/`ADC`/`SUB`/
  `SBC` from a BCD A gives the BCD of the decimal sum or difference mod 100,
  with the carry set exactly on decimal overflow or borrow. The mutant
  `DaaNoNibbleTest` adds 6 on H alone and skips the `> 9` nibble test.
- **`CbBitOpsExact`**. `BIT`, `RES` and `SET` on A test, clear or set exactly
  bit b. The mutant `ResMaskOffByOne` shifts `0xFF` by one place too few.
- **`TypeOK`** (`GBAlu`). Its mutant `DecANoWrap` lets `DEC A` of 0 go to -1
  instead of 255.
- **`ModeStaleOnlyOnLineZero`** (`GBStep`). While the LCD is on,
  `lcd_mode` is VBLANK on every line from 144. On a visible line it is
  VBLANK only on line 0. That line-0 case is the one left by switching the
  LCD off in VBLANK and on again (`cpu.c:548` resets LY but not the mode),
  and it lasts until the first line end. The mutant `LcdTickKeepMode` does
  not enter HBLANK when a visible line starts, so VBLANK leaks into line 1.
- **`FrameCompletesWhileLcdOn`**. `~frame ~> (frame \/ ~lcd.on)`: a call of
  `gb_run_frame` returns unless the game turns the LCD off. The mutant
  `StepHaltedNoCycles` gives a halted CPU 0 cycles. The LCD then freezes
  after `DI; HALT`, and the frame never ends.
- **`TypeOK`** (`GBStep`). It bounds `lcd_count` and LY. The mutant
  `LcdTickNoWrap` drops the `% LCD_VERT_LINES`.
- **`LifecycleRefined`** (`Proc`). Through the mapping, each step of `Proc`
  is a step of `ProcLifecycle` or leaves its state alone. A process is
  registered exactly from the step that makes it Active until `remove_proc`.
  A failed start is never registered, and Stopped leads only to removal. The
  mutant `RemoveProcKeepSched` skips `sched_remove_proc`, as happens for a
  thread whose `main` is not 1. The scheduler would then keep a freed
  process.
- **`StackRefined`** (`GBCore`). Every POP, RET and RETI gets back exactly
  the word that its PUSH, CALL, RST or interrupt saved. That includes POP AF
  with the low nibble cleared, and an interrupt in the middle of a
  subroutine. The mutant `PushWordLowFirst` swaps the two bytes of a push.
- **`PcOnInstruction`** (`GBCore`). `pc` is always the first byte of an
  instruction of the ROM. That holds after every jump, relative jump, call,
  RST, interrupt and return, including returns whose word comes back from
  the stack. The mutant `SignedAsUnsigned` reads the `char` offset of JR as
  unsigned, as an ARM build would (`cpu.c:1366`), and the backward `JR NZ`
  jumps out of the ROM.
- **`TypeOK`** (`GBCore`). Its mutant `DecRRNoWrap` lets `DEC BC` of 0 go
  to -1, and the ROM runs `DEC BC` on 0.

### What the violations mean

`PROJECT.json` `findings` gives each violation's source line and what the
spec says instead. TLC also reaches the following, which no run states
separately.

- **Double free.** With the two-page file, `remove_proc` frees the shared
  first-page frame twice. This is a consequence of `elf.c:131`.
- **`used` drift, both ways.** `kfree` subtracts the block size, but
  `first_free` added the size and a header. So `used` grows by one header
  per round trip, and passes `heap_info.size`. It can also fall below what
  is held. With lengths 4 and 16, `kheap_walk`'s bounds without the property
  reach this sequence:
  1. kmalloc 4 twice;
  2. kfree the first block;
  3. kmalloc 4 again, which writes its remainder header over the second
     block's header;
  4. kmalloc 16, which reuses that header;
  5. kfree the second block, which subtracts 16.

  `used` ends at 28 with 32 bytes held, and `UsedCoversLive` (kept in
  `KHeap`) is violated. The `used >= size` test can then let `kmalloc` go
  ahead on a full heap. The root cause is the split that
  `kheap_blocks_overlap` shows, so there is no separate run for it.
- **Blocks outside the heap.** Blocks are handed out past the end of the
  heap. This is a consequence of the scaled split.
- **Kernel stack fault.** With 6 frames, `start_kernel_proc` writes its
  context to an unmapped stack page, because `proc.c:276` ignores the result
  of `vmm_map`.
- **Dropped runs.** Four violation runs of the first sitting are no longer
  runs of the project. They are the stack over the image (`elf.c:147`), the
  `.bss` fault (`elf.c:138`), the kernel processes sharing a stack
  (`proc.c:268`) and the `used` drift (`kheap.c:33`). In this sitting the
  timer lag (`cpu.c:3520`, `TimerNotBehind`) was dropped as well, to make
  room for `gb_core`. TLC had found that, at TAC rate 16, an instruction of 20
  or 24 cycles leaves `tima_count` at or above the period. They were dropped
  to keep the run list to one run per question. Their hazards stay in
  `PROJECT.json` with a note.
- **LCD off hangs `gb_run_frame`.** Until this sitting, the run
  `gb_lcd_off_frame_hang` checked `FrameCompletes` with the LCD off and on.
  TLC found that a game that clears LCDC_ENABLE in VBLANK and then halts
  makes `gb_run_frame` loop forever. The reason is that `gb_frame` is set only
  by the LCD counters (`cpu.c:3535`). That run was dropped to make room for
  `rme_operand_address`. `gb_frames` now checks the weaker
  `FrameCompletesWhileLcdOn`, and `GBStep` keeps `FrameCompletes`.
- **RME operand decoding.** `rme_operand_address` stops at the first bad
  decode. With the other inputs fixed, TLC also finds four more bugs:
  - a negative disp8 after 0x67 is added as `+0xFFxx` (`rme.c:695`);
  - a SIB with base 5 under mod=0 loses its disp32 (`rme.c:634`);
  - `[EDX]`, `[EBX]` and `[ESI]` use SS, and `[EBP+d]` uses DS
    (`rme.c:576`);
  - `[BP+SI]` and `[BP+DI]` without a displacement use DS (`rme.c:491`).

  The 16-bit forms that have neither BP nor a direct address agree with x86.
- **Unmapped `.bss`.** Checked against `proc_lifecycle`'s cfg,
  `ScheduledProcessComplete` fails in 16 steps. The property says that every
  registered user process has its image, both stacks and its heap pages
  mapped and user-flagged in its own directory. The failing sequence is:
  1. `init` starts and is registered;
  2. a second `init` fails at `build_heap`. It never reaches `heap_fill`, so
     its user-stack page at 132 stays mapped in `kern_dir`;
  3. both processes are removed;
  4. the `bss` file starts, and its .bss page is 132. The `memset` goes
     through the stale `kern_dir` page, and `load_elf_relocate` aliases only
     the file pages into the process (`elf.c:128-142`).

  The process is registered without its `.bss` page. `spec.md` says relocate
  aliases every staged page, .bss included. The run list is full, so this is
  not a run of its own. `ScheduledProcessComplete` stays in `Proc` and is no
  longer part of the passing run, where it could pass only by leaving the
  `bss` file out. The argv check of the first sittings was removed as well.
  It compared the tokenizer with a reference shaped like it, over strings
  too short to reach the 10-slot overflow (`proc.c:135`).

The `-1` unmap-loop branch of `load_elf` cannot be reached in these bounds.
`-1` needs `pmm_malloc` to fail, and the relocation that follows then fails
too and returns `PROC_STOPPED` first. The branch is kept because the code has
it.

## 4. Bounds and why they are enough

**`MCProc`**

- **Pids and frames.** 3 pids and 12 frames. That is enough for one process
  to finish, since one process takes 7 frames plus 1 for staging, and for a
  second to fail part way. Every failure branch of `start_proc` is therefore
  taken.
- **Pool pages.** 16 pool pages. That is enough for `kern_dir`'s tables and
  three directories, so failures in the middle of a load are reached as well
  as failures in address-space creation. With 10 pool pages the header-read
  fault and the stale-`.bss` case are never reached.
- **Files**, each chosen to exercise one branch of the loader:
  - `init`: one page;
  - `big`: two file pages;
  - `late`: two segments, entry above the base;
  - `bss`: `.bss` beyond the file page;
  - `bad`: wrong magic;
  - `missing`: not a file.

**`MCGBAlu`**

- There are 16 operand bytes: 0, 1, 6, 9, 10, 15, 16, 96, 102, 127, 128,
  153, 154, 160, 240 and 255. They are the nibble and byte edges that the
  half-carry, carry and DAA tests compare against.
- From A = 1, these operands reach all 256 values of A with all flag
  combinations, which gives 4,096 states.
- The properties then quantify over all 256 operand bytes in each state. So
  the reference check is exhaustive over A, v and the flags.

**`MCGBStep`**

- Every instruction cycle count 4–24 is in `Instr`, and `LYC` and `TMA` are
  their reset values 0.
- The pass run writes "LCD on" and "LCD off", TAC "stopped", IE = {VBLANK}
  and STAT = {MODE0}. "LCD off" is refused outside VBLANK, so the LCD stops
  only in VBLANK, which is the path of the stale mode. The state space is a
  full frame of 154 lines × 456 cycles, crossed with the interrupt state and
  the LCD switch. One more value of each constant multiplies it past five
  minutes.

**`MCGBCore`**

- The ROM starts at `0x0100`, the `pc` of `gb_reset`. It has these parts:
  - a main loop of 24 instructions;
  - an RST 0x08 routine;
  - a subroutine at `0x0200` that saves AF;
  - a handler at `0x0040` that saves AF and HL and ends with RETI.
- The ROM covers:
  - the DEC BC from 0;
  - a backward `JR NZ`, taken once and then not taken;
  - `CALL NZ` and `RET NZ` not taken, and `CALL Z` and `RET NC` taken;
  - JP, JP NC, JP (HL) and every ALU form.
- An interrupt can be taken at any instruction while IME is set. That
  includes the instructions inside the subroutine and the RST routine, and
  those between a PUSH and its POP. RETI sets IME again, so the handler can
  also be entered many times in a row. The deepest stack is 12 bytes, and the
  window `0xFFF0`–`0xFFFD` holds it.
- The uninitialised RAM holds 0 (`InitBytes`). Its values never matter,
  because a word is read only after it has been written.

**`MCRMEAddr`**

- Each register holds 2 or 65538, so `.W` and `.D` differ.
- Each segment register holds 0x1000 or 0x2000, so a wrong choice between
  SS and DS shows in some initial state.
- The disp8 values are 0xFE (-2) and 4. The disp16 is 16, and the disp32 is
  0x10010, which is wider than 16 bits.
- The SIB bytes are index SI with base EAX, and no index with base 5.
- Every mod, rm, override and address size is enumerated. That is enough
  for each bug above. A violation run needs no more.

**`MCKHeap`**

- A 64-byte heap with 4-byte headers, block lengths {4, 8, 16} and at most
  3 held blocks. That is enough for a split, a free, a merge and a re-split
  of a freed block. The length gaps of 4, 8 and 12 fall below, at and above
  two headers, which is the size at which a reused header changes the
  accounting.
- `MaxOffset = 128` bounds how far past the heap the model follows a header
  written there. In the code that memory, up to 4 MiB, is identity-mapped, so
  the write goes through silently.

## 5. Fairness and liveness

`GBStep`'s `Spec` assumes `WF_vars(Step)`. `gb_run_frame` is
`while (!gb_frame) __gb_step_cpu(gb)`, so while `gb_frame` is clear a step is
always the next thing to happen. A halted CPU still steps, executing the
4-cycle NOP of `opcode = 0x00`, so `Step` is always enabled when `frame` is
FALSE. `RunFrame`, the host calling `gb_run_frame` again, gets no fairness,
because a host may stop calling. Under this fairness `FrameCompletesWhileLcdOn`
holds. `FrameCompletes` without the LCD condition does not hold; see
"What the violations mean".
`CHECK_DEADLOCK` stays on for `GBStep`, because one of `Step` and `RunFrame`
is always enabled.

`GBCore` checks only safety, the refinement included, so it assumes no
fairness. Its ROM loops forever, so `CHECK_DEADLOCK` stays on. A deadlock
would mean a jump that left the ROM.

No fairness is assumed for the kernel modules. The core
runs synchronously: nothing in it waits for anything. The one liveness
question, whether a started process eventually becomes `Active` or `Stopped`,
holds by the shape of the pc sequence. A model run ends when the bounds are
exhausted or the kernel faults. So `CHECK_DEADLOCK FALSE` stands for a halted
kernel or an idle shell, where the system really does stop.

## 6. Not modelled

| left out | why |
|---|---|
| `change_page_directory` and the TLB | No property depends on which directory CR3 holds. |
| The `sched_state` flag | `start_proc` never disables the scheduler. The model lets `end_proc` interleave, which is all the flag would restrict. |
| `heap_fill`'s argument vector | The argument string never enters the process state. The 10-slot overflow needs at least 10 characters, which multiplies every start by the number of strings, and only a violation run could state it. |
| `remove_proc` of a kernel process | `remove_proc` has no caller under `src/`. For a kernel process it would read fields that `start_kernel_proc` never sets, from `create_thread`, which is not in the repository. So the model calls it on user processes only. |
| Threads other than the main thread | `nthreads` is always 0 in `start_proc`. |
| Game Boy memory operands: loads and stores through (HL), (BC), (DE), `0xFF00+n` and (imm) | `GBCore`'s memory is the stack RAM only. Modelling the rest needs the MBC and I/O map of `__gb_read` and `__gb_write`. One such case is `0xEA`, "LD (imm),A", which reads A from `0xFF00 \| imm`. |
| Game Boy SP arithmetic: `LD SP,imm`, `LD SP,HL`, `INC`/`DEC SP`, `ADD SP,e`, `LD HL,SP+e`, `ADD HL,SP`, `LD (imm),SP` | They move SP arbitrarily, so the word-stack mapping of `StackRefined` does not apply to them. |
| HALT/STOP in `GBCore`, the B–L registers as CB targets | HALT and its wake-up are modelled in `GBStep`. CB on registers repeats the A cases with another operand. |
| Game Boy DIV, serial, RTC (`gb_tick_rtc`), memory and MBC banking, joypad, drawing, `gb_init` | These are I/O and data layout. No interrupt or frame property depends on them beyond `IF`, which the model drives directly. |
| The rest of `extra/rme.c`: opcode handlers, prefixes, `RME_Call`/`RunOne`/`CallInt`, memory access | The handlers and the macros they use (`READ_INSTR*`, `PUSH`, `GetPtr`, `ALU_OPCODE_*`) are defined in `rme.h`, `rme_internal.h`, `ops_alu.h` and `opcode_table.h`, none of which is in the repository. The call loop only drives those handlers. `spec.md` leaves the emulator out of scope, so there is no spec to write them from. |
| Game Boy timer lag (`cpu.c:3520`) | `tima_count` is unbounded at TAC rate 16, so a passing run cannot keep the TAC writes, and the run list has no slot left for a violation run. `GBStep` keeps `TimerNotBehind`. |
| Drivers, applications, headers | Outside the memory and process core (see `PROJECT.json`). |

## 7. Open work

- **`AddressSpace.tla`.** An abstract specification of an address space as
  a map from virtual page to frame per directory. `VMM` would implement it
  through `INSTANCE AddressSpace WITH …`, checked as a `PROPERTY`.
- **`RemoveProc` of kernel processes**, with a property that `kern_dir`'s
  kernel tables survive.
- **`GBCore` loads and stores** through HL, with a small RAM, and the rest
  of the Game Boy step tail (DIV, serial).
- **The timer lag** as a run, if the run list gets a slot for it.
