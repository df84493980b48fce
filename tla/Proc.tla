-------------------------------- MODULE Proc --------------------------------
(***************************************************************************)
(* Process creation and teardown of src/kernel/proc/proc.c and the ELF     *)
(* loader of src/kernel/proc/elf.c, over the paging of VMM.               *)
(*                                                                         *)
(* The kernel runs one call at a time: the shell's start_proc (its steps   *)
(* are the functions it calls, in order, with every early return), or      *)
(* start_kernel_proc / remove_proc.  end_proc is run by the current        *)
(* process and may come between the steps of a start_proc, since          *)
(* start_proc does not turn the scheduler off.  A page fault in the        *)
(* kernel halts it: fault # "none" has no successor.                       *)
(***************************************************************************)
EXTENDS VMM, Integers, Sequences, TLC

CONSTANTS
  Pids,     \* thread ids create_thread may hand out (the bound on processes)
  Files,    \* the executables vfs_file_open finds: name -> ELF image
  Progs,    \* the names start_proc is called with
  KernelEntries  \* the functions start_kernel_proc is called with

ASSUME Pids \subseteq Nat \ {0} /\ Pids # {}
ASSUME DOMAIN Files \subseteq Progs
\* every executable has a loadable, non-empty segment: load_elf_relocate
\* reads ph[last] with last uninitialised otherwise.
ASSUME \A f \in DOMAIN Files :
         \E i \in 1..Len(Files[f].ph) : Files[f].ph[i].p_type = 1 /\ Files[f].ph[i].p_mem_size > 0
\* and its entry point below the end of its last segment.
ASSUME \A f \in DOMAIN Files :
         Files[f].entry <= Files[f].ph[Len(Files[f].ph)].p_vaddr
                           + Files[f].ph[Len(Files[f].ph)].p_mem_size

VARIABLES
  mem,      \* the paging state of VMM
  procs,    \* pid -> process_t with its main thread_t
  sched,    \* pids sched_add_proc has registered
  call,     \* the start_proc in progress: its next step and pid
  staged,   \* the file whose bytes the staging window holds
  fault     \* why the kernel halted, "none" while it runs

vars == <<mem, procs, sched, call, staged, fault>>

PROC_NEW == "new"
PROC_ACTIVE == "active"
PROC_STOPPED == "stopped"
UINT32_MINUS_1 == -1                            \* (uint32_t) -1, nonzero
HEAP_PAGES == 4                                 \* build_heap's loop bound
PT_LOAD == 1
MEMORY_LOAD_ADDRESS == KERNEL_SPACE_END + (3 * SPAN) \div 4   \* 0x700000
KPROC_STACK == KERNEL_SPACE_END + 5 * PAGE_SIZE               \* + 0x5000

\* elf.h is not in the repository: the standard ELF values.
ELF_X86 == 3
ELF_32BIT == 1
ELF_LITTLE_ENDIAN == 1
ELF_MAGIC == <<127, 69, 76, 70>>                \* 0x7F 'E' 'L' 'F'

Idle == [step |-> "idle", pid |-> 0]

(***************************************************************************)
(* Helpers                                                                 *)
(***************************************************************************)

\* The stage-then-alias pair of the code, for a sequence of <<v, src>>:
\* vmm_map(kern_dir, v) || vmm_map_phys(pdir, v, get_phys_addr(kern_dir,
\* src), user); the first failure returns 0.
RECURSIVE StagePages(_, _, _)
StagePages(m, d, pairs) ==
  IF pairs = <<>> THEN [ok |-> TRUE, m |-> m]
  ELSE LET v == Head(pairs)[1]
           r1 == VmmMap(m, KERN, v, FALSE)
           r2 == VmmMapPhys(r1.m, d, v, GetPhysAddr(r1.m, KERN, Head(pairs)[2]), TRUE)
       IN IF ~r1.ok THEN r1
          ELSE IF ~r2.ok THEN r2
          ELSE StagePages(r2.m, d, Tail(pairs))

SelfPairs(vs) == [k \in DOMAIN vs |-> <<vs[k], vs[k]>>]
\* v, v + 4096, ... as the code's loops visit them
PageSeq(v, n) == [i \in 1..n |-> v + (i - 1) * PAGE_SIZE]

RECURSIVE UnmapPhysAll(_, _, _)
UnmapPhysAll(m, d, vs) ==
  IF vs = {} THEN m
  ELSE LET v == Min(vs) IN UnmapPhysAll(VmmUnmapPhys(m, d, v), d, vs \ {v})

RECURSIVE UnmapAll(_, _, _)
UnmapAll(m, d, vs) ==
  IF vs = {} THEN m
  ELSE LET v == Min(vs) IN UnmapAll(VmmUnmap(m, d, v), d, vs \ {v})

PagesFrom(v, n) == {v + i * PAGE_SIZE : i \in 0..(n - 1)}
PageOf(a) == (a \div PAGE_SIZE) * PAGE_SIZE
PagesCovering(a, b) ==                          \* pages of bytes a..b-1
  {PageOf(x) : x \in a..(b - 1)}

(***************************************************************************)
(* elf.c                                                                   *)
(***************************************************************************)

elf_validate(h) ==
  /\ h.magic = ELF_MAGIC
  /\ h.instruction_set = ELF_X86
  /\ h.arch = ELF_32BIT
  /\ h.machine = ELF_LITTLE_ENDIAN
  /\ h.elf_version2 = 1

\* load_elf_file: one staging page per 8 blocks of 512 bytes, mapped as
\* the blocks stream in.  n is its return value (0 for a file that does
\* not open, -1 as uint32_t when a page cannot be mapped), read how many
\* pages were mapped before.
RECURSIVE StageFile(_, _, _)
StageFile(m, k, npages) ==
  IF k = npages THEN [m |-> m, n |-> npages, read |-> npages]
  ELSE LET r == VmmMap(m, KERN, MEMORY_LOAD_ADDRESS + k * PAGE_SIZE, FALSE) IN
       IF ~r.ok THEN [m |-> m, n |-> UINT32_MINUS_1, read |-> k]
       ELSE StageFile(r.m, k + 1, npages)

load_elf_file(m, name) ==
  IF name \notin DOMAIN Files \/ Files[name].type = "dir"
  THEN [m |-> m, n |-> 0, read |-> 0]
  ELSE StageFile(m, 0, (Files[name].blocks + 7) \div 8)

\* The pages of segment s that the relocation loop maps: j <= filesz / 4096.
SegPages(s) == PagesFrom(s.p_vaddr, s.p_file_size \div PAGE_SIZE + 1)

\* The loop of load_elf_relocate from program header i on.  r carries the
\* memory, the last loadable header, the kernel frames staged at each
\* image page (a ghost) and whether memset ran into an unmapped page.
RECURSIVE RelocFrom(_, _, _, _)
RelocFrom(r, d, ph, i) ==
  IF i > Len(ph) \/ ~r.ok \/ r.fault THEN r
  ELSE IF ph[i].p_type # PT_LOAD \/ ph[i].p_mem_size = 0 THEN RelocFrom(r, d, ph, i + 1)
  ELSE LET s == ph[i]
           vs == PageSeq(s.p_vaddr, s.p_file_size \div PAGE_SIZE + 1)
           st == StagePages(r.m, d, [k \in DOMAIN vs |-> <<vs[k], s.p_vaddr>>])
           bss == PagesCovering(s.p_vaddr + s.p_file_size, s.p_vaddr + s.p_mem_size)
       IN IF ~st.ok THEN [r EXCEPT !.ok = FALSE, !.m = st.m]
          ELSE IF \E v \in bss : ~PTEOf(st.m, KERN, v).p
          THEN [r EXCEPT !.m = st.m, !.fault = TRUE]
          ELSE RelocFrom([r EXCEPT !.m = UnmapPhysAll(st.m, KERN, SegPages(s)),
                                   !.last = i,
                                   !.img = [v \in SegPages(s) |-> GetPhysAddr(st.m, KERN, v)]
                                           @@ r.img], d, ph, i + 1)

load_elf_relocate(m, d, f) ==
  RelocFrom([ok |-> TRUE, m |-> m, last |-> 0, img |-> <<>>, fault |-> FALSE],
            d, Files[f].ph, 1)

\* image_size = ph[last].p_vaddr + ph[last].p_mem_size - eip, rounded up
\* (the files have their entry below that end, so it does not wrap).
ImageSize(f, last) ==
  LET s == Files[f].ph[last]
      raw == s.p_vaddr + s.p_mem_size - Files[f].entry
  IN ((raw + PAGE_SIZE - 1) \div PAGE_SIZE) * PAGE_SIZE

(***************************************************************************)
(* Layout of a thread                                                      *)
(***************************************************************************)

ImagePages(t) == PagesFrom(t.image_base, t.image_size \div PAGE_SIZE)
HeapPages(t) == PagesFrom(t.heap, HEAP_PAGES)
ThreadPages(t) ==
  ImagePages(t) \cup {t.stack_limit - PAGE_SIZE, t.stack_kernel_limit - PAGE_SIZE}
                \cup HeapPages(t)

NewProc(name, d, kernel) ==
  [name |-> name, kernel |-> kernel, state |-> PROC_NEW, pdir |-> d,
   eip |-> 0, image_base |-> 0, image_size |-> 0, stack_limit |-> 0,
   stack_kernel_limit |-> 0, heap |-> 0, img |-> <<>>]

FreePids == Pids \ DOMAIN procs
Without(f, x) == [y \in DOMAIN f \ {x} |-> f[y]]

\* Mutant of Stopped: the call in progress is not ended.
StoppedKeepCall(p, m) ==
  /\ mem' = m
  /\ procs' = Without(procs, p)
  /\ UNCHANGED <<sched, call>>

\* A start_proc step that returns PROC_STOPPED: the process_t is dropped
\* with all it holds.
Stopped(p, m) ==
  /\ mem' = m
  /\ procs' = Without(procs, p)
  /\ call' = Idle
  /\ UNCHANGED sched

Running == fault = "none"

(***************************************************************************)
(* Actions                                                                 *)
(***************************************************************************)

\* start_proc up to create_thread: the process_t, its address space.
StartProc(name) ==
  /\ Running /\ call = Idle /\ FreePids # {}
  /\ LET p == Min(FreePids)
         r == CreateAddressSpace(mem)
     IN /\ mem' = r.m
        /\ IF r.ok
           THEN /\ procs' = procs @@ (p :> NewProc(name, r.d, FALSE))
                /\ call' = [step |-> "load", pid |-> p]
           ELSE UNCHANGED <<procs, call>>
  /\ UNCHANGED <<sched, staged, fault>>

\* load_elf: stream the file in, check the header found at the staging
\* address, relocate, then unmap file_size staging pages.
LoadElf ==
  /\ Running /\ call.step = "load"
  /\ LET p == call.pid
         t == procs[p]
         lf == load_elf_file(mem, t.name)
         hdr == IF lf.read > 0 THEN t.name ELSE staged
         rl == load_elf_relocate(lf.m, t.pdir, hdr)
     IN /\ staged' = hdr
        /\ CASE lf.n = 0 -> Stopped(p, lf.m) /\ UNCHANGED fault
             [] ~PTEOf(lf.m, KERN, MEMORY_LOAD_ADDRESS).p ->
                  mem' = lf.m /\ fault' = "header read page fault"
                  /\ UNCHANGED <<procs, call, sched>>
             [] ~elf_validate(Files[hdr].hdr) -> Stopped(p, lf.m) /\ UNCHANGED fault
             [] rl.fault ->
                  mem' = rl.m /\ fault' = "bss page fault"
                  /\ UNCHANGED <<procs, call, sched>>
             [] ~rl.ok -> Stopped(p, rl.m) /\ UNCHANGED fault
             [] lf.n = UINT32_MINUS_1 ->
                  mem' = rl.m /\ fault' = "unmapping 2^32 - 1 staging pages"
                  /\ UNCHANGED <<procs, call, sched>>
             [] OTHER ->
                  /\ mem' = UnmapAll(rl.m, KERN, PagesFrom(MEMORY_LOAD_ADDRESS, lf.n))
                  /\ procs' = [procs EXCEPT ![p].eip = Files[hdr].entry,
                                            ![p].image_base = Files[hdr].ph[1].p_vaddr,
                                            ![p].image_size = ImageSize(hdr, rl.last),
                                            ![p].img = rl.img]
                  /\ call' = [call EXCEPT !.step = "stack"]
                  /\ UNCHANGED <<sched, fault>>

\* build_stack(thread, pdir, 0): a user stack page right above the image
\* and a kernel stack page above it.
BuildStack ==
  /\ Running /\ call.step = "stack"
  /\ LET p == call.pid
         t == procs[p]
         esp == t.image_base + t.image_size
         r == StagePages(mem, t.pdir, SelfPairs(<<esp, esp + PAGE_SIZE>>))
     IN IF r.ok
        THEN /\ mem' = r.m
             /\ procs' = [procs EXCEPT ![p].stack_limit = esp + PAGE_SIZE,
                                       ![p].stack_kernel_limit = esp + 2 * PAGE_SIZE]
             /\ call' = [call EXCEPT !.step = "heap"]
             /\ UNCHANGED sched
        ELSE Stopped(p, r.m)
  /\ UNCHANGED <<staged, fault>>

\* build_heap(thread, pdir, 0): HEAP_PAGES pages above the kernel stack.
BuildHeap ==
  /\ Running /\ call.step = "heap"
  /\ LET p == call.pid
         h == procs[p].stack_kernel_limit
         r == StagePages(mem, procs[p].pdir, SelfPairs(PageSeq(h, HEAP_PAGES)))
     IN IF r.ok
        THEN /\ mem' = r.m
             /\ procs' = [procs EXCEPT ![p].heap = h]
             /\ call' = [call EXCEPT !.step = "fill"]
             /\ UNCHANGED sched
        ELSE Stopped(p, r.m)
  /\ UNCHANGED <<staged, fault>>

\* heap_fill and stack_fill, then the end of start_proc: each drops one
\* kernel alias (the first heap page, the user stack page), the thread and
\* process become active and the process is registered.
FillAndRegister ==
  /\ Running /\ call.step = "fill"
  /\ LET p == call.pid
         t == procs[p]
     IN /\ mem' = VmmUnmapPhys(VmmUnmapPhys(mem, KERN, t.heap), KERN, t.stack_limit - PAGE_SIZE)
        /\ procs' = [procs EXCEPT ![p].state = PROC_ACTIVE]
        /\ sched' = sched \cup {p}
        /\ call' = Idle
  /\ UNCHANGED <<staged, fault>>

\* start_kernel_proc: both stacks at fixed addresses of kern_dir, mapped
\* without checking; the initial context is written to the kernel stack.
StartKernelProc(addr) ==
  /\ Running /\ call = Idle /\ FreePids # {}
  /\ LET p == Min(FreePids)
         m1 == VmmMap(mem, KERN, KPROC_STACK, FALSE).m
         m2 == VmmMap(m1, KERN, KPROC_STACK + PAGE_SIZE, FALSE).m
     IN /\ mem' = m2
        /\ IF PTEOf(m2, KERN, KPROC_STACK + PAGE_SIZE).p
           THEN /\ procs' = procs @@ (p :> [NewProc("kernel", KERN, TRUE) EXCEPT
                                       !.state = PROC_ACTIVE, !.eip = addr,
                                       !.stack_limit = KPROC_STACK + PAGE_SIZE,
                                       !.stack_kernel_limit = KPROC_STACK + 2 * PAGE_SIZE])
                /\ sched' = sched \cup {p}
                /\ UNCHANGED fault
           ELSE /\ fault' = "kernel stack page fault"
                /\ UNCHANGED <<procs, sched>>
  /\ UNCHANGED <<call, staged>>

\* end_proc, run by the current process.
EndProc(p) ==
  /\ Running /\ p \in sched /\ procs[p].state = PROC_ACTIVE
  /\ procs' = [procs EXCEPT ![p].state = PROC_STOPPED]
  /\ UNCHANGED <<mem, sched, call, staged, fault>>

\* Mutant of RemoveProc: sched_remove_proc is skipped, as it is for a
\* thread whose main flag is not 1.
RemoveProcKeepSched(p) ==
  /\ Running /\ call = Idle /\ p \in sched /\ ~procs[p].kernel
  /\ LET t == procs[p]
         m1 == UnmapAll(mem, t.pdir, ImagePages(t))
         m2 == UnmapAll(m1, t.pdir, {t.stack_limit - PAGE_SIZE, t.stack_kernel_limit - PAGE_SIZE})
         m3 == UnmapAll(m2, t.pdir, HeapPages(t))
     IN /\ mem' = DeleteAddressSpace(m3, t.pdir)
        /\ procs' = Without(procs, p)
  /\ UNCHANGED <<sched, call, staged, fault>>

\* remove_proc of a user process: unmap image, stacks and heap, deregister,
\* delete the address space, free the control blocks.
RemoveProc(p) ==
  /\ Running /\ call = Idle /\ p \in sched /\ ~procs[p].kernel
  /\ LET t == procs[p]
         m1 == UnmapAll(mem, t.pdir, ImagePages(t))
         m2 == UnmapAll(m1, t.pdir, {t.stack_limit - PAGE_SIZE, t.stack_kernel_limit - PAGE_SIZE})
         m3 == UnmapAll(m2, t.pdir, HeapPages(t))
     IN /\ mem' = DeleteAddressSpace(m3, t.pdir)
        /\ procs' = Without(procs, p)
        /\ sched' = sched \ {p}
  /\ UNCHANGED <<call, staged, fault>>

Init ==
  /\ mem = VmmInit
  /\ procs = <<>>
  /\ sched = {}
  /\ call = Idle
  /\ staged = "none"
  /\ fault = "none"

Next ==
  \/ \E f \in Progs : StartProc(f)
  \/ LoadElf
  \/ BuildStack
  \/ BuildHeap
  \/ FillAndRegister
  \/ \E a \in KernelEntries : StartKernelProc(a)
  \/ \E p \in DOMAIN procs : EndProc(p)
  \/ \E p \in DOMAIN procs : RemoveProc(p)

Spec == Init /\ [][Next]_vars

(***************************************************************************)
(* Invariants and properties                                               *)
(***************************************************************************)

Frame == 0..Max(PmmFrames \cup {ENTRIES})
PDEs == [p : BOOLEAN, t : 0..NPT, u : BOOLEAN]
PTEs == [p : BOOLEAN, f : Frame, u : BOOLEAN]
Steps == {"idle", "load", "stack", "heap", "fill"}

TypeOK ==
  /\ mem \in [pd : [DirIds -> [Idx(DIRS) -> PDEs]],
              pt : [PTPool -> [Idx(ENTRIES) -> PTEs]],
              ff : SUBSET PmmFrames, pf : SUBSET PTPool]
  /\ DOMAIN procs \subseteq Pids
  /\ \A p \in DOMAIN procs :
       /\ procs[p].state \in {PROC_NEW, PROC_ACTIVE, PROC_STOPPED}
       /\ procs[p].pdir \in DirIds /\ procs[p].kernel \in BOOLEAN
  /\ sched \subseteq DOMAIN procs
  /\ call.step \in Steps /\ (call.step # "idle" => call.pid \in DOMAIN procs)
  /\ staged \in Progs \cup {"none"}

\* The directories something can still reach: kern_dir and those of the
\* process_t's alive (registered, or the one start_proc is building).
LiveDirs == {KERN} \cup {procs[p].pdir : p \in DOMAIN procs}
UserProcs == {p \in sched : ~procs[p].kernel}
LivePDEs == {<<d, k>> \in LiveDirs \X Idx(DIRS) : mem.pd[d][k].p}

\* Page-table ownership (create_address_space, vmm_create_page_table,
\* delete_address_space): every table a live directory points to is owned
\* by that one entry alone, is not on the page_table_malloc free list, and
\* is not itself a live directory.
PageTableExclusive ==
  \A e1, e2 \in LivePDEs :
    LET t == mem.pd[e1[1]][e1[2]].t IN
    /\ t \notin mem.pf /\ t \notin LiveDirs
    /\ (e1 # e2 => t # mem.pd[e2[1]][e2[2]].t)

\* What the scheduler is handed (start_proc, sched_add_proc, remove_proc):
\* a registered user process has run every setup step, so its image,
\* both stack pages and its heap pages are mapped, user-flagged, in its
\* own directory.  It does not hold for a file whose .bss takes a page of
\* its own: load_elf_relocate aliases only the file pages into the process.
ScheduledProcessComplete ==
  \A p \in UserProcs :
    /\ procs[p].state \in {PROC_ACTIVE, PROC_STOPPED}
    /\ procs[p].pdir # KERN
    /\ \A v \in ThreadPages(procs[p]) : PTEOf(mem, procs[p].pdir, v).p
                                        /\ PTEOf(mem, procs[p].pdir, v).u

\* The exit path of a user process (the RETURN_ADDR its stack returns to,
\* cloned by create_address_space from map_kernel's entry): reachable from
\* user mode, at the common page, in every registered user process.
ReturnTrampolineReachable ==
  \A p \in UserProcs :
    /\ PDEOf(mem, procs[p].pdir, RETURN_ADDR).u
    /\ PTEOf(mem, procs[p].pdir, RETURN_ADDR).u
    /\ GetPhysAddr(mem, procs[p].pdir, RETURN_ADDR) = RETURN_ADDR \div PAGE_SIZE

\* Ring 3 can use a page only when both the directory entry and the table
\* entry carry the user bit: every page of a registered user process does
\* (vmm_map_phys with PAGE_USER, but a covering table cloned from kern_dir
\* keeps kern_dir's flags).
UserPagesAccessible ==
  \A p \in UserProcs : \A v \in ThreadPages(procs[p]) :
    PDEOf(mem, procs[p].pdir, v).u /\ PTEOf(mem, procs[p].pdir, v).u

\* The process sees at each image page the frame the loader copied that
\* page's bytes into through kern_dir (load_elf_relocate), and no later
\* setup step maps something else there.
ImageMapsStagedFrames ==
  \A p \in UserProcs : \A v \in DOMAIN procs[p].img :
    GetPhysAddr(mem, procs[p].pdir, v) = procs[p].img[v]

\* No frame and no page table is lost: every frame pmm_malloc handed out
\* is mapped in a live directory, and every pool page is free, a live
\* directory, or a table of one (spec: a failed start_proc and a
\* create/delete pair leak nothing; remove_proc gives everything back).
NoLeak ==
  /\ \A f \in PmmFrames \ mem.ff :
       \E d \in LiveDirs : \E k \in Idx(DIRS) : \E i \in Idx(ENTRIES) :
         mem.pd[d][k].p /\ mem.pt[mem.pd[d][k].t][i] = PTE(f, mem.pt[mem.pd[d][k].t][i].u)
  /\ \A t \in PTPool \ mem.pf :
       t \in LiveDirs \/ \E e \in LivePDEs : mem.pd[e[1]][e[2]].t = t

\* No live directory maps a free frame: nothing can write to a frame the
\* next pmm_malloc hands to someone else.
NoDanglingMapping ==
  \A e \in LivePDEs : \A i \in Idx(ENTRIES) :
    LET pte == mem.pt[mem.pd[e[1]][e[2]].t][i] IN
    pte.p /\ pte.f \in PmmFrames => pte.f \notin mem.ff

\* The lifecycle of ProcLifecycle seen in this model: a pid without a
\* process_t is "none", otherwise its state; registered is sched.
Lifecycle == INSTANCE ProcLifecycle WITH
  pstate <- [p \in Pids |-> IF p \in DOMAIN procs THEN procs[p].state ELSE "none"],
  registered <- sched

\* start_proc, start_kernel_proc, end_proc and remove_proc together
\* implement the lifecycle: a process is registered with the scheduler
\* exactly from the step that makes it Active until remove_proc, a failed
\* start is never registered, Stopped never becomes Active again, and a
\* removed process leaves the scheduler.
LifecycleRefined == Lifecycle!LSpec

\* The kernel never page-faults on its own accesses while creating a
\* process (load_elf, load_elf_relocate, start_kernel_proc).
NoKernelFault == fault = "none"

=============================================================================
