-------------------------------- MODULE VMM --------------------------------
(***************************************************************************)
(* The two-level x86 paging of src/kernel/mm/vmm.c, as operators over a    *)
(* memory record m:                                                        *)
(*   m.pd : directory id -> directory index -> PDE                        *)
(*   m.pt : pool page    -> table index     -> PTE                        *)
(*   m.ff : frames pmm_malloc may hand out (the free frames)               *)
(*   m.pf : pool pages page_table_malloc may hand out                      *)
(* kern_dir is the static directory KERN; every other directory and every  *)
(* page table is a page of the page_table_malloc pool.  A PDE or PTE is a  *)
(* record of the bits the code uses: present (p), user (u) and the frame   *)
(* or table the high 20 bits point to.  The read-write bit is set by every *)
(* call in the code and is left out.  Operators that can fail return       *)
(* [ok |-> BOOLEAN, m |-> m'].                                             *)
(*                                                                         *)
(* Addresses are byte addresses; PAGE_SIZE, ENTRIES and DIRS scale down    *)
(* 4096 and 1024 (entries of a table, entries of a directory) so that      *)
(* virt >> 22 and virt << 10 >> 10 >> 12 keep their meaning.               *)
(***************************************************************************)
EXTENDS Naturals, FiniteSets, FiniteSetsExt

CONSTANTS
  PAGE_SIZE,   \* bytes of a page (4096)
  ENTRIES,     \* entries of a page table (1024)
  DIRS,        \* entries of a directory that the model's address space covers
  NPT,         \* pages of the page_table_malloc pool
  PmmFrames    \* physical page numbers pmm_malloc manages

ASSUME PAGE_SIZE \in Nat \ {0} /\ ENTRIES \in Nat \ {0}
ASSUME DIRS \in 2..ENTRIES /\ NPT \in Nat /\ NPT >= 2
\* pmm frames lie above the identity-mapped first directory span and the
\* return page; frame number 0 is the NULL pmm_malloc returns on failure.
ASSUME PmmFrames \subseteq Nat /\ \A f \in PmmFrames : f > ENTRIES

KERN == 0                          \* kern_dir
PTPool == 1..NPT                   \* page_table_malloc pool
DirIds == {KERN} \cup PTPool
Idx(n) == 0..(n - 1)

SPAN == PAGE_SIZE * ENTRIES        \* bytes one directory entry covers (4 MiB)
KERNEL_SPACE_END == SPAN           \* 0x400000
RETURN_ADDR == KERNEL_SPACE_END    \* the common page at 0x400000 (memory.h)

DirIndex(v) == v \div SPAN                         \* virt >> 22
TableIndex(v) == (v \div PAGE_SIZE) % ENTRIES      \* virt << 10 >> 10 >> 12

NoPDE == [p |-> FALSE, t |-> 0, u |-> FALSE]
NoPTE == [p |-> FALSE, f |-> 0, u |-> FALSE]
PTE(f, u) == [p |-> TRUE, f |-> f, u |-> u]

EmptyMem ==
  [pd |-> [d \in DirIds |-> [k \in Idx(DIRS) |-> NoPDE]],
   pt |-> [t \in PTPool |-> [i \in Idx(ENTRIES) |-> NoPTE]],
   ff |-> PmmFrames, pf |-> PTPool]

(* page_table_malloc and pmm_malloc are bitmap allocators outside src/:    *)
(* the lowest free page, 0 when none is left; tables come back zeroed.     *)
PageTableMalloc(m) == IF m.pf = {} THEN 0 ELSE Min(m.pf)
PmmMalloc(m) == IF m.ff = {} THEN 0 ELSE Min(m.ff)
PmmFree(m, f) == [m EXCEPT !.ff = @ \cup {f}]

PDEOf(m, d, v) == m.pd[d][DirIndex(v)]
PTEOf(m, d, v) ==
  IF PDEOf(m, d, v).p THEN m.pt[PDEOf(m, d, v).t][TableIndex(v)] ELSE NoPTE

\* Writes the table entry of v; the covering table must be present.
SetPTE(m, d, v, e) == [m EXCEPT !.pt[PDEOf(m, d, v).t][TableIndex(v)] = e]

\* vmm_create_page_table: installs a fresh table with the caller's flags.
VmmCreatePageTable(m, d, v, u) ==
  LET t == PageTableMalloc(m) IN
  IF t = 0 THEN [ok |-> FALSE, m |-> m]
  ELSE [ok |-> TRUE,
        m |-> [m EXCEPT !.pf = @ \ {t},
                        !.pt[t] = [i \in Idx(ENTRIES) |-> NoPTE],
                        !.pd[d][DirIndex(v)] = [p |-> TRUE, t |-> t, u |-> u]]]

\* vmm_map_phys: creates the covering table on demand (with the mapping's
\* flags) and overwrites the entry, whatever it held before.
VmmMapPhys(m, d, v, f, u) ==
  IF PDEOf(m, d, v).p THEN [ok |-> TRUE, m |-> SetPTE(m, d, v, PTE(f, u))]
  ELSE LET r == VmmCreatePageTable(m, d, v, u) IN
       IF r.ok THEN [ok |-> TRUE, m |-> SetPTE(r.m, d, v, PTE(f, u))] ELSE r

\* vmm_map: takes a frame first, then does what vmm_map_phys does; when
\* the table cannot be created the frame is not given back.
VmmMap(m, d, v, u) ==
  LET f == PmmMalloc(m) IN
  IF f = 0 THEN [ok |-> FALSE, m |-> m]
  ELSE VmmMapPhys([m EXCEPT !.ff = @ \ {f}], d, v, f, u)

\* get_phys_addr: the frame bits of the entry, 0 without a table.
GetPhysAddr(m, d, v) == PTEOf(m, d, v).f

\* vmm_unmap: frees the frame and clears the entry; a zero frame is only
\* reported.
VmmUnmap(m, d, v) ==
  IF PDEOf(m, d, v).p /\ GetPhysAddr(m, d, v) # 0
  THEN SetPTE(PmmFree(m, GetPhysAddr(m, d, v)), d, v, NoPTE)
  ELSE m

\* vmm_unmap_phys: clears the entry, keeps the frame.
VmmUnmapPhys(m, d, v) ==
  IF PDEOf(m, d, v).p THEN SetPTE(m, d, v, NoPTE) ELSE m

\* Mutant of CloneFrom: the new directory points at kern_dir's own tables.
RECURSIVE CloneFromShared(_, _, _)
CloneFromShared(m, d, i) ==
  IF i = DIRS THEN [ok |-> TRUE, m |-> m]
  ELSE IF ~m.pd[KERN][i].p THEN CloneFromShared(m, d, i + 1)
  ELSE CloneFromShared([m EXCEPT !.pd[d][i] = m.pd[KERN][i]], d, i + 1)

\* Mutant of CloneFrom: the tables are created with PAGE_PRESENT | PAGE_RW
\* instead of kern_dir's flags.
RECURSIVE CloneFromSupervisor(_, _, _)
CloneFromSupervisor(m, d, i) ==
  IF i = DIRS THEN [ok |-> TRUE, m |-> m]
  ELSE IF ~m.pd[KERN][i].p THEN CloneFromSupervisor(m, d, i + 1)
  ELSE LET r == VmmCreatePageTable(m, d, i * SPAN, FALSE)
       IN IF ~r.ok THEN r
          ELSE CloneFromSupervisor([r.m EXCEPT !.pt[r.m.pd[d][i].t] = m.pt[m.pd[KERN][i].t]],
                                   d, i + 1)

\* The clone loop of create_address_space from directory index i on: for
\* each present kern_dir entry a new table with the same flags, holding a
\* copy of the kernel table.  A failed table allocation stops the loop.
RECURSIVE CloneFrom(_, _, _)
CloneFrom(m, d, i) ==
  IF i = DIRS THEN [ok |-> TRUE, m |-> m]
  ELSE IF ~m.pd[KERN][i].p THEN CloneFrom(m, d, i + 1)
  ELSE LET r == VmmCreatePageTable(m, d, i * SPAN, m.pd[KERN][i].u)
       IN IF ~r.ok THEN r
          ELSE CloneFrom([r.m EXCEPT !.pt[r.m.pd[d][i].t] = m.pt[m.pd[KERN][i].t]],
                         d, i + 1)

\* create_address_space: the new directory is the lowest free pool page;
\* on failure neither it nor the tables made so far are given back.
CreateAddressSpace(m) ==
  LET d == PageTableMalloc(m)
      r == CloneFrom([m EXCEPT !.pf = @ \ {d},
                               !.pd[d] = [k \in Idx(DIRS) |-> NoPDE]], d, 0)
  IN IF d = 0 THEN [ok |-> FALSE, m |-> m, d |-> 0]
     ELSE [ok |-> r.ok, m |-> r.m, d |-> d]

\* vmm_unmap_page_table: frees the table of v's directory entry.
VmmUnmapPageTable(m, d, v) ==
  [m EXCEPT !.pf = @ \cup {PDEOf(m, d, v).t}, !.pd[d][DirIndex(v)] = NoPDE]

\* delete_address_space: the loop visits pdir[i * PAGE_SIZE >> 22] for the
\* directory's entries i, i.e. only the directory indices below; the
\* directory page itself is not freed.
DeleteVisited == {DirIndex(i * PAGE_SIZE) : i \in Idx(DIRS)}
DeleteAddressSpace(m, d) ==
  LET gone == {k \in DeleteVisited : m.pd[d][k].p} IN
  [m EXCEPT !.pf = @ \cup {m.pd[d][k].t : k \in gone},
            !.pd[d] = [k \in Idx(DIRS) |-> IF k \in gone THEN NoPDE ELSE @[k]]]

\* map_kernel on the zeroed kern_dir (vmm_init): the first directory span
\* identity-mapped supervisor-only, and the return page user-accessible.
MapKernel(m) ==
  LET r1 == VmmCreatePageTable(m, KERN, 0, FALSE)
      m1 == [r1.m EXCEPT !.pt[r1.m.pd[KERN][0].t] =
                           [i \in Idx(ENTRIES) |-> PTE(i, FALSE)]]
      r2 == VmmCreatePageTable(m1, KERN, RETURN_ADDR, TRUE)
  IN SetPTE(r2.m, KERN, RETURN_ADDR, PTE(RETURN_ADDR \div PAGE_SIZE, TRUE))

VmmInit == MapKernel(EmptyMem)

=============================================================================
