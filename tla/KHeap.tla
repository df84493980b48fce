------------------------------- MODULE KHeap -------------------------------
(***************************************************************************)
(* The kernel heap of src/kernel/mm/kheap.c: a singly linked list of       *)
(* headers {magic, size, is_free, next} laid out in the heap itself.       *)
(*                                                                         *)
(* hdr maps the byte offset (from heap_info.start) of every header the     *)
(* code has written to its fields; a header written where another was      *)
(* overwrites it.  Every header lies at a multiple of HDR, since the first *)
(* is at 0 and first_free puts the next at head + (len + HDR) * HDR.       *)
(* heap_header_t is not in the repository: its fields are taken as 32-bit *)
(* words, held here as signed values and compared as unsigned (UGE).       *)
(*                                                                         *)
(* The callers (process and thread control blocks) are the environment:    *)
(* they kmalloc one of a few lengths and kfree what they were given, once. *)
(* live is that ghost: the bag of blocks they hold (the same block handed *)
(* out twice is held twice).                                              *)
(***************************************************************************)
EXTENDS Integers, FiniteSets, Bags, BagsExt

CONSTANTS
  HDR,        \* sizeof(heap_header_t)
  HEAP_SIZE,  \* heap_info.size = HEAP_END - kernel_end
  Lens,       \* the lengths the callers ask kmalloc for
  MaxLive,    \* bound: blocks the callers hold at once
  MaxOffset   \* bound: headers are written below this offset

ASSUME HDR \in Nat \ {0} /\ HEAP_SIZE \in Nat /\ HEAP_SIZE > HDR
ASSUME Lens \subseteq Nat \ {0} /\ MaxLive \in Nat \ {0} /\ MaxOffset >= HEAP_SIZE

NULL == -1

VARIABLES
  hdr,    \* offset -> [magic, size, is_free, next]
  used,   \* heap_info.used
  live    \* ghost: [ptr, len] of the blocks the callers hold

vars == <<hdr, used, live>>

\* a >= b on the unsigned 32-bit words the signed values stand for
UGE(a, b) == IF (a < 0) = (b < 0) THEN a >= b ELSE a < 0

Header(size, free, next) == [magic |-> TRUE, size |-> size, is_free |-> free, next |-> next]

\* The number of headers bounds the steps of a walk along an acyclic list.
Fuel == Cardinality(DOMAIN hdr) + 1

\* The loop of first_free from head on: the first header that is big
\* enough, free, and carries the magic number; NULL at the end.
RECURSIVE FirstFit(_, _, _)
FirstFit(head, len, fuel) ==
  IF head = NULL \/ fuel = 0 THEN NULL
  ELSE IF UGE(hdr[head].size, len) /\ hdr[head].is_free /\ hdr[head].magic THEN head
  ELSE FirstFit(hdr[head].next, len, fuel - 1)

\* The merge loop of kfree: head absorbs every free header that follows.
RECURSIVE Merge(_, _, _, _)
Merge(h, head, app, fuel) ==
  IF app = NULL \/ fuel = 0 THEN h
  ELSE IF ~h[app].is_free THEN h
  ELSE Merge([h EXCEPT ![head].size = @ + h[app].size + HDR, ![head].next = h[app].next],
             head, h[app].next, fuel - 1)

\* kheap_init: one free header spanning the heap.
kheap_init ==
  /\ hdr = (0 :> Header(HEAP_SIZE - HDR, TRUE, NULL))
  /\ used = HDR
  /\ live = EmptyBag

\* Mutant of first_free: the remainder is linked back to the first header.
first_free_relink(len) ==
  /\ BagCardinality(live) < MaxLive
  /\ LET head == FirstFit(0, len, Fuel)
         head2 == head + (len + HDR) * HDR
     IN IF UGE(used, HEAP_SIZE) \/ head = NULL
        THEN UNCHANGED vars
        ELSE /\ hdr' = [a \in DOMAIN hdr \cup {head2} |->
                          CASE a = head2 -> Header(hdr[head].size - len - HDR, TRUE, 0)
                            [] a = head -> [hdr[head] EXCEPT !.is_free = FALSE,
                                                             !.next = head2, !.size = len]
                            [] OTHER -> hdr[a]]
             /\ head2 < MaxOffset
             /\ used' = used + len + HDR
             /\ live' = BagAdd(live, [ptr |-> head + HDR, len |-> len])

\* kmalloc -> first_free(len).  The new header is placed with pointer
\* arithmetic on a heap_header_t *, so len + sizeof(heap_header_t) counts
\* headers, not bytes; its next is NULL.  Nothing stops head2 from lying
\* past the heap (the identity-mapped memory above HEAP_END takes the
\* write); MaxOffset bounds how far the model follows it.
first_free(len) ==
  /\ BagCardinality(live) < MaxLive
  /\ LET head == FirstFit(0, len, Fuel)
         head2 == head + (len + HDR) * HDR
     IN IF UGE(used, HEAP_SIZE) \/ head = NULL
        THEN UNCHANGED vars
        ELSE /\ hdr' = [a \in DOMAIN hdr \cup {head2} |->
                          CASE a = head2 -> Header(hdr[head].size - len - HDR, TRUE, NULL)
                            [] a = head -> [hdr[head] EXCEPT !.is_free = FALSE,
                                                             !.next = head2, !.size = len]
                            [] OTHER -> hdr[a]]
             /\ head2 < MaxOffset
             /\ used' = used + len + HDR
             /\ live' = BagAdd(live, [ptr |-> head + HDR, len |-> len])

\* Mutant of kfree: used is decremented after the merge, by the merged size.
kfree_merge_first(blk) ==
  LET head == blk.ptr - HDR
      merged == Merge([hdr EXCEPT ![head].is_free = TRUE], head, hdr[head].next, Fuel)
  IN
  /\ IF ~hdr[head].is_free /\ hdr[head].magic
     THEN /\ hdr' = merged
          /\ used' = used - merged[head].size
     ELSE UNCHANGED <<hdr, used>>
  /\ live' = BagRemove(live, blk)

\* kfree(ptr): a header that is in use and carries the magic number is
\* freed and merged with the free headers after it; anything else is
\* ignored.  The caller drops the block either way.
kfree(blk) ==
  LET head == blk.ptr - HDR IN
  /\ IF ~hdr[head].is_free /\ hdr[head].magic
     THEN /\ hdr' = Merge([hdr EXCEPT ![head].is_free = TRUE], head, hdr[head].next, Fuel)
          /\ used' = used - hdr[head].size
     ELSE UNCHANGED <<hdr, used>>
  /\ live' = BagRemove(live, blk)

Init == kheap_init

Next ==
  \/ \E len \in Lens : first_free(len)
  \/ \E blk \in BagToSet(live) : kfree(blk)

Spec == Init /\ [][Next]_vars

(***************************************************************************)
(* Invariants                                                              *)
(***************************************************************************)

TypeOK ==
  /\ DOMAIN hdr \subseteq Nat /\ 0 \in DOMAIN hdr
  /\ \A a \in DOMAIN hdr : a % HDR = 0 /\ hdr[a].is_free \in BOOLEAN
                           /\ (hdr[a].next = NULL \/ hdr[a].next \in DOMAIN hdr)
  /\ used \in Nat
  /\ IsABag(live) /\ BagToSet(live) \subseteq [ptr : Nat, len : Lens]

\* Every header points forward (first_free links head to head2 above it,
\* kfree links head to what its successor pointed to), so the walks of
\* first_free and kfree end.
NextAscending ==
  \A a \in DOMAIN hdr : hdr[a].next = NULL \/ hdr[a].next > a

\* No two blocks the callers hold overlap, headers included: kmalloc never
\* hands out memory that is still in use.
LiveBlocksDisjoint ==
  /\ \A b \in BagToSet(live) : CopiesIn(b, live) = 1
  /\ \A b1, b2 \in BagToSet(live) :
    b1 # b2 => b1.ptr + b1.len <= b2.ptr - HDR \/ b2.ptr + b2.len <= b1.ptr - HDR

\* heap_info.used never under-counts what the callers hold: it is at least
\* the first header plus every held block with its header, whatever
\* kmalloc/kfree interleaving (header overwrites included) led there.
\* It does not hold: when a remainder header written over a held block's
\* header is reused for a longer request, kfree of the held block
\* subtracts the longer size (lengths 4 and 16 with 4-byte headers).
UsedCoversLive ==
  used >= HDR + MapThenFoldBag(LAMBDA x, y : x + y, 0, LAMBDA b : b.len + HDR,
                               LAMBDA S : CHOOSE b \in S : TRUE, live)

=============================================================================
