------------------------------ MODULE MCKHeap ------------------------------
(***************************************************************************)
(* KHeap at a size TLC can enumerate: 4-byte headers (the four 32-bit     *)
(* words of heap_header_t scaled to one byte each), a 64-byte heap, three *)
(* block lengths whose differences (4, 8, 12) fall below, at and above    *)
(* two headers, and at most three blocks held at once.                    *)
(***************************************************************************)
EXTENDS KHeap

MCLens == {4, 8, 16}

=============================================================================
