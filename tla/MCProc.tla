------------------------------- MODULE MCProc -------------------------------
(***************************************************************************)
(* Model of Proc for TLC.  Pages are 4 bytes and tables 16 entries, so a   *)
(* directory entry covers 64 bytes: 0..63 is the identity-mapped kernel,   *)
(* 64..127 the common page, kernel-process stacks and the staging window   *)
(* at 112 (0x700000), and programs start at 128 (0x800000).                *)
(***************************************************************************)
EXTENDS Proc

Hdr == [magic |-> ELF_MAGIC, instruction_set |-> ELF_X86, arch |-> ELF_32BIT,
        machine |-> ELF_LITTLE_ENDIAN, elf_version2 |-> 1]
Load(vaddr, filesz, memsz) ==
  [p_type |-> PT_LOAD, p_vaddr |-> vaddr, p_offset |-> 0,
   p_file_size |-> filesz, p_mem_size |-> memsz]

\* one page of code, entry at its start
Init1 == [type |-> "file", blocks |-> 1, hdr |-> Hdr, entry |-> 128,
          ph |-> <<Load(128, 3, 4)>>]
\* one segment of two pages (file size above one page)
Big == [type |-> "file", blocks |-> 9, hdr |-> Hdr, entry |-> 128,
        ph |-> <<Load(128, 5, 8)>>]
\* two one-page segments, entry in the second
Late == [type |-> "file", blocks |-> 9, hdr |-> Hdr, entry |-> 133,
         ph |-> <<Load(128, 3, 4), Load(132, 3, 4)>>]
\* one file page, the .bss taking a second page
Bss == [type |-> "file", blocks |-> 1, hdr |-> Hdr, entry |-> 128,
        ph |-> <<Load(128, 3, 8)>>]
\* wrong magic number
Bad == [Init1 EXCEPT !.hdr.magic = <<0, 69, 76, 70>>]

MCFrames == 20..31
MCPids == 1..3
MCPids1 == {1}
\* a kernel process entry point, or none
MCEntries == {"kmain"}
MCNoEntries == {}
\* every kind of file: one page, two pages, two segments, a .bss page,
\* a bad header, and a name with no file
MCFilesPass == [f \in {"init", "big", "late", "bss", "bad"} |->
                  CASE f = "init" -> Init1 [] f = "big" -> Big
                    [] f = "late" -> Late [] f = "bss" -> Bss [] OTHER -> Bad]
MCProgsPass == {"init", "big", "late", "bss", "bad", "missing"}
MCFilesInitOnly == "init" :> Init1
MCProgsInitOnly == {"init"}
MCFilesBig == "big" :> Big
MCProgsBig == {"big"}
MCFilesInit == [f \in {"init", "bad"} |-> IF f = "init" THEN Init1 ELSE Bad]
MCProgsInit == {"init", "bad", "missing"}

=============================================================================
