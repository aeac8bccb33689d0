------------------------------- MODULE Loader -------------------------------
(***************************************************************************)
(* loadElf (elf_loader.c): the loops that copy the segments of an ELF file *)
(* into the page table, and the scan of its section headers for the starts *)
(* of .text and .data.  One step is one iteration.                         *)
(*                                                                         *)
(* An image is the two header tables and the bytes of the mapped file;     *)
(* bytes past its end are the zeros with which mmap fills the last page.   *)
(* The pages of the host are as large as those of the emulator.            *)
(***************************************************************************)
EXTENDS PageTable

CONSTANT seg_starts    \* the starts of the segments before a file is loaded

Header == [p_type : {"PT_LOAD", "OTHER"}, p_vaddr : Address, p_filesz : Nat,
           p_memsz : Nat, p_offset : Nat]
Section == [sh_name : {".text", ".data", "OTHER"}, sh_addr : Address]
Segment == {"TEXT", "DATA", "HEAP", "STACK"}
IsImage(m) == /\ DOMAIN m = {"headers", "sections", "file"}
              /\ m.headers \in Seq(Header) /\ m.sections \in Seq(Section)
              /\ m.file \in Seq(Byte)

ASSUME SegStartsAssumption == seg_starts \in [Segment -> Address]

VARIABLES
  image,    \* the file
  ptable,
  seg_start_addr,
  seg,      \* number of the program header or section header
  phase,    \* the loop loadElf is in
  j         \* its counter
loadvars == <<image, ptable, seg_start_addr, seg, phase, j>>

file_byte(o) == IF o < Len(image.file) THEN image.file[o + 1] ELSE 0

\* The page of the mapping holds a byte of the file.
Mapped(o) == o \div PAGESIZE <= (Len(image.file) - 1) \div PAGESIZE

progHeader == image.headers[seg]
v_align == progHeader.p_vaddr % PAGESIZE

f_align == progHeader.p_filesz
             + (PAGESIZE - ((progHeader.p_filesz + progHeader.p_vaddr) % PAGESIZE))

LoadInit(file) ==
  /\ image = file
  /\ ptable = [k \in Bucket |-> <<>>]
  /\ seg_start_addr = seg_starts
  /\ seg = 1 /\ phase = "header" /\ j = 0

NextHeader == phase' = "header" /\ seg' = seg + 1 /\ j' = 0

ReadHeader ==
  /\ phase = "header" /\ seg <= Len(image.headers)
  /\ IF progHeader.p_type = "PT_LOAD"
     THEN phase' = "copy" /\ j' = 0 /\ UNCHANGED seg
     ELSE NextHeader
  /\ UNCHANGED <<image, ptable, seg_start_addr>>

\* Mutant: the copy stops where the aligned part of the file ends.
CopyEnd_mutant == progHeader.p_filesz - v_align

\* The bound of the copy counts v_align bytes more than the file has.
CopyEnd == progHeader.p_filesz + v_align

CopyByte ==
  /\ phase = "copy" /\ j < CopyEnd /\ Mapped(progHeader.p_offset + j)
  /\ ptable' = mem_write_byte(ptable, (progHeader.p_vaddr + j) % AddrMod,
                              file_byte(progHeader.p_offset + j))
  /\ j' = j + 1
  /\ UNCHANGED <<image, seg_start_addr, seg, phase>>

EndCopy ==
  /\ phase = "copy" /\ j >= CopyEnd
  /\ IF progHeader.p_memsz > progHeader.p_filesz
     THEN phase' = "bss" /\ j' = 0 /\ UNCHANGED seg
     ELSE NextHeader
  /\ UNCHANGED <<image, ptable, seg_start_addr>>

MapBss ==
  /\ phase = "bss" /\ j < progHeader.p_memsz - progHeader.p_filesz
  /\ ptable' = touch(ptable, pnum((progHeader.p_vaddr + f_align + j) % AddrMod))
  /\ j' = j + 1
  /\ UNCHANGED <<image, seg_start_addr, seg, phase>>

EndBss ==
  /\ phase = "bss" /\ j >= progHeader.p_memsz - progHeader.p_filesz
  /\ NextHeader
  /\ UNCHANGED <<image, ptable, seg_start_addr>>

EndHeaders ==
  /\ phase = "header" /\ seg > Len(image.headers)
  /\ phase' = "section" /\ seg' = 1
  /\ UNCHANGED <<image, ptable, seg_start_addr, j>>

segment_of(name) == IF name = ".text" THEN "TEXT" ELSE "DATA"

ReadSection ==
  /\ phase = "section" /\ seg <= Len(image.sections)
  /\ LET sectionHeader == image.sections[seg]
     IN  seg_start_addr' = IF sectionHeader.sh_name = "OTHER" THEN seg_start_addr
                           ELSE [seg_start_addr EXCEPT ![segment_of(sectionHeader.sh_name)]
                                   = sectionHeader.sh_addr]
  /\ seg' = seg + 1
  /\ UNCHANGED <<image, ptable, phase, j>>

Return ==
  /\ phase = "section" /\ seg > Len(image.sections)
  /\ phase' = "done"
  /\ UNCHANGED <<image, ptable, seg_start_addr, seg, j>>

loadElf == \/ ReadHeader \/ CopyByte \/ EndCopy \/ MapBss \/ EndBss
           \/ EndHeaders \/ ReadSection \/ Return

-----------------------------------------------------------------------------
Loaded == {image.headers[s] : s \in {i \in DOMAIN image.headers :
                                       image.headers[i].p_type = "PT_LOAD"}}
FilePart(h) == 0 .. h.p_filesz - 1
BssPart(h) == h.p_filesz .. h.p_memsz - 1

\* What an ELF file has: loadable segments in ascending order, without overlap,
\* inside the address space.
Loadable(m, s) == m.headers[s].p_type = "PT_LOAD"
Ascending(m) ==
  \A s \in DOMAIN m.headers : Loadable(m, s) =>
    LET h == m.headers[s]
    IN  /\ h.p_vaddr + h.p_filesz + (h.p_vaddr % PAGESIZE) <= AddrMod
        /\ \A t \in DOMAIN m.headers : Loadable(m, t) /\ s < t =>
             h.p_vaddr + h.p_filesz <= m.headers[t].p_vaddr

(* When loading is done every byte the file has for a segment is in memory, *)
(* although the copy of the segment below it has run into its pages first.  *)
FileLoaded ==
  phase = "done" /\ Ascending(image) =>
    \A h \in Loaded : \A k \in FilePart(h) :
      byte_at(ptable, h.p_vaddr + k) = file_byte(h.p_offset + k)

(* The loader and the accesses share one way to add a page: no page number  *)
(* is twice in the table, although segments and bss may share pages.        *)
LoadedPagesUnique == OnePage(ptable)

(* elf_loader.c:87-88: "Map bss address space", "Data initialization to 0   *)
(* happens indirectly through calloc() call in add_page()": the part of a   *)
(* segment that is not in the file is in the page table and zero.           *)
BssZero ==
  phase = "done" =>
    \A h \in Loaded : \A k \in BssPart(h) :
      present(ptable, pnum(h.p_vaddr + k)) /\ byte_at(ptable, h.p_vaddr + k) = 0
=============================================================================
