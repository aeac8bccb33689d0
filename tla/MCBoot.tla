------------------------------- MODULE MCBoot -------------------------------
(* Three sets of processes: files with two segments of every alignment and  *)
(* with and without .data, command lines of every kind, and one-word        *)
(* programs of every instruction.                                           *)
EXTENDS Boot

MCHash(n) == n % 2
MCStarts == [TEXT |-> 4, DATA |-> 16, HEAP |-> 24, STACK |-> 44]

Load1(v, fs, ms, off) == [p_type |-> "PT_LOAD", p_vaddr |-> v, p_filesz |-> fs,
                          p_memsz |-> ms, p_offset |-> off]
Note == [p_type |-> "OTHER", p_vaddr |-> 0, p_filesz |-> 0, p_memsz |-> 0, p_offset |-> 0]
Sect(name, a) == [sh_name |-> name, sh_addr |-> a]

\* ELF asks that a segment's offset in the file and its address agree modulo
\* the page size.
Offset0(v, from) == CHOOSE o \in from .. from + PAGESIZE : o % PAGESIZE = v % PAGESIZE

\* Every byte is its own, so misplaced bytes show.
MCFile == [k \in 1 .. 20 |-> k]
Sections(v1, v2) == {<<Sect(".text", v1), Sect("OTHER", 0), Sect(".data", v2)>>,
                     <<Sect(".text", v1)>>}
Aligned ==
  UNION {{[headers |-> <<Load1(v1, f1, f1, v1), Note,
                         Load1(v2, f2, f2 + b2, Offset0(v2, v1 + f1))>>,
           sections |-> s, file |-> MCFile] : s \in Sections(v1, v2)} :
           <<v1, f1, v2, f2, b2>> \in
             {t \in {4, 6} \X {1, 3} \X {8, 9} \X {0, 2, 3} \X {0, 1, 4} : t[1] + t[2] <= t[3]}}

Opt(o, n) == [opt |-> o, val |-> n]
Usual == <<Opt("i", 1), Opt("c", 1)>>

Maybe(o, ns) == {<<>>} \cup {<<Opt(o, n)>> : n \in ns}
Caches == {a \o b \o c \o d : <<a, b, c, d>> \in
             Maybe("A", {0, 2}) \X Maybe("B", {2, 8}) \X Maybe("C", {4}) \X Maybe("d", {0, 3})}
Outputs == {<<>>, <<Opt("c", 1)>>, <<Opt("c", 0)>>, <<Opt("o", 0), Opt("c", 1)>>,
            <<Opt("o", 1), Opt("c", 1), Opt("d", 3)>>, <<Opt("v", 7), Opt("?", 0), Opt("l", 5)>>}
MCArgs == {o \o g \o <<Opt("i", 1)>> : <<o, g>> \in Outputs \X Caches}
            \cup {g \o o : <<o, g>> \in Outputs \X Caches}

Insn(op, rd, rn, rm, imm) ==
  [op |-> op, rd |-> rd, rn |-> rn, rm |-> rm, imm |-> imm, hw |-> 1, cond |-> 11]
MCSamples ==
  {Insn(op, 3, 29, 0, n) : op \in {"LDUR", "STUR"}, n \in {-256, -1, 0, 255}}
  \cup {Insn(op, 21, 0, 0, n) : op \in {"MOVK", "MOVZ"}, n \in {1, 65535}}
  \cup {Insn("ADRP", 30, 0, 0, n) : n \in {-1, 6, 1048575}}
  \cup {Insn(op, 31, 9, 0, n) : op \in {"ADD_RI", "SUB_RI"}, n \in {0, 4095}}
  \cup {Insn(op, rd, 5, 30, 0) : op \in {"ADDS_RR", "SUBS_RR", "ANDS_RR", "MVN", "ORR_RR",
                                         "EOR_RR"}, rd \in {0, 30}}
  \cup {Insn(op, 31, 5, 30, 0) : op \in {"CMP_RR", "TST_RR"}}
  \cup {Insn(op, 1, 2, 0, n) : op \in {"LSL", "LSR", "ASR"}, n \in {1, 63}}
  \cup {Insn(op, 0, 0, 0, n) : op \in {"B", "BL"}, n \in {-33554432, -1, 33554431}}
  \cup {Insn("B_COND", 0, 0, 0, n) : n \in {-262144, -2, 262143}}
  \cup {Insn(op, 0, 30, 0, 0) : op \in {"RET", "NOP", "HLT"}}

\* The bytes of a word, the lowest first.
Bytes(w) == [k \in 1 .. 4 |-> bitfield_u32(w, 8 * (k - 1), 8)]
Programs ==
  {[headers |-> <<Load1(v, 4, 4, 0)>>, sections |-> <<Sect(".text", v), Sect(".data", v + 4)>>,
    file |-> Bytes(encode(i))] : i \in MCSamples, v \in {4, 8, 32}}

Small == [headers |-> <<Load1(4, 4, 4, 0)>>, sections |-> <<>>, file |-> <<1, 2, 3, 4>>]

\* The copy goes on for two bytes behind the file, on another page.
AtEnd == [headers |-> <<Load1(6, 2, 2, 2)>>, sections |-> <<>>, file |-> <<1, 2, 3, 4>>]

MCBoots == {[argv |-> Usual, image |-> m] : m \in Aligned \cup Programs \cup {AtEnd}}
             \cup {[argv |-> a, image |-> Small] : a \in MCArgs}
=============================================================================
