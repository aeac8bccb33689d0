------------------------------ MODULE Decoding ------------------------------
(***************************************************************************)
(* From the 32 bits of an instruction word to the fields Instr works on:   *)
(* the table init_itable fills, fix_instr_aliases, the bit-field helpers   *)
(* and the positions extract_immval, extract_regs and predict_PC read.     *)
(*                                                                         *)
(* A word is the set of its bits that are 1.                               *)
(***************************************************************************)
EXTENDS Integers, Sequences

CONSTANTS
  AdrpPage,   \* 2^12
  HalfWord    \* 2^32: predict_PC masks with 0xFFFFF000
ASSUME AdrpAssumption ==
  AdrpPage \in Nat \ {0} /\ AdrpPage % 4 = 0 /\ HalfWord \in Nat \ {0}

Bits == 0 .. 31

\* bitfield_u32: the shift and the mask of a word keep bits from .. from+width-1.
bitfield_u32(w, from, width) ==
  LET value[k \in 0 .. width] ==
        IF k = 0 THEN 0 ELSE value[k - 1] + (IF from + k - 1 \in w THEN 2^(k - 1) ELSE 0)
  IN  value[width]

\* Mutant: the field is not extended with its sign.
bitfield_s64_mutant(w, from, width) == bitfield_u32(w, from, width)

\* bitfield_s64: shifted up to bit 63 and back, the top bit becomes the sign.
bitfield_s64(w, from, width) ==
  LET u == bitfield_u32(w, from, width)
  IN  IF u >= 2^(width - 1) THEN u - 2^width ELSE u

-----------------------------------------------------------------------------
Entry(op, first, last) == [op |-> op, first |-> first, last |-> last]

\* The calls of init_itable, in order (the code writes the numbers in hexadecimal).
Entries ==
  << Entry("LDUR", 1986, 1986),    Entry("STUR", 1984, 1984),
     Entry("MOVK", 1940, 1943),    Entry("MOVZ", 1684, 1687),
     Entry("ADRP", 1152, 1159),    Entry("ADRP", 1408, 1415),
     Entry("ADRP", 1664, 1671),    Entry("ADRP", 1920, 1927),
     Entry("ADD_RI", 1160, 1161),  Entry("ADDS_RR", 1368, 1368),
     Entry("SUB_RI", 1672, 1673),  Entry("SUBS_RR", 1880, 1880),
     Entry("MVN", 1361, 1361),     Entry("ORR_RR", 1360, 1360),
     Entry("EOR_RR", 1616, 1616),  Entry("ANDS_RR", 1872, 1872),
     Entry("UBFM", 1690, 1691),    Entry("ASR", 1178, 1179),
     Entry("B", 160, 191),         Entry("B_COND", 672, 679),
     Entry("BL", 1184, 1215),      Entry("RET", 1714, 1714),
     Entry("NOP", 1704, 1704),     Entry("HLT", 1698, 1698) >>

Covers(e, idx) == e.first <= idx /\ idx <= e.last

\* Mutant: the ranges are filled without their last entry.
itable_mutant(idx) ==
  IF \E n \in DOMAIN Entries : Covers(Entries[n], idx + 1)
  THEN Entries[CHOOSE n \in DOMAIN Entries : Covers(Entries[n], idx + 1)].op ELSE "ERROR"

itable(idx) ==
  IF \E n \in DOMAIN Entries : Covers(Entries[n], idx)
  THEN Entries[CHOOSE n \in DOMAIN Entries : Covers(Entries[n], idx)].op ELSE "ERROR"

\* The assertions of init_itable_entry and init_itable_range.
NoEntryTwice == \A m, n \in DOMAIN Entries :
  m < n => Entries[m].last < Entries[n].first \/ Entries[n].last < Entries[m].first

fix_instr_aliases(w, op) ==
  LET low == bitfield_u32(w, 0, 5)
  IN  CASE op = "UBFM"    -> IF bitfield_u32(w, 10, 6) = 63 THEN "LSR" ELSE "LSL"
        [] op = "SUBS_RR" -> IF low = 31 THEN "CMP_RR" ELSE op
        [] op = "ANDS_RR" -> IF low = 31 THEN "TST_RR" ELSE op
        [] OTHER          -> op

opcode(w) == fix_instr_aliases(w, itable(bitfield_u32(w, 21, 11)))

-----------------------------------------------------------------------------
\* extract_immval, and for branches the offset predict_PC adds.  The value of
\* ADRP is counted in pages; shifted into place it loses its top bit.
immediate(w, op) ==
  CASE op \in {"LDUR", "STUR"}            -> bitfield_u32(w, 12, 9)
    [] op \in {"MOVK", "MOVZ"}            -> bitfield_u32(w, 5, 16)
    [] op = "ADRP" -> (bitfield_u32(w, 5, 19) * 4 + bitfield_u32(w, 29, 2)) % 2^20
    [] op \in {"ADD_RI", "SUB_RI", "ASR"} -> bitfield_u32(w, 10, 12)
    [] op = "LSL"                         -> 64 - bitfield_u32(w, 16, 6)
    [] op = "LSR"                         -> bitfield_u32(w, 16, 6)
    [] op \in {"B", "BL"}                 -> bitfield_s64(w, 0, 26)
    [] op = "B_COND"                      -> bitfield_s64(w, 5, 19)
    [] OTHER                              -> 0

\* The base ADRP adds its pages to.
adrp_base(pc) == ((pc + 4) % HalfWord) - ((pc + 4) % AdrpPage)

\* The fields of Instr.
decode(w) ==
  LET op == opcode(w)
  IN  [op |-> op, imm |-> immediate(w, op),
       rd |-> bitfield_u32(w, 0, 5), rn |-> bitfield_u32(w, 5, 5),
       rm |-> bitfield_u32(w, 16, 5), hw |-> bitfield_u32(w, 21, 2),
       cond |-> bitfield_u32(w, 0, 4)]
=============================================================================
