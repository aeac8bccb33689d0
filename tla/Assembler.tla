----------------------------- MODULE Assembler -----------------------------
(* The instruction formats as the architecture defines them, written from   *)
(* the side of an assembler: what Decoding has to invert.                   *)
EXTENDS Decoding

CONSTANT Samples    \* instructions the checks assemble

Field(from, width, val) == [from |-> from, width |-> width, val |-> val]
Regs(i) == {Field(5, 5, i.rn), Field(0, 5, i.rd)}
Three(i, op, rm) == {Field(21, 11, op), Field(16, 5, rm), Field(10, 6, 0)}
LoadStore(i, op) == {Field(21, 11, op), Field(12, 9, i.imm), Field(10, 2, 0)} \cup Regs(i)
Wide(i, op) == {Field(23, 9, op), Field(21, 2, i.hw), Field(5, 16, i.imm), Field(0, 5, i.rd)}
Shifted(i, op, immr, imms) ==
  {Field(22, 10, op), Field(16, 6, immr), Field(10, 6, imms)} \cup Regs(i)
Whole(op, rest) == {Field(21, 11, op), Field(0, 21, rest)}

\* The fields of the word of an instruction; together they are its 32 bits.
Layout(i) ==
  CASE i.op = "LDUR"    -> LoadStore(i, 1986)
    [] i.op = "STUR"    -> LoadStore(i, 1984)
    [] i.op = "MOVK"    -> Wide(i, 485)
    [] i.op = "MOVZ"    -> Wide(i, 421)
    [] i.op = "ADRP"    -> {Field(31, 1, 1), Field(29, 2, i.imm), Field(24, 5, 16),
                            Field(5, 19, i.imm \div 4), Field(0, 5, i.rd)}
    [] i.op = "ADD_RI"  -> {Field(22, 10, 580), Field(10, 12, i.imm)} \cup Regs(i)
    [] i.op = "SUB_RI"  -> {Field(22, 10, 836), Field(10, 12, i.imm)} \cup Regs(i)
    [] i.op = "ADDS_RR" -> Three(i, 1368, i.rm) \cup Regs(i)
    [] i.op \in {"SUBS_RR", "CMP_RR"} -> Three(i, 1880, i.rm) \cup Regs(i)
    [] i.op \in {"ANDS_RR", "TST_RR"} -> Three(i, 1872, i.rm) \cup Regs(i)
    [] i.op = "MVN"     -> Three(i, 1361, i.rm) \cup Regs(i)
    [] i.op = "ORR_RR"  -> Three(i, 1360, i.rm) \cup Regs(i)
    [] i.op = "EOR_RR"  -> Three(i, 1616, i.rm) \cup Regs(i)
    [] i.op = "LSL"     -> Shifted(i, 845, 64 - i.imm, 63 - i.imm)
    [] i.op = "LSR"     -> Shifted(i, 845, i.imm, 63)
    [] i.op = "ASR"     -> Shifted(i, 589, i.imm, 63)
    [] i.op = "B"       -> {Field(26, 6, 5), Field(0, 26, i.imm)}
    [] i.op = "BL"      -> {Field(26, 6, 37), Field(0, 26, i.imm)}
    [] i.op = "B_COND"  -> {Field(24, 8, 84), Field(5, 19, i.imm), Field(4, 1, 0),
                            Field(0, 4, i.cond)}
    [] i.op = "RET"     -> {Field(21, 11, 1714), Field(16, 5, 31), Field(10, 6, 0),
                            Field(5, 5, i.rn), Field(0, 5, 0)}
    [] i.op = "NOP"     -> Whole(1704, 204831)
    [] i.op = "HLT"     -> Whole(1698, 0)

\* Negative numbers are in two's complement: % is the residue.
encode(i) ==
  {b \in Bits : \E f \in Layout(i) :
     /\ f.from <= b /\ b < f.from + f.width
     /\ ((f.val % 2^f.width) \div 2^(b - f.from)) % 2 = 1}

\* The fields an instruction has.
Operands(op) ==
  CASE op \in {"LDUR", "STUR", "ADD_RI", "SUB_RI", "LSL", "LSR", "ASR"} -> {"rd", "rn", "imm"}
    [] op \in {"MOVK", "MOVZ"}            -> {"rd", "hw", "imm"}
    [] op = "ADRP"                        -> {"rd", "imm"}
    [] op \in {"ADDS_RR", "SUBS_RR", "ANDS_RR", "MVN", "ORR_RR", "EOR_RR"} -> {"rd", "rn", "rm"}
    [] op \in {"CMP_RR", "TST_RR"}        -> {"rn", "rm"}
    [] op \in {"B", "BL"}                 -> {"imm"}
    [] op = "B_COND"                      -> {"imm", "cond"}
    [] op = "RET"                         -> {"rn"}
    [] op \in {"NOP", "HLT"}              -> {}

\* The ALU uses the low six bits of a shift.
operand(i, f) == IF i.op \in {"LSL", "LSR", "ASR"} /\ f = "imm" THEN i.imm % 64 ELSE i[f]

\* The instruction o that was decoded is the instruction i that was meant.
Reads(o, i) == o.op = i.op /\ \A f \in Operands(i.op) : operand(o, f) = operand(i, f)

\* ADRP is relative to the page it stands on.
PageBase(pc) == pc - (pc % AdrpPage)
=============================================================================
