------------------------------- MODULE Instr -------------------------------
(***************************************************************************)
(* The instruction set as Fetch and Decode see it: instr.h,                *)
(* instr_pipeline.h and the combinational helpers of instr_Decode.c.       *)
(*                                                                         *)
(* An instruction word is the record of its fields.  rd, rn and rm are the *)
(* raw bits 0-4, 5-9 and 16-20, which proc.c reads for EVERY opcode; imm   *)
(* is the number extract_immval (or predict_PC, for branches) takes from   *)
(* the word; hw and cond are bits 21-22 and 0-3.                           *)
(***************************************************************************)
EXTENDS Words

CONSTANTS
  GPRegs,   \* register numbers: 0..30 is the GPR file, 31 the stack pointer
  HwBits,   \* bits of shift per unit of the hw field: 16 in the code
  PageBase(_)  \* the mask of predict_PC: & 0xFFFFF000 in the code

ASSUME GPRegsAssumption == GPRegs \subseteq 0..31 /\ {0, 30, 31} \subseteq GPRegs
ASSUME FieldAssumption == HwBits \in Nat /\ \A p \in Word : PageBase(p) \in Word

LR  == 30
SP  == 31
XZR == 32
NoReg == 255
RegNum == GPRegs \cup {XZR}
SrcNum == RegNum \cup {NoReg}

Opcode == {"NOP", "LDUR", "STUR", "MOVK", "MOVZ", "ADRP", "ADD_RI", "ADDS_RR",
           "SUB_RI", "SUBS_RR", "CMP_RR", "MVN", "ORR_RR", "EOR_RR", "ANDS_RR",
           "TST_RR", "LSL", "LSR", "ASR", "B", "B_COND", "BL", "RET", "HLT",
           "ERROR"}

AluOp == {"PLUS", "MINUS", "NEG", "OR", "EOR", "AND", "MOV", "LSL", "LSR",
          "ASR", "PASS_A"}

Cond == {"EQ", "NE", "CS", "CC", "MI", "PL", "VS", "VC", "HI", "LS", "GE",
         "LT", "GT", "LE", "AL", "NV"}

Flags == [n : BOOLEAN, z : BOOLEAN, c : BOOLEAN, v : BOOLEAN]

Stat == {"BUB", "AOK", "HLT", "ADR", "INS"}
Running == {"AOK", "BUB"}

Insn == [op : Opcode, rd : GPRegs, rn : GPRegs, rm : GPRegs,
         imm : Word, hw : 0..3, cond : Cond]

\* The all-zero word a bubbled D register holds (opcode 0 is OP_NOP), and the
\* halt word fetch_instr makes up.
ZeroInsn == [op |-> "NOP", rd |-> 0, rn |-> 0, rm |-> 0,
             imm |-> 0, hw |-> 0, cond |-> "EQ"]
HltInsn == [ZeroInsn EXCEPT !.op = "HLT"]

-----------------------------------------------------------------------------
(* predict_PC: branches are predicted taken, imm is their offset in words;  *)
(* ADRP takes its base from the NEXT instruction's page.                    *)

Next4(pc) == (pc + 4) % Modulus

\* Mutant: the address does not wrap.
predicted_PC_mutant(pc, insn) ==
  IF insn.op \in {"B", "BL", "B_COND"} THEN pc + 4 * insn.imm ELSE Next4(pc)

predicted_PC(pc, insn) ==
  IF insn.op \in {"B", "BL", "B_COND"} THEN (pc + 4 * insn.imm) % Modulus
  ELSE Next4(pc)
seq_succ_PC(pc, insn) ==
  IF insn.op = "ADRP" THEN PageBase(Next4(pc)) ELSE Next4(pc)

-----------------------------------------------------------------------------
(* generate_DXMW_control: the control signals of each opcode.  The two      *)
(* branches on OP_ERROR leave w_enable set: the later if overwrites it.     *)

SetsFlags == {"ADDS_RR", "ANDS_RR", "SUBS_RR", "CMP_RR", "TST_RR"}
RegOperand == SetsFlags \cup {"ORR_RR", "EOR_RR", "MVN"}
NoWrite == {"STUR", "B", "B_COND", "RET", "NOP", "HLT", "CMP_RR", "TST_RR"}

\* Mutant: a squashed slot, which is a NOP, writes its register.
W_sigs_mutant(op) == [dst_sel |-> op = "BL", wval_sel |-> op = "LDUR",
                      w_enable |-> op \notin NoWrite \ {"NOP"}]

X_sigs(op) == [valb_sel |-> op \in RegOperand, set_CC |-> op \in SetsFlags]
M_sigs(op) == [dmem_read |-> op = "LDUR", dmem_write |-> op = "STUR"]
W_sigs(op) == [dst_sel |-> op = "BL", wval_sel |-> op = "LDUR",
               w_enable |-> op \notin NoWrite]

XSigs == [valb_sel : BOOLEAN, set_CC : BOOLEAN]
MSigs == [dmem_read : BOOLEAN, dmem_write : BOOLEAN]
WSigs == [dst_sel : BOOLEAN, wval_sel : BOOLEAN, w_enable : BOOLEAN]

\* extract_immval: every other opcode gets 0.
HasImm == {"STUR", "LDUR", "MOVK", "MOVZ", "ADRP", "ADD_RI", "SUB_RI", "ASR",
           "LSL", "LSR", "B"}
extract_immval(insn) == IF insn.op \in HasImm THEN insn.imm ELSE 0

decide_alu_op(op) ==
  CASE op \in {"ADD_RI", "ADDS_RR", "LDUR", "STUR", "ADRP"} -> "PLUS"
    [] op \in {"SUB_RI", "SUBS_RR", "CMP_RR"}               -> "MINUS"
    [] op = "MVN"                                           -> "NEG"
    [] op = "ORR_RR"                                        -> "OR"
    [] op = "EOR_RR"                                        -> "EOR"
    [] op \in {"ANDS_RR", "TST_RR"}                         -> "AND"
    [] op \in {"MOVK", "MOVZ"}                              -> "MOV"
    [] op \in {"LSL", "LSR", "ASR"}                         -> op
    [] OTHER                                                -> "PASS_A"

-----------------------------------------------------------------------------
(* extract_regs: the register operands.  Register 31 is the zero register   *)
(* for the data-processing formats and the stack pointer for LDUR, STUR,    *)
(* ADD_RI, SUB_RI, and (in this code) for CMP and TST.  MOVK extracts its   *)
(* source with a sign, and 31 becomes 255, which is no register's number.   *)

zr(r) == IF r = SP THEN XZR ELSE r

ThreeReg == {"ADDS_RR", "SUBS_RR", "MVN", "ORR_RR", "EOR_RR", "ANDS_RR"}
Shift == {"LSL", "LSR", "ASR"}

\* OP_ERROR never writes src1, which is an uninitialised local: any value.
src1_of(insn) ==
  CASE insn.op \in {"STUR", "LDUR", "CMP_RR", "TST_RR", "ADD_RI", "SUB_RI"}
                                                   -> {insn.rn}
    [] insn.op \in ThreeReg \cup Shift \cup {"RET"} -> {zr(insn.rn)}
    [] insn.op = "MOVK"                            -> {IF insn.rd = SP THEN NoReg ELSE insn.rd}
    [] insn.op = "ERROR"                           -> SrcNum
    [] OTHER                                       -> {XZR}

src2_of(insn) ==
  CASE insn.op = "STUR"              -> insn.rd
    [] insn.op = "LDUR"              -> 0
    [] insn.op \in {"CMP_RR", "TST_RR"} -> insn.rm
    [] insn.op \in ThreeReg          -> zr(insn.rm)
    [] OTHER                         -> XZR

\* OP_NOP and OP_ERROR leave X_in->dst as the previous instruction left it.
dst_of(insn, stale) ==
  CASE insn.op \in {"STUR", "LDUR", "ADRP", "ADD_RI", "SUB_RI"}     -> insn.rd
    [] insn.op \in ThreeReg \cup Shift \cup {"MOVK", "MOVZ"}        -> zr(insn.rd)
    [] insn.op = "BL"                                               -> LR
    [] insn.op \in {"NOP", "ERROR"}                                 -> stale
    [] OTHER                                                        -> XZR
=============================================================================
