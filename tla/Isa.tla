-------------------------------- MODULE Isa --------------------------------
(***************************************************************************)
(* What the pipeline promises: the same instructions executed one at a     *)
(* time, each completely before the next.  No pipeline registers, no       *)
(* prediction, no forwarding.                                              *)
(*                                                                         *)
(* stat is AOK while the machine runs and HLT after a halt or a return     *)
(* from main.  The three other values end what is promised: a bad fetch    *)
(* (INS), a bad data address (ADR), the end of the process inside an       *)
(* access (EXIT) and a program that leaves the patterns the pipeline       *)
(* handles (UNSPECIFIED).                                                  *)
(***************************************************************************)
EXTENDS Instr, DataMem

CONSTANTS TextAddrs, SP0, entry,
          AluRes(_, _, _, _), AluFlags(_, _, _, _), cond_holds(_, _)

VARIABLES imem, pc, gpr, cc, mem, out, stat

vars == <<imem, pc, gpr, cc, mem, out, stat>>

Init ==
  /\ imem \in [TextAddrs -> Insn]
  /\ pc = entry
  /\ gpr = [r \in GPRegs |-> IF r = SP THEN SP0 ELSE 0]
  /\ cc = [n |-> FALSE, z |-> TRUE, c |-> FALSE, v |-> FALSE]
  /\ mem = InitMem /\ out = <<>>
  /\ stat = "AOK"

read(r) == IF r \in GPRegs THEN gpr[r] ELSE 0
write(r, v) == IF r \in GPRegs THEN [gpr EXCEPT ![r] = v] ELSE gpr

insn == imem[pc]

\* Every defined opcode has exactly one first source.
operand1 ==
  IF insn.op = "MVN" THEN 0
  ELSE IF insn.op \in {"BL", "ADRP"} THEN seq_succ_PC(pc, insn)
  ELSE read(CHOOSE r \in src1_of(insn) : TRUE)
operand2 == IF insn.op \in RegOperand THEN read(src2_of(insn)) ELSE extract_immval(insn)
shift == IF insn.op \in {"MOVK", "MOVZ"} THEN HwBits * insn.hw ELSE 0
result == AluRes(decide_alu_op(insn.op), operand1, operand2, shift)
flags == AluFlags(decide_alu_op(insn.op), operand1, operand2, shift)

\* Where the program goes after the instruction at pc.
NextPC ==
  IF pc \notin TextAddrs THEN pc
  ELSE IF insn.op = "RET" THEN operand1
  ELSE IF insn.op = "B_COND" /\ ~cond_holds(insn.cond, cc) THEN Next4(pc)
  ELSE predicted_PC(pc, insn)

At(ops) == stat = "AOK" /\ pc \in TextAddrs /\ insn.op \in ops
Advance == pc' = NextPC /\ stat' = "AOK" /\ UNCHANGED imem

Compute ==
  /\ At(Opcode \ {"LDUR", "STUR", "HLT", "ERROR"})
  /\ gpr' = IF insn.op \in NoWrite THEN gpr ELSE write(dst_of(insn, XZR), result)
  /\ cc' = IF insn.op \in SetsFlags THEN flags ELSE cc
  /\ Advance
  /\ UNCHANGED <<mem, out>>

Load ==
  /\ At({"LDUR"}) /\ ~dmem_err(result) /\ result # NULL_ADDR
  /\ \E v \in Word :
       /\ \/ result = IO_CHAR_ADDR /\ v \in Input
          \/ result = CHECKPOINT_ADDR /\ v = 0
          \/ result \in Cells /\ v = mem[result]
       /\ gpr' = write(insn.rd, v)
  /\ Advance
  /\ UNCHANGED <<cc, mem, out>>

Store ==
  /\ At({"STUR"}) /\ ~dmem_err(result) /\ result # CHECKPOINT_ADDR
  /\ mem' = IF result \in Cells THEN [mem EXCEPT ![result] = read(insn.rd)] ELSE mem
  /\ out' = IF result = IO_CHAR_ADDR THEN Append(out, read(insn.rd)) ELSE out
  /\ Advance
  /\ UNCHANGED <<gpr, cc>>

Halt ==
  /\ stat = "AOK" /\ (pc = 0 \/ At({"HLT"}))
  /\ stat' = "HLT"
  /\ UNCHANGED <<imem, gpr, cc, mem, out>>

BadInsn ==
  /\ stat = "AOK" /\ pc # 0 /\ (pc \notin TextAddrs \/ At({"ERROR"}))
  /\ stat' = "INS"

BadAddress ==
  /\ At({"LDUR", "STUR"}) /\ dmem_err(result)
  /\ stat' = "ADR"

LeavesEmulator ==
  /\ \/ At({"LDUR"}) /\ result = NULL_ADDR
     \/ At({"STUR"}) /\ result = CHECKPOINT_ADDR
  /\ stat' = "EXIT"

Ended == stat \notin {"AOK", "HLT"} /\ stat' = stat

Unspecified == stat' = "UNSPECIFIED"

Next == Compute \/ Load \/ Store \/ Halt \/ BadInsn \/ BadAddress
        \/ LeavesEmulator \/ Ended \/ Unspecified

Spec == Init /\ [][Next]_vars
=============================================================================
