--------------------------- MODULE PipelineProofs ---------------------------
(***************************************************************************)
(* Theorems about the pipeline for every program, word size, register set, *)
(* ALU, cache delay and cycle limit.                                       *)
(***************************************************************************)
EXTENDS Pipeline, TLAPS

USE ModulusAssumption, SegAssumption, DataAssumption, CacheAssumption

(* The countdown of an access in flight leaves a memory system, whatever    *)
(* the state it finds: _mem_read_cache and _mem_write_cache.                *)
LEMMA MissStepType ==
  ASSUME NEW m \in MemSys, NEW a \in Word
  PROVE  MissStep(m, a) \in MemSys
<1>1. block_of(a) \in Word
  BY DEF block_of, Word
<1>2. CountDown(m, a) \in Word
  BY <1>1 DEF CountDown, Word, MemSys
<1> QED
  BY <1>1, <1>2 DEF MissStep, MemSys, MemStatus, Exit

(* Every read yields a word and a memory system.                            *)
LEMMA ReadType ==
  ASSUME NEW m \in MemSys, NEW a \in Word, NEW r \in mem_read(m, a)
  PROVE  r.ms \in MemSys /\ r.val \in Word
<1>1. 0 \in Word
  BY DEF Word
<1>2. CASE a = NULL_ADDR
  BY <1>1, <1>2 DEF mem_read, MemSys, Exit
<1>3. CASE a # NULL_ADDR /\ a = IO_CHAR_ADDR
  BY <1>3 DEF mem_read
<1>4. CASE a # NULL_ADDR /\ a # IO_CHAR_ADDR /\ a = CHECKPOINT_ADDR
  BY <1>1, <1>4 DEF mem_read
<1>5. CASE /\ a \notin {NULL_ADDR, IO_CHAR_ADDR, CHECKPOINT_ADDR}
           /\ UsesCache(a)
  BY <1>1, <1>5, MissStepType DEF mem_read
<1>6. CASE /\ a \notin {NULL_ADDR, IO_CHAR_ADDR, CHECKPOINT_ADDR}
           /\ ~UsesCache(a) /\ a \in Cells
  BY <1>6 DEF mem_read, MemSys
<1>7. CASE /\ a \notin {NULL_ADDR, IO_CHAR_ADDR, CHECKPOINT_ADDR}
           /\ ~UsesCache(a) /\ a \notin Cells
  BY <1>7 DEF mem_read
<1> QED
  BY <1>2, <1>3, <1>4, <1>5, <1>6, <1>7

(* Every write yields a memory system.                                      *)
LEMMA WriteType ==
  ASSUME NEW m \in MemSys, NEW a \in Word, NEW v \in Word, NEW w \in mem_write(m, a, v)
  PROVE  w \in MemSys
<1>1. CASE a = NULL_ADDR
  BY <1>1 DEF mem_write
<1>2. CASE a # NULL_ADDR /\ a = IO_CHAR_ADDR
  <2>1. w = [m EXCEPT !.out = Append(@, v)]
    BY <1>2 DEF mem_write
  <2>2. Append(m.out, v) \in Seq(Word)
    BY DEF MemSys
  <2> QED
    BY <2>1, <2>2 DEF MemSys
<1>3. CASE a # NULL_ADDR /\ a # IO_CHAR_ADDR /\ a = CHECKPOINT_ADDR
  BY <1>3 DEF mem_write, MemSys, Exit
<1>4. CASE /\ a \notin {NULL_ADDR, IO_CHAR_ADDR, CHECKPOINT_ADDR}
           /\ UsesCache(a)
  BY <1>4, MissStepType DEF mem_write
<1>5. CASE /\ a \notin {NULL_ADDR, IO_CHAR_ADDR, CHECKPOINT_ADDR}
           /\ ~UsesCache(a) /\ a \in Cells
  <2>1. w = [m EXCEPT !.mem = [@ EXCEPT ![a] = v]]
    BY <1>5 DEF mem_write
  <2> QED
    BY <2>1 DEF MemSys
<1>6. CASE /\ a \notin {NULL_ADDR, IO_CHAR_ADDR, CHECKPOINT_ADDR}
           /\ ~UsesCache(a) /\ a \notin Cells
  <2>1. PICK n \in Smear(m.mem, a) : w = [m EXCEPT !.mem = n]
    BY <1>6 DEF mem_write
  <2>2. n \in [Cells -> Word]
    BY DEF Smear, MemSys
  <2> QED
    BY <2>1, <2>2 DEF MemSys
<1> QED
  BY <1>1, <1>2, <1>3, <1>4, <1>5, <1>6

(* Every outcome of dmem is a word and a memory system, and imem's read     *)
(* leaves a memory system.                                                  *)
LEMMA DmemType ==
  ASSUME NEW m \in MemSys, NEW a \in Word, NEW v \in Word, NEW old \in Word,
         NEW rd \in BOOLEAN, NEW wr \in BOOLEAN,
         NEW r \in dmem(m, a, v, rd, wr, old)
  PROVE  r.ms \in MemSys /\ r.val \in Word
<1> DEFINE reads == IF rd THEN mem_read(m, a) ELSE {[ms |-> m, val |-> old]}
<1>1. \A x \in reads : x.ms \in MemSys /\ x.val \in Word
  BY ReadType
<1>2. CASE ~wr
  BY <1>1, <1>2 DEF dmem
<1>3. CASE wr
  <2>1. PICK x \in reads : \E w \in mem_write(x.ms, a, v) : r = [ms |-> w, val |-> x.val]
    BY <1>3 DEF dmem
  <2>2. x.ms \in MemSys /\ x.val \in Word
    BY <1>1
  <2> HIDE DEF reads
  <2> QED
    BY <2>1, <2>2, WriteType
<1> QED
  BY <1>2, <1>3

(* A fetch, inside the text segment or not, leaves a memory system.         *)
LEMMA IfetchType ==
  ASSUME NEW m \in MemSys, NEW a \in Word
  PROVE  ifetch(m, a) \in MemSys
BY MissStepType DEF ifetch

(* The memory system the run starts with.                                   *)
LEMMA InitMemSysType == InitMemSys \in MemSys
BY DEF InitMemSys, MemSys, MemStatus, Exit, Word

-----------------------------------------------------------------------------

(* The values the run starts with and bubbles are made of.                  *)
LEMMA Zeros ==
  /\ 0 \in Word /\ RET_FROM_MAIN_ADDR \in Word /\ entry \in Word
  /\ 0 \in ValHw /\ 0 \in GPRegs /\ LR \in GPRegs /\ SP \in GPRegs
  /\ 0 \in RegNum /\ LR \in RegNum /\ XZR \in RegNum
<1>1. 0 \in Word /\ RET_FROM_MAIN_ADDR \in Word /\ entry \in Word
  BY ModulusAssumption, SegAssumption, ParamAssumption DEF Word, RET_FROM_MAIN_ADDR
<1>2. 0 \in ValHw
  <2>1. HwBits * 0 = 0 /\ 0 \in 0..3
    BY FieldAssumption
  <2> QED
    BY <2>1 DEF ValHw
<1>3. /\ 0 \in GPRegs /\ LR \in GPRegs /\ SP \in GPRegs
      /\ 0 \in RegNum /\ LR \in RegNum /\ XZR \in RegNum
  BY GPRegsAssumption DEF RegNum, LR, SP, XZR
<1> QED
  BY <1>1, <1>2, <1>3

(* The two instruction words the code makes up are instructions.            *)
LEMMA ZeroInsnType == ZeroInsn \in Insn /\ HltInsn \in Insn
<1>1. 0 \in Word /\ 0 \in GPRegs /\ 0 \in 0..3
  BY Zeros
<1>2. ZeroInsn \in Insn
  BY <1>1 DEF ZeroInsn, Insn, Opcode, Cond
<1>3. "HLT" \in Opcode
  BY DEF Opcode
<1> QED
  BY <1>2, <1>3 DEF HltInsn, Insn

(* A bubble of each register has the type of the register.                  *)
LEMMA BubbleTypes ==
  /\ F_bubble \in FReg /\ D_bubble \in DReg /\ X_bubble \in XReg
  /\ M_bubble \in MReg /\ W_bubble \in WReg
<1>1. "BUB" \in Stat /\ "NOP" \in Opcode /\ "PLUS" \in AluOp /\ "EQ" \in Cond
  BY DEF Stat, Opcode, AluOp, Cond
<1>2. NoXSigs \in XSigs /\ NoMSigs \in MSigs /\ NoWSigs \in WSigs
  BY DEF NoXSigs, NoMSigs, NoWSigs, XSigs, MSigs, WSigs
<1>3. F_bubble \in FReg /\ D_bubble \in DReg
  BY <1>1, Zeros, ZeroInsnType DEF F_bubble, FReg, D_bubble, DReg
<1>4. X_bubble \in XReg
  BY <1>1, <1>2, Zeros DEF X_bubble, XReg
<1>5. M_bubble \in MReg /\ W_bubble \in WReg
  BY <1>1, <1>2, Zeros DEF M_bubble, MReg, W_bubble, WReg
<1> QED
  BY <1>3, <1>4, <1>5

-----------------------------------------------------------------------------
(* What Decode takes from an instruction.                                   *)

(* extract_regs yields register numbers.                                    *)
LEMMA RegTypes ==
  ASSUME NEW i \in Insn, NEW old \in RegNum
  PROVE  /\ src1_of(i) \subseteq SrcNum
         /\ src2_of(i) \in RegNum
         /\ dst_of(i, old) \in RegNum
<1>1. i.rd \in RegNum /\ i.rn \in RegNum /\ i.rm \in RegNum
  BY DEF Insn, RegNum
<1>2. zr(i.rd) \in RegNum /\ zr(i.rn) \in RegNum /\ zr(i.rm) \in RegNum
  BY <1>1, Zeros DEF zr
<1>3. src1_of(i) \subseteq SrcNum
  BY <1>1, <1>2, Zeros DEF src1_of, SrcNum
<1>4. src2_of(i) \in RegNum
  BY <1>1, <1>2, Zeros DEF src2_of
<1>5. dst_of(i, old) \in RegNum
  BY <1>1, <1>2, Zeros DEF dst_of
<1> QED
  BY <1>3, <1>4, <1>5

(* The control signals, ALU operation and immediate Decode picks.           *)
LEMMA ControlTypes ==
  ASSUME NEW i \in Insn
  PROVE  /\ X_sigs(i.op) \in XSigs /\ M_sigs(i.op) \in MSigs /\ W_sigs(i.op) \in WSigs
         /\ decide_alu_op(i.op) \in AluOp
         /\ extract_immval(i) \in Word
<1>1. X_sigs(i.op) \in XSigs /\ M_sigs(i.op) \in MSigs /\ W_sigs(i.op) \in WSigs
  BY DEF X_sigs, M_sigs, W_sigs, XSigs, MSigs, WSigs
<1>2. decide_alu_op(i.op) \in AluOp
  BY DEF decide_alu_op, AluOp
<1>3. extract_immval(i) \in Word
  BY Zeros DEF extract_immval, Insn
<1> QED
  BY <1>1, <1>2, <1>3

(* The predicted and the sequential PC are addresses.                       *)
LEMMA PCTypes ==
  ASSUME NEW pc \in Word, NEW i \in Insn
  PROVE  predicted_PC(pc, i) \in Word /\ seq_succ_PC(pc, i) \in Word
<1>1. Next4(pc) \in Word
  BY ModulusAssumption DEF Next4, Word
<1>2. predicted_PC(pc, i) \in Word
  <2>1. i.imm \in Nat /\ pc \in Nat
    BY ModulusAssumption DEF Insn, Word
  <2>2. (pc + 4 * i.imm) % Modulus \in Word
    BY <2>1, ModulusAssumption DEF Word
  <2> QED
    BY <1>1, <2>2 DEF predicted_PC
<1>3. PageBase(Next4(pc)) \in Word
  BY <1>1, FieldAssumption
<1> QED
  BY <1>1, <1>2, <1>3 DEF seq_succ_PC

-----------------------------------------------------------------------------
(* init_machine and the first lines of runElf establish the types.          *)
LEMMA InitType == Init => TypeOK
<1> SUFFICES ASSUME Init PROVE TypeOK
  OBVIOUS
<1>1. imem \in [TextAddrs -> Insn]
  BY ProgramAssumption DEF Init
<1>2. gpr \in [GPRegs -> Word] /\ cc \in Flags /\ ms \in MemSys
  BY ParamAssumption, Zeros, InitMemSysType DEF Init, Flags
<1>3. F_out \in FReg
  BY Zeros DEF Init, FReg, Stat
<1>4. ctl \in [PipeReg -> PipeCtl]
  BY DEF Init, PipeCtl
<1>5. /\ F_in \in FReg /\ D_in \in DReg /\ D_out \in DReg /\ X_in \in XReg /\ X_out \in XReg
      /\ M_in \in MReg /\ M_out \in MReg /\ W_in \in WReg /\ W_out \in WReg
  BY BubbleTypes DEF Init
<1>6. /\ F_PC \in Word /\ X_condval \in BOOLEAN /\ W_wval \in Word
      /\ status \in Stat /\ num_instr \in Nat /\ stage \in Stage
  BY Zeros DEF Init, Stat, Stage
<1> QED
  BY <1>1, <1>2, <1>3, <1>4, <1>5, <1>6 DEF TypeOK

(* wback_instr keeps the types.                                             *)
LEMMA WbackType == TypeOK /\ wback_instr => TypeOK'
<1> SUFFICES ASSUME TypeOK, wback_instr PROVE TypeOK'
  OBVIOUS
<1>1. W_wval' \in Word
  BY DEF TypeOK, wback_instr, WReg
<1>2. stage' \in Stage
  BY DEF wback_instr, Stage
<1> QED
  BY <1>1, <1>2 DEF TypeOK, wback_instr, arch, ins, outs

(* memory_instr keeps the types, whatever the access does.                  *)
LEMMA MemoryType == TypeOK /\ memory_instr => TypeOK'
<1> SUFFICES ASSUME TypeOK, memory_instr PROVE TypeOK'
  OBVIOUS
<1> DEFINE access == M_out.M_sigs.dmem_read \/ M_out.M_sigs.dmem_write
           addr_err == access /\ dmem_err(M_out.val_ex)
           result == IF access
                     THEN dmem(ms, M_out.val_ex, M_out.val_b, M_out.M_sigs.dmem_read,
                               M_out.M_sigs.dmem_write, W_in.val_mem)
                     ELSE {[ms |-> ms, val |-> W_in.val_mem]}
<1>1. PICK r \in result :
        /\ ms' = r.ms
        /\ stage' = IF r.ms.exit = "no" THEN "execute" ELSE "stop"
        /\ W_in' = [op |-> M_out.op, W_sigs |-> M_out.W_sigs, val_b |-> M_out.val_b,
                    dst |-> M_out.dst, val_ex |-> M_out.val_ex, val_mem |-> r.val,
                    status |-> IF addr_err THEN "ADR" ELSE M_out.status]
  BY DEF memory_instr
<1>2. r.ms \in MemSys /\ r.val \in Word
  <2>1. M_out.val_ex \in Word /\ M_out.val_b \in Word /\ W_in.val_mem \in Word
        /\ M_out.M_sigs.dmem_read \in BOOLEAN /\ M_out.M_sigs.dmem_write \in BOOLEAN
        /\ ms \in MemSys
    BY DEF TypeOK, MReg, WReg, MSigs
  <2>2. CASE access
    BY <2>1, <2>2, DmemType
  <2>3. CASE ~access
    BY <2>1, <2>3
  <2> QED
    BY <2>2, <2>3
<1>3. W_in' \in WReg
  <2>1. (IF addr_err THEN "ADR" ELSE M_out.status) \in Stat
    BY DEF TypeOK, MReg, Stat
  <2> HIDE DEF addr_err
  <2> QED
    BY <1>1, <1>2, <2>1 DEF TypeOK, MReg, WReg
<1>4. ms' \in MemSys /\ stage' \in Stage
  BY <1>1, <1>2 DEF Stage
<1> QED
  BY <1>3, <1>4 DEF TypeOK, memory_instr, outs, wires

(* execute_instr keeps the types, whatever the ALU computes.                *)
LEMMA ExecuteType == TypeOK /\ execute_instr => TypeOK'
<1> SUFFICES ASSUME TypeOK, execute_instr PROVE TypeOK'
  OBVIOUS
<1> DEFINE a  == IF X_out.op = "BL" THEN X_out.seq_succ_PC ELSE X_out.val_a
           b  == IF X_out.X_sigs.valb_sel THEN X_out.val_b ELSE X_out.val_imm
           fl == IF X_out.X_sigs.set_CC
                 THEN AluFlags(X_out.ALU_op, a, b, X_out.val_hw) ELSE cc
           cv == cond_holds(X_out.cond, fl)
           res == AluRes(X_out.ALU_op, a, b, X_out.val_hw)
<1>1. a \in Word /\ b \in Word
  BY DEF TypeOK, XReg
<1>2. res \in Word /\ fl \in Flags
  <2> HIDE DEF a, b
  <2> QED
    BY <1>1, AluAssumption DEF TypeOK, XReg
<1>3. cv \in BOOLEAN
  <2> HIDE DEF fl
  <2> QED
    BY <1>2, CondAssumption DEF TypeOK, XReg
<1>4. /\ cc' = fl /\ X_condval' = cv /\ X_out' = [X_out EXCEPT !.val_a = a]
      /\ M_in' = [op |-> X_out.op, seq_succ_PC |-> X_out.seq_succ_PC,
                  cond_holds |-> cv, M_sigs |-> X_out.M_sigs,
                  W_sigs |-> X_out.W_sigs, val_b |-> X_out.val_b, dst |-> X_out.dst,
                  val_ex |-> res, status |-> X_out.status]
  BY DEF execute_instr
<1> HIDE DEF a, b, fl, cv, res
<1>5. X_out' \in XReg
  BY <1>1, <1>4 DEF TypeOK, XReg
<1>6. M_in' \in MReg
  BY <1>2, <1>3, <1>4 DEF TypeOK, XReg, MReg
<1>7. stage' \in Stage
  BY DEF execute_instr, Stage
<1> QED
  BY <1>2, <1>3, <1>4, <1>5, <1>6, <1>7 DEF TypeOK, execute_instr

(* Every operand Decode picks is a word.                                    *)
LEMMA OperandType ==
  ASSUME TypeOK, NEW r \in SrcNum
  PROVE  Operand(r) \in Word
<1>1. regread(r) \in Word
  BY Zeros DEF TypeOK, regread
<1>2. /\ ForwardX.val_ex \in Word /\ ForwardM.val_ex \in Word /\ ForwardM.val_mem \in Word
      /\ ForwardW.val_ex \in Word /\ ForwardW.val_mem \in Word
  BY DEF TypeOK, ForwardX, ForwardM, ForwardW, MReg, WReg
<1> QED
  BY <1>1, <1>2 DEF Operand, forward_reg, Result

(* decode_instr keeps the types.                                            *)
LEMMA DecodeType == TypeOK /\ decode_instr => TypeOK'
<1> SUFFICES ASSUME TypeOK, decode_instr PROVE TypeOK'
  OBVIOUS
<1> DEFINE insn == D_out.insn
           stat == IF insn.op = "HLT" THEN "HLT" ELSE D_out.status
<1>1. insn \in Insn /\ stat \in Stat /\ D_out.seq_succ_PC \in Word /\ X_in.dst \in RegNum
      /\ X_in.cond \in Cond
  BY DEF TypeOK, DReg, XReg, Stat
<1>2. PICK src1 \in src1_of(insn) :
        /\ D_out' = [D_out EXCEPT !.status = stat]
        /\ X_in' = [op |-> insn.op, seq_succ_PC |-> D_out.seq_succ_PC,
                    X_sigs |-> X_sigs(insn.op), M_sigs |-> M_sigs(insn.op),
                    W_sigs |-> W_sigs(insn.op), ALU_op |-> decide_alu_op(insn.op),
                    cond |-> IF insn.op = "B_COND" THEN insn.cond ELSE X_in.cond,
                    val_a |-> IF insn.op = "MVN" THEN 0
                              ELSE IF insn.op \in {"BL", "ADRP"} THEN D_out.seq_succ_PC
                              ELSE Operand(src1),
                    val_b |-> IF insn.op = "BL" THEN 0 ELSE Operand(src2_of(insn)),
                    val_imm |-> extract_immval(insn),
                    val_hw |-> IF insn.op \in {"MOVK", "MOVZ"}
                               THEN HwBits * insn.hw ELSE 0,
                    dst |-> dst_of(insn, X_in.dst), status |-> stat]
  BY DEF decode_instr
<1> HIDE DEF insn, stat
<1>3. /\ src1 \in SrcNum /\ src2_of(insn) \in SrcNum /\ dst_of(insn, X_in.dst) \in RegNum
  BY <1>1, RegTypes DEF SrcNum
<1>4. Operand(src1) \in Word /\ Operand(src2_of(insn)) \in Word
  BY <1>3, OperandType
<1>5. HwBits * insn.hw \in ValHw
  BY <1>1 DEF ValHw, Insn
<1>6. insn.op \in Opcode /\ insn.cond \in Cond
  BY <1>1 DEF Insn
<1>7. X_in' \in XReg
  BY <1>1, <1>2, <1>3, <1>4, <1>5, <1>6, ControlTypes, Zeros DEF XReg
<1>8. D_out' \in DReg
  BY <1>1, <1>2 DEF TypeOK, DReg
<1>9. gpr' \in [GPRegs -> Word]
  <2>1. gpr' = regwrite
    BY DEF decode_instr
  <2> QED
    BY <2>1 DEF TypeOK, regwrite
<1>10. stage' \in Stage
  BY DEF decode_instr, Stage
<1> QED
  BY <1>7, <1>8, <1>9, <1>10 DEF TypeOK, decode_instr, wires

(* The PC selected for a fetch is an address.                               *)
LEMMA SelectType == TypeOK => select_PC \in Word
BY Zeros DEF TypeOK, select_PC, FReg, XReg, MReg

(* fetch_instr keeps the types, in both of its branches.                    *)
LEMMA FetchType == TypeOK /\ fetch_instr => TypeOK'
<1> SUFFICES ASSUME TypeOK, fetch_instr PROVE TypeOK'
  OBVIOUS
<1>0. /\ UNCHANGED <<imem, gpr, cc, X_in, M_in, W_in, D_out, X_out, M_out, W_out,
                     X_condval, W_wval, status, ctl, num_instr>>
      /\ FetchHalt \/ FetchWord(select_PC)
  BY DEF fetch_instr
<1>1. CASE FetchHalt
  <2>1. "HLT" \in Stat
    BY DEF Stat
  <2>2. D_in' \in DReg /\ F_in' \in FReg /\ F_out' \in FReg
    BY <1>1, <2>1, ZeroInsnType DEF FetchHalt, TypeOK, DReg, FReg
  <2>3. stage' \in Stage /\ UNCHANGED <<ms, F_PC>>
    BY <1>1 DEF FetchHalt, Stage
  <2> QED
    BY <1>0, <2>2, <2>3 DEF TypeOK
<1>2. CASE FetchWord(select_PC)
  <2> DEFINE pc == select_PC
             stat(i) == IF imem_err(pc) \/ i.op = "ERROR" THEN "INS"
                        ELSE IF i.op = "HLT" THEN "HLT" ELSE "AOK"
  <2>1. PICK i \in imem_words(pc) :
          /\ ms' = ifetch(ms, pc)
          /\ D_in' = [insn |-> i, seq_succ_PC |-> seq_succ_PC(pc, i), status |-> stat(i)]
          /\ F_in' = Latch(stat(i))
          /\ F_out' = [F_out EXCEPT !.status = stat(i)]
          /\ F_PC' = predicted_PC(pc, i)
          /\ stage' = IF ms'.exit = "no" THEN "hazards" ELSE "stop"
    BY <1>2 DEF FetchWord
  <2>2. pc \in Word
    BY SelectType
  <2>3. i \in Insn
    BY ProgramAssumption DEF imem_words, TypeOK
  <2>4. stat(i) \in Stat
    BY DEF Stat
  <2> HIDE DEF pc, stat
  <2>5. D_in' \in DReg
    BY <2>1, <2>2, <2>3, <2>4, PCTypes DEF DReg
  <2>6. F_in' \in FReg /\ F_out' \in FReg
    BY <2>1, <2>4 DEF Latch, TypeOK, FReg
  <2>7. F_PC' \in Word /\ ms' \in MemSys /\ stage' \in Stage
    BY <2>1, <2>2, <2>3, PCTypes, IfetchType DEF TypeOK, Stage
  <2> QED
    BY <1>0, <2>5, <2>6, <2>7 DEF TypeOK
<1> QED
  BY <1>0, <1>1, <1>2

(* The status and hazard logic of runElf keeps the types.                   *)
LEMMA HazardsType == TypeOK /\ hazards => TypeOK'
<1> SUFFICES ASSUME TypeOK, hazards PROVE TypeOK'
  OBVIOUS
<1>1. F_in' \in FReg
  BY DEF hazards, TypeOK, FReg
<1>2. status' \in Stat
  BY DEF hazards, MachineStatus, TypeOK, WReg
<1>3. \A p, s : pipe_control_stage(p, s) \in PipeCtl
  BY DEF pipe_control_stage, PipeCtl
<1>4. ctl' \in [PipeReg -> PipeCtl]
  BY <1>3 DEF hazards
<1>5. stage' \in Stage
  BY DEF hazards, Stage
<1> QED
  BY <1>1, <1>2, <1>4, <1>5 DEF TypeOK, hazards, arch, outs, wires

(* The clock edge keeps the types.                                          *)
LEMMA ClockType == TypeOK /\ clock => TypeOK'
<1> SUFFICES ASSUME TypeOK, clock PROVE TypeOK'
  OBVIOUS
<1>1. \A r \in PipeReg : ctl[r] \in {"LOAD", "ERROR", "BUBBLE", "STALL"}
  BY DEF TypeOK, PipeCtl
<1>2. F_out' \in FReg /\ D_out' \in DReg
  BY <1>1, BubbleTypes DEF clock, Edge, TypeOK, PipeReg
<1>3. X_out' \in XReg /\ M_out' \in MReg /\ W_out' \in WReg
  BY <1>1, BubbleTypes DEF clock, Edge, TypeOK, PipeReg
<1>4. status' \in Stat /\ num_instr' \in Nat /\ stage' \in Stage
  BY DEF clock, TypeOK, Stat, Stage
<1> QED
  BY <1>2, <1>3, <1>4 DEF TypeOK, clock, arch, ins, wires

(* Every step keeps the type invariant.                                     *)
LEMMA NextType == TypeOK /\ [Next]_vars => TypeOK'
<1> SUFFICES ASSUME TypeOK, [Next]_vars PROVE TypeOK'
  OBVIOUS
<1>1. CASE wback_instr
  BY <1>1, WbackType
<1>2. CASE memory_instr
  BY <1>2, MemoryType
<1>3. CASE execute_instr
  BY <1>3, ExecuteType
<1>4. CASE decode_instr
  BY <1>4, DecodeType
<1>5. CASE fetch_instr
  BY <1>5, FetchType
<1>6. CASE hazards
  BY <1>6, HazardsType
<1>7. CASE clock
  BY <1>7, ClockType
<1>8. CASE UNCHANGED vars
  BY <1>8 DEF TypeOK, vars, arch, ins, outs, wires, loop
<1> QED
  BY <1>1, <1>2, <1>3, <1>4, <1>5, <1>6, <1>7, <1>8 DEF Next

(* Every variable keeps its type in every run of the emulator.              *)
THEOREM TypeCorrect == Spec => []TypeOK
<1>1. Init => TypeOK
  BY InitType
<1>2. TypeOK /\ [Next]_vars => TypeOK'
  BY NextType
<1> QED
  BY <1>1, <1>2, PTL DEF Spec
=============================================================================
