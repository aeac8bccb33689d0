--------------------------- MODULE LockstepProofs ---------------------------
(***************************************************************************)
(* The pipeline implements the sequential machine, for every program, word *)
(* size, register set, ALU and branch condition.                           *)
(*                                                                         *)
(* The invariant says of every pipeline register which instruction of the  *)
(* program's path it holds: the next one to take effect is at apc, and the *)
(* younger ones follow it in Execute, Decode and Fetch, unless their slot  *)
(* is empty or holds an instruction off the path.                          *)
(***************************************************************************)
EXTENDS Lockstep, DatapathProofs

(* The sequential machine says nothing of the words around the text segment, *)
(* but Decode makes a halt or a memory access of such a word if it looks    *)
(* like one.                                                                *)
QuietJunk == \A i \in JunkInsn : i.op \notin {"HLT", "LDUR", "STUR"}

-----------------------------------------------------------------------------
(* What the instruction i at address p computes from the registers R and    *)
(* the flags c: Isa's operators for any instruction of the path.            *)
reg(R, r) == IF r \in GPRegs THEN R[r] ELSE 0
first(p, i, R) ==
  IF i.op = "MVN" THEN 0
  ELSE IF i.op \in {"BL", "ADRP"} THEN seq_succ_PC(p, i)
  ELSE reg(R, CHOOSE r \in src1_of(i) : TRUE)
second(i, R) == IF i.op \in RegOperand THEN reg(R, src2_of(i)) ELSE extract_immval(i)
shift_of(i) == IF i.op \in {"MOVK", "MOVZ"} THEN HwBits * i.hw ELSE 0
value(p, i, R) == AluRes(decide_alu_op(i.op), first(p, i, R), second(i, R), shift_of(i))
flags_of(p, i, R) == AluFlags(decide_alu_op(i.op), first(p, i, R), second(i, R), shift_of(i))
target(p, i, R, c) ==
  IF i.op = "RET" THEN first(p, i, R)
  ELSE IF i.op = "B_COND" /\ ~cond_holds(i.cond, c) THEN Next4(p)
  ELSE predicted_PC(p, i)

\* What the sequential machine finds at an address of the text segment T.
HaltAt(T, p) == p = 0 \/ (p \in TextAddrs /\ T[p].op = "HLT")
BadAt(T, p)  == p # 0 /\ (p \notin TextAddrs \/ T[p].op = "ERROR")
Plain(T, p)  == p \in TextAddrs /\ T[p].op \notin {"HLT", "ERROR"}

-----------------------------------------------------------------------------
(* A pipeline register holds the instruction at p.                          *)
Computes == Opcode \ {"NOP", "B", "B_COND", "HLT", "ERROR"}

DecodedX(X, p, i, R) ==
  /\ X.op = i.op /\ X.status = "AOK" /\ X.seq_succ_PC = seq_succ_PC(p, i)
  /\ X.X_sigs = X_sigs(i.op) /\ X.M_sigs = M_sigs(i.op) /\ X.W_sigs = W_sigs(i.op)
  /\ X.ALU_op = decide_alu_op(i.op)
  /\ X.val_imm = extract_immval(i) /\ X.val_hw = shift_of(i)
  /\ i.op \in Computes => X.val_a = first(p, i, R)
  /\ i.op \in RegOperand \cup {"STUR"} => X.val_b = reg(R, src2_of(i))
  /\ i.op = "B_COND" => X.cond = i.cond
  /\ i.op \notin NoWrite => X.dst = dst_of(i, XZR)

ExecutedM(M, p, i, R, c) ==
  /\ M.op = i.op /\ M.status = "AOK" /\ M.seq_succ_PC = seq_succ_PC(p, i)
  /\ M.M_sigs = M_sigs(i.op) /\ M.W_sigs = W_sigs(i.op)
  /\ i.op \in Computes => M.val_ex = value(p, i, R)
  /\ i.op = "B_COND" => M.cond_holds = cond_holds(i.cond, c)
  /\ i.op = "STUR" => M.val_b = reg(R, i.rd)
  /\ i.op \notin NoWrite => M.dst = dst_of(i, XZR)

HoldsD(T, D, p) ==
  /\ HaltAt(T, p) => D.insn.op = "HLT" /\ D.status = "HLT"
  /\ BadAt(T, p) => D.status = "INS" /\ D.insn.op \notin {"HLT", "LDUR", "STUR"}
  /\ Plain(T, p) => D = [insn |-> T[p], seq_succ_PC |-> seq_succ_PC(p, T[p]),
                      status |-> "AOK"]
HoldsX(T, X, p, R) ==
  /\ HaltAt(T, p) => X.op = "HLT" /\ X.status = "HLT"
  /\ BadAt(T, p) => X.status = "INS" /\ X.M_sigs = NoMSigs
  /\ Plain(T, p) => DecodedX(X, p, T[p], R)
HoldsM(T, M, p, R, c) ==
  /\ HaltAt(T, p) => M.op = "HLT" /\ M.status = "HLT"
  /\ BadAt(T, p) => M.status = "INS" /\ M.M_sigs = NoMSigs
  /\ Plain(T, p) => ExecutedM(M, p, T[p], R, c)

\* The registers behind an instruction that is not a load, and the operands a
\* load in front of the instruction at p would spoil.
After(M, R) ==
  IF M.W_sigs.w_enable /\ M.dst \in GPRegs THEN [R EXCEPT ![M.dst] = M.val_ex] ELSE R
Unspoilt(T, M, p) ==
  Plain(T, p) => \A r \in Sources(T[p]) :
                ~(M.W_sigs.w_enable /\ M.W_sigs.wval_sel /\ M.dst = r)

-----------------------------------------------------------------------------
(* Where a cycle is, and which slots hold an instruction of the path.       *)
Early    == stage \in {"wback", "memory"}
Accessed == stage \in {"execute", "decode", "fetch", "hazards", "clock"}
Executed == stage \in {"decode", "fetch", "hazards", "clock"}
Decoded  == stage \in {"fetch", "hazards", "clock"}
Fetched  == stage \in {"hazards", "clock"}

LiveM == M_out.status # "BUB" /\ "m" \notin wrong
LiveX == X_out.status # "BUB" /\ "x" \notin wrong
LiveD == D_out.status # "BUB" /\ "d" \notin wrong

\* The addresses the path continues with in Execute, Decode and Fetch.
PcX == IF Early /\ LiveM THEN target(apc, imem[apc], ArchRegs, acc) ELSE apc
PcD == IF LiveX
       THEN IF X_out.op = "RET" THEN X_out.val_a ELSE predicted_PC(PcX, imem[PcX])
       ELSE PcX
PcF == IF LiveD THEN predicted_PC(PcD, imem[PcD]) ELSE PcD

\* Nothing older ends the run.
OpenX == astat = "AOK" /\ (Early /\ LiveM => M_out.status = "AOK")
OpenD == OpenX /\ (LiveX => X_out.status = "AOK")
OpenF == OpenD /\ (LiveD => D_out.status = "AOK")

-----------------------------------------------------------------------------
(* The parts of the invariant.                                              *)

\* Within a cycle the in sides and wires follow the out sides.
HaltOp(st, op) == st = "HLT" => op = "HLT"
Halting ==
  /\ D_in.status = "HLT" <=> D_in.insn.op = "HLT"
  /\ D_out.status = "HLT" <=> D_out.insn.op = "HLT"
  /\ HaltOp(X_in.status, X_in.op) /\ HaltOp(X_out.status, X_out.op)
  /\ HaltOp(M_in.status, M_in.op) /\ HaltOp(M_out.status, M_out.op)
  /\ HaltOp(W_in.status, W_in.op) /\ HaltOp(W_out.status, W_out.op)
Linked == /\ X_in.op = "BL" => X_in.val_a = X_in.seq_succ_PC
          /\ X_out.op = "BL" => X_out.val_a = X_out.seq_succ_PC
Wires ==
  /\ ms.dmem_status = "READY"
  /\ stage # "stop" => ms.exit = "no"
  /\ Early => W_in = W_out
  /\ stage \in {"memory", "execute", "decode"}
       => W_wval = IF W_out.W_sigs.wval_sel THEN W_out.val_mem ELSE W_out.val_ex
  /\ Accessed => /\ W_in.W_sigs = M_out.W_sigs /\ W_in.dst = M_out.dst
                 /\ W_in.val_ex = M_out.val_ex
  /\ Executed => /\ M_in.W_sigs = X_out.W_sigs /\ M_in.M_sigs = X_out.M_sigs
                 /\ M_in.dst = X_out.dst /\ M_in.status = X_out.status
                 /\ X_condval = M_in.cond_holds
  /\ Decoded => X_in.status = D_out.status /\ Pending(W_out, gpr) = gpr
  /\ Fetched => D_in.status # "BUB"
  /\ stage = "clock" =>
       /\ ctl = [r \in PipeReg |-> pipe_control_stage(r \in Hazards.bubble, r \in Hazards.stall)]
       /\ F_in.pred_PC = F_PC /\ status = W_out.status

\* Instructions off the path do nothing.
OffPath ==
  /\ "d" \in wrong => Harmless(D_out)
  /\ "x" \in wrong => X_out.op = "NOP" /\ X_out.status \in Running
  /\ "m" \in wrong => M_out.op = "NOP" /\ M_out.status \in Running
Squashed ==
  M_out.op = "B_COND" /\ ~M_out.cond_holds => X_out.op = "NOP" /\ D_out.status = "BUB"

\* How the status of the sequential machine reaches Writeback.
StatusFlow ==
  /\ astat # "BUB"
  /\ Early => IF astat = "AOK" THEN W_out.status \in Running ELSE W_out.status = astat
  /\ Accessed =>
       IF astat = "AOK" THEN W_in.status \in Running /\ W_out.status \in Running
       ELSE (W_in.status = astat /\ W_out.status \in Running) \/ W_out.status = astat

FlagsAfter(T, p, R, c) ==
  IF Plain(T, p) /\ T[p].op \in SetsFlags THEN flags_of(p, T[p], R) ELSE c
FlagsFlow ==
  /\ astat = "HLT" \/ (astat = "AOK" /\ stage = "execute") => cc = acc
  /\ astat = "AOK" /\ Early /\ ~LiveM => cc = acc
  /\ astat = "AOK" /\ Early /\ LiveM /\ ~BadAt(imem, apc)
       => cc = FlagsAfter(imem, apc, ArchRegs, acc)
  /\ astat = "AOK" /\ Executed /\ ~LiveX => cc = acc
  /\ astat = "AOK" /\ Executed /\ LiveX /\ ~BadAt(imem, apc)
       => cc = FlagsAfter(imem, apc, ArchRegs, acc)

InMemory ==
  /\ astat = "AOK" /\ Early /\ LiveM => HoldsM(imem, M_out, apc, ArchRegs, acc)
  /\ astat = "AOK" /\ Executed /\ LiveX => HoldsM(imem, M_in, apc, ArchRegs, acc)
InExecute ==
  /\ OpenX /\ LiveX /\ Early => /\ HoldsX(imem, X_out, PcX, After(M_out, ArchRegs))
                                /\ Unspoilt(imem, M_out, PcX)
  /\ OpenX /\ LiveX /\ Accessed => HoldsX(imem, X_out, apc, ArchRegs)
  /\ OpenD /\ LiveD /\ Decoded => /\ HoldsX(imem, X_in, PcD, After(M_in, ArchRegs))
                                  /\ Unspoilt(imem, M_in, PcD)
InDecode == OpenD /\ LiveD => HoldsD(imem, D_out, PcD)
InFetch ==
  /\ OpenF => select_PC = PcF /\ (F_in.status = "HLT" => HaltAt(imem, PcF))
  /\ OpenF /\ Fetched => /\ HoldsD(imem, D_in, PcF)
                         /\ Plain(imem, PcF) => F_PC = predicted_PC(PcF, imem[PcF])

Path == /\ OffPath /\ Squashed /\ StatusFlow /\ FlagsFlow
        /\ InMemory /\ InExecute /\ InDecode /\ InFetch
OnPath == stage # "stop" /\ clean => Path
PathInv == Wires /\ Linked /\ Halting /\ OnPath

-----------------------------------------------------------------------------
(* Isa has its own copy of the operators of Instr and DataMem.              *)
LEMMA SameDecoding ==
  ASSUME NEW i, NEW old
  PROVE  /\ Sequential!src1_of(i) = src1_of(i) /\ Sequential!src2_of(i) = src2_of(i)
         /\ Sequential!dst_of(i, old) = dst_of(i, old)
         /\ Sequential!extract_immval(i) = extract_immval(i)
         /\ Sequential!decide_alu_op(i.op) = decide_alu_op(i.op)
BY DEF Sequential!src1_of, src1_of, Sequential!src2_of, src2_of, Sequential!dst_of, dst_of,
       Sequential!extract_immval, extract_immval, Sequential!HasImm, HasImm,
       Sequential!decide_alu_op, decide_alu_op,
       Sequential!zr, zr, Sequential!SP, SP, Sequential!LR, LR, Sequential!NoReg, NoReg,
       Sequential!XZR, XZR, Sequential!ThreeReg, ThreeReg, Sequential!Shift, Shift,
       Sequential!SrcNum, SrcNum, Sequential!RegNum, RegNum

(* And the same classes of instructions, data cells and words.              *)
LEMMA SameSets ==
         /\ Sequential!RegOperand = RegOperand /\ Sequential!SetsFlags = SetsFlags
         /\ Sequential!NoWrite = NoWrite /\ Sequential!Opcode = Opcode
         /\ Sequential!XZR = XZR /\ Sequential!Cells = Cells /\ Sequential!Word = Word
BY DEF Sequential!RegOperand, RegOperand, Sequential!SetsFlags, SetsFlags,
       Sequential!NoWrite, NoWrite, Sequential!Opcode, Opcode, Sequential!XZR, XZR,
       Sequential!Cells, Cells, Sequential!Word, Word

(* And the same successors of an instruction.                               *)
LEMMA SamePC ==
  ASSUME NEW p, NEW i
  PROVE  /\ Sequential!Next4(p) = Next4(p) /\ Sequential!predicted_PC(p, i) = predicted_PC(p, i)
         /\ Sequential!seq_succ_PC(p, i) = seq_succ_PC(p, i)
BY DEF Sequential!Next4, Next4, Sequential!predicted_PC, predicted_PC,
       Sequential!seq_succ_PC, seq_succ_PC

(* And the same special and forbidden data addresses.                       *)
LEMMA SameAddresses ==
  ASSUME NEW a
  PROVE  /\ Sequential!dmem_err(a) = dmem_err(a) /\ Sequential!NULL_ADDR = NULL_ADDR
         /\ Sequential!IO_CHAR_ADDR = IO_CHAR_ADDR /\ Sequential!CHECKPOINT_ADDR = CHECKPOINT_ADDR
BY DEF Sequential!dmem_err, dmem_err, Sequential!is_special_addr, is_special_addr,
       Sequential!addr_in_dmem, addr_in_dmem, Sequential!NULL_ADDR, NULL_ADDR,
       Sequential!IO_CHAR_ADDR, IO_CHAR_ADDR, Sequential!CHECKPOINT_ADDR, CHECKPOINT_ADDR,
       Sequential!RET_FROM_MAIN_ADDR, RET_FROM_MAIN_ADDR

(* Isa computes with the architectural registers what first, second, value, *)
(* flags_of and target say.                                                 *)
LEMMA SameResult ==
  /\ Sequential!operand1 = first(apc, imem[apc], ArchRegs)
  /\ Sequential!operand2 = second(imem[apc], ArchRegs)
  /\ Sequential!result = value(apc, imem[apc], ArchRegs)
  /\ Sequential!flags = flags_of(apc, imem[apc], ArchRegs)
  /\ apc \in TextAddrs => Sequential!NextPC = target(apc, imem[apc], ArchRegs, acc)
<1>1. Sequential!operand1 = first(apc, imem[apc], ArchRegs)
  <2> DEFINE i == imem[apc]
             S == Sequential!src1_of(i)
             t == CHOOSE r \in S : TRUE
             s == CHOOSE r \in src1_of(i) : TRUE
             pick(x, next) == IF i.op = "MVN" THEN 0
                              ELSE IF i.op \in {"BL", "ADRP"} THEN next
                              ELSE IF x \in GPRegs THEN ArchRegs[x] ELSE 0
  <2>1. S = src1_of(i)
    BY SameDecoding
  <2>2. t = s
    <3> HIDE DEF S
    <3> QED BY <2>1
  <2>3. Sequential!operand1 = pick(t, Sequential!seq_succ_PC(apc, i))
    BY DEF Sequential!operand1, Sequential!insn, Sequential!read
  <2>4. first(apc, i, ArchRegs) = pick(s, seq_succ_PC(apc, i))
    BY DEF first, reg
  <2>5. Sequential!seq_succ_PC(apc, i) = seq_succ_PC(apc, i)
    BY SamePC
  <2> HIDE DEF s, t, pick
  <2> QED BY <2>2, <2>3, <2>4, <2>5
<1>2. Sequential!operand2 = second(imem[apc], ArchRegs)
  BY SameDecoding, SameSets DEF Sequential!operand2, Sequential!insn, Sequential!read, second, reg
<1>3. Sequential!shift = shift_of(imem[apc])
  BY DEF Sequential!shift, Sequential!insn, shift_of
<1>4. /\ Sequential!result = value(apc, imem[apc], ArchRegs)
      /\ Sequential!flags = flags_of(apc, imem[apc], ArchRegs)
  BY <1>1, <1>2, <1>3, SameDecoding DEF Sequential!result, Sequential!flags, Sequential!insn,
     value, flags_of
<1>5. apc \in TextAddrs => Sequential!NextPC = target(apc, imem[apc], ArchRegs, acc)
  BY <1>1, SamePC DEF Sequential!NextPC, Sequential!insn, target
<1> QED
  BY <1>1, <1>2, <1>4, <1>5

-----------------------------------------------------------------------------
(* Without a cache no access is ever in flight, and a fetch changes nothing. *)
LEMMA FlatAccess ==
  ASSUME ~Cached, NEW m \in MemSys, NEW a \in Word, NEW v \in Word, NEW old \in Word,
         NEW rd \in BOOLEAN, NEW wr \in BOOLEAN,
         NEW r \in dmem(m, a, v, rd, wr, old)
  PROVE  r.ms.dmem_status = m.dmem_status
<1> DEFINE reads == IF rd THEN mem_read(m, a) ELSE {[ms |-> m, val |-> old]}
<1>1. \A x \in mem_read(m, a) : x.ms.dmem_status = m.dmem_status
  BY DEF mem_read, UsesCache, MemSys
<1>2. \A x \in reads : x.ms.dmem_status = m.dmem_status /\ x.ms \in MemSys
  BY <1>1, ReadType
<1>3. ASSUME NEW n \in MemSys, NEW w \in mem_write(n, a, v)
      PROVE  w.dmem_status = n.dmem_status
  BY <1>3 DEF mem_write, UsesCache, MemSys
<1>4. CASE ~wr
  BY <1>2, <1>4 DEF dmem
<1>5. CASE wr
  <2>1. PICK x \in reads : \E w \in mem_write(x.ms, a, v) : r = [ms |-> w, val |-> x.val]
    BY <1>5 DEF dmem
  <2> HIDE DEF reads
  <2> QED
    BY <2>1, <1>2, <1>3
<1> QED
  BY <1>4, <1>5

(* Without a cache an instruction fetch leaves the memory system alone.     *)
LEMMA FlatFetch == ASSUME ~Cached, NEW m, NEW a PROVE ifetch(m, a) = m
BY DEF ifetch, UsesCache

(* The parts of each function's effect that the proofs below use.           *)
LEMMA MemoryStep ==
  ASSUME TypeOK, memory_instr
  PROVE  /\ stage = "memory" /\ stage' = IF ms'.exit = "no" THEN "execute" ELSE "stop"
         /\ UNCHANGED <<imem, gpr, cc, F_in, D_in, X_in, M_in, outs, wires, status, ctl>>
         /\ W_in'.op = M_out.op /\ W_in'.W_sigs = M_out.W_sigs /\ W_in'.dst = M_out.dst
         /\ W_in'.val_ex = M_out.val_ex
         /\ W_in'.status = IF /\ M_out.M_sigs.dmem_read \/ M_out.M_sigs.dmem_write
                              /\ dmem_err(M_out.val_ex)
                           THEN "ADR" ELSE M_out.status
         /\ IF M_out.M_sigs.dmem_read \/ M_out.M_sigs.dmem_write
            THEN \E r \in dmem(ms, M_out.val_ex, M_out.val_b, M_out.M_sigs.dmem_read,
                              M_out.M_sigs.dmem_write, W_in.val_mem) :
                   ms' = r.ms /\ W_in'.val_mem = r.val
            ELSE ms' = ms
<1> DEFINE access == M_out.M_sigs.dmem_read \/ M_out.M_sigs.dmem_write
           result == IF access
                     THEN dmem(ms, M_out.val_ex, M_out.val_b, M_out.M_sigs.dmem_read,
                               M_out.M_sigs.dmem_write, W_in.val_mem)
                     ELSE {[ms |-> ms, val |-> W_in.val_mem]}
<1>1. PICK r \in result :
        /\ ms' = r.ms
        /\ stage' = IF r.ms.exit = "no" THEN "execute" ELSE "stop"
        /\ W_in' = [op |-> M_out.op, W_sigs |-> M_out.W_sigs, val_b |-> M_out.val_b,
                    dst |-> M_out.dst, val_ex |-> M_out.val_ex, val_mem |-> r.val,
                    status |-> IF access /\ dmem_err(M_out.val_ex)
                               THEN "ADR" ELSE M_out.status]
  BY DEF memory_instr
<1>2. stage = "memory"
      /\ UNCHANGED <<imem, gpr, cc, F_in, D_in, X_in, M_in, outs, wires, status, ctl>>
  BY DEF memory_instr
<1>3. CASE access
  <2> SUFFICES \E x \in result : ms' = x.ms /\ W_in'.val_mem = x.val
    BY <1>1, <1>2, <1>3
  <2> HIDE DEF result
  <2> QED
    BY <1>1
<1>4. CASE ~access
  BY <1>1, <1>2, <1>4
<1> QED
  BY <1>3, <1>4

(* What Execute hands on: everything but the ALU's result and the flags.    *)
LEMMA ExecuteStep ==
  ASSUME TypeOK, execute_instr
  PROVE  /\ stage = "execute" /\ stage' = "decode"
         /\ UNCHANGED <<imem, gpr, ms, F_in, D_in, X_in, W_in, F_out, D_out, M_out, W_out,
                        F_PC, W_wval, status, ctl>>
         /\ X_out'.val_a = IF X_out.op = "BL" THEN X_out.seq_succ_PC ELSE X_out.val_a
         /\ X_out'.op = X_out.op /\ X_out'.status = X_out.status
         /\ X_out' = [X_out EXCEPT !.val_a = X_out'.val_a]
         /\ M_in'.op = X_out.op /\ M_in'.status = X_out.status
         /\ M_in'.seq_succ_PC = X_out.seq_succ_PC
         /\ M_in'.M_sigs = X_out.M_sigs /\ M_in'.W_sigs = X_out.W_sigs
         /\ M_in'.val_b = X_out.val_b /\ M_in'.dst = X_out.dst
         /\ X_condval' = M_in'.cond_holds /\ M_in'.cond_holds = cond_holds(X_out.cond, cc')
BY DEF execute_instr, TypeOK, XReg

(* The ALU's result and the flags, whichever second operand the signals     *)
(* select.                                                                  *)
LEMMA Alu ==
  ASSUME TypeOK, execute_instr,
         NEW b, b = IF X_out.X_sigs.valb_sel THEN X_out.val_b ELSE X_out.val_imm
  PROVE  /\ M_in'.val_ex = AluRes(X_out.ALU_op, X_out'.val_a, b, X_out.val_hw)
         /\ cc' = IF X_out.X_sigs.set_CC
                  THEN AluFlags(X_out.ALU_op, X_out'.val_a, b, X_out.val_hw) ELSE cc
BY DEF execute_instr, TypeOK, XReg

(* Fetch writes the Decode register and its own, and always fetches         *)
(* something.                                                               *)
LEMMA FetchEffect ==
  ASSUME TypeOK, ~Cached, fetch_instr
  PROVE  /\ stage = "fetch" /\ UNCHANGED ms
         /\ stage' \in {"hazards", "stop"} /\ (ms.exit = "no" => stage' = "hazards")
         /\ UNCHANGED <<imem, gpr, cc, X_in, M_in, W_in, D_out, X_out, M_out, W_out,
                        X_condval, W_wval, status, ctl>>
         /\ D_in'.status # "BUB"
         /\ F_out'.pred_PC = F_out.pred_PC
<1>1. UNCHANGED ms
  BY FlatFetch DEF fetch_instr, FetchHalt, FetchWord
<1>2. CASE FetchHalt
  BY <1>1, <1>2 DEF fetch_instr, FetchHalt, TypeOK, DReg, FReg
<1>3. CASE FetchWord(select_PC)
  <2>1. D_in'.status # "BUB"
    BY <1>3 DEF FetchWord
  <2>2. F_out'.pred_PC = F_out.pred_PC
    BY <1>3 DEF FetchWord, TypeOK, FReg
  <2> QED
    BY <1>1, <1>3, <2>1, <2>2 DEF fetch_instr, FetchWord
<1> QED
  BY <1>2, <1>3 DEF fetch_instr

-----------------------------------------------------------------------------
(* A write that lands twice lands once.                                     *)
LEMMA PendingTwice ==
  ASSUME NEW w, NEW regs \in [GPRegs -> Word]
  PROVE  Pending(w, Pending(w, regs)) = Pending(w, regs)
BY DEF Pending

(* The register write of Decode is the pending one of W_out.                *)
LEMMA LandedWrite ==
  ASSUME TypeOK,
         W_wval = IF W_out.W_sigs.wval_sel THEN W_out.val_mem ELSE W_out.val_ex
  PROVE  regwrite = Pending(W_out, gpr)
BY DEF regwrite, Pending, Result

(* Decode writes the register file, X_in and the status in D_out, nothing   *)
(* else.                                                                    *)
LEMMA DecodeKeeps ==
  ASSUME TypeOK, decode_instr
  PROVE  /\ stage = "decode" /\ stage' = "fetch" /\ gpr' = regwrite
         /\ UNCHANGED <<imem, cc, ms, F_in, D_in, M_in, W_in, F_out, X_out, M_out, W_out,
                        wires, status, ctl>>
BY DEF decode_instr

(* Without an access in flight Execute, Memory and Writeback always load.   *)
LEMMA BackEndLoads ==
  ASSUME Wires, stage = "clock"
  PROVE  ctl["x"] = "LOAD" /\ ctl["m"] = "LOAD" /\ ctl["w"] = "LOAD"
<1>1. Hazards.bubble \subseteq {"f", "d"} /\ Hazards.stall \subseteq {"f", "d"}
  <2> DEFINE p == ProgramHazard(check_ret_hazard(D_out.insn.op),
                                check_load_use_hazard(D_src1, D_src2, X_out.op, X_dst),
                                check_mispred_branch_hazard(X_out.op, X_condval))
  <2>1. Hazards = p
    BY DEF Wires, Hazards, handle_hazards
  <2>2. \/ p = [bubble |-> {"f", "d"}, stall |-> {}]
        \/ p = [bubble |-> {"d"}, stall |-> {"f"}]
        \/ p = [bubble |-> {"f"}, stall |-> {}]
        \/ p = [bubble |-> {}, stall |-> {}]
    BY DEF ProgramHazard, check_ret_hazard, check_load_use_hazard,
           check_mispred_branch_hazard
  <2> HIDE DEF p
  <2> QED
    BY <2>1, <2>2
<1>2. ctl = [r \in PipeReg |-> pipe_control_stage(r \in Hazards.bubble, r \in Hazards.stall)]
  BY DEF Wires
<1> HIDE DEF Hazards
<1>3. \A r \in {"x", "m", "w"} : r \notin Hazards.bubble /\ r \notin Hazards.stall
  BY <1>1
<1> QED
  BY <1>2, <1>3 DEF PipeReg, pipe_control_stage

(* So at the edge the back end moves on by one slot.                        *)
LEMMA ClockStep ==
  ASSUME Wires, clock
  PROVE  /\ stage = "clock" /\ stage' \in {"wback", "stop"}
         /\ UNCHANGED <<arch, ins, wires, ctl>>
         /\ X_out' = X_in /\ M_out' = M_in /\ W_out' = W_in
         /\ F_out' = Edge(ctl["f"], F_in, F_out, F_bubble)
         /\ D_out' = Edge(ctl["d"], D_in, D_out, D_bubble)
<1>1. stage = "clock"
  BY DEF clock
<1>2. ctl["x"] = "LOAD" /\ ctl["m"] = "LOAD" /\ ctl["w"] = "LOAD"
  BY <1>1, BackEndLoads
<1> QED
  BY <1>1, <1>2 DEF clock, Edge

(* Every step keeps Wires.                                                  *)
LEMMA WiresNext ==
  ASSUME ~Cached, TypeOK, Wires, [Next]_vars
  PROVE  Wires'
<1> USE DEF Early, Accessed, Executed, Decoded, Fetched
<1>1. CASE wback_instr
  <2>1. /\ stage = "wback" /\ stage' = "memory" /\ UNCHANGED <<ms, W_in, W_out>>
        /\ W_wval' = IF W_out.W_sigs.wval_sel THEN W_out.val_mem ELSE W_out.val_ex
    BY <1>1 DEF wback_instr, arch, ins, outs
  <2> QED
    BY <2>1 DEF Wires
<1>2. CASE memory_instr
  <2>1. ms'.dmem_status = "READY"
    <3>1. M_out.val_ex \in Word /\ M_out.val_b \in Word /\ W_in.val_mem \in Word
          /\ M_out.M_sigs.dmem_read \in BOOLEAN /\ M_out.M_sigs.dmem_write \in BOOLEAN
          /\ ms \in MemSys
      BY DEF TypeOK, MReg, WReg, MSigs
    <3>2. ms.dmem_status = "READY"
      BY DEF Wires
    <3> QED
      BY <1>2, <3>1, <3>2, MemoryStep, FlatAccess
  <2>2. /\ stage = "memory" /\ stage' = IF ms'.exit = "no" THEN "execute" ELSE "stop"
        /\ W_wval' = W_wval /\ W_out' = W_out /\ M_out' = M_out
        /\ W_in'.W_sigs = M_out.W_sigs /\ W_in'.dst = M_out.dst /\ W_in'.val_ex = M_out.val_ex
    BY <1>2, MemoryStep DEF outs, wires
  <2> QED
    BY <2>1, <2>2 DEF Wires
<1>3. CASE execute_instr
  <2>1. X_out'.W_sigs = X_out.W_sigs /\ X_out'.M_sigs = X_out.M_sigs /\ X_out'.dst = X_out.dst
        /\ X_out'.status = X_out.status
    BY <1>3 DEF execute_instr, TypeOK, XReg
  <2>2. /\ stage = "execute" /\ stage' = "decode"
        /\ UNCHANGED <<ms, W_in, M_out, W_out, W_wval>>
        /\ M_in'.status = X_out.status
        /\ M_in'.M_sigs = X_out.M_sigs /\ M_in'.W_sigs = X_out.W_sigs
        /\ M_in'.dst = X_out.dst /\ X_condval' = M_in'.cond_holds
    BY <1>3, ExecuteStep
  <2> QED
    BY <2>1, <2>2 DEF Wires
<1>4. CASE decode_instr
  <2>1. /\ stage = "decode" /\ stage' = "fetch" /\ gpr' = regwrite
        /\ UNCHANGED <<ms, W_in, M_in, X_out, M_out, W_out, X_condval>>
    BY <1>4, DecodeKeeps DEF wires
  <2>2. X_in'.status = D_out'.status
    BY <1>4, DecodeStep
  <2>3. gpr' = Pending(W_out, gpr)
    BY <2>1, LandedWrite DEF Wires
  <2>4. Pending(W_out, gpr') = gpr'
    BY <2>3, PendingTwice DEF TypeOK
  <2>5. Pending(W_out, gpr)' = gpr'
    BY <2>1, <2>4 DEF Pending
  <2> QED
    BY <2>1, <2>2, <2>5 DEF Wires
<1>5. CASE fetch_instr
  <2>1. /\ stage = "fetch" /\ stage' = "hazards" /\ D_in'.status # "BUB"
        /\ UNCHANGED <<gpr, ms, X_in, M_in, W_in, D_out, X_out, M_out, W_out, X_condval>>
    BY <1>5, FetchEffect DEF Wires
  <2> QED
    BY <2>1 DEF Wires, Pending
<1>6. CASE hazards
  <2>1. /\ stage = "hazards" /\ stage' = "clock" /\ F_in'.pred_PC = F_PC'
        /\ status' = W_out.status
        /\ UNCHANGED <<gpr, ms, D_in, X_in, M_in, W_in, D_out, X_out, M_out, W_out, X_condval>>
    BY <1>6 DEF hazards, MachineStatus, arch, outs, wires, TypeOK, FReg
  <2>2. ctl' = [r \in PipeReg |-> pipe_control_stage(r \in Hazards.bubble,
                                                     r \in Hazards.stall)]
    BY <1>6 DEF hazards
  <2>3. Hazards' = Hazards
    BY <2>1 DEF Hazards, D_src1, D_src2, X_dst
  <2> HIDE DEF Hazards
  <2> QED
    BY <2>1, <2>2, <2>3 DEF Wires, Pending
<1>7. CASE clock
  <2>1. stage' \in {"wback", "stop"} /\ stage = "clock" /\ UNCHANGED <<ms, W_in>> /\ W_out' = W_in
    BY <1>7, ClockStep DEF arch, ins
  <2> QED
    BY <2>1 DEF Wires
<1>8. CASE UNCHANGED vars
  <2>1. Hazards' = Hazards
    BY <1>8 DEF Hazards, D_src1, D_src2, X_dst, vars, arch, ins, outs, wires, loop
  <2> HIDE DEF Hazards
  <2> QED
    BY <1>8, <2>1 DEF Wires, Pending, vars, arch, ins, outs, wires, loop
<1> QED
  BY <1>1, <1>2, <1>3, <1>4, <1>5, <1>6, <1>7, <1>8 DEF Next

(* Every step keeps Halting: the halt status never leaves its instruction.  *)
LEMMA HaltingNext ==
  ASSUME QuietJunk, TypeOK, Halting, [Next]_vars
  PROVE  Halting'
<1> USE DEF Halting, HaltOp
<1>1. CASE wback_instr
  BY <1>1 DEF wback_instr, ins, outs
<1>2. CASE memory_instr
  <2>1. /\ UNCHANGED <<D_in, D_out, X_in, X_out, M_in, M_out, W_out>>
        /\ W_in'.op = M_out.op /\ W_in'.status \in {"ADR", M_out.status}
    BY <1>2, MemoryStep DEF outs
  <2> QED
    BY <2>1
<1>3. CASE execute_instr
  <2>1. /\ UNCHANGED <<D_in, D_out, X_in, M_out, W_in, W_out>>
        /\ X_out'.op = X_out.op /\ X_out'.status = X_out.status
        /\ M_in'.op = X_out.op /\ M_in'.status = X_out.status
    BY <1>3, ExecuteStep
  <2> QED
    BY <2>1
<1>4. CASE decode_instr
  <2>1. UNCHANGED <<D_in, X_out, M_in, M_out, W_in, W_out>>
    BY <1>4, DecodeKeeps
  <2> QED
    BY <1>4, <2>1, DecodeStep
<1>5. CASE fetch_instr
  <2>1. UNCHANGED <<D_out, X_in, X_out, M_in, M_out, W_in, W_out>>
    BY <1>5 DEF fetch_instr
  <2>2. D_in'.status = "HLT" <=> D_in'.insn.op = "HLT"
    <3>1. CASE FetchHalt
      BY <3>1 DEF FetchHalt, HltInsn, ZeroInsn, TypeOK, DReg
    <3>2. CASE FetchWord(select_PC)
      <4> DEFINE pc == select_PC
      <4>1. PICK i \in imem_words(pc) :
              /\ D_in'.insn = i
              /\ D_in'.status = IF imem_err(pc) \/ i.op = "ERROR" THEN "INS"
                                ELSE IF i.op = "HLT" THEN "HLT" ELSE "AOK"
        BY <3>2 DEF FetchWord
      <4> HIDE DEF pc
      <4>2. i.op = "HLT" => ~imem_err(pc)
        BY SegAssumption DEF imem_words, QuietJunk, TextAddrs, imem_err, addr_in_imem
      <4> QED
        BY <4>1, <4>2
    <3> QED
      BY <1>5, <3>1, <3>2 DEF fetch_instr
  <2> QED
    BY <2>1, <2>2
<1>6. CASE hazards
  BY <1>6 DEF hazards, outs
<1>7. CASE clock
  <2>1. UNCHANGED <<D_in, X_in, M_in, W_in>>
    BY <1>7 DEF clock, ins
  <2> QED
    BY <1>7, <2>1, EdgeCases DEF D_bubble, ZeroInsn, X_bubble, M_bubble, W_bubble
<1>8. CASE UNCHANGED vars
  BY <1>8 DEF vars, ins, outs
<1> QED
  BY <1>1, <1>2, <1>3, <1>4, <1>5, <1>6, <1>7, <1>8 DEF Next

(* Every step keeps Linked: Execute is where a BL gets its return address.  *)
LEMMA LinkedNext ==
  ASSUME TypeOK, Linked, [Next]_vars
  PROVE  Linked'
<1> USE DEF Linked
<1>1. CASE execute_instr
  <2>1. X_in' = X_in /\ X_out'.op = X_out.op /\ X_out'.seq_succ_PC = X_out.seq_succ_PC
        /\ X_out'.val_a = IF X_out.op = "BL" THEN X_out.seq_succ_PC ELSE X_out.val_a
    BY <1>1 DEF execute_instr, TypeOK, XReg
  <2> QED
    BY <2>1
<1>2. CASE decode_instr
  BY <1>2 DEF decode_instr
<1>3. CASE clock
  <2>1. X_in' = X_in /\ X_out' \in {X_in, X_out, X_bubble}
    BY <1>3, EdgeCases DEF clock, ins
  <2> QED
    BY <2>1 DEF X_bubble
<1>4. CASE UNCHANGED <<X_in, X_out>>
  BY <1>4
<1>5. execute_instr \/ decode_instr \/ clock \/ UNCHANGED <<X_in, X_out>>
  BY DEF Next, vars, ins, outs, wback_instr, memory_instr, fetch_instr, hazards
<1> QED
  BY <1>1, <1>2, <1>3, <1>4, <1>5

(* Execute and Decode leave the out sides alone.                            *)
LEMMA ExecuteKeeps ==
  ASSUME TypeOK, Linked, execute_instr
  PROVE  UNCHANGED X_out
<1>1. X_out' = [X_out EXCEPT !.val_a = X_out'.val_a]
      /\ X_out'.val_a = IF X_out.op = "BL" THEN X_out.seq_succ_PC ELSE X_out.val_a
  BY ExecuteStep
<1>2. X_out'.val_a = X_out.val_a
  BY <1>1 DEF Linked
<1> QED
  BY <1>1, <1>2 DEF TypeOK, XReg

(* Decode rewrites the status of D_out only with what it is already.        *)
LEMMA DecodeKeepsD ==
  ASSUME TypeOK, Halting, decode_instr
  PROVE  UNCHANGED D_out
<1>1. D_out' = [D_out EXCEPT !.status = IF D_out.insn.op = "HLT" THEN "HLT" ELSE D_out.status]
  BY DEF decode_instr
<1>2. (IF D_out.insn.op = "HLT" THEN "HLT" ELSE D_out.status) = D_out.status
  BY DEF Halting
<1> QED
  BY <1>1, <1>2 DEF TypeOK, DReg

-----------------------------------------------------------------------------
(* The steps within a cycle other than memory_instr.                        *)

(* As long as the out sides stay, every slot keeps its address.             *)
LEMMA Kept ==
  ASSUME UNCHANGED <<imem, apc, acc, astat, wrong, M_out, X_out, D_out>>,
         ArchRegs' = ArchRegs, Early' <=> Early, F_out'.pred_PC = F_out.pred_PC
  PROVE  /\ (LiveM' <=> LiveM) /\ (LiveX' <=> LiveX) /\ (LiveD' <=> LiveD)
         /\ PcX' = PcX /\ PcD' = PcD /\ PcF' = PcF
         /\ (OpenX' <=> OpenX) /\ (OpenD' <=> OpenD) /\ (OpenF' <=> OpenF)
         /\ select_PC' = select_PC
<1>1. (LiveM' <=> LiveM) /\ (LiveX' <=> LiveX) /\ (LiveD' <=> LiveD)
  BY DEF LiveM, LiveX, LiveD
<1>2. PcX' = PcX
  BY <1>1 DEF PcX
<1>3. PcD' = PcD
  BY <1>1, <1>2 DEF PcD
<1>4. PcF' = PcF
  BY <1>1, <1>3 DEF PcF
<1>5. (OpenX' <=> OpenX) /\ (OpenD' <=> OpenD) /\ (OpenF' <=> OpenF)
  BY <1>1 DEF OpenX, OpenD, OpenF
<1>6. select_PC' = select_PC
  BY DEF select_PC
<1> QED
  BY <1>1, <1>2, <1>3, <1>4, <1>5, <1>6

(* Writeback selects the value to write: the path stays what it is.         *)
LEMMA WbackPath ==
  ASSUME Path, wback_instr, UNCHANGED history
  PROVE  Path' /\ ArchRegs' = ArchRegs
<1>1. /\ stage = "wback" /\ stage' = "memory"
      /\ UNCHANGED <<imem, gpr, cc, F_in, D_in, X_in, M_in, W_in, F_out, D_out, X_out,
                     M_out, W_out, F_PC, apc, acc, astat, wrong>>
  BY DEF wback_instr, arch, ins, outs, history
<1>2. Early /\ Early' /\ ~Accessed' /\ ~Executed' /\ ~Decoded' /\ ~Fetched' /\ stage' # "execute"
  BY <1>1 DEF Early, Accessed, Executed, Decoded, Fetched
<1>3. ArchRegs' = ArchRegs
  BY <1>1 DEF ArchRegs, Pending
<1>4. /\ (LiveM' <=> LiveM) /\ (LiveX' <=> LiveX) /\ (LiveD' <=> LiveD)
      /\ PcX' = PcX /\ PcD' = PcD /\ PcF' = PcF
      /\ (OpenX' <=> OpenX) /\ (OpenD' <=> OpenD) /\ (OpenF' <=> OpenF)
      /\ select_PC' = select_PC
  BY <1>1, <1>2, <1>3, Kept
<1>5. OffPath' /\ Squashed' /\ StatusFlow'
  BY <1>1, <1>2 DEF Path, OffPath, Harmless, Squashed, StatusFlow
<1>6. FlagsFlow'
  BY <1>1, <1>2, <1>3, <1>4 DEF Path, FlagsFlow
<1>7. InMemory' /\ InExecute'
  BY <1>1, <1>2, <1>3, <1>4 DEF Path, InMemory, InExecute
<1>8. InDecode' /\ InFetch'
  BY <1>1, <1>2, <1>3, <1>4 DEF Path, InDecode, InFetch
<1> QED
  BY <1>3, <1>5, <1>6, <1>7, <1>8 DEF Path

(* So does the hazard check: it computes the controls of the edge.          *)
LEMMA HazardsPath ==
  ASSUME TypeOK, Path, hazards, UNCHANGED history
  PROVE  Path' /\ ArchRegs' = ArchRegs
<1>1. /\ stage = "hazards" /\ stage' = "clock" /\ F_in'.status = F_in.status
      /\ UNCHANGED <<imem, gpr, cc, D_in, X_in, M_in, W_in, F_out, D_out, X_out,
                     M_out, W_out, F_PC, apc, acc, astat, wrong>>
  BY DEF hazards, arch, outs, wires, history, TypeOK, FReg
<1>2. /\ ~Early /\ ~Early' /\ Accessed /\ Accessed' /\ Executed /\ Executed'
      /\ Decoded /\ Decoded' /\ Fetched /\ Fetched' /\ stage' # "execute"
  BY <1>1 DEF Early, Accessed, Executed, Decoded, Fetched
<1>3. ArchRegs' = ArchRegs
  BY <1>1 DEF ArchRegs, Pending
<1>4. /\ (LiveM' <=> LiveM) /\ (LiveX' <=> LiveX) /\ (LiveD' <=> LiveD)
      /\ PcX' = PcX /\ PcD' = PcD /\ PcF' = PcF
      /\ (OpenX' <=> OpenX) /\ (OpenD' <=> OpenD) /\ (OpenF' <=> OpenF)
      /\ select_PC' = select_PC
  BY <1>1, <1>2, <1>3, Kept
<1>5. OffPath' /\ Squashed' /\ StatusFlow'
  BY <1>1, <1>2 DEF Path, OffPath, Harmless, Squashed, StatusFlow
<1>6. FlagsFlow'
  BY <1>1, <1>2, <1>3, <1>4 DEF Path, FlagsFlow
<1>7. InMemory' /\ InExecute'
  BY <1>1, <1>2, <1>3, <1>4 DEF Path, InMemory, InExecute
<1>8. InDecode' /\ InFetch'
  BY <1>1, <1>2, <1>3, <1>4 DEF Path, InDecode, InFetch
<1> QED
  BY <1>3, <1>5, <1>6, <1>7, <1>8 DEF Path

(* Behind a halt that has taken effect nothing takes effect.                *)
LEMMA BehindHalt ==
  ASSUME HaltInv, Halting, StatusFlow, astat = "HLT"
  PROVE  /\ Early => Inert(M_out)
         /\ Accessed => Inert(X_out) /\ ~X_out.X_sigs.set_CC
         /\ Accessed /\ W_out.status = "HLT" => Inert(M_out)
<1>1. CASE Early
  <2>1. W_out.op = "HLT"
    BY <1>1 DEF StatusFlow, Halting, HaltOp
  <2> QED
    BY <1>1, <2>1 DEF HaltInv, DeadBehindHalt, DeadInert, Dead, Early, Accessed
<1>2. CASE Accessed
  <2>1. W_in.op = "HLT" \/ W_out.op = "HLT"
    BY <1>2 DEF StatusFlow, Halting, HaltOp
  <2>2. W_in.op = M_out.op
    BY <1>2 DEF Accessed, HaltInv, Flow
  <2>3. X_out.op \in Dead
    BY <2>1, <2>2 DEF HaltInv, DeadBehindHalt
  <2>4. W_out.status = "HLT" => M_out.op \in Dead
    BY DEF HaltInv, DeadBehindHalt, Halting, HaltOp
  <2>5. ~Early
    BY <1>2 DEF Early, Accessed
  <2> QED
    BY <2>3, <2>4, <2>5 DEF HaltInv, DeadInert
<1> QED
  BY <1>1, <1>2

(* An empty slot and an instruction off the path have no effect.            *)
LEMMA Idle ==
  ASSUME BubblesInv, HaltInv, OffPath
  PROVE  /\ ~LiveM => Inert(M_out) /\ M_out.op = "NOP" /\ M_out.status \in Running
         /\ ~LiveX => /\ Inert(X_out) /\ ~X_out.X_sigs.set_CC
                      /\ X_out.op = "NOP" /\ X_out.status \in Running
         /\ ~LiveD => D_out.insn.op = "NOP" /\ D_out.status \in Running
BY DEF BubblesInv, InertM, InertX, NopIfBubble, HaltInv, DeadInert, Dead, OffPath, Harmless,
       LiveM, LiveX, LiveD, Running

(* alu and cond_holds on the instruction at p.                              *)
LEMMA ExecuteHolds ==
  ASSUME TypeOK, Linked, HaltInv, execute_instr, cc = acc,
         NEW p, NEW R, HoldsX(imem, X_out, p, R)
  PROVE  /\ HoldsM(imem, M_in', p, R, acc)
         /\ ~BadAt(imem, p) => cc' = FlagsAfter(imem, p, R, acc)
<1> DEFINE i == imem[p]
           b == IF X_out.X_sigs.valb_sel THEN X_out.val_b ELSE X_out.val_imm
<1>1. /\ X_out' = X_out
      /\ M_in'.val_ex = AluRes(X_out.ALU_op, X_out.val_a, b, X_out.val_hw)
      /\ cc' = IF X_out.X_sigs.set_CC
               THEN AluFlags(X_out.ALU_op, X_out.val_a, b, X_out.val_hw) ELSE cc
  BY Alu, ExecuteKeeps
<1>2. /\ M_in'.op = X_out.op /\ M_in'.status = X_out.status
      /\ M_in'.seq_succ_PC = X_out.seq_succ_PC
      /\ M_in'.M_sigs = X_out.M_sigs /\ M_in'.W_sigs = X_out.W_sigs
      /\ M_in'.val_b = X_out.val_b /\ M_in'.dst = X_out.dst
      /\ M_in'.cond_holds = cond_holds(X_out.cond, cc')
  BY ExecuteStep
<1>3. CASE Plain(imem, p)
  <2>0. DecodedX(X_out, p, i, R) /\ ~HaltAt(imem, p) /\ ~BadAt(imem, p)
    BY <1>3, SegAssumption DEF HoldsX, Plain, HaltAt, BadAt, TextAddrs
  <2>1. i \in Insn
    BY <1>3 DEF Plain, TypeOK
  <2> HIDE DEF i
  <2>2. b = second(i, R)
    <3>1. X_out.X_sigs.valb_sel = (i.op \in RegOperand)
      BY <2>0 DEF DecodedX, X_sigs
    <3>2. CASE i.op \in RegOperand
      BY <2>0, <3>1, <3>2 DEF DecodedX, second
    <3>3. CASE i.op \notin RegOperand
      BY <2>0, <3>1, <3>3 DEF DecodedX, second
    <3> QED
      BY <3>2, <3>3
  <2> HIDE DEF b
  <2>3. i.op \in Computes => M_in'.val_ex = value(p, i, R)
    BY <1>1, <2>0, <2>2 DEF DecodedX, value
  <2>4. cc' = IF i.op \in SetsFlags THEN flags_of(p, i, R) ELSE acc
    <3>1. SetsFlags \subseteq Computes
      BY DEF SetsFlags, Computes, Opcode
    <3>2. X_out.X_sigs.set_CC = (i.op \in SetsFlags)
      BY <2>0 DEF DecodedX, X_sigs
    <3>3. CASE i.op \in SetsFlags
      BY <1>1, <2>0, <2>2, <3>1, <3>2, <3>3 DEF DecodedX, flags_of
    <3>4. CASE i.op \notin SetsFlags
      BY <1>1, <3>2, <3>4
    <3> QED
      BY <3>3, <3>4
  <2>5. i.op = "B_COND" => M_in'.cond_holds = cond_holds(i.cond, acc)
    <3>1. "B_COND" \notin SetsFlags
      BY DEF SetsFlags
    <3> QED
      BY <1>2, <2>0, <2>4, <3>1 DEF DecodedX
  <2>6. i.op = "STUR" => src2_of(i) = i.rd
    BY DEF src2_of, ThreeReg
  <2>7. ExecutedM(M_in', p, i, R, acc)
    BY <1>2, <2>0, <2>3, <2>5, <2>6 DEF DecodedX, ExecutedM
  <2>8. HoldsM(imem, M_in', p, R, acc)
    BY <2>0, <2>7 DEF HoldsM, i
  <2> QED
    BY <1>3, <2>4, <2>8 DEF FlagsAfter, i
<1>4. CASE HaltAt(imem, p)
  <2>0. ~Plain(imem, p) /\ ~BadAt(imem, p)
    BY <1>4, SegAssumption DEF Plain, HaltAt, BadAt, TextAddrs
  <2>1. X_out.op = "HLT" /\ X_out.status = "HLT"
    BY <1>4 DEF HoldsX
  <2>2. ~X_out.X_sigs.set_CC
    BY <2>1 DEF HaltInv, DeadInert, Dead
  <2> HIDE DEF b
  <2> QED
    BY <1>1, <1>2, <2>0, <2>1, <2>2 DEF HoldsM, FlagsAfter
<1>5. CASE BadAt(imem, p)
  <2>0. ~Plain(imem, p) /\ ~HaltAt(imem, p)
    BY <1>5, SegAssumption DEF Plain, HaltAt, BadAt, TextAddrs
  <2> QED
    BY <1>2, <1>5, <2>0 DEF HoldsX, HoldsM
<1>6. HaltAt(imem, p) \/ BadAt(imem, p) \/ Plain(imem, p)
  BY DEF HaltAt, BadAt, Plain
<1> QED
  BY <1>3, <1>4, <1>5, <1>6

(* Execute gives M_in the result and the flags of the instruction in X_out. *)
LEMMA ExecutePath ==
  ASSUME TypeOK, BubblesInv, HaltInv, Linked, Halting, Path,
         execute_instr, UNCHANGED history
  PROVE  Path' /\ ArchRegs' = ArchRegs
<1>1. /\ stage = "execute" /\ stage' = "decode" /\ X_out' = X_out
      /\ UNCHANGED <<imem, gpr, F_in, D_in, X_in, W_in, F_out, D_out,
                     M_out, W_out, F_PC, apc, acc, astat, wrong>>
  BY ExecuteStep, ExecuteKeeps DEF history
<1>2. /\ ~Early /\ ~Early' /\ Accessed /\ Accessed' /\ ~Executed /\ Executed'
      /\ ~Decoded /\ ~Decoded' /\ ~Fetched /\ ~Fetched' /\ stage' # "execute"
  BY <1>1 DEF Early, Accessed, Executed, Decoded, Fetched
<1>3. ArchRegs' = ArchRegs
  BY <1>1 DEF ArchRegs, Pending
<1>4. /\ (LiveM' <=> LiveM) /\ (LiveX' <=> LiveX) /\ (LiveD' <=> LiveD)
      /\ PcX' = PcX /\ PcD' = PcD /\ PcF' = PcF
      /\ (OpenX' <=> OpenX) /\ (OpenD' <=> OpenD) /\ (OpenF' <=> OpenF)
      /\ select_PC' = select_PC
  BY <1>1, <1>2, <1>3, Kept
<1>5. OffPath' /\ Squashed' /\ StatusFlow'
  BY <1>1, <1>2 DEF Path, OffPath, Harmless, Squashed, StatusFlow
<1>6. ~X_out.X_sigs.set_CC => cc' = cc
  BY Alu
<1>7. astat \in {"AOK", "HLT"} => cc = acc
  BY <1>1 DEF Path, FlagsFlow
<1>8. astat = "AOK" /\ LiveX => HoldsX(imem, X_out, apc, ArchRegs)
  BY <1>2 DEF Path, InExecute, OpenX
<1>9. astat = "AOK" /\ LiveX => /\ HoldsM(imem, M_in', apc, ArchRegs, acc)
                                /\ ~BadAt(imem, apc) => cc' = FlagsAfter(imem, apc, ArchRegs, acc)
  BY <1>7, <1>8, ExecuteHolds
<1>10. FlagsFlow'
  <2>1. astat = "HLT" => cc' = acc
    BY <1>2, <1>6, <1>7, BehindHalt DEF Path
  <2>2. astat = "AOK" /\ ~LiveX => cc' = acc
    BY <1>6, <1>7, Idle DEF Path
  <2> QED
    BY <1>1, <1>2, <1>3, <1>4, <1>9, <2>1, <2>2 DEF FlagsFlow
<1>11. InMemory'
  BY <1>1, <1>2, <1>3, <1>4, <1>9 DEF InMemory
<1>12. InExecute' /\ InDecode' /\ InFetch'
  BY <1>1, <1>2, <1>3, <1>4 DEF Path, InExecute, InDecode, InFetch
<1> QED
  BY <1>3, <1>5, <1>10, <1>11, <1>12 DEF Path

-----------------------------------------------------------------------------
(* decode_instr: forwarding delivers the registers behind the instruction   *)
(* in Execute.                                                              *)
LEMMA DecodeRegs ==
  ASSUME TypeOK, Wires, decode_instr
  PROVE  ArchRegs' = ArchRegs
<1>1. gpr' = Pending(W_out, gpr) /\ W_in' = W_in /\ W_out' = W_out
  BY DecodeKeeps, LandedWrite DEF Wires
<1>2. Pending(W_out, gpr') = gpr'
  BY <1>1, PendingTwice DEF TypeOK
<1>3. ArchRegs = Pending(W_in, gpr')
  BY <1>1 DEF ArchRegs
<1>4. ArchRegs' = Pending(W_in, Pending(W_out, gpr'))
  BY <1>1 DEF ArchRegs, Pending
<1> QED
  BY <1>2, <1>3, <1>4

(* What a register holds once the writes in flight have landed.             *)
LEMMA ArchReg ==
  ASSUME TypeOK, NEW r \in GPRegs
  PROVE  ArchRegs[r] = IF W_in.W_sigs.w_enable /\ W_in.dst = r
                       THEN IF W_in.W_sigs.wval_sel THEN W_in.val_mem ELSE W_in.val_ex
                       ELSE IF W_out.W_sigs.w_enable /\ W_out.dst = r
                       THEN IF W_out.W_sigs.wval_sel THEN W_out.val_mem ELSE W_out.val_ex
                       ELSE gpr[r]
<1>1. Pending(W_out, gpr) \in [GPRegs -> Word]
  BY DEF TypeOK, Pending, Result, WReg
<1>2. Pending(W_out, gpr)[r] = IF W_out.W_sigs.w_enable /\ W_out.dst = r
                       THEN IF W_out.W_sigs.wval_sel THEN W_out.val_mem ELSE W_out.val_ex
                       ELSE gpr[r]
  BY DEF TypeOK, Pending, Result
<1> DEFINE Q == Pending(W_out, gpr)
<1> HIDE DEF Q
<1>3. Pending(W_in, Q)[r] = IF W_in.W_sigs.w_enable /\ W_in.dst = r
                       THEN IF W_in.W_sigs.wval_sel THEN W_in.val_mem ELSE W_in.val_ex
                       ELSE Q[r]
  BY <1>1 DEF Pending, Result, Q
<1> QED
  BY <1>2, <1>3 DEF ArchRegs, Q

(* The architectural registers are a register file.                         *)
LEMMA ArchType == TypeOK => ArchRegs \in [GPRegs -> Word]
BY DEF TypeOK, ArchRegs, Pending, Result, WReg

(* The operand that Decode forwards is the register the instruction would   *)
(* find once those in front of it have taken effect, unless the read is     *)
(* Unsafe.                                                                  *)
LEMMA OperandRight ==
  ASSUME TypeOK, Wires, stage = "decode", NEW r \in SrcNum, ~Unsafe(r)
  PROVE  Operand(r) = reg(After(M_in, ArchRegs), r)
<1>1. /\ W_in.W_sigs = M_out.W_sigs /\ W_in.dst = M_out.dst /\ W_in.val_ex = M_out.val_ex
      /\ M_in.W_sigs = X_out.W_sigs /\ M_in.dst = X_out.dst
  BY DEF Wires, Accessed, Executed
<1>2. Operand(r) = YoungestResult(r, regread(r), ForwardX, ForwardM, ForwardW)
  BY ForwardsYoungest DEF Operand, Unsafe
<1>3. Operand(r) = IF X_out.W_sigs.w_enable /\ X_out.dst = r THEN M_in.val_ex
                   ELSE IF M_out.W_sigs.w_enable /\ M_out.dst = r
                   THEN IF M_out.W_sigs.wval_sel THEN W_in.val_mem ELSE M_out.val_ex
                   ELSE IF W_out.W_sigs.w_enable /\ W_out.dst = r
                   THEN IF W_out.W_sigs.wval_sel THEN W_out.val_mem ELSE W_out.val_ex
                   ELSE regread(r)
  BY <1>2 DEF YoungestResult, Writes, Result, ForwardX, ForwardM, ForwardW
<1>4. CASE r \in GPRegs
  <2>1. reg(After(M_in, ArchRegs), r)
          = IF X_out.W_sigs.w_enable /\ X_out.dst = r THEN M_in.val_ex ELSE ArchRegs[r]
    BY <1>1, <1>4, ArchType DEF reg, After
  <2>2. regread(r) = gpr[r]
    BY <1>4 DEF regread
  <2> QED
    BY <1>1, <1>3, <1>4, <2>1, <2>2, ArchReg
<1>5. CASE r \notin GPRegs
  <2>1. /\ ~(X_out.W_sigs.w_enable /\ X_out.dst = r)
        /\ ~(M_out.W_sigs.w_enable /\ M_out.dst = r)
        /\ ~(W_out.W_sigs.w_enable /\ W_out.dst = r)
    <3>1. CASE r = XZR
      BY <3>1 DEF Unsafe, Writes, ForwardX, ForwardM, ForwardW
    <3>2. CASE r = NoReg
      <4>1. r \notin RegNum
        BY <3>2, GPRegsAssumption DEF RegNum, NoReg, XZR
      <4> QED
        BY <4>1 DEF TypeOK, XReg, MReg, WReg
    <3> QED
      BY <1>5, <3>1, <3>2 DEF SrcNum, RegNum
  <2> QED
    BY <1>3, <1>5, <2>1 DEF regread, reg
<1> QED
  BY <1>4, <1>5

(* Every opcode but OP_ERROR has one first source.                          *)
LEMMA SingleSource ==
  ASSUME NEW i \in Insn, i.op # "ERROR"
  PROVE  \E s : src1_of(i) = {s}
<1>1. CASE i.op \in {"STUR", "LDUR", "CMP_RR", "TST_RR", "ADD_RI", "SUB_RI"}
  BY <1>1 DEF src1_of, ThreeReg, Shift
<1>2. CASE i.op \in ThreeReg \cup Shift \cup {"RET"}
  BY <1>2 DEF src1_of, ThreeReg, Shift
<1>3. CASE i.op = "MOVK"
  BY <1>3 DEF src1_of, ThreeReg, Shift
<1>4. CASE i.op \notin {"STUR", "LDUR", "CMP_RR", "TST_RR", "ADD_RI", "SUB_RI", "MOVK", "RET"}
                        \cup ThreeReg \cup Shift
  BY <1>4 DEF src1_of
<1> QED
  BY <1>1, <1>2, <1>3, <1>4

(* The operands of a plain instruction in Decode.                           *)
LEMMA OperandsRight ==
  ASSUME TypeOK, Wires, stage = "decode", NEW p, NEW i \in Insn,
         i.op \notin {"HLT", "ERROR"}, \A r \in Sources(i) : ~Unsafe(r)
  PROVE  LET R == After(M_in, ArchRegs)
         IN  /\ \A s \in src1_of(i) :
                  i.op \in UsesSrc1 => Operand(s) = first(p, i, R)
             /\ i.op \in RegOperand \cup {"STUR"} => Operand(src2_of(i)) = reg(R, src2_of(i))
<1> DEFINE R == After(M_in, ArchRegs)
<1>1. src1_of(i) \subseteq SrcNum /\ src2_of(i) \in SrcNum
  BY RegTypes, Zeros DEF SrcNum
<1>2. ASSUME NEW s \in src1_of(i), i.op \in UsesSrc1
      PROVE  Operand(s) = first(p, i, R)
  <2>1. PICK t : src1_of(i) = {t}
    BY SingleSource
  <2>2. s = t
    BY <1>2, <2>1
  <2>3. (CHOOSE r \in {s} : TRUE) = s
    OBVIOUS
  <2>4. (CHOOSE r \in src1_of(i) : TRUE) = s
    BY <2>1, <2>2, <2>3
  <2>5. s \in Sources(i)
    BY <1>2 DEF Sources
  <2>6. Operand(s) = reg(R, s)
    BY <1>1, <2>5, OperandRight
  <2>7. i.op \notin {"MVN", "BL", "ADRP"}
    BY <1>2 DEF UsesSrc1
  <2>8. first(p, i, R) = reg(R, CHOOSE r \in src1_of(i) : TRUE)
    BY <2>7 DEF first
  <2> QED
    BY <2>4, <2>6, <2>8
<1>3. ASSUME i.op \in RegOperand \cup {"STUR"}
      PROVE  Operand(src2_of(i)) = reg(R, src2_of(i))
  <2>1. src2_of(i) \in Sources(i)
    BY <1>3 DEF Sources
  <2> QED
    BY <1>1, <2>1, OperandRight
<1> QED
  BY <1>2, <1>3

(* decode_instr on the instruction at p.                                    *)
LEMMA DecodeHolds ==
  ASSUME QuietJunk, TypeOK, Wires, decode_instr,
         \A r \in Sources(D_out.insn) : ~Unsafe(r), NEW p, HoldsD(imem, D_out, p)
  PROVE  /\ HoldsX(imem, X_in', p, After(M_in, ArchRegs))
         /\ Unspoilt(imem, M_in, p)
<1> DEFINE i == D_out.insn
           R == After(M_in, ArchRegs)
           stat == IF i.op = "HLT" THEN "HLT" ELSE D_out.status
<1>1. stage = "decode" /\ i \in Insn
  BY DEF decode_instr, TypeOK, DReg
<1>2. PICK src1 \in src1_of(i) :
        X_in' = [op |-> i.op, seq_succ_PC |-> D_out.seq_succ_PC,
                 X_sigs |-> X_sigs(i.op), M_sigs |-> M_sigs(i.op),
                 W_sigs |-> W_sigs(i.op), ALU_op |-> decide_alu_op(i.op),
                 cond |-> IF i.op = "B_COND" THEN i.cond ELSE X_in.cond,
                 val_a |-> IF i.op = "MVN" THEN 0
                           ELSE IF i.op \in {"BL", "ADRP"} THEN D_out.seq_succ_PC
                           ELSE Operand(src1),
                 val_b |-> IF i.op = "BL" THEN 0 ELSE Operand(src2_of(i)),
                 val_imm |-> extract_immval(i),
                 val_hw |-> IF i.op \in {"MOVK", "MOVZ"} THEN HwBits * i.hw ELSE 0,
                 dst |-> dst_of(i, X_in.dst), status |-> stat]
  BY DEF decode_instr
<1>3. X_in'.op = i.op /\ X_in'.status = stat /\ X_in'.M_sigs = M_sigs(i.op)
  BY <1>2
<1>4. CASE Plain(imem, p)
  <2>0. ~HaltAt(imem, p) /\ ~BadAt(imem, p)
    BY <1>4, SegAssumption DEF Plain, HaltAt, BadAt, TextAddrs
  <2>1. /\ i = imem[p] /\ D_out.seq_succ_PC = seq_succ_PC(p, i) /\ D_out.status = "AOK"
        /\ i.op \notin {"HLT", "ERROR"}
    BY <1>4 DEF HoldsD, Plain
  <2>2. stat = "AOK"
    BY <2>1
  <2> HIDE DEF i, R, stat
  <2>3. /\ i.op \in UsesSrc1 => Operand(src1) = first(p, i, R)
        /\ i.op \in RegOperand \cup {"STUR"} => Operand(src2_of(i)) = reg(R, src2_of(i))
    BY <1>1, <2>1, OperandsRight DEF R, i
  <2>4. i.op \in Computes => X_in'.val_a = first(p, i, R)
    <3>1. i.op \in Computes => i.op \in UsesSrc1 \cup {"MVN", "BL", "ADRP"}
      BY DEF Computes, UsesSrc1
    <3>2. CASE i.op \in UsesSrc1
      <4>1. i.op \notin {"MVN", "BL", "ADRP"}
        BY <3>2 DEF UsesSrc1
      <4> QED
        BY <1>2, <2>3, <3>2, <4>1
    <3>3. CASE i.op \in {"MVN", "BL", "ADRP"}
      BY <1>2, <2>1, <3>3 DEF first
    <3> QED
      BY <3>1, <3>2, <3>3
  <2>5. i.op \in RegOperand \cup {"STUR"} => X_in'.val_b = reg(R, src2_of(i))
    <3>1. "BL" \notin RegOperand \cup {"STUR"}
      BY DEF RegOperand, SetsFlags
    <3> QED
      BY <1>2, <2>3, <3>1
  <2>6. i.op \notin NoWrite => dst_of(i, X_in.dst) = dst_of(i, XZR)
    <3>1. i.op \notin NoWrite => i.op \notin {"NOP", "ERROR"}
      BY <2>1 DEF NoWrite
    <3> QED
      BY <3>1 DEF dst_of
  <2>7. DecodedX(X_in', p, i, R)
    BY <1>2, <2>1, <2>2, <2>4, <2>5, <2>6 DEF DecodedX, shift_of
  <2>8. Unspoilt(imem, M_in, p)
    <3> SUFFICES ASSUME NEW r \in Sources(i),
                        M_in.W_sigs.w_enable, M_in.W_sigs.wval_sel, M_in.dst = r
                 PROVE  FALSE
      BY <2>1 DEF Unspoilt
    <3>1. M_in.W_sigs = X_out.W_sigs /\ M_in.dst = X_out.dst
      BY <1>1 DEF Wires, Executed
    <3>2. ~Unsafe(r)
      BY DEF i
    <3> QED
      BY <3>1, <3>2 DEF Unsafe, Writes, ForwardX
  <2> QED
    BY <2>0, <2>1, <2>7, <2>8 DEF HoldsX, R
<1>5. CASE HaltAt(imem, p)
  <2>0. ~Plain(imem, p) /\ ~BadAt(imem, p)
    BY <1>5, SegAssumption DEF Plain, HaltAt, BadAt, TextAddrs
  <2>1. i.op = "HLT" /\ stat = "HLT"
    BY <1>5 DEF HoldsD
  <2> HIDE DEF i, stat
  <2> QED
    BY <1>3, <2>0, <2>1 DEF HoldsX, Unspoilt
<1>6. CASE BadAt(imem, p)
  <2>0. ~Plain(imem, p) /\ ~HaltAt(imem, p)
    BY <1>6, SegAssumption DEF Plain, HaltAt, BadAt, TextAddrs
  <2>1. i.op \notin {"HLT", "LDUR", "STUR"} /\ stat = "INS"
    BY <1>6 DEF HoldsD
  <2>2. M_sigs(i.op) = NoMSigs
    <3>1. (i.op = "LDUR") = FALSE /\ (i.op = "STUR") = FALSE
      BY <2>1
    <3> QED
      BY ONLY <3>1, Zenon DEF M_sigs, NoMSigs
  <2> HIDE DEF i, stat
  <2> QED
    BY <1>3, <2>0, <2>1, <2>2 DEF HoldsX, Unspoilt
<1>7. HaltAt(imem, p) \/ BadAt(imem, p) \/ Plain(imem, p)
  BY DEF HaltAt, BadAt, Plain
<1> QED
  BY <1>4, <1>5, <1>6, <1>7

(* Decode gives X_in the instruction of D_out with its operands.            *)
LEMMA DecodePath ==
  ASSUME QuietJunk, TypeOK, Wires, Halting, Path,
         decode_instr, \A r \in Sources(D_out.insn) : ~Unsafe(r),
         UNCHANGED <<apc, acc, astat, wrong>>
  PROVE  Path' /\ ArchRegs' = ArchRegs
<1>1. /\ stage = "decode" /\ stage' = "fetch" /\ D_out' = D_out
      /\ UNCHANGED <<imem, cc, F_in, D_in, M_in, W_in, F_out, X_out,
                     M_out, W_out, F_PC, apc, acc, astat, wrong>>
  BY DecodeKeeps, DecodeKeepsD DEF wires
<1>2. /\ ~Early /\ ~Early' /\ Accessed /\ Accessed' /\ Executed /\ Executed'
      /\ ~Decoded /\ Decoded' /\ ~Fetched /\ ~Fetched' /\ stage' # "execute"
  BY <1>1 DEF Early, Accessed, Executed, Decoded, Fetched
<1>3. ArchRegs' = ArchRegs
  BY DecodeRegs
<1>4. /\ (LiveM' <=> LiveM) /\ (LiveX' <=> LiveX) /\ (LiveD' <=> LiveD)
      /\ PcX' = PcX /\ PcD' = PcD /\ PcF' = PcF
      /\ (OpenX' <=> OpenX) /\ (OpenD' <=> OpenD) /\ (OpenF' <=> OpenF)
      /\ select_PC' = select_PC
  BY <1>1, <1>2, <1>3, Kept
<1>5. OffPath' /\ Squashed' /\ StatusFlow'
  BY <1>1, <1>2 DEF Path, OffPath, Harmless, Squashed, StatusFlow
<1>6. FlagsFlow'
  BY <1>1, <1>2, <1>3, <1>4 DEF Path, FlagsFlow
<1>7. OpenD /\ LiveD => HoldsD(imem, D_out, PcD)
  BY DEF Path, InDecode
<1>8. OpenD /\ LiveD => /\ HoldsX(imem, X_in', PcD, After(M_in, ArchRegs))
                        /\ Unspoilt(imem, M_in, PcD)
  BY <1>7, DecodeHolds
<1>9. InMemory'
  BY <1>1, <1>2, <1>3, <1>4 DEF Path, InMemory
<1>10. InExecute'
  BY <1>1, <1>2, <1>3, <1>4, <1>8 DEF Path, InExecute
<1>11. InDecode' /\ InFetch'
  BY <1>1, <1>2, <1>3, <1>4 DEF Path, InDecode, InFetch
<1> QED
  BY <1>3, <1>5, <1>6, <1>9, <1>10, <1>11 DEF Path

-----------------------------------------------------------------------------
(* fetch_instr brings in the instruction at the address it selects.         *)
LEMMA FetchHolds ==
  ASSUME QuietJunk, TypeOK, fetch_instr, F_in.status = "HLT" => HaltAt(imem, select_PC)
  PROVE  /\ HoldsD(imem, D_in', select_PC)
         /\ Plain(imem, select_PC)
              => F_PC' = predicted_PC(select_PC, imem[select_PC])
         /\ F_in'.status = "HLT" => HaltAt(imem, select_PC)
<1> DEFINE p == select_PC
<1>1. CASE MakesHalt
  <2>1. FetchHalt
    BY <1>1 DEF fetch_instr
  <2>2. HaltAt(imem, p)
    BY <1>1 DEF MakesHalt, HaltAt
  <2>3. ~Plain(imem, p) /\ ~BadAt(imem, p)
    BY <2>2, SegAssumption DEF Plain, HaltAt, BadAt, TextAddrs
  <2>4. D_in'.insn.op = "HLT" /\ D_in'.status = "HLT"
    BY <2>1 DEF FetchHalt, HltInsn, ZeroInsn, TypeOK, DReg
  <2> HIDE DEF p
  <2> QED
    BY <2>2, <2>3, <2>4 DEF HoldsD, p
<1>2. CASE ~MakesHalt
  <2>1. FetchWord(p)
    BY <1>2 DEF fetch_instr
  <2>2. p # 0 /\ F_in.status # "HLT"
    BY <1>2 DEF MakesHalt
  <2> HIDE DEF p
  <2>3. PICK i \in imem_words(p) :
          LET stat == IF imem_err(p) \/ i.op = "ERROR" THEN "INS"
                      ELSE IF i.op = "HLT" THEN "HLT" ELSE "AOK"
          IN  /\ D_in' = [insn |-> i, seq_succ_PC |-> seq_succ_PC(p, i), status |-> stat]
              /\ F_in' = Latch(stat)
              /\ F_PC' = predicted_PC(p, i)
    BY <2>1 DEF FetchWord
  <2>4. CASE p \in TextAddrs
    <3>1. i = imem[p] /\ ~imem_err(p)
      BY <2>4, SegAssumption DEF imem_words, TextAddrs, imem_err, addr_in_imem
    <3>2. CASE i.op = "HLT"
      <4>1. HaltAt(imem, p) /\ ~Plain(imem, p) /\ ~BadAt(imem, p)
        BY <2>2, <2>4, <3>1, <3>2 DEF HaltAt, Plain, BadAt
      <4> QED
        BY <2>3, <3>1, <3>2, <4>1 DEF HoldsD, p
    <3>3. CASE i.op = "ERROR"
      <4>1. ~HaltAt(imem, p) /\ ~Plain(imem, p) /\ BadAt(imem, p)
        BY <2>2, <2>4, <3>1, <3>3 DEF HaltAt, Plain, BadAt
      <4>2. F_in'.status = "INS"
        BY <2>3, <3>1, <3>3 DEF Latch, TypeOK, FReg
      <4> QED
        BY <2>3, <3>1, <3>3, <4>1, <4>2 DEF HoldsD, p
    <3>4. CASE i.op \notin {"HLT", "ERROR"}
      <4>1. ~HaltAt(imem, p) /\ Plain(imem, p) /\ ~BadAt(imem, p)
        BY <2>2, <2>4, <3>1, <3>4 DEF HaltAt, Plain, BadAt
      <4>2. F_in' = F_in
        BY <2>3, <3>1, <3>4 DEF Latch
      <4> QED
        BY <2>2, <2>3, <3>1, <3>4, <4>1, <4>2 DEF HoldsD, p
    <3> QED
      BY <3>2, <3>3, <3>4
  <2>5. CASE p \notin TextAddrs
    <3>1. i \in JunkInsn /\ i.op \notin {"HLT", "LDUR", "STUR"}
      BY <2>5 DEF imem_words, QuietJunk
    <3>2. imem_err(p)
      <4>1. p \in Int
        BY SelectType DEF Word, p
      <4> QED
        BY <4>1, <2>5, SegAssumption DEF TextAddrs, imem_err, addr_in_imem
    <3>3. ~HaltAt(imem, p) /\ ~Plain(imem, p) /\ BadAt(imem, p)
      BY <2>2, <2>5 DEF HaltAt, Plain, BadAt
    <3>4. F_in'.status = "INS"
      BY <2>3, <3>2 DEF Latch, TypeOK, FReg
    <3> QED
      BY <2>3, <3>1, <3>2, <3>3, <3>4 DEF HoldsD, p
  <2> QED
    BY <2>4, <2>5
<1> QED
  BY <1>1, <1>2

(* Fetch gives D_in the instruction the path continues with.                *)
LEMMA FetchPath ==
  ASSUME ~Cached, QuietJunk, TypeOK, Wires, Path,
         fetch_instr, UNCHANGED history
  PROVE  Path' /\ ArchRegs' = ArchRegs
<1>1. /\ stage = "fetch" /\ stage' = "hazards"
      /\ UNCHANGED <<imem, gpr, cc, X_in, M_in, W_in, D_out, X_out,
                     M_out, W_out, apc, acc, astat, wrong>>
      /\ F_out'.pred_PC = F_out.pred_PC
  BY FetchEffect DEF history, Wires
<1>2. /\ ~Early /\ ~Early' /\ Accessed /\ Accessed' /\ Executed /\ Executed'
      /\ Decoded /\ Decoded' /\ ~Fetched /\ Fetched' /\ stage' # "execute"
  BY <1>1 DEF Early, Accessed, Executed, Decoded, Fetched
<1>3. ArchRegs' = ArchRegs
  BY <1>1 DEF ArchRegs, Pending
<1>4. /\ (LiveM' <=> LiveM) /\ (LiveX' <=> LiveX) /\ (LiveD' <=> LiveD)
      /\ PcX' = PcX /\ PcD' = PcD /\ PcF' = PcF
      /\ (OpenX' <=> OpenX) /\ (OpenD' <=> OpenD) /\ (OpenF' <=> OpenF)
      /\ select_PC' = select_PC
  BY <1>1, <1>2, <1>3, Kept
<1>5. OffPath' /\ Squashed' /\ StatusFlow'
  BY <1>1, <1>2 DEF Path, OffPath, Harmless, Squashed, StatusFlow
<1>6. FlagsFlow'
  BY <1>1, <1>2, <1>3, <1>4 DEF Path, FlagsFlow
<1>7. InMemory' /\ InExecute'
  BY <1>1, <1>2, <1>3, <1>4 DEF Path, InMemory, InExecute
<1>8. OpenF => select_PC = PcF /\ (F_in.status = "HLT" => HaltAt(imem, PcF))
  BY DEF Path, InFetch
<1>9. OpenF => /\ HoldsD(imem, D_in', PcF)
               /\ Plain(imem, PcF) => F_PC' = predicted_PC(PcF, imem[PcF])
               /\ F_in'.status = "HLT" => HaltAt(imem, PcF)
  BY <1>8, FetchHolds
<1>10. InFetch'
  BY <1>1, <1>2, <1>4, <1>8, <1>9 DEF InFetch
<1>11. InDecode'
  BY <1>1, <1>2, <1>3, <1>4 DEF Path, InDecode
<1> QED
  BY <1>3, <1>5, <1>6, <1>7, <1>10, <1>11 DEF Path

-----------------------------------------------------------------------------
(* memory_instr: the registers of the sequential machine get the value the  *)
(* instruction will write.                                                  *)
LEMMA MemoryRegs ==
  ASSUME TypeOK, Wires, memory_instr
  PROVE  ArchRegs' = IF M_out.W_sigs.w_enable /\ M_out.dst \in GPRegs
                     THEN [ArchRegs EXCEPT ![M_out.dst] =
                             IF M_out.W_sigs.wval_sel THEN W_in'.val_mem ELSE M_out.val_ex]
                     ELSE ArchRegs
<1>1. /\ gpr' = gpr /\ W_out' = W_out /\ stage = "memory"
      /\ W_in'.W_sigs = M_out.W_sigs /\ W_in'.dst = M_out.dst /\ W_in'.val_ex = M_out.val_ex
  BY MemoryStep DEF outs
<1>2. W_in = W_out
  BY <1>1 DEF Wires, Early
<1> DEFINE Q == Pending(W_out, gpr)
<1>3. ArchRegs = Q
  BY <1>2, PendingTwice DEF ArchRegs, TypeOK
<1>4. ArchRegs' = Pending(W_in', Q)
  BY <1>1 DEF ArchRegs, Pending
<1> HIDE DEF Q
<1> QED
  BY <1>1, <1>3, <1>4 DEF Pending, Result

(* An instruction that makes no access changes no memory, and without a     *)
(* register write no architectural register.                                *)
LEMMA MemoryIdle ==
  ASSUME TypeOK, Wires, memory_instr, M_out.M_sigs = NoMSigs
  PROVE  /\ ms' = ms /\ stage' = "execute" /\ W_in'.status = M_out.status
         /\ ~M_out.W_sigs.w_enable => ArchRegs' = ArchRegs
<1>1. M_out.M_sigs.dmem_read = FALSE /\ M_out.M_sigs.dmem_write = FALSE
  BY DEF NoMSigs
<1>2. ms' = ms /\ W_in'.status = M_out.status
      /\ stage = "memory" /\ stage' = IF ms'.exit = "no" THEN "execute" ELSE "stop"
  BY <1>1, MemoryStep
<1>3. stage' = "execute"
  BY <1>2 DEF Wires
<1> QED
  BY <1>2, <1>3, MemoryRegs

(* The operands of an instruction depend on its sources only.               *)
LEMMA SameOperands ==
  ASSUME NEW i \in Insn, i.op \notin {"HLT", "ERROR"}, NEW p, NEW R, NEW S,
         \A r \in Sources(i) : reg(R, r) = reg(S, r)
  PROVE  /\ i.op \in Computes => first(p, i, R) = first(p, i, S)
         /\ i.op \in RegOperand \cup {"STUR"} => reg(R, src2_of(i)) = reg(S, src2_of(i))
<1>1. PICK t : src1_of(i) = {t}
  BY SingleSource
<1>2. (CHOOSE r \in {t} : TRUE) = t
  OBVIOUS
<1>3. (CHOOSE r \in src1_of(i) : TRUE) = t
  BY <1>1, <1>2
<1>4. CASE i.op \in UsesSrc1
  <2>1. t \in Sources(i) /\ i.op \notin {"MVN", "BL", "ADRP"}
    BY <1>1, <1>4 DEF Sources, UsesSrc1
  <2>2. first(p, i, R) = reg(R, CHOOSE r \in src1_of(i) : TRUE)
        /\ first(p, i, S) = reg(S, CHOOSE r \in src1_of(i) : TRUE)
    BY <2>1 DEF first
  <2>3. first(p, i, R) = first(p, i, S)
    BY <1>3, <2>1, <2>2
  <2> QED
    BY <2>3 DEF Sources
<1>5. CASE i.op \in {"MVN", "BL", "ADRP"}
  BY <1>5 DEF first, Sources
<1>6. CASE i.op \notin UsesSrc1 \cup {"MVN", "BL", "ADRP"}
  <2>1. i.op \notin Computes
    BY <1>6 DEF Computes, UsesSrc1
  <2> QED
    BY <2>1 DEF Sources
<1> QED
  BY <1>4, <1>5, <1>6

(* So a slot of Execute holds its instruction for other registers too, if   *)
(* those agree on its sources.                                              *)
LEMMA SameHolds ==
  ASSUME TypeOK, NEW X, NEW p, NEW R, NEW S, HoldsX(imem, X, p, R),
         Plain(imem, p) => \A r \in Sources(imem[p]) : reg(R, r) = reg(S, r)
  PROVE  HoldsX(imem, X, p, S)
<1>1. CASE Plain(imem, p)
  <2> DEFINE i == imem[p]
  <2>1. i \in Insn /\ i.op \notin {"HLT", "ERROR"}
    BY <1>1 DEF Plain, TypeOK
  <2>2. DecodedX(X, p, i, R)
    BY <1>1 DEF HoldsX
  <2>3. \A r \in Sources(i) : reg(R, r) = reg(S, r)
    BY <1>1
  <2> HIDE DEF i
  <2>4. /\ i.op \in Computes => first(p, i, R) = first(p, i, S)
        /\ i.op \in RegOperand \cup {"STUR"} => reg(R, src2_of(i)) = reg(S, src2_of(i))
    BY <2>1, <2>3, SameOperands
  <2>5. DecodedX(X, p, i, S)
    BY <2>2, <2>4 DEF DecodedX
  <2> QED
    BY <2>5 DEF HoldsX, i
<1>2. CASE ~Plain(imem, p)
  BY <1>2 DEF HoldsX
<1> QED
  BY <1>1, <1>2

(* Where a step of the sequential machine leads.                            *)
LEMMA MemoryTarget ==
  ASSUME TypeOK, Path, Early, LSMemory, astat' = "AOK", stage' # "stop"
  PROVE  /\ astat = "AOK" /\ (LiveM => Plain(imem, apc) /\ M_out.status = "AOK")
         /\ apc' = PcX
<1>1. CASE TakesEffect
  <2>1. astat = "AOK" /\ LiveM /\ apc' = Sequential!NextPC
        /\ astat' = (IF ms'.exit = "no" THEN W_in'.status ELSE "EXIT")
    BY <1>1 DEF LSMemory, TakesEffect, LiveM
  <2>2. W_in'.status = "AOK"
    BY <2>1
  <2>3. M_out.status = "AOK"
    BY <2>2, MemoryStep DEF LSMemory
  <2>4. HoldsM(imem, M_out, apc, ArchRegs, acc)
    BY <2>1 DEF Path, InMemory
  <2>5. Plain(imem, apc)
    BY <2>3, <2>4 DEF HoldsM, HaltAt, BadAt, Plain
  <2>6. apc' = target(apc, imem[apc], ArchRegs, acc)
    BY <2>1, <2>5, SameResult DEF Plain
  <2> QED
    BY <2>1, <2>3, <2>5, <2>6 DEF PcX
<1>2. CASE ~TakesEffect
  <2>1. apc' = apc /\ astat = "AOK"
    BY <1>2 DEF LSMemory
  <2>2. ~LiveM
    BY <1>2, <2>1 DEF TakesEffect, LiveM
  <2> QED
    BY <2>1, <2>2 DEF PcX
<1> QED
  BY <1>1, <1>2

(* Memory lets the instruction in M_out take effect: the path moves on, the *)
(* registers become After(M_out, ArchRegs), and what Execute holds was      *)
(* computed for them.                                                       *)
LEMMA MemoryPath ==
  ASSUME TypeOK, BubblesInv, HaltInv, Wires, Path, LSMemory, stage' # "stop"
  PROVE  Path'
<1>1. /\ memory_instr /\ stage = "memory" /\ stage' = "execute" /\ ms'.exit = "no"
      /\ UNCHANGED <<imem, gpr, cc, F_in, D_in, X_in, M_in, F_out, D_out, X_out,
                     M_out, W_out, F_PC, wrong>>
      /\ W_in'.op = M_out.op
  BY MemoryStep DEF LSMemory, outs, wires
<1>2. /\ Early /\ ~Early' /\ ~Accessed /\ Accessed' /\ ~Executed /\ ~Executed'
      /\ ~Decoded /\ ~Decoded' /\ ~Fetched /\ ~Fetched'
  BY <1>1 DEF Early, Accessed, Executed, Decoded, Fetched
<1>3. (LiveM' <=> LiveM) /\ (LiveX' <=> LiveX) /\ (LiveD' <=> LiveD)
  BY <1>1 DEF LiveM, LiveX, LiveD
<1>4. /\ TakesEffect => acc' = cc /\ astat' = W_in'.status
      /\ ~TakesEffect => UNCHANGED <<apc, acc, astat>>
      /\ TakesEffect <=> astat = "AOK" /\ LiveM
  BY <1>1 DEF LSMemory, TakesEffect, LiveM
<1>5. OpenX' => OpenX /\ PcX' = PcX
  <2> SUFFICES ASSUME OpenX' PROVE OpenX /\ PcX' = PcX
    OBVIOUS
  <2>1. astat' = "AOK"
    BY DEF OpenX
  <2>2. astat = "AOK" /\ (LiveM => M_out.status = "AOK") /\ apc' = PcX
    BY <1>1, <1>2, <2>1, MemoryTarget
  <2>3. PcX' = apc'
    BY <1>2 DEF PcX
  <2> QED
    BY <2>2, <2>3 DEF OpenX
<1>6. OpenX' => PcD' = PcD
  BY <1>1, <1>3, <1>5 DEF PcD
<1>7. OpenD' => OpenD
  BY <1>1, <1>3, <1>5 DEF OpenD
<1>8. OpenX' => PcF' = PcF
  BY <1>1, <1>3, <1>6 DEF PcF
<1>9. (OpenD' => OpenX') /\ (OpenF' => OpenX') /\ (OpenF' => OpenF)
  BY <1>1, <1>3, <1>7 DEF OpenD, OpenF
<1>10. select_PC' = select_PC
  BY <1>1 DEF select_PC
<1>11. OffPath' /\ Squashed'
  BY <1>1 DEF Path, OffPath, Harmless, Squashed
<1>12. StatusFlow'
  <2>1. CASE TakesEffect
    <3>1. W_out.status \in Running
      BY <1>2, <1>4, <2>1 DEF Path, StatusFlow
    <3>2. W_in'.status # "BUB"
      BY <1>1, <2>1, MemoryStep DEF TakesEffect
    <3> QED
      BY <1>1, <1>2, <1>4, <2>1, <3>1, <3>2 DEF StatusFlow, Running
  <2>2. CASE ~TakesEffect /\ astat = "AOK"
    <3>1. W_out.status \in Running
      BY <1>2, <2>2 DEF Path, StatusFlow
    <3>2. M_out.M_sigs = NoMSigs /\ M_out.status \in Running
      BY <1>4, <2>2, Idle DEF Path, Inert
    <3>3. W_in'.status = M_out.status
      BY <1>1, <3>2, MemoryIdle
    <3> QED
      BY <1>1, <1>2, <1>4, <2>2, <3>1, <3>2, <3>3 DEF StatusFlow
  <2>3. CASE ~TakesEffect /\ astat # "AOK"
    BY <1>1, <1>2, <1>4, <2>3 DEF Path, StatusFlow
  <2> QED
    BY <2>1, <2>2, <2>3
<1>13. FlagsFlow'
  <2>1. astat' \in {"AOK", "HLT"} => cc' = acc'
    <3>1. CASE TakesEffect
      BY <1>1, <1>4, <3>1
    <3>2. CASE ~TakesEffect
      BY <1>1, <1>2, <1>4, <3>2 DEF Path, FlagsFlow
    <3> QED
      BY <3>1, <3>2
  <2> QED
    BY <1>1, <1>2, <2>1 DEF FlagsFlow
<1>14. InMemory'
  BY <1>2 DEF InMemory
<1>15. InExecute'
  <2> SUFFICES ASSUME OpenX', LiveX
               PROVE  HoldsX(imem, X_out, PcX, ArchRegs')
    <3>1. PcX' = apc'
      BY <1>2 DEF PcX
    <3> QED
      BY <1>1, <1>2, <1>3, <1>5, <3>1 DEF InExecute
  <2>1. /\ HoldsX(imem, X_out, PcX, After(M_out, ArchRegs))
        /\ Unspoilt(imem, M_out, PcX)
    BY <1>2, <1>5 DEF Path, InExecute
  <2>2. ASSUME Plain(imem, PcX), NEW r \in Sources(imem[PcX])
        PROVE  reg(After(M_out, ArchRegs), r) = reg(ArchRegs', r)
    <3>1. ~(M_out.W_sigs.w_enable /\ M_out.W_sigs.wval_sel /\ M_out.dst = r)
      BY <2>1, <2>2 DEF Unspoilt
    <3>2. ArchRegs \in [GPRegs -> Word]
      BY ArchType
    <3> QED
      BY <1>1, <3>1, <3>2, MemoryRegs DEF reg, After
  <2> QED
    BY <2>1, <2>2, SameHolds
<1>16. InDecode'
  BY <1>1, <1>3, <1>6, <1>7, <1>9 DEF Path, InDecode
<1>17. InFetch'
  BY <1>1, <1>2, <1>8, <1>9, <1>10 DEF Path, InFetch
<1> QED
  BY <1>11, <1>12, <1>13, <1>14, <1>15, <1>16, <1>17 DEF Path

-----------------------------------------------------------------------------
(* clock: every instruction moves on by one register, unless a hazard       *)
(* squashes it or holds it back.                                            *)

\* What handle_hazards asks of Fetch and Decode.
LoadUse == check_load_use_hazard(D_src1, D_src2, X_out.op, X_dst)
Returns == check_ret_hazard(D_out.insn.op)

(* The controls of Fetch and Decode for each hazard, the mispredicted       *)
(* branch first.                                                            *)
LEMMA FrontEnd ==
  ASSUME Wires, clock, ~BadSquash
  PROVE  /\ Mispredicted => ~Returns /\ ~LoadUse /\ ctl["f"] = "BUBBLE" /\ ctl["d"] = "BUBBLE"
         /\ ~Mispredicted /\ LoadUse => ctl["f"] = "STALL" /\ ctl["d"] = "BUBBLE"
         /\ ~Mispredicted /\ ~LoadUse /\ Returns => ctl["f"] = "BUBBLE" /\ ctl["d"] = "LOAD"
         /\ ~Mispredicted /\ ~LoadUse /\ ~Returns => ctl["f"] = "LOAD" /\ ctl["d"] = "LOAD"
<1> DEFINE p == ProgramHazard(Returns, LoadUse, Mispredicted)
<1>1. Hazards = p
  BY DEF Wires, Hazards, handle_hazards, LoadUse, Returns, Mispredicted
<1>2. ctl = [r \in PipeReg |-> pipe_control_stage(r \in Hazards.bubble, r \in Hazards.stall)]
  BY DEF Wires, clock
<1>3. /\ ctl["f"] = pipe_control_stage("f" \in p.bubble, "f" \in p.stall)
      /\ ctl["d"] = pipe_control_stage("d" \in p.bubble, "d" \in p.stall)
  <2> HIDE DEF p, Hazards
  <2> QED
    BY <1>1, <1>2 DEF PipeReg
<1>4. Mispredicted => ~Returns /\ ~LoadUse
  BY DEF BadSquash, Mispredicted, Returns, LoadUse, Harmless, check_ret_hazard,
         check_load_use_hazard, check_mispred_branch_hazard
<1>5. Mispredicted \in BOOLEAN /\ Returns \in BOOLEAN /\ LoadUse \in BOOLEAN
  BY DEF Mispredicted, Returns, LoadUse, check_ret_hazard,
         check_load_use_hazard, check_mispred_branch_hazard
<1> HIDE DEF Mispredicted, Returns, LoadUse
<1>6. CASE Mispredicted
  <2>1. p = [bubble |-> {"f", "d"}, stall |-> {}]
    BY <1>4, <1>6 DEF ProgramHazard
  <2> HIDE DEF p
  <2> QED
    BY <1>3, <1>4, <1>6, <2>1 DEF pipe_control_stage
<1>7. CASE ~Mispredicted /\ LoadUse
  <2>1. p = [bubble |-> {"d"}, stall |-> {"f"}]
    BY <1>5, <1>7 DEF ProgramHazard
  <2> HIDE DEF p
  <2> QED
    BY <1>3, <1>7, <2>1 DEF pipe_control_stage
<1>8. CASE ~Mispredicted /\ ~LoadUse /\ Returns
  <2>1. p = [bubble |-> {"f"}, stall |-> {}]
    BY <1>5, <1>8 DEF ProgramHazard
  <2> HIDE DEF p
  <2> QED
    BY <1>3, <1>8, <2>1 DEF pipe_control_stage
<1>9. CASE ~Mispredicted /\ ~LoadUse /\ ~Returns
  <2>1. p = [bubble |-> {}, stall |-> {}]
    BY <1>5, <1>9 DEF ProgramHazard
  <2> HIDE DEF p
  <2> QED
    BY <1>3, <1>9, <2>1 DEF pipe_control_stage
<1> QED
  BY <1>6, <1>7, <1>8, <1>9

(* The edge moves the pending write from W_in to W_out, where W_out's has   *)
(* landed.                                                                  *)
LEMMA ClockRegs ==
  ASSUME TypeOK, Wires, clock
  PROVE  ArchRegs' = ArchRegs
<1>1. /\ stage = "clock" /\ UNCHANGED <<gpr, W_in>> /\ W_out' = W_in
  BY ClockStep DEF arch, ins
<1>2. Pending(W_out, gpr) = gpr
  BY <1>1 DEF Wires, Decoded
<1>3. ArchRegs = Pending(W_in, gpr)
  BY <1>2 DEF ArchRegs
<1>4. ArchRegs' = Pending(W_in, Pending(W_in, gpr))
  BY <1>1 DEF ArchRegs, Pending
<1> QED
  BY <1>3, <1>4, PendingTwice DEF TypeOK

(* What the edge does in a clean run that goes on.                          *)
LEMMA ClockMoves ==
  ASSUME TypeOK, Wires, LSClock, clean', stage' # "stop"
  PROVE  /\ clock /\ stage = "clock" /\ stage' = "wback" /\ ~BadSquash /\ ~BadSlot
         /\ UNCHANGED <<imem, gpr, cc, apc, acc, astat, F_in, D_in, X_in, M_in, W_in>>
         /\ X_out' = X_in /\ M_out' = M_in /\ W_out' = W_in
         /\ status \in Running /\ W_out.status = status
         /\ "d" \in wrong' <=> InSlot
         /\ "x" \in wrong' <=> "d" \in wrong \/ Mispredicted
         /\ "m" \in wrong' <=> "x" \in wrong
<1>1. clock /\ ~BadSquash /\ ~BadSlot /\ UNCHANGED <<apc, acc, astat>>
  BY DEF LSClock
<1>2. /\ stage = "clock" /\ stage' \in {"wback", "stop"}
      /\ UNCHANGED <<imem, gpr, cc, F_in, D_in, X_in, M_in, W_in>>
      /\ X_out' = X_in /\ M_out' = M_in /\ W_out' = W_in
  BY <1>1, ClockStep DEF arch, ins
<1>3. status \in Running
  <2>1. status' = IF \E r \in PipeReg : ctl[r] = "ERROR" THEN "HLT" ELSE status
    BY <1>1 DEF clock
  <2>2. status' \in Running
    BY <1>1 DEF clock
  <2> QED
    BY <2>1, <2>2 DEF Running
<1>4. W_out.status = status
  BY <1>2 DEF Wires
<1>5. /\ "d" \in wrong' <=> InSlot
      /\ "x" \in wrong' <=> "d" \in wrong \/ Mispredicted
      /\ "m" \in wrong' <=> "x" \in wrong
  <2> DEFINE W(r) == \/ r = "d" /\ InSlot
                     \/ r = "x" /\ ("d" \in wrong \/ Mispredicted)
                     \/ r = "m" /\ "x" \in wrong
  <2>1. wrong' = {r \in {"d", "x", "m"} : W(r)}
    BY DEF LSClock
  <2>2. /\ W("d") <=> InSlot
        /\ W("x") <=> "d" \in wrong \/ Mispredicted
        /\ W("m") <=> "x" \in wrong
    OBVIOUS
  <2> HIDE DEF W
  <2> QED
    BY <2>1, <2>2
<1> QED
  BY <1>1, <1>2, <1>3, <1>4, <1>5

(* Which slots hold an instruction of the path after the clock edge.        *)
LEMMA ClockLive ==
  ASSUME TypeOK, BubblesInv, HaltInv, Wires, OffPath, LSClock, clean', stage' # "stop"
  PROVE  /\ LiveM' <=> LiveX
         /\ LiveX' <=> LiveD /\ ~Mispredicted
         /\ Mispredicted => LiveX
         /\ OpenX' <=> OpenD
         /\ ~Mispredicted => (OpenD' <=> OpenF)
<1>1. /\ stage = "clock" /\ stage' = "wback" /\ astat' = astat /\ X_out' = X_in /\ M_out' = M_in
      /\ "x" \in wrong' <=> "d" \in wrong \/ Mispredicted
      /\ "m" \in wrong' <=> "x" \in wrong
  BY ClockMoves
<1>2. /\ ~Early /\ Early' /\ Executed /\ Decoded
  BY <1>1 DEF Early, Executed, Decoded
<1>3. M_in.status = X_out.status /\ X_in.status = D_out.status
  BY <1>2 DEF Wires
<1>4. (LiveM' <=> LiveX) /\ (LiveX' <=> LiveD /\ ~Mispredicted)
  BY <1>1, <1>3 DEF LiveM, LiveX, LiveD
<1>5. Mispredicted => LiveX
  BY Idle DEF Mispredicted, check_mispred_branch_hazard
<1>6. OpenX' <=> OpenD
  BY <1>1, <1>2, <1>3, <1>4 DEF OpenX, OpenD
<1>7. ~Mispredicted => (OpenD' <=> OpenF)
  BY <1>1, <1>3, <1>4, <1>6 DEF OpenD, OpenF
<1> QED
  BY <1>4, <1>5, <1>6, <1>7

(* A branch condition and a return address are known in Execute.            *)
LEMMA Resolved ==
  ASSUME TypeOK, Wires, Path, Executed, OpenD, LiveX
  PROVE  target(apc, imem[apc], ArchRegs, acc)
           = IF Mispredicted THEN M_in.seq_succ_PC ELSE PcD
<1> DEFINE i == imem[apc]
<1>1. /\ ~Early /\ Accessed /\ OpenX /\ astat = "AOK" /\ X_out.status = "AOK"
  BY DEF Early, Executed, Accessed, OpenD, OpenX
<1>2. HoldsX(imem, X_out, apc, ArchRegs) /\ HoldsM(imem, M_in, apc, ArchRegs, acc)
  BY <1>1 DEF Path, InExecute, InMemory
<1>3. Plain(imem, apc)
  BY <1>1, <1>2 DEF HoldsX, HaltAt, BadAt, Plain
<1>4. DecodedX(X_out, apc, i, ArchRegs) /\ ExecutedM(M_in, apc, i, ArchRegs, acc)
  BY <1>2, <1>3 DEF HoldsX, HoldsM
<1>5. X_condval = M_in.cond_holds
  BY DEF Wires
<1>6. PcD = IF i.op = "RET" THEN X_out.val_a ELSE predicted_PC(apc, i)
  BY <1>1, <1>4 DEF PcD, PcX, DecodedX
<1>7. Mispredicted <=> i.op = "B_COND" /\ ~cond_holds(i.cond, acc)
  BY <1>4, <1>5 DEF DecodedX, ExecutedM, Mispredicted, check_mispred_branch_hazard
<1>8. CASE i.op = "RET"
  <2>1. "RET" \in Computes
    BY DEF Computes, Opcode
  <2>2. X_out.val_a = first(apc, i, ArchRegs)
    BY <1>4, <1>8, <2>1 DEF DecodedX
  <2> QED
    BY <1>6, <1>7, <1>8, <2>2 DEF target
<1>9. CASE i.op # "RET"
  <2>1. i.op = "B_COND" => M_in.seq_succ_PC = Next4(apc)
    BY <1>4 DEF ExecutedM, seq_succ_PC
  <2> QED
    BY <1>6, <1>7, <1>9, <2>1 DEF target
<1> QED
  BY <1>8, <1>9

(* Where the path continues behind the new Execute and Decode slots.        *)
LEMMA ClockPc ==
  ASSUME TypeOK, BubblesInv, HaltInv, Wires, Path, LSClock, clean', stage' # "stop", OpenD
  PROVE  /\ PcX' = IF Mispredicted THEN M_in.seq_succ_PC ELSE PcD
         /\ Mispredicted => PcD' = M_in.seq_succ_PC
         /\ ~Mispredicted /\ Returns => PcD' = X_in.val_a /\ LiveD
         /\ ~Mispredicted /\ ~Returns => PcD' = PcF
<1>1. /\ stage = "clock" /\ stage' = "wback" /\ X_out' = X_in
      /\ UNCHANGED <<imem, apc, acc>> /\ OffPath
  BY ClockMoves DEF Path
<1>2. ~Early /\ Early' /\ Executed /\ Decoded
  BY <1>1 DEF Early, Executed, Decoded
<1>3. ArchRegs' = ArchRegs
  BY ClockRegs, ClockMoves
<1>4. (LiveM' <=> LiveX) /\ (LiveX' <=> LiveD /\ ~Mispredicted) /\ (Mispredicted => LiveX)
  BY <1>1, ClockLive
<1>5. X_in.op = D_out.insn.op
  BY <1>1 DEF HaltInv, Flow
<1>6. PcX' = IF Mispredicted THEN M_in.seq_succ_PC ELSE PcD
  <2>1. CASE LiveX
    <3>1. PcX' = target(apc, imem[apc], ArchRegs, acc)
      BY <1>1, <1>2, <1>3, <1>4, <2>1 DEF PcX
    <3> QED
      BY <1>2, <2>1, <3>1, Resolved
  <2>2. CASE ~LiveX
    <3>1. PcX' = apc
      BY <1>1, <1>4, <2>2 DEF PcX
    <3>2. PcD = apc
      BY <1>2, <2>2 DEF PcD, PcX
    <3> QED
      BY <1>4, <2>2, <3>1, <3>2
  <2> QED
    BY <2>1, <2>2
<1>7. CASE Mispredicted
  BY <1>4, <1>6, <1>7 DEF PcD
<1>8. CASE ~Mispredicted /\ Returns
  <2>1. LiveD
    BY <1>1, <1>8, Idle DEF Returns, check_ret_hazard
  <2> QED
    BY <1>1, <1>4, <1>5, <1>8, <1>6, <2>1 DEF PcD, Returns, check_ret_hazard
<1>9. CASE ~Mispredicted /\ ~Returns
  <2>1. PcX' = PcD
    BY <1>6, <1>9
  <2>2. PcD' = IF LiveD THEN predicted_PC(PcX', imem[PcX']) ELSE PcX'
    BY <1>1, <1>4, <1>5, <1>9 DEF PcD, Returns, check_ret_hazard
  <2> QED
    BY <1>6, <1>9, <2>1, <2>2 DEF PcF
<1> QED
  BY <1>6, <1>7, <1>8, <1>9

(* What the edge leaves in Decode and what the next cycle fetches, for each *)
(* hazard.                                                                  *)
LEMMA ClockFront ==
  ASSUME TypeOK, HaltInv, Wires, Path, LSClock, clean', stage' # "stop"
  PROVE  /\ Mispredicted => select_PC' = M_in.seq_succ_PC /\ D_out'.status = "BUB"
         /\ ~Mispredicted /\ Returns => /\ select_PC' = X_in.val_a
                                        /\ D_out'.status = "BUB" \/ "d" \in wrong'
         /\ ~Mispredicted /\ ~Returns /\ LoadUse
              => select_PC' = select_PC /\ D_out'.status = "BUB"
         /\ ~Mispredicted /\ ~Returns /\ ~LoadUse
              => select_PC' = F_in.pred_PC /\ D_out' = D_in
         /\ Mispredicted \/ Returns => F_in.status # "HLT"
         /\ "d" \in wrong' => Harmless(D_out')
<1>1. /\ clock /\ stage = "clock" /\ X_out' = X_in /\ M_out' = M_in
      /\ ~BadSquash /\ ~BadSlot /\ ("d" \in wrong' <=> InSlot)
  BY ClockMoves
<1>2. /\ M_in.op = X_out.op /\ X_in.op = D_out.insn.op /\ X_condval = M_in.cond_holds
  BY <1>1 DEF HaltInv, Flow, Wires, Executed
<1>3. /\ F_out' = Edge(ctl["f"], F_in, F_out, F_bubble)
      /\ D_out' = Edge(ctl["d"], D_in, D_out, D_bubble)
  BY <1>1, ClockStep
<1>4. select_PC' = IF X_in.op = "RET" /\ X_in.val_a = 0 THEN 0
                   ELSE IF Mispredicted THEN M_in.seq_succ_PC
                   ELSE IF X_in.op = "RET" THEN X_in.val_a
                   ELSE F_out'.pred_PC
  BY <1>1, <1>2 DEF select_PC, RET_FROM_MAIN_ADDR, Mispredicted, check_mispred_branch_hazard
<1>5. CASE Mispredicted
  <2>1. ~Returns /\ ctl["d"] = "BUBBLE" /\ F_in.status # "HLT" /\ ~InSlot
    BY <1>1, <1>5, FrontEnd DEF BadSquash, InSlot
  <2> QED
    BY <1>1, <1>2, <1>3, <1>4, <1>5, <2>1 DEF Edge, D_bubble, Returns, check_ret_hazard
<1>6. CASE ~Mispredicted /\ Returns
  <2>1. F_in.status # "HLT" /\ (InSlot => Harmless(D_in))
    BY <1>1, <1>6 DEF BadSlot, Returns
  <2>2. select_PC' = X_in.val_a
    BY <1>2, <1>4, <1>6 DEF Returns, check_ret_hazard
  <2>3. CASE LoadUse
    <3>1. ctl["d"] = "BUBBLE" /\ ~InSlot
      BY <1>1, <1>6, <2>3, FrontEnd DEF InSlot
    <3> QED
      BY <1>1, <1>3, <1>6, <2>1, <2>2, <2>3, <3>1 DEF Edge, D_bubble
  <2>4. CASE ~LoadUse
    <3>1. ctl["d"] = "LOAD" /\ InSlot
      BY <1>1, <1>6, <2>4, FrontEnd DEF InSlot, Returns
    <3>2. D_out' = D_in
      BY <1>3, <3>1 DEF Edge
    <3> QED
      BY <1>1, <1>6, <2>1, <2>2, <3>1, <3>2 
  <2> QED
    BY <2>3, <2>4
<1>7. CASE ~Mispredicted /\ ~Returns
  <2>1. "d" \notin wrong'
    BY <1>1, <1>7 DEF InSlot, Returns
  <2>2. select_PC' = F_out'.pred_PC
    BY <1>2, <1>4, <1>7 DEF Returns, check_ret_hazard
  <2>3. CASE LoadUse
    <3>1. ctl["f"] = "STALL" /\ ctl["d"] = "BUBBLE"
      BY <1>1, <1>7, <2>3, FrontEnd
    <3>2. F_out' = F_out /\ D_out' = D_bubble
      BY <1>3, <3>1 DEF Edge
    <3>3. X_out.op = "LDUR"
      BY <2>3 DEF LoadUse, check_load_use_hazard
    <3>4. select_PC = F_out.pred_PC
      BY <3>3 DEF Path, Squashed, select_PC
    <3> QED
      BY <1>7, <2>1, <2>2, <2>3, <3>2, <3>4 DEF D_bubble
  <2>4. CASE ~LoadUse
    <3>1. ctl["f"] = "LOAD" /\ ctl["d"] = "LOAD"
      BY <1>1, <1>7, <2>4, FrontEnd
    <3>2. F_out' = F_in /\ D_out' = D_in
      BY <1>3, <3>1 DEF Edge
    <3> QED
      BY <1>7, <2>1, <2>2, <2>4, <3>2
  <2> QED
    BY <2>3, <2>4
<1> QED
  BY <1>5, <1>6, <1>7

(* The edge moves every instruction of the path one slot on, and those it   *)
(* squashes or stalls are off the path or still in front of Decode.         *)
LEMMA ClockPath ==
  ASSUME TypeOK, BubblesInv, HaltInv, Wires, Path, LSClock, clean', stage' # "stop"
  PROVE  Path' /\ ArchRegs' = ArchRegs
<1>1. /\ clock /\ stage = "clock" /\ stage' = "wback"
      /\ UNCHANGED <<imem, gpr, cc, apc, acc, astat, F_in, D_in, X_in, M_in, W_in>>
      /\ X_out' = X_in /\ M_out' = M_in /\ W_out' = W_in
      /\ status \in Running /\ W_out.status = status /\ ~BadSquash
      /\ "x" \in wrong' <=> "d" \in wrong \/ Mispredicted
      /\ "m" \in wrong' <=> "x" \in wrong
  BY ClockMoves
<1>2. /\ ~Early /\ Early' /\ Accessed /\ ~Accessed' /\ Executed /\ ~Executed'
      /\ Decoded /\ ~Decoded' /\ Fetched /\ ~Fetched' /\ stage' # "execute"
  BY <1>1 DEF Early, Accessed, Executed, Decoded, Fetched
<1>3. ArchRegs' = ArchRegs
  BY <1>1, ClockRegs
<1>4. /\ M_in.op = X_out.op /\ X_in.op = D_out.insn.op
      /\ M_in.status = X_out.status /\ X_in.status = D_out.status
      /\ X_condval = M_in.cond_holds /\ F_in.pred_PC = F_PC /\ D_in.status # "BUB"
      /\ F_in.status = "HLT" => D_in.insn.op = "HLT"
  BY <1>1, <1>2 DEF HaltInv, Flow, Wires
<1>5. /\ LiveM' <=> LiveX
      /\ LiveX' <=> LiveD /\ ~Mispredicted
      /\ Mispredicted => LiveX
      /\ OpenX' <=> OpenD
      /\ ~Mispredicted => (OpenD' <=> OpenF)
  BY ClockLive DEF Path
<1>6. /\ Mispredicted => select_PC' = M_in.seq_succ_PC /\ D_out'.status = "BUB"
      /\ ~Mispredicted /\ Returns => /\ select_PC' = X_in.val_a
                                     /\ D_out'.status = "BUB" \/ "d" \in wrong'
      /\ ~Mispredicted /\ ~Returns /\ LoadUse
           => select_PC' = select_PC /\ D_out'.status = "BUB"
      /\ ~Mispredicted /\ ~Returns /\ ~LoadUse
           => select_PC' = F_in.pred_PC /\ D_out' = D_in
      /\ Mispredicted \/ Returns => F_in.status # "HLT"
      /\ "d" \in wrong' => Harmless(D_out')
  BY ClockFront
<1>7. OffPath'
  <2>1. "x" \in wrong' => Harmless(D_out)
    BY <1>1 DEF Path, OffPath, BadSquash
  <2>2. "x" \in wrong' => X_out'.op = "NOP" /\ X_out'.status \in Running
    BY <1>1, <1>4, <2>1 DEF Harmless
  <2>3. "m" \in wrong' => M_out'.op = "NOP" /\ M_out'.status \in Running
    BY <1>1, <1>4 DEF Path, OffPath
  <2>4. ("d" \in wrong => Harmless(D_out))'
    BY <1>6 DEF Harmless
  <2> QED
    BY <2>2, <2>3, <2>4 DEF OffPath
<1>8. Squashed'
  <2>1. M_out'.op = "B_COND" /\ ~M_out'.cond_holds => Mispredicted
    BY <1>1, <1>4 DEF Mispredicted, check_mispred_branch_hazard
  <2>2. Mispredicted => X_out'.op = "NOP" /\ D_out'.status = "BUB"
    BY <1>1, <1>4, <1>6 DEF BadSquash, Harmless
  <2> QED
    BY <2>1, <2>2 DEF Squashed
<1>9. StatusFlow'
  BY <1>1, <1>2 DEF Path, StatusFlow, Running
<1>10. FlagsFlow'
  BY <1>1, <1>2, <1>3, <1>5 DEF Path, FlagsFlow
<1>11. InMemory'
  BY <1>1, <1>2, <1>3, <1>5 DEF Path, InMemory
<1>12. OpenD => /\ PcX' = IF Mispredicted THEN M_in.seq_succ_PC ELSE PcD
                /\ Mispredicted => PcD' = M_in.seq_succ_PC
                /\ ~Mispredicted /\ Returns => PcD' = X_in.val_a /\ LiveD
                /\ ~Mispredicted /\ ~Returns => PcD' = PcF
  BY ClockPc
<1>13. InExecute'
  <2> SUFFICES ASSUME OpenX', LiveX', Early'
               PROVE  /\ HoldsX(imem, X_out', PcX', After(M_out', ArchRegs'))
                      /\ Unspoilt(imem, M_out', PcX')
    BY <1>1, <1>2 DEF InExecute
  <2>1. OpenD /\ LiveD /\ PcX' = PcD
    BY <1>5, <1>12
  <2> QED
    BY <1>1, <1>2, <1>3, <2>1 DEF Path, InExecute
<1>14. OpenF => /\ HoldsD(imem, D_in, PcF)
                /\ Plain(imem, PcF) => F_PC = predicted_PC(PcF, imem[PcF])
                /\ select_PC = PcF /\ (F_in.status = "HLT" => HaltAt(imem, PcF))
  BY <1>2 DEF Path, InFetch
<1>15. InDecode'
  <2> SUFFICES ASSUME OpenD', LiveD'
               PROVE  HoldsD(imem, D_out', PcD')
    BY <1>1 DEF InDecode
  <2>1. D_out'.status # "BUB" /\ "d" \notin wrong'
    BY DEF LiveD
  <2>2. ~Mispredicted /\ ~Returns /\ D_out' = D_in
    BY <1>6, <2>1
  <2>3. OpenF /\ OpenD
    BY <1>5, <2>2 DEF OpenF
  <2> QED
    BY <1>12, <1>14, <2>2, <2>3
<1>16. InFetch'
  <2> SUFFICES ASSUME OpenF'
               PROVE  select_PC' = PcF' /\ (F_in.status = "HLT" => HaltAt(imem, PcF'))
    BY <1>1, <1>2 DEF InFetch
  <2>1. OpenD' /\ OpenX' /\ OpenD /\ (LiveD' => D_out'.status = "AOK")
    BY <1>5 DEF OpenF, OpenD
  <2>2. ~LiveD' => PcF' = PcD'
    BY DEF PcF
  <2>3. D_out'.status = "BUB" \/ "d" \in wrong' => ~LiveD'
    BY DEF LiveD
  <2>4. CASE Mispredicted \/ Returns
    BY <1>6, <1>12, <2>1, <2>2, <2>3, <2>4
  <2>5. CASE ~Mispredicted /\ ~Returns /\ LoadUse
    <3>1. OpenF /\ PcF' = PcF
      BY <1>5, <1>6, <1>12, <2>1, <2>2, <2>3, <2>5
    <3> QED
      BY <1>6, <1>14, <2>5, <3>1
  <2>6. CASE ~Mispredicted /\ ~Returns /\ ~LoadUse
    <3>1. OpenF /\ D_out' = D_in /\ PcD' = PcF /\ select_PC' = F_PC
      BY <1>4, <1>5, <1>6, <1>12, <2>1, <2>6
    <3>2. LiveD'
      <4>1. "d" \notin wrong'
        BY <2>6, ClockMoves DEF InSlot, Returns
      <4> QED
        BY <1>4, <3>1, <4>1 DEF LiveD
    <3>3. D_in.status = "AOK"
      BY <2>1, <3>1, <3>2
    <3>4. Plain(imem, PcF) /\ D_in.insn = imem[PcF]
      BY <1>14, <3>1, <3>3 DEF HoldsD, HaltAt, BadAt, Plain
    <3>5. F_in.status # "HLT"
      BY <1>4, <3>4 DEF Plain
    <3>6. PcF' = predicted_PC(PcF, imem[PcF])
      BY <1>1, <3>1, <3>2 DEF PcF
    <3> QED
      BY <1>14, <3>1, <3>4, <3>5, <3>6
  <2> QED
    BY <2>4, <2>5, <2>6
<1> QED
  BY <1>3, <1>7, <1>8, <1>9, <1>10, <1>11, <1>13, <1>15, <1>16 DEF Path

-----------------------------------------------------------------------------
(* The invariant is inductive.                                              *)
BaseInv == TypeOK /\ BubblesInv /\ HaltInv

(* LSNext is a step of the pipeline that also advances the history.         *)
LEMMA PipelineStep ==
  ASSUME [LSNext]_allvars
  PROVE  [Next]_vars /\ (clean' => clean)
<1>1. CASE LSMemory
  BY <1>1 DEF LSMemory, Next
<1>2. CASE LSDecode
  BY <1>2 DEF LSDecode, Next
<1>3. CASE LSClock
  BY <1>3 DEF LSClock, Next
<1>4. CASE (wback_instr \/ execute_instr \/ fetch_instr \/ hazards) /\ UNCHANGED history
  BY <1>4 DEF Next, history
<1>5. CASE UNCHANGED allvars
  BY <1>5 DEF allvars, history
<1> QED
  BY <1>1, <1>2, <1>3, <1>4, <1>5 DEF LSNext

(* The invariants of PipelineProofs and SafetyProofs the path relies on     *)
(* hold initially.                                                          *)
LEMMA BaseInit == Init => BaseInv
BY InitType DEF Init, BaseInv, BubblesInv, NopIfBubble, InertX, InertM, InertW, HaltInv,
   DeadInert, Flow, HaltFetched, DeadBehindHalt, Dead, Inert, D_bubble, ZeroInsn, X_bubble,
   M_bubble, W_bubble, NoXSigs, NoMSigs, NoWSigs

(* And every step keeps them.                                               *)
LEMMA BaseNext == QuietJunk /\ BaseInv /\ [Next]_vars => BaseInv'
<1>1. QuietJunk => NoJunkHalt
  BY DEF QuietJunk, NoJunkHalt
<1> QED
  BY <1>1, NextType, BubblesNext, HaltNext DEF BaseInv

(* A stuttering step keeps the path.                                        *)
LEMMA StutterPath ==
  ASSUME Path, UNCHANGED allvars
  PROVE  Path' /\ ArchRegs' = ArchRegs
<1>1. UNCHANGED <<imem, gpr, cc, F_in, D_in, X_in, M_in, W_in, F_out, D_out, X_out,
                  M_out, W_out, F_PC, apc, acc, astat, wrong, stage>>
  BY DEF allvars, vars, arch, ins, outs, wires, loop, history
<1>2. /\ (Early' <=> Early) /\ (Accessed' <=> Accessed) /\ (Executed' <=> Executed)
      /\ (Decoded' <=> Decoded) /\ (Fetched' <=> Fetched)
  BY <1>1 DEF Early, Accessed, Executed, Decoded, Fetched
<1>3. ArchRegs' = ArchRegs
  BY <1>1 DEF ArchRegs, Pending
<1>4. /\ (LiveM' <=> LiveM) /\ (LiveX' <=> LiveX) /\ (LiveD' <=> LiveD)
      /\ PcX' = PcX /\ PcD' = PcD /\ PcF' = PcF
      /\ (OpenX' <=> OpenX) /\ (OpenD' <=> OpenD) /\ (OpenF' <=> OpenF)
      /\ select_PC' = select_PC
  BY <1>1, <1>2, <1>3, Kept
<1>5. OffPath' /\ Squashed' /\ StatusFlow'
  BY <1>1, <1>2 DEF Path, OffPath, Harmless, Squashed, StatusFlow
<1>6. FlagsFlow'
  BY <1>1, <1>2, <1>3, <1>4 DEF Path, FlagsFlow
<1>7. InMemory' /\ InExecute'
  BY <1>1, <1>2, <1>3, <1>4 DEF Path, InMemory, InExecute
<1>8. InDecode' /\ InFetch'
  BY <1>1, <1>2, <1>3, <1>4 DEF Path, InDecode, InFetch
<1> QED
  BY <1>3, <1>5, <1>6, <1>7, <1>8 DEF Path

(* The invariant holds of the empty pipeline.                               *)
LEMMA PathInit ==
  ASSUME LSInit
  PROVE  PathInv
<1>1. /\ apc = entry /\ acc = cc /\ astat = "AOK" /\ wrong = {}
      /\ gpr \in [GPRegs -> Word] /\ ms = InitMemSys
      /\ F_in = F_bubble /\ F_out = [pred_PC |-> entry, status |-> "AOK"]
      /\ D_in = D_bubble /\ D_out = D_bubble
      /\ X_in = X_bubble /\ X_out = X_bubble
      /\ M_in = M_bubble /\ M_out = M_bubble
      /\ W_in = W_bubble /\ W_out = W_bubble
      /\ stage = "wback"
  BY InitType DEF LSInit, Init, TypeOK
<1>2. /\ Early /\ ~Accessed /\ ~Executed /\ ~Decoded /\ ~Fetched
  BY <1>1 DEF Early, Accessed, Executed, Decoded, Fetched
<1>3. ~LiveM /\ ~LiveX /\ ~LiveD
  BY <1>1 DEF LiveM, LiveX, LiveD, D_bubble, X_bubble, M_bubble
<1>4. PcX = entry /\ PcD = entry /\ PcF = entry
  BY <1>1, <1>3 DEF PcX, PcD, PcF
<1>5. Wires
  BY <1>1, <1>2 DEF Wires, InitMemSys
<1>6. Linked /\ Halting
  BY <1>1 DEF Linked, Halting, HaltOp, D_bubble, ZeroInsn, X_bubble, M_bubble, W_bubble
<1>7. OffPath /\ Squashed /\ StatusFlow /\ FlagsFlow
  BY <1>1, <1>2, <1>3 DEF OffPath, Squashed, StatusFlow, FlagsFlow, M_bubble, W_bubble,
     Running
<1>8. InMemory /\ InExecute /\ InDecode
  BY <1>2, <1>3 DEF InMemory, InExecute, InDecode
<1>9. InFetch
  BY <1>1, <1>2, <1>4 DEF InFetch, select_PC, X_bubble, M_bubble, F_bubble
<1> QED
  BY <1>5, <1>6, <1>7, <1>8, <1>9 DEF PathInv, OnPath, Path

(* Every step keeps the invariant.                                          *)
LEMMA PathNext ==
  ASSUME ~Cached, QuietJunk, BaseInv, PathInv, [LSNext]_allvars
  PROVE  PathInv'
<1>1. [Next]_vars /\ (clean' => clean)
  BY PipelineStep
<1>2. Wires' /\ Linked' /\ Halting'
  BY <1>1, WiresNext, LinkedNext, HaltingNext DEF BaseInv, PathInv
<1>3. ASSUME stage' # "stop", clean'
      PROVE  Path'
  <2>1. stage # "stop"
    BY <1>1, <1>3 DEF Next, wback_instr, memory_instr, execute_instr, decode_instr,
       fetch_instr, hazards, clock, vars, loop
  <2>2. Path /\ Wires /\ Linked /\ Halting
    BY <1>1, <1>3, <2>1 DEF PathInv, OnPath
  <2>3. TypeOK /\ BubblesInv /\ HaltInv
    BY DEF BaseInv
  <2>4. CASE LSMemory
    BY <1>3, <2>2, <2>3, <2>4, MemoryPath
  <2>5. CASE LSDecode
    <3>1. decode_instr /\ (\A r \in Sources(D_out.insn) : ~Unsafe(r))
          /\ UNCHANGED <<apc, acc, astat, wrong>>
      BY <1>3, <2>5 DEF LSDecode
    <3> QED
      BY <2>2, <2>3, <3>1, DecodePath
  <2>6. CASE LSClock
    BY <1>3, <2>2, <2>3, <2>6, ClockPath
  <2>7. CASE wback_instr /\ UNCHANGED history
    BY <2>2, <2>7, WbackPath
  <2>8. CASE execute_instr /\ UNCHANGED history
    BY <2>2, <2>3, <2>8, ExecutePath
  <2>9. CASE fetch_instr /\ UNCHANGED history
    BY <2>2, <2>3, <2>9, FetchPath
  <2>10. CASE hazards /\ UNCHANGED history
    BY <2>2, <2>3, <2>10, HazardsPath
  <2>11. CASE UNCHANGED allvars
    BY <2>2, <2>11, StutterPath
  <2> QED
    BY <2>4, <2>5, <2>6, <2>7, <2>8, <2>9, <2>10, <2>11 DEF LSNext
<1> QED
  BY <1>2, <1>3 DEF PathInv, OnPath

-----------------------------------------------------------------------------
(* What a run reports when it stops.                                        *)
LEMMA ClockStops ==
  ASSUME TypeOK, HaltInv, Wires, Halting, Path, LSClock, clean', stage' = "stop",
         status' \notin Running
  PROVE  /\ status' = astat'
         /\ status' = "HLT" => gpr' = ArchRegs' /\ cc' = acc'
<1>1. clock /\ ~BadSquash /\ UNCHANGED <<apc, acc, astat>>
  BY DEF LSClock
<1>2. stage = "clock" /\ UNCHANGED <<gpr, cc>>
  BY <1>1, ClockStep DEF arch
<1>3. Accessed /\ Decoded
  BY <1>2 DEF Accessed, Decoded
<1>4. status' = status
  <2>1. ctl["f"] # "ERROR" /\ ctl["d"] # "ERROR"
    BY <1>1, FrontEnd
  <2>2. ctl["x"] # "ERROR" /\ ctl["m"] # "ERROR" /\ ctl["w"] # "ERROR"
    BY <1>2, BackEndLoads
  <2> QED
    BY <1>1, <2>1, <2>2 DEF clock, PipeReg
<1>5. status = W_out.status
  BY <1>2 DEF Wires
<1>6. W_out.status = astat
  BY <1>3, <1>4, <1>5 DEF Path, StatusFlow
<1>7. ASSUME status' = "HLT"
      PROVE  gpr' = ArchRegs' /\ cc' = acc'
  <2>1. astat = "HLT" /\ W_out.status = "HLT"
    BY <1>4, <1>5, <1>6, <1>7
  <2>2. ~M_out.W_sigs.w_enable
    BY <1>3, <2>1, BehindHalt DEF Path, Inert
  <2>3. ~W_in.W_sigs.w_enable
    BY <1>3, <2>2 DEF Wires
  <2>4. ArchRegs = gpr
    BY <1>3, <2>3 DEF ArchRegs, Wires, Pending
  <2>5. ArchRegs' = ArchRegs
    BY <1>1, ClockRegs
  <2>6. cc = acc
    BY <2>1 DEF Path, FlagsFlow
  <2> QED
    BY <1>1, <1>2, <2>4, <2>5, <2>6
<1> QED
  BY <1>1, <1>4, <1>5, <1>6, <1>7

(* The status that stops the loop is the one the sequential machine stopped *)
(* with.                                                                    *)
LEMMA StopNext ==
  ASSUME ~Cached, BaseInv, PathInv, StopAgrees, [LSNext]_allvars
  PROVE  StopAgrees'
<1> SUFFICES ASSUME stage' = "stop", clean', ms'.exit = "no", status' \notin Running
             PROVE  /\ status' = astat'
                    /\ status' = "HLT" => gpr' = ArchRegs' /\ cc' = acc'
  BY DEF StopAgrees
<1>1. clean' => clean
  BY PipelineStep
<1>2. TypeOK /\ HaltInv /\ Wires /\ Halting
  BY DEF BaseInv, PathInv
<1>3. CASE LSMemory
  BY <1>2, <1>3, MemoryStep DEF LSMemory
<1>4. CASE LSClock
  <2>1. stage # "stop"
    BY <1>4 DEF LSClock, clock
  <2>2. Path
    BY <1>1, <2>1 DEF PathInv, OnPath
  <2> QED
    BY <1>2, <1>4, <2>2, ClockStops
<1>5. CASE fetch_instr
  <2>1. UNCHANGED ms /\ (ms.exit = "no" => stage' = "hazards")
    BY <1>2, <1>5, FetchEffect
  <2> QED
    BY <2>1
<1>6. CASE LSDecode \/ wback_instr \/ execute_instr \/ hazards
  BY <1>6 DEF LSDecode, decode_instr, wback_instr, execute_instr, hazards
<1>7. CASE UNCHANGED allvars
  <2>1. UNCHANGED <<stage, clean, ms, status, astat, gpr, cc, acc, W_in, W_out>>
    BY <1>7 DEF allvars, vars, arch, ins, outs, loop, history
  <2>2. ArchRegs' = ArchRegs
    BY <2>1 DEF ArchRegs, Pending
  <2> QED
    BY <2>1, <2>2 DEF StopAgrees
<1> QED
  BY <1>3, <1>4, <1>5, <1>6, <1>7 DEF LSNext

(* Whatever the program, a run of the loop in sim that stays clear of the   *)
(* unsupported patterns and stops with a status reports the one the         *)
(* sequential machine stops with; after a halt the register file and the    *)
(* flags are the sequential machine's, with no write left in the pipeline.  *)
(* The cache is off: with its stub functions an access does not complete    *)
(* (AccessCompletes, which a run refutes), so no run gets that far.         *)
THEOREM StopAgreesHolds ==
  ASSUME ~Cached, QuietJunk
  PROVE  LSSpec => []StopAgrees
<1> DEFINE Inv == BaseInv /\ PathInv /\ StopAgrees
<1>1. LSInit => Inv
  <2>1. LSInit => BaseInv
    BY BaseInit DEF LSInit
  <2>2. LSInit => PathInv
    BY PathInit
  <2>3. LSInit => StopAgrees
    BY DEF LSInit, Init, StopAgrees
  <2> QED
    BY <2>1, <2>2, <2>3
<1>2. Inv /\ [LSNext]_allvars => Inv'
  BY PipelineStep, BaseNext, PathNext, StopNext
<1> QED
  BY <1>1, <1>2, PTL DEF LSSpec

-----------------------------------------------------------------------------
(* Every step of the pipeline is a step of the sequential machine or none.  *)
SequentialStat == IF clean THEN astat ELSE "UNSPECIFIED"

(* Only memory_instr changes what the sequential machine sees.              *)
LEMMA OnlyMemory ==
  ASSUME ~Cached, TypeOK, Wires, [Next]_vars, ~memory_instr
  PROVE  UNCHANGED <<imem, ArchRegs, ms>>
<1>1. CASE wback_instr
  <2>1. UNCHANGED <<imem, gpr, ms, W_in, W_out>>
    BY <1>1 DEF wback_instr, arch, ins, outs
  <2> QED
    BY <2>1 DEF ArchRegs, Pending
<1>2. CASE execute_instr
  <2>1. UNCHANGED <<imem, gpr, ms, W_in, W_out>>
    BY <1>2 DEF execute_instr
  <2> QED
    BY <2>1 DEF ArchRegs, Pending
<1>3. CASE decode_instr
  BY <1>3, DecodeRegs, DecodeKeeps
<1>4. CASE fetch_instr
  <2>1. UNCHANGED <<imem, gpr, ms, W_in, W_out>>
    BY <1>4, FetchEffect
  <2> QED
    BY <2>1 DEF ArchRegs, Pending
<1>5. CASE hazards
  <2>1. UNCHANGED <<imem, gpr, ms, W_in, W_out>>
    BY <1>5 DEF hazards, arch, outs
  <2> QED
    BY <2>1 DEF ArchRegs, Pending
<1>6. CASE clock
  BY <1>6, ClockRegs, ClockStep DEF arch
<1>7. CASE UNCHANGED vars
  <2>1. UNCHANGED <<imem, gpr, ms, W_in, W_out>>
    BY <1>7 DEF vars, arch, ins, outs
  <2> QED
    BY <2>1 DEF ArchRegs, Pending
<1> QED
  BY <1>1, <1>2, <1>3, <1>4, <1>5, <1>6, <1>7 DEF Next

(* An instruction that does not take effect leaves no trace.                *)
LEMMA NoEffect ==
  ASSUME BaseInv, Wires, Halting, Path, memory_instr, ~TakesEffect, astat \in {"AOK", "HLT"}
  PROVE  UNCHANGED <<imem, ArchRegs, ms>>
<1>1. TypeOK /\ BubblesInv /\ HaltInv
  BY DEF BaseInv
<1>2. stage = "memory" /\ imem' = imem
  BY <1>1, MemoryStep
<1>3. Early
  BY <1>2 DEF Early
<1>4. Inert(M_out)
  <2>1. CASE astat = "HLT"
    BY <1>1, <1>3, <2>1, BehindHalt DEF Path
  <2>2. CASE astat = "AOK"
    <3>1. ~LiveM
      BY <2>2 DEF TakesEffect, LiveM
    <3> QED
      BY <1>1, <3>1, Idle DEF Path
  <2> QED
    BY <2>1, <2>2
<1> QED
  BY <1>1, <1>2, <1>4, MemoryIdle DEF Inert

(* A load and a store without a cache.                                      *)
LEMMA FlatLoad ==
  ASSUME ~Cached, NEW m \in MemSys, m.exit = "no", NEW a \in Word,
         NEW r \in mem_read(m, a)
  PROVE  /\ r.ms.mem = m.mem /\ r.ms.out = m.out
         /\ a # NULL_ADDR => r.ms.exit = "no"
         /\ a = NULL_ADDR => r.ms.exit # "no"
         /\ a # NULL_ADDR /\ ~dmem_err(a) =>
              \/ a = IO_CHAR_ADDR /\ r.val \in Input
              \/ a = CHECKPOINT_ADDR /\ r.val = 0
              \/ a \in Cells /\ r.val = m.mem[a]
<1>1. CASE a = NULL_ADDR
  BY <1>1 DEF mem_read, MemSys
<1>2. CASE a # NULL_ADDR
  <2>1. r.ms = m
    BY <1>2 DEF mem_read, UsesCache
  <2>2. CASE a = IO_CHAR_ADDR
    BY <1>2, <2>1, <2>2 DEF mem_read
  <2>3. CASE a = CHECKPOINT_ADDR /\ a # IO_CHAR_ADDR
    BY <1>2, <2>1, <2>3 DEF mem_read
  <2>4. CASE a \notin {IO_CHAR_ADDR, CHECKPOINT_ADDR}
    <3>1. ~dmem_err(a) => a \in Cells
      BY <1>2, <2>4, ModulusAssumption, SegAssumption DEF dmem_err, is_special_addr,
         addr_in_dmem, RET_FROM_MAIN_ADDR, NULL_ADDR, Cells, Word
    <3>2. a \in Cells => r.val = m.mem[a]
      BY <1>2, <2>4 DEF mem_read, UsesCache
    <3> QED
      BY <1>2, <2>1, <3>1, <3>2
  <2> QED
    BY <1>2, <2>2, <2>3, <2>4
<1> QED
  BY <1>1, <1>2

(* What a store leaves: memory, output and the exit of the checkpoint       *)
(* address.                                                                 *)
LEMMA FlatStore ==
  ASSUME ~Cached, NEW m \in MemSys, m.exit = "no", NEW a \in Word, NEW v,
         NEW w \in mem_write(m, a, v)
  PROVE  /\ a # CHECKPOINT_ADDR => w.exit = "no"
         /\ a = CHECKPOINT_ADDR => w.exit # "no"
         /\ a # CHECKPOINT_ADDR /\ ~dmem_err(a) =>
              /\ w.mem = IF a \in Cells THEN [m.mem EXCEPT ![a] = v] ELSE m.mem
              /\ w.out = IF a = IO_CHAR_ADDR THEN Append(m.out, v) ELSE m.out
<1>1. 0 \notin Cells /\ IO_CHAR_ADDR \notin Cells /\ CHECKPOINT_ADDR # IO_CHAR_ADDR
      /\ CHECKPOINT_ADDR # NULL_ADDR /\ IO_CHAR_ADDR # NULL_ADDR
  BY ModulusAssumption, SegAssumption DEF Cells, IO_CHAR_ADDR, CHECKPOINT_ADDR, NULL_ADDR
<1>2. CASE a = NULL_ADDR
  <2>1. w = m
    BY <1>2 DEF mem_write
  <2> QED
    BY <1>1, <1>2, <2>1 DEF NULL_ADDR
<1>3. CASE a = IO_CHAR_ADDR
  <2>1. w = [m EXCEPT !.out = Append(m.out, v)]
    BY <1>1, <1>3 DEF mem_write
  <2> QED
    BY <1>1, <1>3, <2>1 DEF MemSys
<1>4. CASE a = CHECKPOINT_ADDR
  <2>1. w = [m EXCEPT !.exit = "abort"]
    BY <1>1, <1>4 DEF mem_write
  <2> QED
    BY <1>4, <2>1 DEF MemSys
<1>5. CASE a \notin {NULL_ADDR, IO_CHAR_ADDR, CHECKPOINT_ADDR} /\ a \in Cells
  <2>1. w = [m EXCEPT !.mem = [m.mem EXCEPT ![a] = v]]
    BY <1>5 DEF mem_write, UsesCache
  <2> QED
    BY <1>5, <2>1 DEF MemSys
<1>6. CASE a \notin {NULL_ADDR, IO_CHAR_ADDR, CHECKPOINT_ADDR} /\ a \notin Cells
  <2>1. w \in {[m EXCEPT !.mem = n] : n \in Smear(m.mem, a)}
    BY <1>6 DEF mem_write, UsesCache
  <2>2. w.exit = "no"
    BY <2>1 DEF MemSys
  <2>3. dmem_err(a)
    BY <1>6, ModulusAssumption, SegAssumption DEF dmem_err, is_special_addr,
       addr_in_dmem, RET_FROM_MAIN_ADDR, NULL_ADDR, Cells, Word
  <2> QED
    BY <1>6, <2>2, <2>3
<1> QED
  BY <1>2, <1>3, <1>4, <1>5, <1>6

(* What dmem does when asked to read, and when asked to write.              *)
LEMMA OneAccess ==
  ASSUME NEW m, NEW a, NEW v, NEW old, NEW rd \in BOOLEAN, NEW wr \in BOOLEAN,
         NEW r \in dmem(m, a, v, rd, wr, old)
  PROVE  /\ rd /\ ~wr => r \in mem_read(m, a)
         /\ ~rd /\ wr => r.ms \in mem_write(m, a, v)
<1>1. CASE rd /\ ~wr
  BY <1>1 DEF dmem
<1>2. CASE ~rd /\ wr
  <2> DEFINE reads == {[ms |-> m, val |-> old]}
  <2>1. dmem(m, a, v, rd, wr, old)
          = UNION {{[ms |-> w, val |-> x.val] : w \in mem_write(x.ms, a, v)} : x \in reads}
    BY <1>2 DEF dmem
  <2>2. PICK x \in reads : \E w \in mem_write(x.ms, a, v) : r = [ms |-> w, val |-> x.val]
    BY <2>1
  <2>3. x.ms = m
    OBVIOUS
  <2> HIDE DEF reads
  <2> QED
    BY <1>2, <2>2, <2>3
<1>3. CASE (rd /\ wr) \/ (~rd /\ ~wr)
  BY <1>3
<1> QED
  BY <1>1, <1>2, <1>3

(* The control signals of an opcode, one by one.                            *)
LEMMA ControlOf ==
  ASSUME NEW op
  PROVE  /\ W_sigs(op).w_enable <=> op \notin NoWrite
         /\ W_sigs(op).wval_sel <=> op = "LDUR"
         /\ M_sigs(op).dmem_read <=> op = "LDUR"
         /\ M_sigs(op).dmem_write <=> op = "STUR"
<1>1. W_sigs(op).w_enable = (op \notin NoWrite) /\ W_sigs(op).wval_sel = (op = "LDUR")
  BY Zenon DEF W_sigs
<1>2. M_sigs(op).dmem_read = (op = "LDUR") /\ M_sigs(op).dmem_write = (op = "STUR")
  BY Zenon DEF M_sigs
<1> QED
  BY <1>1, <1>2

(* What an instruction that takes effect finds and leaves.                  *)
LEMMA Taken ==
  ASSUME BaseInv, Wires, Path, LSMemory, TakesEffect, clean
  PROVE  /\ memory_instr /\ astat = "AOK" /\ imem' = imem /\ ms.exit = "no"
         /\ SequentialStat = "AOK" /\ SequentialStat' = astat'
         /\ apc' = Sequential!NextPC /\ acc' = cc
         /\ astat' = IF ms'.exit = "no" THEN W_in'.status ELSE "EXIT"
         /\ HoldsM(imem, M_out, apc, ArchRegs, acc)
         /\ ~BadAt(imem, apc) => cc = FlagsAfter(imem, apc, ArchRegs, acc)
<1>1. /\ memory_instr /\ apc' = Sequential!NextPC /\ acc' = cc /\ clean' = clean
      /\ astat' = IF ms'.exit = "no" THEN W_in'.status ELSE "EXIT"
  BY DEF LSMemory
<1>2. stage = "memory" /\ imem' = imem
  BY <1>1, MemoryStep DEF BaseInv
<1>3. astat = "AOK" /\ Early /\ LiveM
  BY <1>2 DEF TakesEffect, Early, LiveM
<1>4. ms.exit = "no"
  BY <1>2 DEF Wires
<1>5. /\ HoldsM(imem, M_out, apc, ArchRegs, acc)
      /\ ~BadAt(imem, apc) => cc = FlagsAfter(imem, apc, ArchRegs, acc)
  BY <1>3 DEF Path, InMemory, FlagsFlow
<1> QED
  BY <1>1, <1>2, <1>3, <1>4, <1>5 DEF SequentialStat

(* The instruction in M_out takes effect as Halt of the sequential machine. *)
LEMMA TakenHalt ==
  ASSUME BaseInv, Wires, Path, LSMemory, TakesEffect, clean, HaltAt(imem, apc)
  PROVE  Sequential!Next
<1>1. /\ memory_instr /\ astat = "AOK" /\ imem' = imem
      /\ SequentialStat = "AOK" /\ SequentialStat' = astat' /\ acc' = cc
      /\ astat' = IF ms'.exit = "no" THEN W_in'.status ELSE "EXIT"
      /\ HoldsM(imem, M_out, apc, ArchRegs, acc)
      /\ ~BadAt(imem, apc) => cc = FlagsAfter(imem, apc, ArchRegs, acc)
      /\ ms.exit = "no"
  BY Taken
<1>2. ~BadAt(imem, apc) /\ ~Plain(imem, apc)
  BY SegAssumption DEF HaltAt, BadAt, Plain, TextAddrs
<1>3. M_out.op = "HLT" /\ M_out.status = "HLT"
  BY <1>1 DEF HoldsM
<1>4. Inert(M_out)
  BY <1>3 DEF BaseInv, HaltInv, DeadInert, Dead
<1>5. ms' = ms /\ ArchRegs' = ArchRegs /\ W_in'.status = "HLT"
  BY <1>1, <1>3, <1>4, MemoryIdle DEF BaseInv, Inert
<1>6. acc' = acc
  BY <1>1, <1>2 DEF FlagsAfter
<1>7. SequentialStat' = "HLT"
  BY <1>1, <1>5
<1>8. Sequential!Halt
  BY <1>1, <1>5, <1>6, <1>7 DEF Sequential!Halt, Sequential!At, Sequential!insn, HaltAt,
     SequentialStat
<1> QED
  BY <1>8 DEF Sequential!Next

(* As BadInsn.                                                              *)
LEMMA TakenBad ==
  ASSUME BaseInv, Wires, Path, LSMemory, TakesEffect, clean, BadAt(imem, apc)
  PROVE  Sequential!Next
<1>1. /\ memory_instr /\ SequentialStat = "AOK" /\ SequentialStat' = astat'
      /\ astat' = IF ms'.exit = "no" THEN W_in'.status ELSE "EXIT"
      /\ HoldsM(imem, M_out, apc, ArchRegs, acc)
      /\ ms.exit = "no"
  BY Taken
<1>2. M_out.status = "INS" /\ M_out.M_sigs = NoMSigs
  BY <1>1 DEF HoldsM
<1>3. ms' = ms /\ W_in'.status = "INS"
  BY <1>1, <1>2, MemoryIdle DEF BaseInv
<1>4. SequentialStat' = "INS"
  BY <1>1, <1>3
<1>5. Sequential!BadInsn
  BY <1>1, <1>4 DEF Sequential!BadInsn, Sequential!At, Sequential!insn, BadAt, SequentialStat
<1> QED
  BY <1>5 DEF Sequential!Next

(* As Compute.                                                              *)
LEMMA TakenCompute ==
  ASSUME BaseInv, Wires, Path, LSMemory, TakesEffect, clean, Plain(imem, apc),
         imem[apc].op \notin {"LDUR", "STUR"}
  PROVE  Sequential!Next
<1> DEFINE i == imem[apc]
<1>1. /\ memory_instr /\ astat = "AOK" /\ imem' = imem
      /\ SequentialStat = "AOK" /\ SequentialStat' = astat' /\ acc' = cc
      /\ apc' = Sequential!NextPC
      /\ astat' = IF ms'.exit = "no" THEN W_in'.status ELSE "EXIT"
      /\ HoldsM(imem, M_out, apc, ArchRegs, acc)
      /\ ~BadAt(imem, apc) => cc = FlagsAfter(imem, apc, ArchRegs, acc)
      /\ ms.exit = "no"
  BY Taken
<1>2. ~BadAt(imem, apc) /\ apc \in TextAddrs /\ i \in Insn /\ i.op \notin {"HLT", "ERROR"}
  BY DEF BadAt, Plain, BaseInv, TypeOK
<1>3. ExecutedM(M_out, apc, i, ArchRegs, acc)
  BY <1>1 DEF HoldsM
<1>4. M_out.M_sigs = NoMSigs
  <2>1. (i.op = "LDUR") = FALSE /\ (i.op = "STUR") = FALSE
    OBVIOUS
  <2>2. M_sigs(i.op) = NoMSigs
    BY ONLY <2>1, Zenon DEF M_sigs, NoMSigs
  <2> QED
    BY <1>3, <2>2 DEF ExecutedM
<1>5. ms' = ms /\ W_in'.status = "AOK"
  BY <1>1, <1>3, <1>4, MemoryIdle DEF BaseInv, ExecutedM
<1>6. SequentialStat' = "AOK"
  BY <1>1, <1>5
<1>7. ArchRegs' = IF i.op \in NoWrite THEN ArchRegs
                  ELSE Sequential!write(dst_of(i, XZR), Sequential!result)
  <2>1. (M_out.W_sigs.w_enable <=> i.op \notin NoWrite) /\ ~M_out.W_sigs.wval_sel
    BY <1>3, ControlOf DEF ExecutedM
  <2>2. ArchRegs' = IF M_out.W_sigs.w_enable /\ M_out.dst \in GPRegs
                     THEN [ArchRegs EXCEPT ![M_out.dst] =
                             IF M_out.W_sigs.wval_sel THEN W_in'.val_mem ELSE M_out.val_ex]
                     ELSE ArchRegs
    BY <1>1, MemoryRegs DEF BaseInv
  <2>3. CASE i.op \in NoWrite
    BY <2>1, <2>2, <2>3
  <2>4. CASE i.op \notin NoWrite
    <3>1. i.op \in Computes
      BY <1>2, <2>4 DEF NoWrite, Computes, Insn
    <3>2. M_out.dst = dst_of(i, XZR) /\ M_out.val_ex = Sequential!result
      BY <1>3, <2>4, <3>1, SameResult DEF ExecutedM
    <3> QED
      BY <2>1, <2>2, <2>4, <3>2 DEF Sequential!write
  <2> QED
    BY <2>3, <2>4
<1>8. acc' = IF i.op \in SetsFlags THEN Sequential!flags ELSE acc
  BY <1>1, <1>2, SameResult DEF FlagsAfter
<1>9. Sequential!At(Sequential!Opcode \ {"LDUR", "STUR", "HLT", "ERROR"})
  <2>1. i.op \in Sequential!Opcode
    BY <1>2, SameSets DEF Insn
  <2> QED
    BY <1>1, <1>2, <2>1 DEF Sequential!At, Sequential!insn, SequentialStat
<1>10. Sequential!Compute
  BY <1>1, <1>5, <1>6, <1>7, <1>8, <1>9, SameSets, SameDecoding
  DEF Sequential!Compute, Sequential!Advance, Sequential!insn, SequentialStat
<1> QED
  BY <1>10 DEF Sequential!Next

(* As Load or BadAddress, or as LeavesEmulator for the null address.        *)
LEMMA TakenLoad ==
  ASSUME ~Cached, BaseInv, Wires, Path, LSMemory, TakesEffect, clean, Plain(imem, apc),
         imem[apc].op = "LDUR"
  PROVE  Sequential!Next
<1> DEFINE i == imem[apc]
           a == Sequential!result
<1>1. /\ memory_instr /\ astat = "AOK" /\ imem' = imem
      /\ SequentialStat = "AOK" /\ SequentialStat' = astat' /\ acc' = cc
      /\ apc' = Sequential!NextPC
      /\ astat' = IF ms'.exit = "no" THEN W_in'.status ELSE "EXIT"
      /\ HoldsM(imem, M_out, apc, ArchRegs, acc)
      /\ ~BadAt(imem, apc) => cc = FlagsAfter(imem, apc, ArchRegs, acc)
      /\ ms.exit = "no"
  BY Taken
<1>2. ~BadAt(imem, apc) /\ apc \in TextAddrs
  BY DEF BadAt, Plain
<1>3. ExecutedM(M_out, apc, i, ArchRegs, acc)
  BY <1>1 DEF HoldsM
<1>4. M_out.M_sigs.dmem_read /\ ~M_out.M_sigs.dmem_write
      /\ M_out.W_sigs.w_enable /\ M_out.W_sigs.wval_sel /\ M_out.dst = i.rd
      /\ M_out.val_ex = a /\ M_out.status = "AOK"
  <2>1. "LDUR" \notin NoWrite /\ "LDUR" \in Computes
    BY DEF NoWrite, Computes, Opcode
  <2>2. dst_of(i, XZR) = i.rd
    BY DEF dst_of, ThreeReg, Shift
  <2> QED
    BY <1>3, <2>1, <2>2, SameResult, ControlOf DEF ExecutedM
<1> DEFINE rd == M_out.M_sigs.dmem_read
           wr == M_out.M_sigs.dmem_write
<1>5. PICK r \in dmem(ms, a, M_out.val_b, rd, wr, W_in.val_mem) :
        ms' = r.ms /\ W_in'.val_mem = r.val
  BY <1>1, <1>4, MemoryStep DEF BaseInv
<1>6. W_in'.status = IF dmem_err(a) THEN "ADR" ELSE "AOK"
  BY <1>1, <1>4, MemoryStep DEF BaseInv
<1>7. ms \in MemSys /\ a \in Word /\ rd \in BOOLEAN /\ wr \in BOOLEAN
  BY <1>4 DEF BaseInv, TypeOK, MReg, MSigs
<1>8. ArchRegs' = Sequential!write(i.rd, r.val)
  BY <1>1, <1>4, <1>5, MemoryRegs DEF BaseInv, Sequential!write
<1>9. acc' = acc
  BY <1>1, <1>2 DEF FlagsAfter, SetsFlags
<1>10. Sequential!At({"LDUR"}) /\ Sequential!At({"LDUR", "STUR"})
  BY <1>1, <1>2 DEF Sequential!At, Sequential!insn, SequentialStat
<1>11. rd /\ ~wr
  BY <1>4
<1> HIDE DEF i, a, rd, wr
<1>12. /\ ms'.mem = ms.mem /\ ms'.out = ms.out
       /\ a # NULL_ADDR => ms'.exit = "no"
       /\ a = NULL_ADDR => ms'.exit # "no"
       /\ a # NULL_ADDR /\ ~dmem_err(a) =>
            \/ a = IO_CHAR_ADDR /\ r.val \in Input
            \/ a = CHECKPOINT_ADDR /\ r.val = 0
            \/ a \in Cells /\ r.val = ms.mem[a]
  <2>1. /\ r.ms.mem = ms.mem /\ r.ms.out = ms.out
        /\ a # NULL_ADDR => r.ms.exit = "no"
        /\ a = NULL_ADDR => r.ms.exit # "no"
        /\ a # NULL_ADDR /\ ~dmem_err(a) =>
             \/ a = IO_CHAR_ADDR /\ r.val \in Input
             \/ a = CHECKPOINT_ADDR /\ r.val = 0
             \/ a \in Cells /\ r.val = ms.mem[a]
    <3>1. r \in mem_read(ms, a)
      BY <1>7, <1>11, OneAccess
    <3> QED
      BY <1>1, <1>7, <3>1, FlatLoad
  <2> QED
    BY <1>5, <2>1
<1>13. r.val \in Word
  BY <1>5, <1>7, DmemType DEF BaseInv, TypeOK, MReg, WReg
<1>14. CASE a = NULL_ADDR
  <2>1. SequentialStat' = "EXIT"
    BY <1>1, <1>12, <1>14
  <2>2. Sequential!LeavesEmulator
    BY <1>10, <1>14, <2>1, SameAddresses DEF Sequential!LeavesEmulator, SequentialStat, a
  <2> QED
    BY <2>2 DEF Sequential!Next
<1>15. CASE dmem_err(a)
  <2>1. a # NULL_ADDR
    BY <1>15 DEF dmem_err, is_special_addr
  <2>2. SequentialStat' = "ADR"
    BY <1>1, <1>6, <1>12, <1>15, <2>1
  <2>3. Sequential!BadAddress
    BY <1>10, <1>15, <2>2, SameAddresses DEF Sequential!BadAddress, SequentialStat, a
  <2> QED
    BY <2>3 DEF Sequential!Next
<1>16. CASE a # NULL_ADDR /\ ~dmem_err(a)
  <2>1. SequentialStat' = "AOK"
    BY <1>1, <1>6, <1>12, <1>16
  <2>2. Sequential!Advance
    BY <1>1, <2>1 DEF Sequential!Advance, SequentialStat
  <2>3. \/ a = Sequential!IO_CHAR_ADDR /\ r.val \in Input
        \/ a = Sequential!CHECKPOINT_ADDR /\ r.val = 0
        \/ a \in Sequential!Cells /\ r.val = ms.mem[a]
    BY <1>12, <1>16, SameAddresses, SameSets
  <2>4. r.val \in Sequential!Word /\ ~Sequential!dmem_err(a) /\ a # Sequential!NULL_ADDR
    BY <1>13, <1>16, SameAddresses, SameSets
  <2>5. Sequential!Load
    BY <1>8, <1>9, <1>10, <1>12, <2>2, <2>3, <2>4
    DEF Sequential!Load, Sequential!insn, a, i
  <2> QED
    BY <2>5 DEF Sequential!Next
<1> QED
  BY <1>14, <1>15, <1>16

(* As Store or BadAddress, or as LeavesEmulator for the checkpoint address. *)
LEMMA TakenStore ==
  ASSUME ~Cached, BaseInv, Wires, Path, LSMemory, TakesEffect, clean, Plain(imem, apc),
         imem[apc].op = "STUR"
  PROVE  Sequential!Next
<1> DEFINE i == imem[apc]
           a == Sequential!result
           v == Sequential!read(i.rd)
<1>1. /\ memory_instr /\ astat = "AOK" /\ imem' = imem
      /\ SequentialStat = "AOK" /\ SequentialStat' = astat' /\ acc' = cc
      /\ apc' = Sequential!NextPC
      /\ astat' = IF ms'.exit = "no" THEN W_in'.status ELSE "EXIT"
      /\ HoldsM(imem, M_out, apc, ArchRegs, acc)
      /\ ~BadAt(imem, apc) => cc = FlagsAfter(imem, apc, ArchRegs, acc)
      /\ ms.exit = "no"
  BY Taken
<1>2. ~BadAt(imem, apc) /\ apc \in TextAddrs
  BY DEF BadAt, Plain
<1>3. ExecutedM(M_out, apc, i, ArchRegs, acc)
  BY <1>1 DEF HoldsM
<1>4. ~M_out.M_sigs.dmem_read /\ M_out.M_sigs.dmem_write
      /\ ~M_out.W_sigs.w_enable
      /\ M_out.val_ex = a /\ M_out.val_b = v /\ M_out.status = "AOK"
  <2>1. "STUR" \in NoWrite /\ "STUR" \in Computes
    BY DEF NoWrite, Computes, Opcode
  <2>2. M_out.val_b = v
    BY <1>3 DEF ExecutedM, reg, Sequential!read
  <2> QED
    BY <1>3, <2>1, <2>2, SameResult, ControlOf DEF ExecutedM
<1> DEFINE rd == M_out.M_sigs.dmem_read
           wr == M_out.M_sigs.dmem_write
<1>5. PICK r \in dmem(ms, a, v, rd, wr, W_in.val_mem) : ms' = r.ms
  BY <1>1, <1>4, MemoryStep DEF BaseInv
<1>6. W_in'.status = IF dmem_err(a) THEN "ADR" ELSE "AOK"
  BY <1>1, <1>4, MemoryStep DEF BaseInv
<1>7. ms \in MemSys /\ a \in Word /\ rd \in BOOLEAN /\ wr \in BOOLEAN
  BY <1>4 DEF BaseInv, TypeOK, MReg, MSigs
<1>8. ArchRegs' = ArchRegs
  BY <1>1, <1>4, MemoryRegs DEF BaseInv
<1>9. acc' = acc
  BY <1>1, <1>2 DEF FlagsAfter, SetsFlags
<1>10. Sequential!At({"STUR"}) /\ Sequential!At({"LDUR", "STUR"})
  BY <1>1, <1>2 DEF Sequential!At, Sequential!insn, SequentialStat
<1>11. ~rd /\ wr
  BY <1>4
<1> HIDE DEF i, a, v, rd, wr
<1>12. /\ a # CHECKPOINT_ADDR => ms'.exit = "no"
       /\ a = CHECKPOINT_ADDR => ms'.exit # "no"
       /\ a # CHECKPOINT_ADDR /\ ~dmem_err(a) =>
            /\ ms'.mem = IF a \in Cells THEN [ms.mem EXCEPT ![a] = v] ELSE ms.mem
            /\ ms'.out = IF a = IO_CHAR_ADDR THEN Append(ms.out, v) ELSE ms.out
  <2>1. /\ a # CHECKPOINT_ADDR => r.ms.exit = "no"
        /\ a = CHECKPOINT_ADDR => r.ms.exit # "no"
        /\ a # CHECKPOINT_ADDR /\ ~dmem_err(a) =>
             /\ r.ms.mem = IF a \in Cells THEN [ms.mem EXCEPT ![a] = v] ELSE ms.mem
             /\ r.ms.out = IF a = IO_CHAR_ADDR THEN Append(ms.out, v) ELSE ms.out
    <3>1. r.ms \in mem_write(ms, a, v)
      BY <1>7, <1>11, OneAccess
    <3> QED
      BY <1>1, <1>7, <3>1, FlatStore
  <2> QED
    BY <1>5, <2>1
<1>13. CASE a = CHECKPOINT_ADDR
  <2>1. SequentialStat' = "EXIT"
    BY <1>1, <1>12, <1>13
  <2>2. Sequential!LeavesEmulator
    BY <1>10, <1>13, <2>1, SameAddresses DEF Sequential!LeavesEmulator, SequentialStat, a
  <2> QED
    BY <2>2 DEF Sequential!Next
<1>14. CASE dmem_err(a)
  <2>1. a # CHECKPOINT_ADDR
    BY <1>14 DEF dmem_err, is_special_addr
  <2>2. SequentialStat' = "ADR"
    BY <1>1, <1>6, <1>12, <1>14, <2>1
  <2>3. Sequential!BadAddress
    BY <1>10, <1>14, <2>2, SameAddresses DEF Sequential!BadAddress, SequentialStat, a
  <2> QED
    BY <2>3 DEF Sequential!Next
<1>15. CASE a # CHECKPOINT_ADDR /\ ~dmem_err(a)
  <2>1. SequentialStat' = "AOK"
    BY <1>1, <1>6, <1>12, <1>15
  <2>2. Sequential!Advance
    BY <1>1, <2>1 DEF Sequential!Advance, SequentialStat
  <2>3. ~Sequential!dmem_err(a) /\ a # Sequential!CHECKPOINT_ADDR
    BY <1>15, SameAddresses
  <2>4. /\ ms'.mem = IF a \in Sequential!Cells THEN [ms.mem EXCEPT ![a] = v] ELSE ms.mem
        /\ ms'.out = IF a = Sequential!IO_CHAR_ADDR THEN Append(ms.out, v) ELSE ms.out
    BY <1>12, <1>15, SameAddresses, SameSets
  <2>5. Sequential!Store
    BY <1>8, <1>9, <1>10, <2>2, <2>3, <2>4
    DEF Sequential!Store, Sequential!insn, a, i, v
  <2> QED
    BY <2>5 DEF Sequential!Next
<1> QED
  BY <1>13, <1>14, <1>15

(* The initial states are the sequential machine's.                         *)
LEMMA SequentialInit ==
  ASSUME LSInit
  PROVE  Sequential!Init
<1>1. /\ imem \in Programs /\ ms = InitMemSys /\ W_in = W_bubble /\ W_out = W_bubble
      /\ gpr = [r \in GPRegs |-> IF r = SP THEN SP0
                                 ELSE IF r = LR THEN RET_FROM_MAIN_ADDR ELSE 0]
      /\ cc = [n |-> FALSE, z |-> TRUE, c |-> FALSE, v |-> FALSE]
      /\ apc = entry /\ acc = cc /\ astat = "AOK" /\ clean = TRUE
  BY DEF LSInit, Init
<1>2. imem \in [TextAddrs -> Insn]
  BY <1>1, ProgramAssumption
<1>3. Sequential!Insn = Insn
  BY DEF Sequential!Insn, Insn, Sequential!Opcode, Opcode, Sequential!Cond, Cond,
     Sequential!Word, Word
<1>4. ArchRegs = gpr
  BY <1>1 DEF ArchRegs, Pending, W_bubble, NoWSigs
<1>5. gpr = [r \in GPRegs |-> IF r = Sequential!SP THEN SP0 ELSE 0]
  BY <1>1 DEF Sequential!SP, SP, RET_FROM_MAIN_ADDR
<1>6. ms.mem = InitMem /\ ms.out = <<>>
  BY <1>1 DEF InitMemSys
<1> QED
  BY <1>1, <1>2, <1>3, <1>4, <1>5, <1>6 DEF Sequential!Init

(* Every step is one of the sequential machine or a stutter: when Memory    *)
(* lets an instruction of the path take effect it takes that instruction's  *)
(* step, once the run leaves the supported patterns anything goes, and      *)
(* every other step stutters.                                               *)
LEMMA SequentialNext ==
  ASSUME ~Cached, BaseInv, PathInv, [LSNext]_allvars
  PROVE  Sequential!Next \/ UNCHANGED Sequential!vars
<1>1. [Next]_vars /\ (clean' => clean)
  BY PipelineStep
<1>2. TypeOK /\ Wires /\ Halting
  BY DEF BaseInv, PathInv
<1>3. CASE ~clean'
  BY <1>3 DEF Sequential!Next, Sequential!Unspecified
<1>4. CASE clean' /\ LSMemory
  <2>1. stage # "stop" /\ memory_instr /\ clean
    BY <1>1, <1>4 DEF LSMemory, memory_instr
  <2>2. Path
    BY <2>1 DEF PathInv, OnPath
  <2>3. CASE TakesEffect
    <3>1. HaltAt(imem, apc) \/ BadAt(imem, apc) \/ Plain(imem, apc)
      BY DEF HaltAt, BadAt, Plain
    <3> QED
      BY <1>2, <1>4, <2>1, <2>2, <2>3, <3>1, TakenHalt, TakenBad, TakenCompute,
         TakenLoad, TakenStore
  <2>4. CASE ~TakesEffect
    <3>1. UNCHANGED <<apc, acc, astat, clean>>
      BY <1>4, <2>4 DEF LSMemory
    <3>2. CASE astat \in {"AOK", "HLT"}
      <4>1. UNCHANGED <<imem, ArchRegs, ms>>
        BY <1>2, <2>1, <2>2, <2>4, <3>2, NoEffect
      <4> QED
        BY <3>1, <4>1 DEF Sequential!vars
    <3>3. CASE astat \notin {"AOK", "HLT"}
      <4>1. Sequential!Ended
        BY <2>1, <3>1, <3>3 DEF Sequential!Ended
      <4> QED
        BY <4>1 DEF Sequential!Next
    <3> QED
      BY <3>2, <3>3
  <2> QED
    BY <2>3, <2>4
<1>5. CASE clean' /\ ~LSMemory /\ LSNext
  <2>1. UNCHANGED <<apc, acc, astat>> /\ ~memory_instr
    BY <1>5 DEF LSNext, LSDecode, LSClock, history, decode_instr, clock, wback_instr,
       execute_instr, fetch_instr, hazards, memory_instr
  <2>2. UNCHANGED <<imem, ArchRegs, ms>>
    BY <1>1, <1>2, <2>1, OnlyMemory
  <2> QED
    BY <1>1, <1>5, <2>1, <2>2 DEF Sequential!vars
<1>6. CASE UNCHANGED allvars
  <2>1. UNCHANGED <<imem, ms, gpr, W_in, W_out, apc, acc, astat, clean>>
    BY <1>6 DEF allvars, vars, arch, ins, outs, history
  <2>2. UNCHANGED ArchRegs
    BY <2>1 DEF ArchRegs, Pending
  <2> QED
    BY <2>1, <2>2 DEF Sequential!vars
<1> QED
  BY <1>3, <1>4, <1>5, <1>6

(* The refinement: under the mapping of Lockstep every behaviour of the     *)
(* pipeline is one of the sequential machine. Instructions of the path take *)
(* effect once, in order, with the operands, flags, memory and output they  *)
(* have there, and no other instruction takes effect.                       *)
THEOREM SequentialHolds ==
  ASSUME ~Cached, QuietJunk
  PROVE  LSSpec => SequentialSpec
<1> DEFINE Inv == BaseInv /\ PathInv
<1>1. LSInit => Inv /\ Sequential!Init
  BY BaseInit, PathInit, SequentialInit DEF LSInit
<1>2. Inv /\ [LSNext]_allvars => Inv' /\ [Sequential!Next]_(Sequential!vars)
  <2>1. Inv /\ [LSNext]_allvars => Inv'
    BY PipelineStep, BaseNext, PathNext
  <2>2. Inv /\ [LSNext]_allvars => Sequential!Next \/ UNCHANGED Sequential!vars
    BY SequentialNext
  <2> QED
    BY <2>1, <2>2
<1> QED
  BY <1>1, <1>2, PTL DEF LSSpec, SequentialSpec, Sequential!Spec
=============================================================================
