------------------------------ MODULE Pipeline ------------------------------
(***************************************************************************)
(* runElf (proc.c) and the five stage functions: the pipelined processor.  *)
(*                                                                         *)
(* One cycle of the loop is seven steps, in the order the code makes them: *)
(*   wback, memory, execute, decode, fetch, hazards, clock.                *)
(* A stage reads the out side of its pipeline register, writes the in side *)
(* of the next one, and also reads what other stages wrote EARLIER IN THE  *)
(* SAME CYCLE (decode reads M_in and W_in, hazards reads X_condval and     *)
(* dmem_status), so the order matters and each function is an action.      *)
(*                                                                         *)
(* The program, the ALU and the branch conditions are parameters: nothing  *)
(* here depends on what they compute.                                      *)
(***************************************************************************)
EXTENDS Instr, Forward, HazardControl, DataMem

CONSTANTS
  Programs,          \* text segments to run: functions from TextAddrs to Insn
  JunkInsn,          \* words a fetch from outside the text segment may return
  SP0,               \* seg_start_addr[STACK_SEG]-8
  entry,             \* the entry point of the file
  CycleMax,          \* cycle_max
  AluRes(_, _, _, _),   \* alu: result of (ALUop, vala, valb, valhw)
  AluFlags(_, _, _, _), \* alu: flags of (ALUop, vala, valb, valhw)
  cond_holds(_, _)      \* cond_holds(cond, flags)

TextAddrs == {a \in TEXT .. DATA - 1 : a % 4 = 0}
ValHw == {HwBits * h : h \in 0..3}

ASSUME ProgramAssumption ==
  /\ \A p \in Programs : p \in [TextAddrs -> Insn]
  /\ JunkInsn \subseteq Insn /\ JunkInsn # {}
ASSUME ParamAssumption ==
  SP0 \in Word /\ entry \in Word /\ CycleMax \in Nat
ASSUME AluAssumption ==
  \A op \in AluOp, a, b \in Word, hw \in ValHw :
    AluRes(op, a, b, hw) \in Word /\ AluFlags(op, a, b, hw) \in Flags
ASSUME CondAssumption == \A c \in Cond, f \in Flags : cond_holds(c, f) \in BOOLEAN

VARIABLES
  imem,        \* the text segment
  gpr, cc,     \* guest.proc->GPR and SP; NZCV
  ms,          \* data memory system
  F_in, F_out, D_in, D_out, X_in, X_out, M_in, M_out, W_in, W_out,
  F_PC,        \* predicted next PC
  X_condval,   \* condition computed in Execute this cycle
  W_wval,      \* value Writeback writes this cycle
  status,      \* guest.proc->status
  ctl,         \* control signal of each pipeline register
  num_instr,   \* cycles done
  stage        \* what runElf does next; "stop" once it has returned or exited

Stage == {"wback", "memory", "execute", "decode", "fetch", "hazards", "clock", "stop"}

arch  == <<imem, gpr, cc, ms>>
ins   == <<F_in, D_in, X_in, M_in, W_in>>
outs  == <<F_out, D_out, X_out, M_out, W_out>>
wires == <<F_PC, X_condval, W_wval>>
loop  == <<status, ctl, num_instr, stage>>
vars  == <<arch, ins, outs, wires, loop>>

-----------------------------------------------------------------------------
(* The pipeline registers, all zero after calloc and after a bubble.        *)

FReg == [pred_PC : Word, status : Stat]
DReg == [insn : Insn, seq_succ_PC : Word, status : Stat]
XReg == [op : Opcode, seq_succ_PC : Word, X_sigs : XSigs, M_sigs : MSigs,
         W_sigs : WSigs, ALU_op : AluOp, cond : Cond, val_a : Word, val_b : Word,
         val_imm : Word, val_hw : ValHw, dst : RegNum, status : Stat]
MReg == [op : Opcode, seq_succ_PC : Word, cond_holds : BOOLEAN, M_sigs : MSigs,
         W_sigs : WSigs, val_b : Word, dst : RegNum, val_ex : Word, status : Stat]
WReg == [op : Opcode, W_sigs : WSigs, val_b : Word, dst : RegNum, val_ex : Word,
         val_mem : Word, status : Stat]

NoXSigs == [valb_sel |-> FALSE, set_CC |-> FALSE]
NoMSigs == [dmem_read |-> FALSE, dmem_write |-> FALSE]
NoWSigs == [dst_sel |-> FALSE, wval_sel |-> FALSE, w_enable |-> FALSE]

F_bubble == [pred_PC |-> 0, status |-> "BUB"]
D_bubble == [insn |-> ZeroInsn, seq_succ_PC |-> 0, status |-> "BUB"]
X_bubble == [op |-> "NOP", seq_succ_PC |-> 0, X_sigs |-> NoXSigs, M_sigs |-> NoMSigs,
             W_sigs |-> NoWSigs, ALU_op |-> "PLUS", cond |-> "EQ", val_a |-> 0,
             val_b |-> 0, val_imm |-> 0, val_hw |-> 0, dst |-> 0, status |-> "BUB"]
M_bubble == [op |-> "NOP", seq_succ_PC |-> 0, cond_holds |-> FALSE, M_sigs |-> NoMSigs,
             W_sigs |-> NoWSigs, val_b |-> 0, dst |-> 0, val_ex |-> 0, status |-> "BUB"]
W_bubble == [op |-> "NOP", W_sigs |-> NoWSigs, val_b |-> 0, dst |-> 0, val_ex |-> 0,
             val_mem |-> 0, status |-> "BUB"]

Init ==
  /\ imem \in Programs
  /\ gpr = [r \in GPRegs |-> IF r = SP THEN SP0
                             ELSE IF r = LR THEN RET_FROM_MAIN_ADDR ELSE 0]
  /\ cc = [n |-> FALSE, z |-> TRUE, c |-> FALSE, v |-> FALSE]
  /\ ms = InitMemSys
  /\ F_in = F_bubble /\ F_out = [pred_PC |-> entry, status |-> "AOK"]
  /\ D_in = D_bubble /\ D_out = D_bubble
  /\ X_in = X_bubble /\ X_out = X_bubble
  /\ M_in = M_bubble /\ M_out = M_bubble
  /\ W_in = W_bubble /\ W_out = W_bubble
  /\ F_PC = 0 /\ X_condval = FALSE /\ W_wval = 0
  /\ status = "BUB"
  /\ ctl = [r \in PipeReg |-> "BUBBLE"]
  /\ num_instr = 0
  /\ stage = "wback"

-----------------------------------------------------------------------------
(* wback_instr *)
wback_instr ==
  /\ stage = "wback"
  /\ W_wval' = IF W_out.W_sigs.wval_sel THEN W_out.val_mem ELSE W_out.val_ex
  /\ stage' = "memory"
  /\ UNCHANGED <<arch, ins, outs, F_PC, X_condval, status, ctl, num_instr>>

(* memory_instr: an access may end the emulator's process.  The opcode is   *)
(* handed on only for the properties; the code prints it and no more.       *)
memory_instr ==
  /\ stage = "memory"
  /\ LET access == M_out.M_sigs.dmem_read \/ M_out.M_sigs.dmem_write
         addr_err == access /\ dmem_err(M_out.val_ex)
         result == IF access
                   THEN dmem(ms, M_out.val_ex, M_out.val_b, M_out.M_sigs.dmem_read,
                             M_out.M_sigs.dmem_write, W_in.val_mem)
                   ELSE {[ms |-> ms, val |-> W_in.val_mem]}
     IN  \E r \in result :
           /\ ms' = r.ms
           /\ stage' = IF r.ms.exit = "no" THEN "execute" ELSE "stop"
           /\ W_in' = [op |-> M_out.op, W_sigs |-> M_out.W_sigs, val_b |-> M_out.val_b,
                       dst |-> M_out.dst, val_ex |-> M_out.val_ex, val_mem |-> r.val,
                       status |-> IF addr_err THEN "ADR" ELSE M_out.status]
  /\ UNCHANGED <<imem, gpr, cc, F_in, D_in, X_in, M_in, outs, wires,
                 status, ctl, num_instr>>

(* execute_instr and alu: flags are set before the condition is tested.     *)
execute_instr ==
  /\ stage = "execute"
  /\ LET a  == IF X_out.op = "BL" THEN X_out.seq_succ_PC ELSE X_out.val_a
         b  == IF X_out.X_sigs.valb_sel THEN X_out.val_b ELSE X_out.val_imm
         fl == IF X_out.X_sigs.set_CC
               THEN AluFlags(X_out.ALU_op, a, b, X_out.val_hw) ELSE cc
         cv == cond_holds(X_out.cond, fl)
     IN  /\ cc' = fl
         /\ X_condval' = cv
         /\ X_out' = [X_out EXCEPT !.val_a = a]
         /\ M_in' = [op |-> X_out.op, seq_succ_PC |-> X_out.seq_succ_PC,
                     cond_holds |-> cv, M_sigs |-> X_out.M_sigs,
                     W_sigs |-> X_out.W_sigs, val_b |-> X_out.val_b,
                     dst |-> X_out.dst,
                     val_ex |-> AluRes(X_out.ALU_op, a, b, X_out.val_hw),
                     status |-> X_out.status]
  /\ stage' = "decode"
  /\ UNCHANGED <<imem, gpr, ms, F_in, D_in, X_in, W_in, F_out, D_out, M_out, W_out,
                 F_PC, W_wval, status, ctl, num_instr>>

-----------------------------------------------------------------------------
(* decode_instr *)

\* regfile reads before it writes; the zero register reads as 0.
regread(r) == IF r \in GPRegs THEN gpr[r] ELSE 0
regwrite ==
  IF W_out.W_sigs.w_enable /\ W_out.dst \in GPRegs
  THEN [gpr EXCEPT ![W_out.dst] = W_wval] ELSE gpr

\* One operand: what regfile read, then what forward_reg makes of it.
ForwardX == [w_enable |-> X_out.W_sigs.w_enable, dst |-> X_out.dst, val_ex |-> M_in.val_ex]
ForwardM == [w_enable |-> M_out.W_sigs.w_enable, dst |-> M_out.dst,
             wval_sel |-> M_out.W_sigs.wval_sel, val_ex |-> M_out.val_ex,
             val_mem |-> W_in.val_mem]
ForwardW == [w_enable |-> W_out.W_sigs.w_enable, dst |-> W_out.dst,
             wval_sel |-> W_out.W_sigs.wval_sel, val_ex |-> W_out.val_ex,
             val_mem |-> W_out.val_mem]
Operand(r) == forward_reg(r, regread(r), ForwardX, ForwardM, ForwardW)

decode_instr ==
  /\ stage = "decode"
  /\ gpr' = regwrite
  /\ LET insn == D_out.insn
         stat == IF insn.op = "HLT" THEN "HLT" ELSE D_out.status
     IN  \E src1 \in src1_of(insn) :
           /\ D_out' = [D_out EXCEPT !.status = stat]
           /\ X_in' = [op |-> insn.op, seq_succ_PC |-> D_out.seq_succ_PC,
                       X_sigs |-> X_sigs(insn.op), M_sigs |-> M_sigs(insn.op),
                       W_sigs |-> W_sigs(insn.op), ALU_op |-> decide_alu_op(insn.op),
                       cond |-> IF insn.op = "B_COND" THEN insn.cond ELSE X_in.cond,
                       val_a |-> IF insn.op = "MVN" THEN 0
                                 ELSE IF insn.op \in {"BL", "ADRP"} THEN D_out.seq_succ_PC
                                 ELSE Operand(src1),
                       val_b |-> IF insn.op = "BL" THEN 0 ELSE Operand(src2_of(insn)),
                       val_imm |-> extract_immval(insn),
                       val_hw |-> IF insn.op \in {"MOVK", "MOVZ"}
                                  THEN HwBits * insn.hw ELSE 0,
                       dst |-> dst_of(insn, X_in.dst), status |-> stat]
  /\ stage' = "fetch"
  /\ UNCHANGED <<imem, cc, ms, F_in, D_in, M_in, W_in, F_out, X_out, M_out, W_out,
                 wires, status, ctl, num_instr>>

-----------------------------------------------------------------------------
(* fetch_instr *)

\* Mutant: a mispredicted branch does not correct the PC.
select_PC_mutant ==
  IF X_out.op = "RET" THEN X_out.val_a ELSE F_out.pred_PC

\* A return from main selects PC 0, even over a branch correction.
select_PC ==
  IF X_out.op = "RET" /\ X_out.val_a = RET_FROM_MAIN_ADDR THEN 0
  ELSE IF M_out.op = "B_COND" /\ ~M_out.cond_holds THEN M_out.seq_succ_PC
  ELSE IF X_out.op = "RET" THEN X_out.val_a
  ELSE F_out.pred_PC

imem_words(pc) == IF pc \in TextAddrs THEN {imem[pc]} ELSE JunkInsn
imem_err(pc) == ~addr_in_imem(pc) \/ pc % 4 # 0

\* Mutant: the halt status of an earlier fetch is forgotten.
MakesHalt_mutant == select_PC = 0

MakesHalt == select_PC = 0 \/ F_in.status = "HLT"

\* Once F_in has the halt status every fetch makes up a halt instruction.
FetchHalt ==
  /\ D_in' = [D_in EXCEPT !.insn = HltInsn, !.status = "HLT"]
  /\ F_in' = [F_in EXCEPT !.status = "HLT"]
  /\ F_out' = [F_out EXCEPT !.status = "HLT"]
  /\ stage' = "hazards"
  /\ UNCHANGED <<ms, F_PC>>

\* Mutant: only errors are remembered.
Latch_mutant(stat) == IF stat = "INS" THEN [F_in EXCEPT !.status = stat] ELSE F_in

\* The error and halt statuses are written to F_in, the normal one is not.
Latch(stat) == IF stat = "AOK" THEN F_in ELSE [F_in EXCEPT !.status = stat]

FetchWord(pc) ==
  \E insn \in imem_words(pc) :
    LET stat == IF imem_err(pc) \/ insn.op = "ERROR" THEN "INS"
                ELSE IF insn.op = "HLT" THEN "HLT" ELSE "AOK"
    IN  /\ ms' = ifetch(ms, pc)
        /\ D_in' = [insn |-> insn, seq_succ_PC |-> seq_succ_PC(pc, insn), status |-> stat]
        /\ F_in' = Latch(stat)
        /\ F_out' = [F_out EXCEPT !.status = stat]
        /\ F_PC' = predicted_PC(pc, insn)
        /\ stage' = IF ms'.exit = "no" THEN "hazards" ELSE "stop"

fetch_instr ==
  /\ stage = "fetch"
  /\ IF MakesHalt THEN FetchHalt ELSE FetchWord(select_PC)
  /\ UNCHANGED <<imem, gpr, cc, X_in, M_in, W_in, D_out, X_out, M_out, W_out,
                 X_condval, W_wval, status, ctl, num_instr>>

-----------------------------------------------------------------------------
(* The rest of the loop body: predicted PC, status, hazards.                *)
D_src1 == IF D_out.insn.op = "MOVZ" THEN 31 ELSE D_out.insn.rn
D_src2 == IF D_out.insn.op = "STUR" THEN D_out.insn.rd ELSE D_out.insn.rm
X_dst == IF X_out.W_sigs.dst_sel THEN LR ELSE X_out.dst

Hazards == handle_hazards(D_out.insn.op, D_src1, D_src2, X_out.op, X_dst, X_condval,
                          ms.dmem_status)

\* Mutant: the status of the instruction about to enter Memory.
MachineStatus_mutant == M_in.status

MachineStatus == W_out.status

hazards ==
  /\ stage = "hazards"
  /\ F_in' = [F_in EXCEPT !.pred_PC = F_PC]
  /\ status' = MachineStatus
  /\ ctl' = [r \in PipeReg |-> pipe_control_stage(r \in Hazards.bubble, r \in Hazards.stall)]
  /\ stage' = "clock"
  /\ UNCHANGED <<arch, D_in, X_in, M_in, W_in, outs, wires, num_instr>>

(* The clock edge and the loop condition.                                   *)
Edge(c, in, out, bubble) ==
  CASE c = "LOAD" -> in
    [] c \in {"ERROR", "BUBBLE"} -> bubble
    [] c = "STALL" -> out

clock ==
  /\ stage = "clock"
  /\ F_out' = Edge(ctl["f"], F_in, F_out, F_bubble)
  /\ D_out' = Edge(ctl["d"], D_in, D_out, D_bubble)
  /\ X_out' = Edge(ctl["x"], X_in, X_out, X_bubble)
  /\ M_out' = Edge(ctl["m"], M_in, M_out, M_bubble)
  /\ W_out' = Edge(ctl["w"], W_in, W_out, W_bubble)
  /\ status' = IF \E r \in PipeReg : ctl[r] = "ERROR" THEN "HLT" ELSE status
  /\ num_instr' = num_instr + 1
  /\ stage' = IF status' \in Running /\ num_instr' < CycleMax THEN "wback" ELSE "stop"
  /\ UNCHANGED <<arch, ins, wires, ctl>>

-----------------------------------------------------------------------------
(* The type invariant.                                                      *)
TypeOK ==
  /\ imem \in [TextAddrs -> Insn]
  /\ gpr \in [GPRegs -> Word] /\ cc \in Flags /\ ms \in MemSys
  /\ F_in \in FReg /\ F_out \in FReg
  /\ D_in \in DReg /\ D_out \in DReg
  /\ X_in \in XReg /\ X_out \in XReg
  /\ M_in \in MReg /\ M_out \in MReg
  /\ W_in \in WReg /\ W_out \in WReg
  /\ F_PC \in Word /\ X_condval \in BOOLEAN /\ W_wval \in Word
  /\ status \in Stat /\ ctl \in [PipeReg -> PipeCtl]
  /\ num_instr \in Nat
  /\ stage \in Stage

(* Nothing younger than a halt takes effect: in the halt's last cycle, the  *)
(* one of its Writeback, fetch_instr has latched the halt status and the    *)
(* younger instructions write no register, set no flags and access no       *)
(* memory.  This needs NoJunkHalt: Decode also makes a halt of a word that  *)
(* fetch_instr found outside the text segment and reported as STAT_INS.     *)
Inert(r) == ~r.W_sigs.w_enable /\ r.M_sigs = NoMSigs
NoJunkHalt == \A i \in JunkInsn : i.op # "HLT"
HaltBarrier ==
  W_out.op = "HLT" /\ NoJunkHalt =>
    Inert(M_out) /\ Inert(X_out) /\ ~X_out.X_sigs.set_CC /\ F_in.status = "HLT"

(* A squashed slot does nothing in any stage, whatever was decoded into the *)
(* same register before: it writes no register or memory, sets no flags and *)
(* does not redirect the PC.                                                *)
BubblesInert ==
  /\ X_out.status = "BUB" => Inert(X_out) /\ ~X_out.X_sigs.set_CC /\ X_out.op = "NOP"
  /\ M_out.status = "BUB" => Inert(M_out) /\ M_out.op = "NOP"
  /\ W_out.status = "BUB" => ~W_out.W_sigs.w_enable

(* A run that reports a clean exit has fetched a halt instruction, returned *)
(* from main or left the text segment for a word that Decode takes for a    *)
(* halt: the P_ERROR case of the clock edge, which also reports a clean     *)
(* exit, is never what ended it.                                            *)
HaltOrigin == status = "HLT" => F_in.status \in {"HLT", "INS"}

(* handle_hazards never asks for a bubble and a stall of the same register, *)
(* whichever hazards coincide with an access in flight.                     *)
NoErrorCtl == \A r \in PipeReg : ctl[r] # "ERROR"

(* While a data access is in flight, Fetch, Decode and Execute keep their   *)
(* instructions across the clock edge, whatever else is in the pipeline.    *)
FrozenInFlight ==
  [][stage = "clock" /\ ms.dmem_status = "IN_FLIGHT"
       => UNCHANGED <<F_out, D_out, X_out>>]_vars

(* The unsigned countdown of an access in flight stays strictly between 0   *)
(* and the delay, also when accesses to several blocks and fetches outside  *)
(* the text segment follow each other: it never wraps, so an access that is *)
(* counted down is over within d cycles.  With d = 0 the first decrement    *)
(* wraps and nothing bounds it.                                             *)
CountdownBounded ==
  Cached /\ d > 0 /\ ms.inflight => 0 < ms.inflight_cycles /\ ms.inflight_cycles < d

\* A load to r is in Memory.
Loading(r) == M_out.op = "LDUR" /\ M_out.dst = r

(* mem.c:256 says "wait a cycle until delay is done", mem.c:192 "cache      *)
(* delay is now finished", and mem.h:54-55 that an access in flight "has    *)
(* not yet completed" and a READY one "has completed": a load whose access  *)
(* is in flight waits in Memory until it has completed, provided the run    *)
(* has the cycles of the delay left.                                        *)
AccessCompletes ==
  \A r \in GPRegs :
    (Loading(r) /\ ms.dmem_status = "IN_FLIGHT" /\ num_instr + d < CycleMax)
      ~> (Loading(r) /\ ms.dmem_status = "READY")

(* Once a halt is latched the pipeline drains: within the cycles a run has  *)
(* left, it stops with the status of an instruction, not at cycle_max.      *)
HaltDrains ==
  (F_in.status = "HLT" /\ num_instr + 5 <= CycleMax /\ ~Cached)
    ~> (stage = "stop" /\ (status \notin Running \/ ms.exit # "no"))

(* An address error is reported: unless an older instruction stops the run  *)
(* in this very cycle, the run ends within the next one with STAT_ADR,      *)
(* whatever follows in the pipeline: a halt or an undecodable word, a       *)
(* squashed slot, or a second faulting access, which still takes place.     *)
FaultReported ==
  (/\ stage = "execute" /\ W_in.status = "ADR" /\ W_out.status \in Running
   /\ num_instr + 3 <= CycleMax /\ ~Cached)
    ~> (stage = "stop" /\ (status = "ADR" \/ ms.exit # "no"))

-----------------------------------------------------------------------------
Next == \/ wback_instr \/ memory_instr \/ execute_instr \/ decode_instr
        \/ fetch_instr \/ hazards \/ clock

\* The loop is sequential code: it never pauses.
Spec == Init /\ [][Next]_vars
FairSpec == Spec /\ WF_vars(Next)
=============================================================================
