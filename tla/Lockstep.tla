------------------------------ MODULE Lockstep ------------------------------
(***************************************************************************)
(* The pipeline beside the sequential machine of Isa: history variables    *)
(* say how far the sequential machine is, and the pipeline's registers and *)
(* memory are mapped to the sequential machine's.                          *)
(*                                                                         *)
(* An instruction takes effect when memory_instr handles it: its register  *)
(* write is then pending in W_in.  clean says that the program has met     *)
(* none of the patterns the pipeline gets wrong (Unsafe, BadSquash,        *)
(* BadSlot below); the MC runs MCLoadUse, MCSquash and MCReturn show what  *)
(* happens when it meets them.                                             *)
(***************************************************************************)
EXTENDS Pipeline

VARIABLES
  apc,     \* address of the next instruction to take effect
  acc,     \* flags as the last instruction that took effect left them
  astat,   \* status of the sequential machine
  clean,   \* no unsupported pattern so far
  wrong    \* the registers that hold an instruction off the program's path

history == <<apc, acc, astat, clean, wrong>>
allvars == <<vars, history>>

\* The register file once the pending writes have landed, oldest first.
Pending(w, regs) ==
  IF w.W_sigs.w_enable /\ w.dst \in GPRegs
  THEN [regs EXCEPT ![w.dst] = Result([wval_sel |-> w.W_sigs.wval_sel,
                                       val_ex |-> w.val_ex, val_mem |-> w.val_mem])]
  ELSE regs
ArchRegs == Pending(W_in, Pending(W_out, gpr))

Sequential ==
  INSTANCE Isa WITH pc <- apc, gpr <- ArchRegs, cc <- acc, mem <- ms.mem,
                    out <- ms.out, stat <- IF clean THEN astat ELSE "UNSPECIFIED"

-----------------------------------------------------------------------------
(* Patterns outside what the pipeline handles.                              *)

\* The operands the instruction computes with.
UsesSrc1 == Opcode \ {"NOP", "MVN", "BL", "ADRP", "B", "B_COND", "HLT", "ERROR"}
Sources(insn) == (IF insn.op \in UsesSrc1 THEN src1_of(insn) ELSE {})
                 \cup (IF insn.op \in RegOperand \cup {"STUR"} THEN {src2_of(insn)} ELSE {})

\* Decode cannot get r right: a load of r is in Execute, Writeback's value
\* shadows the right one, or the "zero register" is about to be written.
Unsafe(r) ==
  \/ Writes(ForwardX, r) /\ X_out.W_sigs.wval_sel
  \/ ShadowedByW(r, ForwardX, ForwardM, ForwardW)
  \/ r = XZR /\ (Writes(ForwardX, r) \/ Writes(ForwardM, r) \/ Writes(ForwardW, r))

Harmless(D) == D.insn.op = "NOP" /\ D.status \in Running

\* After a mispredicted branch the instruction in D_out goes on to Execute.
Mispredicted == check_mispred_branch_hazard(X_out.op, X_condval)
BadSquash == Mispredicted /\ (~Harmless(D_out) \/ F_in.status = "HLT")

\* After a RET the instruction fetched behind it goes on to Decode.
InSlot == check_ret_hazard(D_out.insn.op) /\ ctl["d"] = "LOAD"
BadSlot == \/ InSlot /\ ~Harmless(D_in)
           \/ check_ret_hazard(D_out.insn.op) /\ F_in.status = "HLT"

-----------------------------------------------------------------------------
LSInit ==
  /\ Init
  /\ apc = entry /\ acc = cc /\ astat = "AOK" /\ clean = TRUE /\ wrong = {}

TakesEffect == M_out.status # "BUB" /\ "m" \notin wrong /\ astat = "AOK"

LSMemory ==
  /\ memory_instr
  /\ IF TakesEffect
     THEN /\ apc' = Sequential!NextPC
          /\ acc' = cc
          /\ astat' = IF ms'.exit = "no" THEN W_in'.status ELSE "EXIT"
     ELSE UNCHANGED <<apc, acc, astat>>
  /\ UNCHANGED <<clean, wrong>>

LSDecode ==
  /\ decode_instr
  /\ clean' = (clean /\ \A r \in Sources(D_out.insn) : ~Unsafe(r))
  /\ UNCHANGED <<apc, acc, astat, wrong>>

LSClock ==
  /\ clock
  /\ clean' = (clean /\ ~BadSquash /\ ~BadSlot)
  /\ wrong' = {r \in {"d", "x", "m"} :
                 \/ r = "d" /\ InSlot
                 \/ r = "x" /\ ("d" \in wrong \/ Mispredicted)
                 \/ r = "m" /\ "x" \in wrong}
  /\ UNCHANGED <<apc, acc, astat>>

LSNext ==
  \/ LSMemory \/ LSDecode \/ LSClock
  \/ (wback_instr \/ execute_instr \/ fetch_instr \/ hazards) /\ UNCHANGED history

LSSpec == LSInit /\ [][LSNext]_allvars

(* The pipeline implements the sequential machine as long as the program    *)
(* stays clear of the unsupported patterns: every instruction of its path   *)
(* takes effect once, in order, with the operands, flags, memory and output *)
(* it has there, and no other instruction takes effect.                     *)
SequentialSpec == Sequential!Spec

(* A run that stops reports the status the sequential machine stops with,   *)
(* and after a halt all writes have landed: none is left in the pipeline.   *)
StopAgrees ==
  (stage = "stop" /\ clean /\ ms.exit = "no" /\ status \notin Running)
    => /\ status = astat
       /\ status = "HLT" => gpr = ArchRegs /\ cc = acc
=============================================================================
