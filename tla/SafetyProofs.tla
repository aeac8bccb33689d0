---------------------------- MODULE SafetyProofs ----------------------------
(***************************************************************************)
(* The safety invariants of the pipeline, and what it does while a data    *)
(* access is in flight, for every program and every value of the constants *)
(* (the delay and the block size of the cache included).                   *)
(***************************************************************************)
EXTENDS PipelineProofs

(* At the clock edge a register takes its in side, its out side or zeros.   *)
LEMMA EdgeCases ==
  ASSUME TypeOK, clock
  PROVE  /\ F_out' \in {F_in, F_out, F_bubble} /\ D_out' \in {D_in, D_out, D_bubble}
         /\ X_out' \in {X_in, X_out, X_bubble} /\ M_out' \in {M_in, M_out, M_bubble}
         /\ W_out' \in {W_in, W_out, W_bubble}
<1>1. \A r \in PipeReg : ctl[r] \in {"LOAD", "ERROR", "BUBBLE", "STALL"}
  BY DEF TypeOK, PipeCtl
<1>2. /\ ctl["f"] \in PipeCtl /\ ctl["d"] \in PipeCtl /\ ctl["x"] \in PipeCtl
      /\ ctl["m"] \in PipeCtl /\ ctl["w"] \in PipeCtl
  BY <1>1 DEF PipeReg, PipeCtl
<1>3. \A c \in PipeCtl : \A i, o, b : Edge(c, i, o, b) \in {i, o, b}
  BY DEF Edge, PipeCtl
<1> QED
  BY <1>2, <1>3 DEF clock

-----------------------------------------------------------------------------
(* handle_hazards never bubbles and stalls the same register.               *)
LEMMA HazardsDisjoint ==
  ASSUME NEW D_op, NEW D_s1, NEW D_s2, NEW X_op, NEW X_d, NEW cv, NEW ds
  PROVE  LET h == handle_hazards(D_op, D_s1, D_s2, X_op, X_d, cv, ds)
         IN  h.bubble \cap h.stall = {}
<1> DEFINE ret == check_ret_hazard(D_op)
           load == check_load_use_hazard(D_s1, D_s2, X_op, X_d)
           mis == check_mispred_branch_hazard(X_op, cv)
           p == ProgramHazard(ret, load, mis)
<1>1. /\ ret \in BOOLEAN /\ load \in BOOLEAN /\ mis \in BOOLEAN
  BY DEF check_ret_hazard, check_load_use_hazard, check_mispred_branch_hazard
<1> HIDE DEF ret, load, mis
<1>2. \/ p = [bubble |-> {"f", "d"}, stall |-> {}]
      \/ p = [bubble |-> {"d"}, stall |-> {"f"}]
      \/ p = [bubble |-> {"f"}, stall |-> {}]
      \/ p = [bubble |-> {}, stall |-> {}]
  BY <1>1 DEF ProgramHazard
<1>3. p.bubble \cap p.stall = {}
  BY <1>2
<1>4. InFlightHazard(p).bubble \cap InFlightHazard(p).stall = {}
  BY DEF InFlightHazard
<1>5. handle_hazards(D_op, D_s1, D_s2, X_op, X_d, cv, ds) \in {p, InFlightHazard(p)}
  BY DEF handle_hazards, ret, load, mis
<1> QED
  BY <1>3, <1>4, <1>5

(* Every step keeps NoErrorCtl: only handle_hazards changes a signal.       *)
LEMMA NoErrorCtlNext == NoErrorCtl /\ [Next]_vars => NoErrorCtl'
<1> SUFFICES ASSUME NoErrorCtl, [Next]_vars PROVE NoErrorCtl'
  OBVIOUS
<1>1. CASE hazards
  <2>1. Hazards.bubble \cap Hazards.stall = {}
    BY HazardsDisjoint DEF Hazards
  <2>2. \A r \in PipeReg : ~(r \in Hazards.bubble /\ r \in Hazards.stall)
    BY <2>1
  <2>3. ctl' = [r \in PipeReg |-> pipe_control_stage(r \in Hazards.bubble,
                                                     r \in Hazards.stall)]
    BY <1>1 DEF hazards
  <2> HIDE DEF Hazards
  <2> QED
    BY <2>2, <2>3 DEF NoErrorCtl, pipe_control_stage
<1>2. CASE UNCHANGED ctl
  BY <1>2 DEF NoErrorCtl
<1>3. hazards \/ UNCHANGED ctl
  BY DEF Next, vars, loop, wback_instr, memory_instr, execute_instr, decode_instr,
         fetch_instr, clock
<1> QED
  BY <1>1, <1>2, <1>3

(* No control signal is P_ERROR: the bubbles and stalls that handle_hazards *)
(* asks for never meet, whichever hazards coincide.                         *)
THEOREM NoErrorCtlHolds == Spec => []NoErrorCtl
<1>1. Init => NoErrorCtl
  BY DEF Init, NoErrorCtl
<1> QED
  BY <1>1, NoErrorCtlNext, PTL DEF Spec

-----------------------------------------------------------------------------
(* BubblesInert needs its counterpart on the in sides and in Decode.        *)
NopIfBubble(r) == r.status = "BUB" => r.insn.op = "NOP"
InertX(r) == r.status = "BUB" => Inert(r) /\ ~r.X_sigs.set_CC /\ r.op = "NOP"
InertM(r) == r.status = "BUB" => Inert(r) /\ r.op = "NOP"
InertW(r) == r.status = "BUB" => ~r.W_sigs.w_enable
BubblesInv ==
  /\ NopIfBubble(D_in) /\ NopIfBubble(D_out)
  /\ InertX(X_in) /\ InertX(X_out)
  /\ InertM(M_in) /\ InertM(M_out)
  /\ InertW(W_in) /\ InertW(W_out)

(* A NOP and a halt write no register, access no memory and set no flags.   *)
LEMMA DeadControl ==
  ASSUME NEW op \in {"HLT", "NOP"}
  PROVE  /\ W_sigs(op).w_enable = FALSE /\ M_sigs(op) = NoMSigs
         /\ X_sigs(op).set_CC = FALSE
<1>1. (op = "LDUR") = FALSE /\ (op = "STUR") = FALSE
  OBVIOUS
<1>2. M_sigs(op) = NoMSigs
  BY ONLY <1>1, Zenon DEF M_sigs, NoMSigs
<1>3. (op \notin NoWrite) = FALSE /\ (op \in SetsFlags) = FALSE
  BY DEF NoWrite, SetsFlags
<1> QED
  BY <1>2, <1>3 DEF W_sigs, X_sigs

(* Every step keeps BubblesInv.                                             *)
LEMMA BubblesNext == TypeOK /\ BubblesInv /\ [Next]_vars => BubblesInv'
<1> SUFFICES ASSUME TypeOK, BubblesInv, [Next]_vars PROVE BubblesInv'
  OBVIOUS
<1> USE DEF BubblesInv, NopIfBubble, InertX, InertM, InertW, Inert
<1>1. CASE wback_instr
  BY <1>1 DEF wback_instr, ins, outs
<1>2. CASE memory_instr
  BY <1>2 DEF memory_instr, outs
<1>3. CASE execute_instr
  <2>1. /\ X_out'.status = X_out.status /\ X_out'.op = X_out.op
        /\ X_out'.W_sigs = X_out.W_sigs /\ X_out'.M_sigs = X_out.M_sigs
        /\ X_out'.X_sigs = X_out.X_sigs
        /\ M_in'.status = X_out.status /\ M_in'.op = X_out.op
        /\ M_in'.W_sigs = X_out.W_sigs /\ M_in'.M_sigs = X_out.M_sigs
        /\ UNCHANGED <<D_in, D_out, X_in, M_out, W_in, W_out>>
    BY <1>3 DEF execute_instr, TypeOK, XReg
  <2> QED
    BY <2>1
<1>4. CASE decode_instr
  <2>1. D_out.status = "BUB" => D_out.insn.op = "NOP"
    OBVIOUS
  <2> DEFINE stat == IF D_out.insn.op = "HLT" THEN "HLT" ELSE D_out.status
  <2>2. stat = "BUB" => D_out.insn.op = "NOP"
    BY <2>1
  <2>3. /\ D_out'.status = stat /\ D_out'.insn = D_out.insn
        /\ X_in'.status = stat /\ X_in'.op = D_out.insn.op
        /\ X_in'.X_sigs = X_sigs(D_out.insn.op) /\ X_in'.M_sigs = M_sigs(D_out.insn.op)
        /\ X_in'.W_sigs = W_sigs(D_out.insn.op)
    BY <1>4 DEF decode_instr, TypeOK, DReg
  <2>4. UNCHANGED <<D_in, X_out, M_in, M_out, W_in, W_out>>
    BY <1>4 DEF decode_instr
  <2>5. NopIfBubble(D_out)' /\ InertX(X_in)'
    <3> HIDE DEF stat
    <3> QED
      BY <2>2, <2>3, DeadControl
  <2> QED
    BY <2>4, <2>5
<1>5. CASE fetch_instr
  <2>1. UNCHANGED <<D_out, X_in, X_out, M_in, M_out, W_in, W_out>>
    BY <1>5 DEF fetch_instr
  <2>2. CASE FetchHalt
    <3>1. D_in'.status = "HLT"
      BY <2>2 DEF FetchHalt, TypeOK, DReg
    <3> QED
      BY <2>1, <3>1
  <2>3. CASE FetchWord(select_PC)
    <3>1. PICK i \in imem_words(select_PC) :
            D_in'.status \in {"INS", "HLT", "AOK"}
      BY <2>3 DEF FetchWord
    <3> QED
      BY <2>1, <3>1
  <2> QED
    BY <1>5, <2>2, <2>3 DEF fetch_instr
<1>6. CASE hazards
  BY <1>6 DEF hazards, outs
<1>7. CASE clock
  <2>1. UNCHANGED <<D_in, X_in, M_in, W_in>>
    BY <1>7 DEF clock, ins
  <2>2. /\ NopIfBubble(D_bubble) /\ InertX(X_bubble) /\ InertM(M_bubble)
        /\ InertW(W_bubble)
    BY DEF D_bubble, ZeroInsn, X_bubble, M_bubble, W_bubble, NoXSigs, NoMSigs, NoWSigs
  <2>3. /\ D_out' \in {D_in, D_out, D_bubble} /\ X_out' \in {X_in, X_out, X_bubble}
        /\ M_out' \in {M_in, M_out, M_bubble} /\ W_out' \in {W_in, W_out, W_bubble}
    BY <1>7, EdgeCases
  <2> QED
    BY <2>1, <2>2, <2>3
<1>8. CASE UNCHANGED vars
  BY <1>8 DEF vars, ins, outs
<1> QED
  BY <1>1, <1>2, <1>3, <1>4, <1>5, <1>6, <1>7, <1>8 DEF Next

(* A squashed slot does nothing in any stage of any run.                    *)
THEOREM BubblesInertHolds == Spec => []BubblesInert
<1>1. Init => BubblesInv
  BY DEF Init, BubblesInv, NopIfBubble, InertX, InertM, InertW, Inert, D_bubble,
         ZeroInsn, X_bubble, M_bubble, W_bubble, NoXSigs, NoMSigs, NoWSigs
<1>2. TypeOK /\ BubblesInv /\ [Next]_vars => BubblesInv'
  BY BubblesNext
<1>3. BubblesInv => BubblesInert
  BY DEF BubblesInv, BubblesInert, InertX, InertM, InertW
<1> QED
  BY <1>1, <1>2, <1>3, TypeCorrect, PTL DEF Spec

-----------------------------------------------------------------------------
(* HaltOrigin: every status and opcode that can become the machine's halt   *)
(* status comes from a fetch that was latched in F_in, and F_in never loses *)
(* a latched status.                                                        *)
Latched == F_in.status \in {"HLT", "INS"}
HaltOriginInv ==
  /\ NoErrorCtl
  /\ "HLT" \in {D_in.status, D_out.status, X_in.status, X_out.status, M_in.status,
                M_out.status, W_in.status, W_out.status, status,
                D_in.insn.op, D_out.insn.op} => Latched

(* What decode_instr does to the instruction it passes on.                  *)
LEMMA DecodeStep ==
  ASSUME TypeOK, decode_instr
  PROVE  LET stat == IF D_out.insn.op = "HLT" THEN "HLT" ELSE D_out.status
         IN  /\ D_out'.status = stat /\ D_out'.insn = D_out.insn
             /\ X_in'.status = stat /\ X_in'.op = D_out.insn.op
             /\ X_in'.X_sigs = X_sigs(D_out.insn.op)
             /\ X_in'.M_sigs = M_sigs(D_out.insn.op)
             /\ X_in'.W_sigs = W_sigs(D_out.insn.op)
BY DEF decode_instr, TypeOK, DReg

(* A step that changes F_in's status latches a halt or an error.            *)
LEMMA LatchKept ==
  ASSUME TypeOK, [Next]_vars, Latched
  PROVE  Latched'
<1>1. CASE fetch_instr
  <2>1. CASE FetchHalt
    BY <2>1 DEF FetchHalt, Latched, TypeOK, FReg
  <2>2. CASE FetchWord(select_PC)
    BY <2>2 DEF FetchWord, Latch, Latched, TypeOK, FReg
  <2> QED
    BY <1>1, <2>1, <2>2 DEF fetch_instr
<1>2. CASE hazards
  BY <1>2 DEF hazards, Latched, TypeOK, FReg
<1>3. CASE UNCHANGED F_in
  BY <1>3 DEF Latched
<1>4. fetch_instr \/ hazards \/ UNCHANGED F_in
  BY DEF Next, vars, ins, wback_instr, memory_instr, execute_instr, decode_instr, clock
<1> QED
  BY <1>1, <1>2, <1>3, <1>4

(* Every step keeps HaltOriginInv.                                          *)
LEMMA HaltOriginNext == TypeOK /\ HaltOriginInv /\ [Next]_vars => HaltOriginInv'
<1> SUFFICES ASSUME TypeOK, HaltOriginInv, [Next]_vars PROVE HaltOriginInv'
  OBVIOUS
<1>0. NoErrorCtl'
  BY NoErrorCtlNext DEF HaltOriginInv
<1> DEFINE Seen == {D_in.status, D_out.status, X_in.status, X_out.status, M_in.status,
                    M_out.status, W_in.status, W_out.status, status,
                    D_in.insn.op, D_out.insn.op}
<1> SUFFICES ASSUME "HLT" \in Seen' PROVE Latched'
  BY <1>0 DEF HaltOriginInv
<1>a. "HLT" \in Seen => Latched'
  BY LatchKept DEF HaltOriginInv
<1>1. CASE wback_instr
  BY <1>1, <1>a DEF wback_instr, ins, outs
<1>2. CASE memory_instr
  BY <1>2, <1>a DEF memory_instr, outs
<1>3. CASE execute_instr
  <2>1. X_out'.status = X_out.status /\ M_in'.status = X_out.status
    BY <1>3 DEF execute_instr, TypeOK, XReg
  <2>2. UNCHANGED <<D_in, D_out, X_in, M_out, W_in, W_out, status>>
    BY <1>3 DEF execute_instr
  <2> QED
    BY <2>1, <2>2, <1>a
<1>4. CASE decode_instr
  <2>1. UNCHANGED <<D_in, X_out, M_in, M_out, W_in, W_out, status>>
    BY <1>4 DEF decode_instr
  <2> QED
    BY <1>4, <2>1, <1>a, DecodeStep
<1>5. CASE fetch_instr
  <2>1. UNCHANGED <<D_out, X_in, X_out, M_in, M_out, W_in, W_out, status>>
    BY <1>5 DEF fetch_instr
  <2>2. CASE FetchHalt
    BY <2>2 DEF FetchHalt, Latched, TypeOK, FReg
  <2>3. CASE FetchWord(select_PC)
    <3> DEFINE pc == select_PC
    <3>1. PICK i \in imem_words(pc) :
            LET stat == IF imem_err(pc) \/ i.op = "ERROR" THEN "INS"
                        ELSE IF i.op = "HLT" THEN "HLT" ELSE "AOK"
            IN  /\ D_in' = [insn |-> i, seq_succ_PC |-> seq_succ_PC(pc, i),
                            status |-> stat]
                /\ F_in' = Latch(stat)
      BY <2>3 DEF FetchWord
    <3>2. CASE i.op = "HLT" \/ imem_err(pc) \/ i.op = "ERROR"
      BY <3>1, <3>2 DEF Latch, Latched, TypeOK, FReg
    <3>3. CASE ~(i.op = "HLT" \/ imem_err(pc) \/ i.op = "ERROR")
      <4>1. D_in'.status = "AOK" /\ D_in'.insn.op # "HLT"
        BY <3>1, <3>3
      <4> QED
        BY <2>1, <4>1, <1>a
    <3> QED
      BY <3>2, <3>3
  <2> QED
    BY <1>5, <2>2, <2>3 DEF fetch_instr
<1>6. CASE hazards
  <2>1. status' = W_out.status
    BY <1>6 DEF hazards, MachineStatus
  <2>2. UNCHANGED <<D_in, D_out, X_in, X_out, M_in, M_out, W_in, W_out>>
    BY <1>6 DEF hazards, outs
  <2> QED
    BY <2>1, <2>2, <1>a
<1>7. CASE clock
  <2>1. UNCHANGED <<D_in, X_in, M_in, W_in>>
    BY <1>7 DEF clock, ins
  <2>2. status' = status
    BY <1>7 DEF clock, HaltOriginInv, NoErrorCtl
  <2>3. /\ D_out' \in {D_in, D_out, D_bubble} /\ X_out' \in {X_in, X_out, X_bubble}
        /\ M_out' \in {M_in, M_out, M_bubble} /\ W_out' \in {W_in, W_out, W_bubble}
    BY <1>7, EdgeCases
  <2>4. /\ D_bubble.status # "HLT" /\ D_bubble.insn.op # "HLT" /\ X_bubble.status # "HLT"
        /\ M_bubble.status # "HLT" /\ W_bubble.status # "HLT"
    BY DEF D_bubble, ZeroInsn, X_bubble, M_bubble, W_bubble
  <2>5. D_out'.status = "HLT" \/ D_out'.insn.op = "HLT" => "HLT" \in Seen
    BY <2>3, <2>4
  <2>6. X_out'.status = "HLT" \/ M_out'.status = "HLT" \/ W_out'.status = "HLT"
          => "HLT" \in Seen
    BY <2>3, <2>4
  <2> QED
    BY <2>1, <2>2, <2>5, <2>6, <1>a
<1>8. CASE UNCHANGED vars
  BY <1>8, <1>a DEF vars, ins, outs, loop
<1> QED
  BY <1>1, <1>2, <1>3, <1>4, <1>5, <1>6, <1>7, <1>8 DEF Next

(* A clean exit is always due to something fetched, never to P_ERROR.       *)
THEOREM HaltOriginHolds == Spec => []HaltOrigin
<1>1. Init => HaltOriginInv
  BY DEF Init, HaltOriginInv, NoErrorCtl, D_bubble, ZeroInsn, X_bubble, M_bubble, W_bubble
<1>2. TypeOK /\ HaltOriginInv /\ [Next]_vars => HaltOriginInv'
  BY HaltOriginNext
<1>3. HaltOriginInv => HaltOrigin
  BY DEF HaltOriginInv, HaltOrigin, Latched
<1> QED
  BY <1>1, <1>2, <1>3, TypeCorrect, PTL DEF Spec

-----------------------------------------------------------------------------
(* HaltBarrier: behind a halt there are only halts and NOPs, which do       *)
(* nothing.  Within a cycle the in side of a register follows the out side  *)
(* of the one before it; across the clock edge the order of instructions is *)
(* kept.                                                                    *)
Dead == {"HLT", "NOP"}
DeadInert ==
  /\ X_in.op \in Dead => Inert(X_in) /\ ~X_in.X_sigs.set_CC
  /\ X_out.op \in Dead => Inert(X_out) /\ ~X_out.X_sigs.set_CC
  /\ M_in.op \in Dead => Inert(M_in)
  /\ M_out.op \in Dead => Inert(M_out)
Flow ==
  /\ stage \in {"execute", "decode", "fetch", "hazards", "clock"} => W_in.op = M_out.op
  /\ stage \in {"decode", "fetch", "hazards", "clock"} => M_in.op = X_out.op
  /\ stage \in {"fetch", "hazards", "clock"} => X_in.op = D_out.insn.op
  /\ stage \in {"hazards", "clock"} /\ F_in.status = "HLT" => D_in.insn.op = "HLT"
HaltFetched ==
  "HLT" \in {D_in.insn.op, D_out.insn.op, X_out.op, M_out.op, W_out.op}
    => F_in.status = "HLT"
DeadBehindHalt ==
  /\ X_out.op = "HLT" => D_out.insn.op \in Dead
  /\ M_out.op = "HLT" => {D_out.insn.op, X_out.op} \subseteq Dead
  /\ W_out.op = "HLT" => {D_out.insn.op, X_out.op, M_out.op} \subseteq Dead
HaltInv == DeadInert /\ Flow /\ HaltFetched /\ DeadBehindHalt

(* Every step keeps DeadInert.                                              *)
LEMMA DeadInertNext == TypeOK /\ DeadInert /\ [Next]_vars => DeadInert'
<1> SUFFICES ASSUME TypeOK, DeadInert, [Next]_vars PROVE DeadInert'
  OBVIOUS
<1> USE DEF DeadInert, Inert, Dead
<1>1. CASE execute_instr
  <2>1. /\ X_out'.op = X_out.op /\ X_out'.X_sigs = X_out.X_sigs
        /\ X_out'.W_sigs = X_out.W_sigs /\ X_out'.M_sigs = X_out.M_sigs
        /\ M_in'.op = X_out.op
        /\ M_in'.W_sigs = X_out.W_sigs /\ M_in'.M_sigs = X_out.M_sigs
        /\ UNCHANGED <<X_in, M_out>>
    BY <1>1 DEF execute_instr, TypeOK, XReg
  <2> QED
    BY <2>1
<1>2. CASE decode_instr
  <2>1. UNCHANGED <<X_out, M_in, M_out>>
    BY <1>2 DEF decode_instr
  <2>2. /\ X_in'.op = D_out.insn.op /\ X_in'.X_sigs = X_sigs(D_out.insn.op)
        /\ X_in'.M_sigs = M_sigs(D_out.insn.op) /\ X_in'.W_sigs = W_sigs(D_out.insn.op)
    BY <1>2, DecodeStep
  <2>3. X_in'.op \in Dead => Inert(X_in') /\ ~X_in'.X_sigs.set_CC
    BY <2>2, DeadControl
  <2> QED
    BY <2>1, <2>3
<1>3. CASE clock
  <2>1. UNCHANGED <<X_in, M_in>>
    BY <1>3 DEF clock, ins
  <2>2. X_out' \in {X_in, X_out, X_bubble} /\ M_out' \in {M_in, M_out, M_bubble}
    BY <1>3, EdgeCases
  <2>3. Inert(X_bubble) /\ ~X_bubble.X_sigs.set_CC /\ Inert(M_bubble)
    BY DEF X_bubble, M_bubble, NoXSigs, NoMSigs, NoWSigs
  <2> QED
    BY <2>1, <2>2, <2>3
<1>4. CASE UNCHANGED <<X_in, X_out, M_in, M_out>>
  BY <1>4
<1>5. execute_instr \/ decode_instr \/ clock \/ UNCHANGED <<X_in, X_out, M_in, M_out>>
  BY DEF Next, vars, ins, outs, wback_instr, memory_instr, fetch_instr, hazards
<1> QED
  BY <1>1, <1>2, <1>3, <1>4, <1>5

(* Only the clock edge moves an instruction from one out side to another.   *)
LEMMA OpsKept ==
  ASSUME TypeOK, [Next]_vars, ~clock
  PROVE  /\ D_out'.insn.op = D_out.insn.op /\ X_out'.op = X_out.op
         /\ M_out'.op = M_out.op /\ W_out'.op = W_out.op
<1>1. CASE execute_instr
  BY <1>1 DEF execute_instr, TypeOK, XReg
<1>2. CASE decode_instr
  <2>1. UNCHANGED <<X_out, M_out, W_out>>
    BY <1>2 DEF decode_instr
  <2> QED
    BY <1>2, <2>1, DecodeStep
<1>3. CASE UNCHANGED <<D_out, X_out, M_out, W_out>>
  BY <1>3
<1>4. execute_instr \/ decode_instr \/ UNCHANGED <<D_out, X_out, M_out, W_out>>
  BY DEF Next, vars, outs, wback_instr, memory_instr, fetch_instr, hazards
<1> QED
  BY <1>1, <1>2, <1>3, <1>4

(* What fetch_instr puts in front of the pipeline.                          *)
LEMMA FetchStep ==
  ASSUME TypeOK, NoJunkHalt, fetch_instr
  PROVE  /\ F_in.status = "HLT" => D_in'.insn.op = "HLT"
         /\ D_in'.insn.op = "HLT" <=> F_in'.status = "HLT"
<1>1. CASE FetchHalt
  BY <1>1 DEF FetchHalt, HltInsn, ZeroInsn, TypeOK, DReg, FReg
<1>2. CASE FetchWord(select_PC) /\ ~MakesHalt
  <2> DEFINE pc == select_PC
  <2>0. F_in.status # "HLT"
    BY <1>2 DEF MakesHalt
  <2>1. PICK i \in imem_words(pc) :
          LET stat == IF imem_err(pc) \/ i.op = "ERROR" THEN "INS"
                      ELSE IF i.op = "HLT" THEN "HLT" ELSE "AOK"
          IN  /\ D_in' = [insn |-> i, seq_succ_PC |-> seq_succ_PC(pc, i),
                          status |-> stat]
              /\ F_in' = Latch(stat)
    BY <1>2 DEF FetchWord
  <2>2. i.op = "HLT" => ~imem_err(pc)
    <3> SUFFICES ASSUME i.op = "HLT" PROVE ~imem_err(pc)
      OBVIOUS
    <3>1. pc \in TextAddrs
      BY NoJunkHalt DEF imem_words, NoJunkHalt
    <3> QED
      BY <3>1, SegAssumption DEF TextAddrs, imem_err, addr_in_imem
  <2> HIDE DEF pc
  <2>3. CASE i.op = "HLT"
    BY <2>1, <2>2, <2>3 DEF Latch, TypeOK, FReg
  <2>4. CASE i.op # "HLT"
    BY <2>0, <2>1, <2>4 DEF Latch, TypeOK, FReg
  <2> QED
    BY <2>0, <2>3, <2>4
<1> QED
  BY <1>1, <1>2 DEF fetch_instr

(* A step within a cycle, fetch_instr apart, keeps what is older than what. *)
LEMMA HaltInCycle ==
  ASSUME TypeOK, HaltInv, [Next]_vars, ~clock, ~fetch_instr
  PROVE  Flow' /\ HaltFetched' /\ DeadBehindHalt'
<1>1. /\ D_out'.insn.op = D_out.insn.op /\ X_out'.op = X_out.op
      /\ M_out'.op = M_out.op /\ W_out'.op = W_out.op
  BY OpsKept
<1>2. UNCHANGED D_in
  BY DEF Next, vars, ins, wback_instr, memory_instr, execute_instr, decode_instr, hazards
<1>3. F_in'.status = F_in.status
  BY DEF Next, vars, ins, wback_instr, memory_instr, execute_instr, decode_instr, hazards,
         TypeOK, FReg
<1>4. HaltFetched' /\ DeadBehindHalt'
  BY <1>1, <1>2, <1>3 DEF HaltInv, HaltFetched, DeadBehindHalt
<1>5. Flow'
  <2>1. CASE wback_instr
    BY <2>1 DEF wback_instr, Flow
  <2>2. CASE memory_instr
    <3>1. W_in'.op = M_out.op /\ stage' \in {"execute", "stop"}
      BY <2>2 DEF memory_instr
    <3> QED
      BY <1>1, <3>1 DEF Flow
  <2>3. CASE execute_instr
    <3>1. M_in'.op = X_out.op /\ UNCHANGED W_in /\ stage' = "decode" /\ stage = "execute"
      BY <2>3 DEF execute_instr
    <3> QED
      BY <1>1, <3>1 DEF HaltInv, Flow
  <2>4. CASE decode_instr
    <3>1. UNCHANGED <<M_in, W_in>> /\ stage' = "fetch" /\ stage = "decode"
      BY <2>4 DEF decode_instr
    <3> QED
      BY <1>1, <2>4, <3>1, DecodeStep DEF HaltInv, Flow
  <2>5. CASE hazards
    <3>1. UNCHANGED <<X_in, M_in, W_in>> /\ stage' = "clock" /\ stage = "hazards"
      BY <2>5 DEF hazards
    <3> QED
      BY <1>1, <1>2, <1>3, <3>1 DEF HaltInv, Flow
  <2>6. CASE UNCHANGED vars
    BY <2>6 DEF vars, ins, outs, loop, HaltInv, Flow
  <2> QED
    BY <2>1, <2>2, <2>3, <2>4, <2>5, <2>6 DEF Next
<1> QED
  BY <1>4, <1>5

(* fetch_instr brings in a halt only with F_in's halt status, and nothing   *)
(* else behind it.                                                          *)
LEMMA HaltInFetch ==
  ASSUME TypeOK, NoJunkHalt, HaltInv, fetch_instr
  PROVE  Flow' /\ HaltFetched' /\ DeadBehindHalt'
<1>1. /\ UNCHANGED <<X_in, M_in, W_in, D_out, X_out, M_out, W_out>>
      /\ stage = "fetch" /\ stage' \in {"hazards", "stop"}
  BY DEF fetch_instr, FetchHalt, FetchWord
<1>2. D_in'.insn.op = "HLT" <=> F_in'.status = "HLT"
  BY FetchStep
<1>3. F_in.status = "HLT" => F_in'.status = "HLT"
  BY FetchStep
<1>4. Flow'
  BY <1>1, <1>2 DEF HaltInv, Flow
<1>5. HaltFetched' /\ DeadBehindHalt'
  BY <1>1, <1>2, <1>3 DEF HaltInv, HaltFetched, DeadBehindHalt
<1> QED
  BY <1>4, <1>5

(* At the clock edge every halt that moves on leaves halts, NOPs and        *)
(* bubbles behind it.                                                       *)
LEMMA HaltInClock ==
  ASSUME TypeOK, HaltInv, clock
  PROVE  Flow' /\ HaltFetched' /\ DeadBehindHalt'
<1> DEFINE latched == F_in.status = "HLT"
<1>1. /\ UNCHANGED <<F_in, D_in, X_in, M_in, W_in>>
      /\ stage = "clock" /\ stage' \in {"wback", "stop"}
  BY DEF clock, ins
<1>2. /\ W_in.op = M_out.op /\ M_in.op = X_out.op /\ X_in.op = D_out.insn.op
      /\ latched => D_in.insn.op = "HLT"
  BY <1>1 DEF HaltInv, Flow
<1>3. /\ D_out'.insn.op \in {D_in.insn.op, D_out.insn.op, "NOP"}
      /\ X_out'.op \in {D_out.insn.op, X_out.op, "NOP"}
      /\ M_out'.op \in {X_out.op, M_out.op, "NOP"}
      /\ W_out'.op \in {M_out.op, W_out.op, "NOP"}
  BY <1>2, EdgeCases DEF D_bubble, ZeroInsn, X_bubble, M_bubble, W_bubble
<1>4. Flow'
  BY <1>1 DEF Flow
<1>5. HaltFetched'
  BY <1>1, <1>3 DEF HaltInv, HaltFetched
<1>6. {D_out.insn.op, X_out.op, M_out.op, W_out.op} \cap {"HLT"} # {} => latched
  BY DEF HaltInv, HaltFetched
<1>7. X_out'.op = "HLT" => D_out'.insn.op \in Dead
  BY <1>2, <1>3, <1>6 DEF HaltInv, DeadBehindHalt, Dead
<1>8. M_out'.op = "HLT" => {D_out'.insn.op, X_out'.op} \subseteq Dead
  BY <1>2, <1>3, <1>6 DEF HaltInv, DeadBehindHalt, Dead
<1>9. W_out'.op = "HLT" => {D_out'.insn.op, X_out'.op, M_out'.op} \subseteq Dead
  BY <1>2, <1>3, <1>6 DEF HaltInv, DeadBehindHalt, Dead
<1> QED
  BY <1>4, <1>5, <1>7, <1>8, <1>9 DEF DeadBehindHalt

(* Every step keeps HaltInv.                                                *)
LEMMA HaltNext == NoJunkHalt /\ TypeOK /\ HaltInv /\ [Next]_vars => HaltInv'
<1> SUFFICES ASSUME NoJunkHalt, TypeOK, HaltInv, [Next]_vars PROVE HaltInv'
  OBVIOUS
<1>1. DeadInert'
  BY DeadInertNext DEF HaltInv
<1>2. Flow' /\ HaltFetched' /\ DeadBehindHalt'
  BY HaltInCycle, HaltInFetch, HaltInClock
<1> QED
  BY <1>1, <1>2 DEF HaltInv

(* Nothing younger than a halt takes effect, in any run of any program, as  *)
(* long as no word outside the text segment looks like a halt.              *)
THEOREM HaltBarrierHolds == Spec => []HaltBarrier
<1>1. CASE NoJunkHalt
  <2>1. Init => HaltInv
    BY DEF Init, HaltInv, DeadInert, Flow, HaltFetched, DeadBehindHalt, Dead, Inert,
           D_bubble, ZeroInsn, X_bubble, M_bubble, W_bubble, NoXSigs, NoMSigs, NoWSigs
  <2>2. TypeOK /\ HaltInv /\ [Next]_vars => HaltInv'
    BY <1>1, HaltNext
  <2>3. HaltInv => HaltBarrier
    BY DEF HaltInv, DeadInert, HaltFetched, DeadBehindHalt, HaltBarrier, Dead
  <2> QED
    BY <2>1, <2>2, <2>3, TypeCorrect, PTL DEF Spec
<1>2. CASE ~NoJunkHalt
  <2>1. Init => HaltBarrier
    BY <1>2 DEF HaltBarrier
  <2>2. HaltBarrier /\ [Next]_vars => HaltBarrier'
    BY <1>2 DEF HaltBarrier, NoJunkHalt
  <2> QED
    BY <2>1, <2>2, PTL DEF Spec
<1> QED
  BY <1>1, <1>2

-----------------------------------------------------------------------------
(* While a data access is in flight.                                        *)

(* The signals of the coming clock edge hold Fetch, Decode and Execute as   *)
(* soon as handle_hazards has seen an access in flight.                     *)
Held == stage = "clock" /\ ms.dmem_status = "IN_FLIGHT"
          => ctl["f"] = "STALL" /\ ctl["d"] = "STALL" /\ ctl["x"] = "STALL"

(* handle_hazards with an access in flight: no bubble, f, d and x stall.    *)
LEMMA InFlightStalls ==
  ASSUME NEW D_op, NEW D_s1, NEW D_s2, NEW X_op, NEW X_d, NEW cv
  PROVE  LET h == handle_hazards(D_op, D_s1, D_s2, X_op, X_d, cv, "IN_FLIGHT")
         IN  h.bubble = {} /\ {"f", "d", "x"} \subseteq h.stall
BY DEF handle_hazards, InFlightHazard

(* Every step keeps Held.                                                   *)
LEMMA HeldNext == TypeOK /\ Held /\ [Next]_vars => Held'
<1> SUFFICES ASSUME TypeOK, Held, [Next]_vars PROVE Held'
  OBVIOUS
<1>1. CASE hazards
  <2> SUFFICES ASSUME ms.dmem_status = "IN_FLIGHT"
               PROVE  ctl'["f"] = "STALL" /\ ctl'["d"] = "STALL" /\ ctl'["x"] = "STALL"
    BY <1>1 DEF hazards, arch, Held
  <2>1. Hazards.bubble = {} /\ {"f", "d", "x"} \subseteq Hazards.stall
    BY InFlightStalls DEF Hazards
  <2>2. ctl' = [r \in PipeReg |-> pipe_control_stage(r \in Hazards.bubble,
                                                     r \in Hazards.stall)]
    BY <1>1 DEF hazards
  <2> HIDE DEF Hazards
  <2>3. \A r \in {"f", "d", "x"} : ctl'[r] = pipe_control_stage(FALSE, TRUE)
    BY <2>1, <2>2 DEF PipeReg, pipe_control_stage
  <2> QED
    BY <2>3 DEF pipe_control_stage
<1>2. CASE stage' # "clock"
  BY <1>2 DEF Held
<1>3. CASE UNCHANGED vars
  BY <1>3 DEF vars, arch, loop, Held
<1>4. hazards \/ stage' # "clock" \/ UNCHANGED vars
  BY DEF Next, wback_instr, memory_instr, execute_instr, decode_instr, fetch_instr,
         FetchHalt, FetchWord, clock
<1> QED
  BY <1>1, <1>2, <1>3, <1>4

(* Fetch, Decode and Execute keep their instructions while an access is in  *)
(* flight, whatever hazards coincide with it.                               *)
THEOREM FrozenInFlightHolds == Spec => FrozenInFlight
<1>1. Init => Held
  BY DEF Init, Held
<1>2. TypeOK /\ Held /\ [Next]_vars => Held'
  BY HeldNext
<1>3. Held /\ [Next]_vars => [stage = "clock" /\ ms.dmem_status = "IN_FLIGHT"
                                => UNCHANGED <<F_out, D_out, X_out>>]_vars
  <2> SUFFICES ASSUME Held, [Next]_vars, stage = "clock", ms.dmem_status = "IN_FLIGHT"
               PROVE  UNCHANGED <<F_out, D_out, X_out>>
    OBVIOUS
  <2>1. CASE clock
    BY <2>1 DEF clock, Edge, Held
  <2>2. CASE UNCHANGED vars
    BY <2>2 DEF vars, outs
  <2>3. clock \/ UNCHANGED vars
    BY DEF Next, wback_instr, memory_instr, execute_instr, decode_instr, fetch_instr,
           hazards
  <2> QED
    BY <2>1, <2>2, <2>3
<1> QED
  BY <1>1, <1>2, <1>3, TypeCorrect, PTL DEF Spec, FrozenInFlight

-----------------------------------------------------------------------------
(* The countdown of the access in flight.                                   *)
Bounded(m) == d > 0 /\ m.inflight => 0 < m.inflight_cycles /\ m.inflight_cycles < d

(* A step of the countdown ends it or leaves it between 0 and the delay.    *)
LEMMA MissBounded ==
  ASSUME NEW m \in MemSys, NEW a, Bounded(m)
  PROVE  Bounded(MissStep(m, a))
<1> SUFFICES ASSUME d > 0, MissStep(m, a).inflight
             PROVE  /\ 0 < MissStep(m, a).inflight_cycles
                    /\ MissStep(m, a).inflight_cycles < d
  BY DEF Bounded
<1> DEFINE left == CountDown(m, a)
<1>1. left > 0 /\ MissStep(m, a).inflight_cycles = left
  BY DEF MissStep, MemSys
<1>2. d \in Word /\ m.inflight_cycles \in Word /\ Modulus \in Nat
  BY CacheAssumption, ModulusAssumption DEF MemSys
<1>3. CASE left = (d - 1) % Modulus
  <2>1. (d - 1) % Modulus = d - 1
    BY <1>2 DEF Word
  <2> QED
    BY <1>1, <1>2, <1>3, <2>1 DEF Word
<1>4. CASE m.inflight /\ left = (m.inflight_cycles - 1) % Modulus
  <2>1. 0 < m.inflight_cycles /\ m.inflight_cycles < d
    BY <1>4 DEF Bounded
  <2>2. (m.inflight_cycles - 1) % Modulus = m.inflight_cycles - 1
    BY <1>2, <2>1 DEF Word
  <2> QED
    BY <1>1, <1>2, <1>4, <2>1, <2>2 DEF Word
<1> QED
  BY <1>3, <1>4 DEF CountDown, MemSys

(* A read does not touch the countdown otherwise.                           *)
LEMMA ReadBounded ==
  ASSUME NEW m \in MemSys, NEW a, NEW r \in mem_read(m, a), Bounded(m)
  PROVE  Bounded(r.ms)
<1>1. r.ms \in {m, [m EXCEPT !.exit = "failure"], MissStep(m, a)}
  BY DEF mem_read
<1>2. Bounded([m EXCEPT !.exit = "failure"])
  BY DEF Bounded, MemSys
<1> QED
  BY <1>1, <1>2, MissBounded

(* Nor does a write.                                                        *)
LEMMA WriteBounded ==
  ASSUME NEW m \in MemSys, NEW a, NEW v, NEW w \in mem_write(m, a, v), Bounded(m)
  PROVE  Bounded(w)
<1>1. CASE w = MissStep(m, a)
  BY <1>1, MissBounded
<1>2. CASE w # MissStep(m, a)
  <2>1. w.inflight = m.inflight /\ w.inflight_cycles = m.inflight_cycles
    BY <1>2 DEF mem_write, MemSys
  <2> QED
    BY <2>1 DEF Bounded
<1> QED
  BY <1>1, <1>2

(* memory_instr keeps the countdown between its bounds.                     *)
LEMMA MemoryBounded == TypeOK /\ Bounded(ms) /\ memory_instr => Bounded(ms')
<1> SUFFICES ASSUME TypeOK, Bounded(ms), memory_instr PROVE Bounded(ms')
  OBVIOUS
<1> DEFINE rd == M_out.M_sigs.dmem_read
           wr == M_out.M_sigs.dmem_write
           results == IF rd \/ wr THEN dmem(ms, M_out.val_ex, M_out.val_b, rd, wr, W_in.val_mem)
                      ELSE {[ms |-> ms, val |-> W_in.val_mem]}
           reads == IF rd THEN mem_read(ms, M_out.val_ex)
                    ELSE {[ms |-> ms, val |-> W_in.val_mem]}
<1>1. PICK r \in results : ms' = r.ms
  BY DEF memory_instr
<1>2. ms \in MemSys /\ M_out.val_ex \in Word
  BY DEF TypeOK, MReg
<1>3. \A q \in reads : q.ms \in MemSys /\ Bounded(q.ms)
  BY <1>2, ReadType, ReadBounded
<1>4. CASE ~wr
  <2>1. r \in reads
    BY <1>1, <1>4 DEF dmem
  <2> QED
    BY <1>1, <1>3, <2>1
<1>5. CASE wr
  <2>1. PICK q \in reads : r.ms \in mem_write(q.ms, M_out.val_ex, M_out.val_b)
    BY <1>1, <1>5 DEF dmem
  <2> QED
    BY <1>1, <1>3, <2>1, WriteBounded
<1> QED
  BY <1>4, <1>5

(* The countdown of an access in flight never wraps, whatever accesses      *)
(* follow each other, unless the delay itself is 0.                         *)
THEOREM CountdownBoundedHolds == Spec => []CountdownBounded
<1>1. Init => Bounded(ms)
  BY DEF Init, InitMemSys, Bounded
<1>2. TypeOK /\ Bounded(ms) /\ [Next]_vars => Bounded(ms)'
  <2> SUFFICES ASSUME TypeOK, Bounded(ms), [Next]_vars PROVE Bounded(ms')
    OBVIOUS
  <2>1. CASE memory_instr
    BY <2>1, MemoryBounded
  <2>2. CASE fetch_instr
    <3>1. ms' \in {ms, MissStep(ms, select_PC)}
      BY <2>2 DEF fetch_instr, FetchHalt, FetchWord, ifetch
    <3> QED
      BY <3>1, MissBounded DEF TypeOK
  <2>3. CASE UNCHANGED ms
    BY <2>3
  <2>4. memory_instr \/ fetch_instr \/ UNCHANGED ms
    BY DEF Next, vars, arch, wback_instr, execute_instr, decode_instr, hazards, clock
  <2> QED
    BY <2>1, <2>2, <2>3, <2>4
<1>3. Bounded(ms) => CountdownBounded
  BY DEF Bounded, CountdownBounded
<1> QED
  BY <1>1, <1>2, <1>3, TypeCorrect, PTL DEF Spec
=============================================================================
