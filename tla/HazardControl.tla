--------------------------- MODULE HazardControl ---------------------------
(***************************************************************************)
(* hazard_control.c: which pipeline registers bubble and which stall at    *)
(* the coming clock edge.  "f".."w" name the registers feeding Fetch,      *)
(* Decode, Execute, Memory and Writeback.  handle_hazards starts by        *)
(* clearing every flag, so its result is a function of its arguments and   *)
(* of dmem_status.                                                         *)
(***************************************************************************)

PipeReg == {"f", "d", "x", "m", "w"}
PipeCtl == {"LOAD", "ERROR", "BUBBLE", "STALL"}

check_ret_hazard(D_op) == D_op = "RET"
check_mispred_branch_hazard(X_op, X_condval) == X_op = "B_COND" /\ ~X_condval
check_load_use_hazard(D_src1, D_src2, X_op, X_dst) ==
  X_op = "LDUR" /\ X_dst \in {D_src1, D_src2}

\* Mutant: RET holds Decode instead of the PC.
ProgramHazard_mutant(ret, loaduse, mispred) ==
  CASE mispred -> [bubble |-> {"f", "d"}, stall |-> {}]
    [] loaduse /\ ~mispred -> [bubble |-> {"d"}, stall |-> {"f"}]
    [] ret /\ ~loaduse /\ ~mispred -> [bubble |-> {}, stall |-> {"f", "d"}]
    [] OTHER -> [bubble |-> {}, stall |-> {}]

\* The if / else-if chain of handle_hazards.
ProgramHazard(ret, loaduse, mispred) ==
  CASE mispred /\ ret -> [bubble |-> {"f", "d"}, stall |-> {}]
    [] ret /\ loaduse /\ ~mispred -> [bubble |-> {"d"}, stall |-> {"f"}]
    [] ret /\ ~loaduse /\ ~mispred -> [bubble |-> {"f"}, stall |-> {}]
    [] loaduse /\ ~ret -> [bubble |-> {"d"}, stall |-> {"f"}]
    [] mispred /\ ~ret /\ ~loaduse -> [bubble |-> {"f", "d"}, stall |-> {}]
    [] OTHER -> [bubble |-> {}, stall |-> {}]

\* Mutants: the bubbles survive an access in flight; Execute is not held.
InFlightHazard_mutant1(h) == [bubble |-> h.bubble, stall |-> h.stall \cup {"f", "d", "x"}]
InFlightHazard_mutant2(h) == [bubble |-> {}, stall |-> h.stall \cup {"f", "d"}]

\* An access in flight stalls f, d and x and clears every bubble.  The
\* statement for m, "stall - true", has no effect: m is not stalled.
InFlightHazard(h) == [bubble |-> {}, stall |-> h.stall \cup {"f", "d", "x"}]

handle_hazards(D_op, D_src1, D_src2, X_op, X_dst, X_condval, dmem_status) ==
  LET h == ProgramHazard(check_ret_hazard(D_op),
                         check_load_use_hazard(D_src1, D_src2, X_op, X_dst),
                         check_mispred_branch_hazard(X_op, X_condval))
  IN  IF dmem_status = "IN_FLIGHT"
      THEN InFlightHazard(h)
      ELSE h

\* pipe_control_stage: declared in hazard_control.h, defined nowhere in the
\* tree.  Its meaning is that of the comment on pipe_reg_t and of the names of
\* its parameters.
pipe_control_stage(bubble, stall) ==
  CASE bubble /\ stall -> "ERROR"
    [] bubble /\ ~stall -> "BUBBLE"
    [] stall /\ ~bubble -> "STALL"
    [] OTHER -> "LOAD"
=============================================================================
