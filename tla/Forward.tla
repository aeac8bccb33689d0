------------------------------ MODULE Forward ------------------------------
(***************************************************************************)
(* forward.c: the value one source operand of the instruction in Decode    *)
(* gets.  forward_reg treats val_a and val_b alike, so the operator is for *)
(* one operand; val is what regfile read.  X, M and W describe the older   *)
(* instructions: X = [w_enable, dst, val_ex] is in Execute, M and W add    *)
(* val_mem and wval_sel.                                                   *)
(***************************************************************************)

\* What an older instruction in Memory or Writeback will write.
Result(s) == IF s.wval_sel THEN s.val_mem ELSE s.val_ex

\* An enabled writer of src.
Writes(s, src) == s.w_enable /\ s.dst = src

\* Mutant: without a writer in Execute, W is taken before M.
forward_reg_mutant(src, val, X, M, W) ==
  IF Writes(X, src)      THEN X.val_ex
  ELSE IF Writes(W, src) THEN Result(W)
  ELSE IF Writes(M, src) THEN Result(M)
  ELSE val

\* With a writer in Execute the order is X, W, M and a value from W is always
\* its val_ex; without one it is M, W and each stage's selected result.
forward_reg(src, val, X, M, W) ==
  IF X.w_enable
  THEN IF X.dst = src      THEN X.val_ex
       ELSE IF Writes(W, src) THEN W.val_ex
       ELSE IF Writes(M, src) THEN Result(M)
       ELSE val
  ELSE IF Writes(M, src)      THEN Result(M)
       ELSE IF Writes(W, src) THEN Result(W)
       ELSE val

-----------------------------------------------------------------------------
(* The youngest older writer wins: what an in-order pipeline has to deliver *)
(* when the instruction in Execute is not a load of src.                    *)
YoungestResult(src, val, X, M, W) ==
  IF Writes(X, src)      THEN X.val_ex
  ELSE IF Writes(M, src) THEN Result(M)
  ELSE IF Writes(W, src) THEN Result(W)
  ELSE val

\* The two ways forward_reg picks something else: the stage in Execute writes
\* another register while Writeback holds src, and either Memory holds a
\* younger value of src, or Writeback's value comes from memory.
ShadowedByW(src, X, M, W) ==
  /\ X.w_enable /\ X.dst # src
  /\ Writes(W, src)
  /\ Writes(M, src) \/ W.wval_sel
=============================================================================
