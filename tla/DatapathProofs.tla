--------------------------- MODULE DatapathProofs ---------------------------
(* What forward_reg and the flags of alu deliver, for every value of their  *)
(* operands, and what the flags in the pipeline tell.                       *)
EXTENDS Conditions, SafetyProofs

(* forward_reg delivers the value of the youngest older writer, except in   *)
(* the one situation ShadowedByW describes.                                 *)
THEOREM ForwardsYoungest ==
  ASSUME NEW src, NEW val, NEW X, NEW M, NEW W, ~ShadowedByW(src, X, M, W)
  PROVE  forward_reg(src, val, X, M, W) = YoungestResult(src, val, X, M, W)
<1>1. CASE Writes(X, src)
  BY <1>1 DEF forward_reg, YoungestResult, Writes
<1>2. CASE X.w_enable /\ X.dst # src
  <2>1. CASE Writes(W, src)
    <3>1. ~Writes(M, src) /\ ~W.wval_sel
      BY <1>2, <2>1 DEF ShadowedByW
    <3> QED
      BY <1>2, <2>1, <3>1 DEF forward_reg, YoungestResult, Writes, Result
  <2>2. CASE ~Writes(W, src)
    BY <1>2, <2>2 DEF forward_reg, YoungestResult, Writes
  <2> QED
    BY <2>1, <2>2
<1>3. CASE ~X.w_enable
  BY <1>3 DEF forward_reg, YoungestResult, Writes
<1> QED
  BY <1>1, <1>2, <1>3 DEF Writes

(* In that situation it delivers Writeback's val_ex whatever Memory holds:  *)
(* the older of two values, or the address of a load.                       *)
THEOREM ForwardsShadow ==
  ASSUME NEW src, NEW val, NEW X, NEW M, NEW W, ShadowedByW(src, X, M, W)
  PROVE  /\ forward_reg(src, val, X, M, W) = W.val_ex
         /\ YoungestResult(src, val, X, M, W) \in {Result(M), W.val_mem}
<1>1. X.w_enable /\ X.dst # src /\ Writes(W, src) /\ (Writes(M, src) \/ W.wval_sel)
  BY DEF ShadowedByW
<1>2. forward_reg(src, val, X, M, W) = W.val_ex
  BY <1>1 DEF forward_reg
<1>3. ~Writes(X, src)
  BY <1>1 DEF Writes
<1>4. CASE Writes(M, src)
  BY <1>2, <1>3, <1>4 DEF YoungestResult
<1>5. CASE ~Writes(M, src)
  BY <1>1, <1>2, <1>3, <1>5 DEF YoungestResult, Result
<1> QED
  BY <1>4, <1>5

-----------------------------------------------------------------------------
(* The sum and the difference of two words wrap at most once.               *)
LEMMA WrapsOnce ==
  ASSUME NEW a \in Word, NEW b \in Word
  PROVE  /\ (a + b) % Modulus = IF a + b < Modulus THEN a + b ELSE a + b - Modulus
         /\ (a - b) % Modulus = IF a < b THEN a - b + Modulus ELSE a - b
BY ModulusAssumption DEF Word

(* After an addition C is the unsigned and V the signed overflow, for words *)
(* of every even modulus.                                                   *)
THEOREM AdditionFlags ==
  ASSUME NEW a \in Word, NEW b \in Word, NEW h \in Nat, Modulus = 2 * h
  PROVE  LET res == (a + b) % Modulus
         IN  /\ carry(a, res) <=> a + b >= Modulus
             /\ overflow(a, b) <=> ~Representable(Signed(a) + Signed(b))
<1>1. (a + b) % Modulus = IF a + b < Modulus THEN a + b ELSE a + b - Modulus
  BY WrapsOnce
<1> QED
  BY <1>1, ModulusAssumption DEF carry, overflow, Negative, Signed, Representable, Word

(* After a subtraction C tells that there was no borrow, as CS, CC, HI and  *)
(* LS expect, except when 0 is subtracted: then it is clear.                *)
THEOREM SubtractionCarry ==
  ASSUME NEW a \in Word, NEW b \in Word
  PROVE  carry(a, (a - b) % Modulus) <=> NoBorrow(a, b) /\ b # 0
<1>1. (a - b) % Modulus = IF a < b THEN a - b + Modulus ELSE a - b
  BY WrapsOnce
<1> QED
  BY <1>1, ModulusAssumption DEF carry, NoBorrow, Word

(* After a subtraction V is never the overflow GE, LT, GT and LE expect: it *)
(* is only set when the signed difference is representable.                 *)
THEOREM SubtractionOverflow ==
  ASSUME NEW a \in Word, NEW b \in Word, NEW h \in Nat, Modulus = 2 * h,
         overflow(a, b)
  PROVE  Representable(Signed(a) - Signed(b))
<1>1. (a + b) % Modulus = IF a + b < Modulus THEN a + b ELSE a + b - Modulus
  BY WrapsOnce
<1> QED
  BY <1>1, ModulusAssumption DEF overflow, Negative, Signed, Representable, Word

-----------------------------------------------------------------------------
(* A modulus without remainder has a half.                                  *)
LEMMA EvenHalf == Modulus % 2 = 0 => \E h \in Nat : Modulus = 2 * h
<1>1. Modulus = 2 * (Modulus \div 2) + (Modulus % 2) /\ Modulus \div 2 \in Nat
  BY ModulusAssumption
<1>2. ASSUME Modulus % 2 = 0 PROVE Modulus = 2 * (Modulus \div 2)
  <2> DEFINE h == Modulus \div 2
  <2>1. Modulus = 2 * h + 0 /\ h \in Nat
    BY <1>1, <1>2
  <2> HIDE DEF h
  <2>2. Modulus = 2 * h
    BY <2>1
  <2> QED
    BY <2>2 DEF h
<1> QED
  BY <1>1, <1>2, Zenon

(* What the flags of a sum tell: both overflows, exactly.                   *)
LEMMA SumTells ==
  ASSUME NEW a \in Word, NEW b \in Word, Modulus % 2 = 0
  PROVE  TellsSum(SumFlags(a, b), a, b)
<1>1. PICK h \in Nat : Modulus = 2 * h
  BY EvenHalf
<1> DEFINE res == (a + b) % Modulus
<1>2. carry(a, res) <=> a + b >= Modulus
  BY <1>1, AdditionFlags
<1>3. overflow(a, b) <=> ~Representable(Signed(a) + Signed(b))
  BY <1>1, AdditionFlags
<1> HIDE DEF res
<1>4. /\ SumFlags(a, b).z = (res = 0) /\ SumFlags(a, b).c = carry(a, res)
      /\ SumFlags(a, b).v = overflow(a, b)
  BY Zenon DEF SumFlags, res
<1>5. res = (a + b) % Modulus
  BY DEF res
<1> QED
  BY <1>2, <1>3, <1>4, <1>5, Zenon DEF TellsSum

(* A difference is negative when the first operand is less, both signed,    *)
(* as long as it is representable.                                          *)
LEMMA SignOfDifference ==
  ASSUME NEW a \in Word, NEW b \in Word, NEW h \in Nat, Modulus = 2 * h,
         Representable(Signed(a) - Signed(b))
  PROVE  Negative((a - b) % Modulus) <=> Signed(a) < Signed(b)
<1>1. (a - b) % Modulus = IF a < b THEN a - b + Modulus ELSE a - b
  BY WrapsOnce
<1> QED
  BY <1>1, ModulusAssumption DEF Negative, Signed, Representable, Word

(* What the flags of a difference tell: which operand is less.              *)
LEMMA DifferenceTells ==
  ASSUME NEW a \in Word, NEW b \in Word, Modulus % 2 = 0
  PROVE  TellsOrder(DifferenceFlags(a, b), a, b)
<1>1. PICK h \in Nat : Modulus = 2 * h
  BY EvenHalf
<1> DEFINE res == (a - b) % Modulus
<1>2. res = 0 <=> a = b
  <2>1. res = IF a < b THEN a - b + Modulus ELSE a - b
    BY WrapsOnce
  <2> QED
    BY <2>1, ModulusAssumption DEF Word
<1>3. b # 0 => (carry(a, res) <=> NoBorrow(a, b))
  BY SubtractionCarry
<1>4. Representable(Signed(a) - Signed(b)) => (Negative(res) <=> Signed(a) < Signed(b))
  BY <1>1, SignOfDifference
<1>5. Signed(a) < Signed(b) <=> ~(Signed(a) >= Signed(b))
  BY ModulusAssumption DEF Signed, Word
<1> HIDE DEF res
<1>6. Negative(res) \in BOOLEAN /\ overflow(a, b) \in BOOLEAN
  BY DEF Negative, overflow
<1>7. /\ DifferenceFlags(a, b).z = (res = 0) /\ DifferenceFlags(a, b).c = carry(a, res)
      /\ DifferenceFlags(a, b).n = Negative(res)
      /\ DifferenceFlags(a, b).v = overflow(a, b)
  BY Zenon DEF DifferenceFlags, res
<1>8. ASSUME ~overflow(a, b), Representable(Signed(a) - Signed(b))
      PROVE  (Negative(res) = overflow(a, b)) <=> Signed(a) >= Signed(b)
  <2>1. overflow(a, b) = FALSE
    BY <1>6, <1>8, Zenon
  <2>2. Negative(res) <=> ~(Signed(a) >= Signed(b))
    BY <1>4, <1>5, <1>8, Zenon
  <2> QED
    BY <1>6, <2>1, <2>2, Zenon
<1> QED
  BY <1>2, <1>3, <1>7, <1>8, Zenon DEF TellsOrder

(* An instruction that sets the flags has two registers for operands and no *)
(* shift, in both sides of the register; a bubble sets none.                *)
Unshifted(r) == r.X_sigs.set_CC => r.X_sigs.valb_sel /\ r.op # "BL" /\ r.val_hw = 0
FlagOperands == Unshifted(X_in) /\ Unshifted(X_out)

(* What Decode makes of an instruction that sets the flags.                 *)
LEMMA DecodeUnshifted ==
  ASSUME TypeOK, decode_instr
  PROVE  Unshifted(X_in')
<1>1. /\ X_in'.op = D_out.insn.op /\ X_in'.X_sigs = X_sigs(D_out.insn.op)
      /\ X_in'.val_hw = IF D_out.insn.op \in {"MOVK", "MOVZ"} THEN HwBits * D_out.insn.hw
                        ELSE 0
  BY DEF decode_instr
<1>2. \A op : /\ X_sigs(op).set_CC = (op \in SetsFlags)
              /\ X_sigs(op).valb_sel = (op \in RegOperand)
  BY Zenon DEF X_sigs
<1>3. D_out.insn.op \in SetsFlags =>
        /\ D_out.insn.op \in RegOperand
        /\ D_out.insn.op \notin {"BL", "MOVK", "MOVZ"}
  BY DEF SetsFlags, RegOperand
<1> QED
  BY <1>1, <1>2, <1>3 DEF Unshifted

(* Every step keeps FlagOperands.                                           *)
LEMMA FlagOperandsNext == TypeOK /\ FlagOperands /\ [Next]_vars => FlagOperands'
<1> SUFFICES ASSUME TypeOK, FlagOperands, [Next]_vars PROVE FlagOperands'
  OBVIOUS
<1> USE DEF FlagOperands
<1>1. CASE execute_instr
  <2>1. /\ X_out'.op = X_out.op /\ X_out'.X_sigs = X_out.X_sigs
        /\ X_out'.val_hw = X_out.val_hw /\ X_in' = X_in
    BY <1>1 DEF execute_instr, TypeOK, XReg
  <2> QED
    BY <2>1 DEF Unshifted
<1>2. CASE decode_instr
  <2>1. X_out' = X_out
    BY <1>2 DEF decode_instr
  <2> QED
    BY <1>2, <2>1, DecodeUnshifted
<1>3. CASE clock
  <2>1. X_out' \in {X_in, X_out, X_bubble} /\ X_in' = X_in
    BY <1>3, EdgeCases DEF clock, ins
  <2> QED
    BY <2>1 DEF Unshifted, X_bubble, NoXSigs
<1>4. CASE wback_instr \/ memory_instr \/ fetch_instr \/ hazards \/ UNCHANGED vars
  BY <1>4 DEF wback_instr, memory_instr, fetch_instr, hazards, vars, ins, outs
<1> QED
  BY <1>1, <1>2, <1>3, <1>4 DEF Next

(* The flags that execute_instr leaves tell the sum or the order of the     *)
(* operands, in every run with an ALU that sets flags as the code's does.   *)
THEOREM FlagsTellHolds ==
  ASSUME AluSetsFlags
  PROVE  Spec => FlagsTell
<1>1. Init => FlagOperands
  BY DEF Init, FlagOperands, Unshifted, X_bubble, NoXSigs
<1>2. TypeOK /\ FlagOperands /\ [Next]_vars =>
        (stage = "execute" /\ X_out.X_sigs.set_CC =>
           /\ X_out.ALU_op = "PLUS" => TellsSum(cc', X_out.val_a, X_out.val_b)
           /\ X_out.ALU_op = "MINUS" => TellsOrder(cc', X_out.val_a, X_out.val_b))
        \/ UNCHANGED vars
  <2> SUFFICES ASSUME TypeOK, FlagOperands, Next, stage = "execute", X_out.X_sigs.set_CC
               PROVE  /\ X_out.ALU_op = "PLUS" => TellsSum(cc', X_out.val_a, X_out.val_b)
                      /\ X_out.ALU_op = "MINUS" => TellsOrder(cc', X_out.val_a, X_out.val_b)
    OBVIOUS
  <2>1. execute_instr
    BY DEF Next, wback_instr, memory_instr, decode_instr, fetch_instr, hazards, clock
  <2>2. X_out.X_sigs.valb_sel /\ X_out.op # "BL" /\ X_out.val_hw = 0
    BY DEF FlagOperands, Unshifted
  <2>3. cc' = AluFlags(X_out.ALU_op, X_out.val_a, X_out.val_b, 0)
    BY <2>1, <2>2 DEF execute_instr
  <2>4. X_out.val_a \in Word /\ X_out.val_b \in Word
    BY DEF TypeOK, XReg
  <2>5. Modulus % 2 = 0
    BY AluSetsFlags DEF AluSetsFlags
  <2>6. ASSUME X_out.ALU_op = "PLUS" PROVE TellsSum(cc', X_out.val_a, X_out.val_b)
    <3>1. cc' = SumFlags(X_out.val_a, X_out.val_b)
      BY <2>3, <2>4, <2>6 DEF AluSetsFlags
    <3> QED
      BY <3>1, <2>4, <2>5, SumTells
  <2>7. ASSUME X_out.ALU_op = "MINUS" PROVE TellsOrder(cc', X_out.val_a, X_out.val_b)
    <3>1. cc' = DifferenceFlags(X_out.val_a, X_out.val_b)
      BY <2>3, <2>4, <2>7 DEF AluSetsFlags
    <3> QED
      BY <3>1, <2>4, <2>5, DifferenceTells
  <2> QED
    BY <2>6, <2>7
<1> QED
  BY <1>1, <1>2, TypeCorrect, FlagOperandsNext, PTL DEF Spec, FlagsTell
=============================================================================
