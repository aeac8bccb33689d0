----------------------------- MODULE Conditions -----------------------------
(***************************************************************************)
(* What a branch may conclude from the flags that execute_instr sets: the  *)
(* pipeline's flags against the comparison of the two operands, signed and *)
(* unsigned.                                                               *)
(***************************************************************************)
EXTENDS Pipeline, Flags

\* The flags of alu for sums and differences of unshifted operands.
SumFlags(a, b) ==
  LET res == (a + b) % Modulus
  IN  [n |-> Negative(res), z |-> res = 0, c |-> carry(a, res), v |-> overflow(a, b)]
DifferenceFlags(a, b) ==
  LET res == (a - b) % Modulus
  IN  [n |-> Negative(res), z |-> res = 0, c |-> carry(a, res), v |-> overflow(a, b)]

\* The ALU parameter of the pipeline is the code's in these two operations,
\* and words have a sign bit.
AluSetsFlags ==
  /\ \A a, b \in Word : /\ AluFlags("PLUS", a, b, 0) = SumFlags(a, b)
                        /\ AluFlags("MINUS", a, b, 0) = DifferenceFlags(a, b)
  /\ Modulus % 2 = 0

-----------------------------------------------------------------------------
\* What an addition's flags promise.
TellsSum(f, a, b) ==
  /\ f.z <=> (a + b) % Modulus = 0
  /\ f.c <=> a + b >= Modulus
  /\ f.v <=> ~Representable(Signed(a) + Signed(b))

\* What a comparison's promise: EQ, CS and GE, of which the other conditions
\* are made.  The code sets C and V as for an addition, which spoils CS when 0
\* is subtracted and GE when the sum or the difference overflows.
TellsOrder(f, a, b) ==
  /\ f.z <=> a = b
  /\ b # 0 => (f.c <=> NoBorrow(a, b))
  /\ ~overflow(a, b) /\ Representable(Signed(a) - Signed(b)) =>
       (f.n = f.v <=> Signed(a) >= Signed(b))

(* Whenever an addition or a comparison leaves Execute, the flags a later   *)
(* branch will test tell the result or the order of the operands that       *)
(* Decode gave it, signed and unsigned, but for the exceptions named.       *)
FlagsTell ==
  [][stage = "execute" /\ X_out.X_sigs.set_CC =>
       /\ X_out.ALU_op = "PLUS" => TellsSum(cc', X_out.val_a, X_out.val_b)
       /\ X_out.ALU_op = "MINUS" => TellsOrder(cc', X_out.val_a, X_out.val_b)]_vars
=============================================================================
