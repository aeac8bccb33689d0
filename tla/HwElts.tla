------------------------------- MODULE HwElts -------------------------------
(***************************************************************************)
(* alu and cond_holds of hw_elts.c on words of WordBits bits (64 in the    *)
(* code).  Only TLC's runs use this module: the pipeline and the theorems  *)
(* about it take the ALU as a parameter.                                   *)
(***************************************************************************)
EXTENDS Flags, Bitwise

CONSTANT WordBits

ASSUME WordBitsAssumption == WordBits \in Nat /\ Modulus = 2 ^ WordBits

ShiftAmount(b) == b % WordBits

alu_res(op, a, b, hw) ==
  LET shifted == (b * 2 ^ hw) % Modulus
  IN  CASE op = "PLUS"   -> (a + shifted) % Modulus
        [] op = "MINUS"  -> (a - shifted) % Modulus
        [] op = "NEG"    -> a | (Modulus - 1 - b)
        [] op = "OR"     -> a | b
        [] op = "EOR"    -> a ^^ b
        [] op = "AND"    -> a & b
        [] op = "MOV"    -> a | shifted
        [] op = "LSL"    -> (a * 2 ^ ShiftAmount(b)) % Modulus
        [] op = "LSR"    -> a \div 2 ^ ShiftAmount(b)
        [] op = "ASR"    -> (Signed(a) \div 2 ^ ShiftAmount(b)) % Modulus
        [] op = "PASS_A" -> a

alu_flags(op, a, b, hw) ==
  LET res == alu_res(op, a, b, hw)
      arith == op \in {"PLUS", "MINUS"}
  IN  [n |-> Negative(res), z |-> res = 0, c |-> arith /\ carry(a, res),
       v |-> arith /\ overflow(a, b)]

cond_true(cond, f) ==
  CASE cond = "EQ" -> f.z                [] cond = "NE" -> ~f.z
    [] cond = "CS" -> f.c                [] cond = "CC" -> ~f.c
    [] cond = "MI" -> f.n                [] cond = "PL" -> ~f.n
    [] cond = "VS" -> f.v                [] cond = "VC" -> ~f.v
    [] cond = "HI" -> f.c /\ ~f.z        [] cond = "LS" -> ~(f.c /\ ~f.z)
    [] cond = "GE" -> f.n = f.v          [] cond = "LT" -> f.n # f.v
    [] cond = "GT" -> f.n = f.v /\ ~f.z  [] cond = "LE" -> ~(f.n = f.v /\ ~f.z)
    [] cond \in {"AL", "NV"} -> TRUE
=============================================================================
