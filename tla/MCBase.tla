------------------------------- MODULE MCBase -------------------------------
(***************************************************************************)
(* What the TLC runs of the pipeline share: a 6-bit machine with a text    *)
(* segment of five words, two cells of data memory and four registers, and *)
(* shorthands for instructions.                                            *)
(***************************************************************************)
EXTENDS Pipeline, HwElts

MCGPRegs == {0, 1, 30, 31}
MCPageBase(p) == (p % 32) - (p % 8)
MCInitMem == [a \in Cells |-> IF a = DATA THEN 7 ELSE 9]
MCJunkInsn == {[ZeroInsn EXCEPT !.op = "ERROR"]}

I(op, rd, rn, rm, imm) == [op |-> op, rd |-> rd, rn |-> rn, rm |-> rm, imm |-> imm,
                           hw |-> 0, cond |-> "EQ"]
Branch(cond, off) == [ZeroInsn EXCEPT !.op = "B_COND", !.cond = cond, !.imm = off]

\* A program of the text segment from a sequence of words; the rest is HLT.
Text(s) == [a \in TextAddrs |-> LET i == ((a - TEXT) \div 4) + 1
                                IN IF i <= Len(s) THEN s[i] ELSE HltInsn]
Straight(n, T) == {Text(s) : s \in [1..n -> T]}
=============================================================================
