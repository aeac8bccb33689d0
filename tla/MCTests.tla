------------------------------ MODULE MCTests ------------------------------
(***************************************************************************)
(* Programs of the repository's test suite on a 7-bit machine, with the    *)
(* output their comments document.  Numbers too large for the machine are  *)
(* replaced by smaller ones.                                               *)
(***************************************************************************)
EXTENDS MCBase

TestRegs == {0, 1, 2, 3, 5, 30, 31}
Erased == [ZeroInsn EXCEPT !.op = "ERROR"]
Program(s) == [a \in TextAddrs |-> LET i == ((a - TEXT) \div 4) + 1
                                   IN IF i <= Len(s) THEN s[i] ELSE Erased]

movz(r, n) == I("MOVZ", r, 0, 0, n)
adds(r, a, b) == I("ADDS_RR", r, a, b, 0)
eor(r, a, b) == I("EOR_RR", r, a, b, 0)
ret == I("RET", 0, 30, 31, 0)
print0 == <<eor(5, 5, 5), I("MVN", 5, 31, 5, 0), I("STUR", 0, 5, 0, 0), ret>>

\* branch/hazard/branch_not_taken.s, lines 6-22.
BranchNotTaken == {Program(
  <<movz(0, 1), movz(1, 2), I("SUBS_RR", 3, 0, 1, 0), Branch("EQ", 5)>>
  \o print0 \o <<movz(0, 100), movz(1, 42), I("B", 0, 0, 0, 122)>>)}

\* branch/hazard/ret_hazard.s, lines 8-31.
RetHazard == {Program(
  <<movz(0, 10), movz(1, 15), movz(2, 0), adds(2, 30, 2), I("BL", 0, 0, 0, 8),
    movz(30, 0), adds(30, 2, 30), adds(0, 0, 1)>>
  \o print0 \o <<movz(0, 85), movz(1, 28), ret>>)}

\* applications/hard/iter_sum.s, the body of SUM_LOOP (lines 50-53) twice on
\* an array of two, then lines 60-63.
SumLoop == {Program(
  <<eor(0, 0, 0), movz(1, 72), movz(5, 8),
    adds(1, 1, 5), I("LDUR", 2, 1, 0, 0), adds(0, 0, 2), eor(2, 2, 2),
    adds(1, 1, 5), I("LDUR", 2, 1, 0, 0), adds(0, 0, 2), eor(2, 2, 2)>> \o print0)}

\* branch_not_taken.s:13 says "correct: 1": of a branch that is not taken,
\* nothing on the predicted path takes effect.
BranchNotTakenPrints == stage = "stop" => ms.out = <<1>>

\* ret_hazard.s:21 says "correct: 113": the instruction behind a RET does not
\* take effect, and the caller goes on.
RetHazardPrints == stage = "stop" => ms.out = <<113>>

\* iter_sum.s:59 says "correct: 325", the sum of its array: an instruction
\* behind a load of its operand gets the loaded value.
SumLoopPrints == stage = "stop" => ms.out = <<ms.mem[80] + ms.mem[88]>>
=============================================================================
