-------------------------------- MODULE Flags --------------------------------
(***************************************************************************)
(* The condition flags of alu (hw_elts.c): the "value-based determination  *)
(* strategies" for C and V.  Modulus is even: words have a sign bit.       *)
(***************************************************************************)
EXTENDS Words

Negative(w) == 2 * w >= Modulus
Signed(w) == IF Negative(w) THEN w - Modulus ELSE w

\* Mutant: a sum that does not change the operand counts as carried.
carry_mutant(a, res) == res <= a

\* Both are computed as for an addition, for a subtraction too; V looks at the
\* operands as they are, before valb is shifted.
carry(a, res) == res < a
overflow(a, b) == /\ Negative(a) = Negative(b)
                  /\ Negative((a + b) % Modulus) # Negative(a)

-----------------------------------------------------------------------------
\* What the flags mean to ADDS and to SUBS: the unsigned result fits (for a
\* subtraction: no borrow), the signed one does.
Representable(i) == -Modulus <= 2 * i /\ 2 * i < Modulus
NoBorrow(a, b) == a >= b
=============================================================================
