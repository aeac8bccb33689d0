------------------------------- MODULE Words -------------------------------
(***************************************************************************)
(* Machine words: uint64_t in the code, arithmetic wraps.                  *)
(***************************************************************************)
EXTENDS Integers

CONSTANT Modulus   \* number of machine words: 2^64 in the code

ASSUME ModulusAssumption == Modulus \in Nat /\ Modulus > 16

Word == 0 .. Modulus - 1
=============================================================================
