----------------------------- MODULE FlatMemory -----------------------------
(***************************************************************************)
(* What the memory subsystem promises without a cache: an array of bytes,  *)
(* all zero at first, with reads and writes of several widths, each        *)
(* completely done before the next.  No pages, no hash table.              *)
(*                                                                         *)
(* A word of w bytes is a function on 0..w-1 from the least significant    *)
(* byte up.  res is the last completed access, or None while a read is     *)
(* under way.                                                              *)
(***************************************************************************)
EXTENDS Naturals

CONSTANTS AddrMod, ByteMod, Widths,
          get_byte_order(_)   \* byte order of an access at an address

VARIABLES bytes, res
vars == <<bytes, res>>

Address == 0 .. AddrMod - 1
Word(w) == [0 .. w - 1 -> 0 .. ByteMod - 1]
None == [kind |-> "none"]

\* The address of byte j, counted from the least significant one.
Place(a, w, j) ==
  (IF get_byte_order(a) = "L_ENDIAN" THEN a + j ELSE a + (w - 1 - j)) % AddrMod

Init ==
  /\ bytes = [a \in Address |-> 0]
  /\ res = None

Request == res' = None /\ UNCHANGED bytes

Read(a, w) ==
  /\ res = None
  /\ res' = [kind |-> "read", addr |-> a, width |-> w,
             val |-> [j \in 0 .. w - 1 |-> bytes[Place(a, w, j)]]]
  /\ UNCHANGED bytes

Write(a, w, v) ==
  /\ res' = [kind |-> "write", addr |-> a, width |-> w, val |-> v]
  /\ \A j \in 0 .. w - 1 : bytes'[Place(a, w, j)] = v[j]
  /\ \A x \in Address \ {Place(a, w, j) : j \in 0 .. w - 1} : bytes'[x] = bytes[x]
  /\ DOMAIN bytes' = Address

Next ==
  \/ Request
  \/ \E a \in Address, w \in Widths : Read(a, w) \/ \E v \in Word(w) : Write(a, w, v)

Spec == Init /\ [][Next]_vars
=============================================================================
