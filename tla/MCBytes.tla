------------------------------ MODULE MCBytes ------------------------------
(* Three pages of two one-bit bytes in two buckets; accesses of one and     *)
(* four bytes at every address, wrapping ones included.                     *)
EXTENDS ByteMemory

MCHash(n) == n % 2
=============================================================================
