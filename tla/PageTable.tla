----------------------------- MODULE PageTable -----------------------------
(***************************************************************************)
(* ptable.c: a hash table whose buckets are lists of pages, filled on      *)
(* first touch; and the byte reads and writes of mem.c on it.              *)
(*                                                                         *)
(* A bucket is a sequence with the head of the list first.  A page has its *)
(* number and its bytes; the protection bits are left out, because nothing *)
(* in the program reads them.  Only the range of the hash matters, so the  *)
(* function is a parameter.                                                *)
(***************************************************************************)
EXTENDS Naturals, Sequences

CONSTANTS
  PAGESIZE, HASHSIZE,
  ptable_hash(_),
  AddrMod,          \* 2^64
  ByteMod           \* 2^8

ASSUME SizeAssumption ==
  /\ PAGESIZE \in Nat \ {0} /\ HASHSIZE \in Nat \ {0} /\ ByteMod \in Nat \ {0}
  /\ AddrMod \in Nat \ {0} /\ AddrMod % PAGESIZE = 0

Address == 0 .. AddrMod - 1
PageNum == 0 .. (AddrMod \div PAGESIZE) - 1
Offset == 0 .. PAGESIZE - 1
Bucket == 0 .. HASHSIZE - 1
Byte == 0 .. ByteMod - 1

ASSUME HashAssumption == \A n \in PageNum : ptable_hash(n) \in Bucket

Page == [p_num : PageNum, p_data : [Offset -> Byte]]
Table == [Bucket -> Seq(Page)]

pnum(a) == a \div PAGESIZE
poff(a) == a % PAGESIZE

-----------------------------------------------------------------------------
(* The positions of page n in its bucket; get_page stops at the first.      *)
Positions(t, n) ==
  {i \in DOMAIN t[ptable_hash(n)] : t[ptable_hash(n)][i].p_num = n}
present(t, n) == Positions(t, n) # {}

\* Mutant: only the head of the bucket is looked at.
get_page_mutant(t, n) == 1

get_page(t, n) == CHOOSE i \in Positions(t, n) : \A j \in Positions(t, n) : i <= j

ZeroPage(n) == [p_num |-> n, p_data |-> [o \in Offset |-> 0]]
add_page(t, n) == [t EXCEPT ![ptable_hash(n)] = <<ZeroPage(n)>> \o @]

\* Mutant: a page is added without being looked up.
touch_mutant(t, n) == add_page(t, n)

\* Every access looks the page up and adds it when it is not there.
touch(t, n) == IF present(t, n) THEN t ELSE add_page(t, n)

load(t, a) == t[ptable_hash(pnum(a))][get_page(t, pnum(a))].p_data[poff(a)]
store(t, a, b) ==
  [t EXCEPT ![ptable_hash(pnum(a))][get_page(t, pnum(a))].p_data[poff(a)] = b]

mem_read_byte(t, a) ==
  LET s == touch(t, pnum(a)) IN [table |-> s, byte |-> load(s, a)]
mem_write_byte(t, a, b) == store(touch(t, pnum(a)), a, b)

-----------------------------------------------------------------------------
(* What a byte of memory is, whether its page exists or not.                *)
byte_at(t, a) == IF present(t, pnum(a)) THEN load(t, a) ELSE 0

(* A page number is in the table at most once, in the bucket of its hash.   *)
OnePage(t) ==
  /\ \A k \in Bucket : \A i \in DOMAIN t[k] : ptable_hash(t[k][i].p_num) = k
  /\ \A k \in Bucket : \A i, j \in DOMAIN t[k] :
       t[k][i].p_num = t[k][j].p_num => i = j
=============================================================================
