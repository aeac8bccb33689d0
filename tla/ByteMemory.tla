----------------------------- MODULE ByteMemory -----------------------------
(***************************************************************************)
(* _mem_read and _mem_write of mem.c without a cache: an access of w bytes *)
(* is a loop of byte accesses on the page table.  One step is one          *)
(* iteration; accesses do not overlap.  Accesses that start at a special   *)
(* address do not come here; DataMem has them.                             *)
(*                                                                         *)
(* acc is the access: its kind, address and width, the iterations done and *)
(* the value, a function from byte number (least significant first).  An   *)
(* access is complete when all iterations are done.                        *)
(***************************************************************************)
EXTENDS PageTable

CONSTANTS
  Widths,                 \* access widths in bytes
  TEXT, DATA,             \* seg_start_addr of TEXT_SEG and DATA_SEG
  code_order, data_order  \* byte orders of the machine

ByteOrder == {"L_ENDIAN", "B_ENDIAN"}
ASSUME WidthAssumption == Widths \subseteq 1 .. AddrMod
ASSUME OrderAssumption == code_order \in ByteOrder /\ data_order \in ByteOrder

VARIABLES ptable, acc
vars == <<ptable, acc>>

get_byte_order(a) == IF TEXT <= a /\ a < DATA THEN code_order ELSE data_order

Word(w) == [0 .. w - 1 -> Byte]
Access == UNION {[kind : {"read", "write"}, addr : Address, width : {w}, i : 0 .. w,
                  val : Word(w)] : w \in Widths}
Idle == [kind |-> "none", i |-> 0, width |-> 0]
Complete == acc.i = acc.width

Init ==
  /\ ptable = [k \in Bucket |-> <<>>]
  /\ acc = Idle

mem_read(a, w) ==
  /\ Complete
  /\ acc' = [kind |-> "read", addr |-> a, width |-> w, i |-> 0,
             val |-> [j \in 0 .. w - 1 |-> 0]]
  /\ UNCHANGED ptable

mem_write(a, w, v) ==
  /\ Complete
  /\ acc' = [kind |-> "write", addr |-> a, width |-> w, i |-> 0, val |-> v]
  /\ UNCHANGED ptable

\* retval = (retval << 8) + byte
Shift(val, b) == [j \in DOMAIN val |-> IF j = 0 THEN b ELSE val[j - 1]]

\* Mutant: an address past the end of memory is not wrapped.
ReadAddr_mutant == IF get_byte_order(acc.addr) = "L_ENDIAN"
                   THEN acc.addr + (acc.width - 1 - acc.i) ELSE acc.addr + acc.i

\* Little endian reads from the last byte down, big endian from the first up.
ReadAddr == (IF get_byte_order(acc.addr) = "L_ENDIAN"
             THEN acc.addr + (acc.width - 1 - acc.i) ELSE acc.addr + acc.i) % AddrMod

ReadByte ==
  /\ ~Complete /\ acc.kind = "read"
  /\ LET r == mem_read_byte(ptable, ReadAddr)
     IN  /\ ptable' = r.table
         /\ acc' = [acc EXCEPT !.i = @ + 1, !.val = Shift(@, r.byte)]

\* Both orders write from the first address up.
WriteAddr == (acc.addr + acc.i) % AddrMod
WriteVal == acc.val[IF get_byte_order(acc.addr) = "L_ENDIAN" THEN acc.i
                    ELSE acc.width - acc.i - 1]

WriteByte ==
  /\ ~Complete /\ acc.kind = "write"
  /\ ptable' = mem_write_byte(ptable, WriteAddr, WriteVal)
  /\ acc' = [acc EXCEPT !.i = @ + 1]

Next ==
  \/ \E a \in Address, w \in Widths : mem_read(a, w) \/ \E v \in Word(w) : mem_write(a, w, v)
  \/ ReadByte
  \/ WriteByte

Spec == Init /\ [][Next]_vars

-----------------------------------------------------------------------------
(* The flat memory: a write counts as done when it begins, so its remaining *)
(* bytes overlay the table; a read when it ends.                            *)
Remaining == {k \in 0 .. AddrMod - 1 : acc.kind = "write" /\ acc.i <= k /\ k < acc.width}
ByteOf(k) == acc.val[IF get_byte_order(acc.addr) = "L_ENDIAN" THEN k ELSE acc.width - k - 1]
FlatBytes ==
  [x \in Address |->
     IF \E k \in Remaining : (acc.addr + k) % AddrMod = x
     THEN ByteOf(CHOOSE k \in Remaining : (acc.addr + k) % AddrMod = x)
     ELSE byte_at(ptable, x)]
FlatRes ==
  IF acc.kind = "none" \/ (acc.kind = "read" /\ ~Complete) THEN [kind |-> "none"]
  ELSE [kind |-> acc.kind, addr |-> acc.addr, width |-> acc.width, val |-> acc.val]

Flat == INSTANCE FlatMemory WITH bytes <- FlatBytes, res <- FlatRes

(* Accesses of every width, across pages and colliding buckets, behave like *)
(* accesses to an array of bytes: what was last written to each byte is     *)
(* read back in the order of the machine, untouched bytes are zero, and no  *)
(* page is lost when another one is added in front of it.                   *)
FlatSpec == Flat!Spec

(* The table never holds two pages of a number, which get_page would tell   *)
(* apart by their age: a read that finds no page does not hide one.         *)
PagesUnique == OnePage(ptable)

(* The type invariant.                                                      *)
TypeOK == ptable \in Table /\ (acc = Idle \/ acc \in Access)
=============================================================================
