-------------------------- MODULE ByteMemoryProofs --------------------------
(***************************************************************************)
(* The memory subsystem without a cache implements a flat array of bytes,  *)
(* for every page size, hash function, width and byte order.               *)
(***************************************************************************)
EXTENDS ByteMemory, PageTableProofs

(* Consecutive addresses wrap around, and none of a word's repeats.         *)
LEMMA WrapAround ==
  ASSUME NEW a \in Address, NEW k \in 0 .. AddrMod - 1
  PROVE  /\ (a + k) % AddrMod \in Address
         /\ (a + k) % AddrMod = IF a + k < AddrMod THEN a + k ELSE a + k - AddrMod
BY SizeAssumption DEF Address

(* Two offsets that lead to the same address are the same.                  *)
LEMMA WrapInjective ==
  ASSUME NEW a \in Address, NEW k \in 0 .. AddrMod - 1, NEW l \in 0 .. AddrMod - 1,
         (a + k) % AddrMod = (a + l) % AddrMod
  PROVE  k = l
<1>1. (a + k) % AddrMod = IF a + k < AddrMod THEN a + k ELSE a + k - AddrMod
  BY WrapAround
<1>2. (a + l) % AddrMod = IF a + l < AddrMod THEN a + l ELSE a + l - AddrMod
  BY WrapAround
<1>3. a \in Nat /\ a < AddrMod /\ k \in Nat /\ k < AddrMod /\ l \in Nat /\ l < AddrMod
      /\ AddrMod \in Nat
  BY SizeAssumption DEF Address
<1>4. (IF a + k < AddrMod THEN a + k ELSE a + k - AddrMod)
      = (IF a + l < AddrMod THEN a + l ELSE a + l - AddrMod)
  BY <1>1, <1>2
<1> QED
  BY ONLY <1>3, <1>4

(* The parts of an access.                                                  *)
LEMMA AccessParts ==
  ASSUME acc \in Access
  PROVE  /\ acc.kind \in {"read", "write"} /\ acc.addr \in Address
         /\ acc.width \in Widths /\ acc.width \in 1 .. AddrMod
         /\ acc.i \in 0 .. acc.width /\ acc.val \in Word(acc.width)
         /\ acc = [kind |-> acc.kind, addr |-> acc.addr, width |-> acc.width,
                   i |-> acc.i, val |-> acc.val]
BY WidthAssumption DEF Access

(* And what makes an access of its parts.                                   *)
LEMMA MakeAccess ==
  ASSUME NEW k \in {"read", "write"}, NEW a \in Address, NEW w \in Widths,
         NEW i \in 0 .. w, NEW v \in Word(w)
  PROVE  [kind |-> k, addr |-> a, width |-> w, i |-> i, val |-> v] \in Access
BY DEF Access

-----------------------------------------------------------------------------
(* The invariant: types, one page of each number, and what a read has       *)
(* gathered after i of its iterations.                                      *)
GatherAt(a, w, i, j) ==
  (IF get_byte_order(a) = "L_ENDIAN" THEN a + (w - i + j) ELSE a + (i - 1 - j)) % AddrMod
GatherAddr(j) == GatherAt(acc.addr, acc.width, acc.i, j)
Gathered ==
  acc.kind = "read" =>
    \A j \in 0 .. acc.width - 1 :
      acc.val[j] = IF j < acc.i THEN byte_at(ptable, GatherAddr(j)) ELSE 0
Inv == TypeOK /\ PagesUnique /\ Gathered

(* An incomplete access is not the idle one.                                *)
LEMMA Busy == TypeOK /\ ~Complete => acc \in Access
BY DEF TypeOK, Complete, Idle

(* The facts a read's iteration needs about the page table.                 *)
LEMMA ReadStep ==
  ASSUME Inv, ReadByte
  PROVE  /\ acc \in Access /\ acc.i < acc.width /\ acc.kind = "read"
         /\ ReadAddr \in Address
         /\ ptable' \in Table /\ OnePage(ptable')
         /\ \A x \in Address : byte_at(ptable', x) = byte_at(ptable, x)
         /\ \E b \in Byte :
              /\ b = byte_at(ptable, ReadAddr)
              /\ acc' = [kind |-> "read", addr |-> acc.addr, width |-> acc.width,
                         i |-> acc.i + 1, val |-> Shift(acc.val, b)]
<1>1. acc \in Access /\ acc.kind = "read"
  BY Busy DEF Inv, ReadByte
<1>2. acc.i < acc.width
  BY <1>1, AccessParts DEF ReadByte, Complete
<1>3. ReadAddr \in Address
  <2>1. acc.width - 1 - acc.i \in 0 .. AddrMod - 1 /\ acc.i \in 0 .. AddrMod - 1
    BY <1>1, <1>2, AccessParts, SizeAssumption
  <2> QED
    BY <1>1, <2>1, AccessParts, WrapAround DEF ReadAddr
<1> DEFINE r == mem_read_byte(ptable, ReadAddr)
<1>4. /\ r.table \in Table /\ OnePage(r.table)
      /\ r.byte = byte_at(ptable, ReadAddr) /\ r.byte \in Byte
      /\ \A x \in Address : byte_at(r.table, x) = byte_at(ptable, x)
  BY <1>3, ReadByteLemma DEF Inv, TypeOK, PagesUnique
<1>5. ptable' = r.table /\ acc' = [acc EXCEPT !.i = @ + 1, !.val = Shift(@, r.byte)]
  BY DEF ReadByte
<1> HIDE DEF r
<1>6. acc' = [kind |-> "read", addr |-> acc.addr, width |-> acc.width,
              i |-> acc.i + 1, val |-> Shift(acc.val, r.byte)]
  BY <1>1, <1>5, AccessParts
<1> QED
  BY <1>1, <1>2, <1>3, <1>4, <1>5, <1>6

(* And a write's.                                                           *)
LEMMA WriteStep ==
  ASSUME Inv, WriteByte
  PROVE  /\ acc \in Access /\ acc.i < acc.width /\ acc.kind = "write"
         /\ WriteAddr \in Address
         /\ ptable' \in Table /\ OnePage(ptable')
         /\ \A x \in Address :
              byte_at(ptable', x) = IF x = WriteAddr THEN ByteOf(acc.i)
                                    ELSE byte_at(ptable, x)
         /\ acc' = [kind |-> "write", addr |-> acc.addr, width |-> acc.width,
                    i |-> acc.i + 1, val |-> acc.val]
<1>1. acc \in Access /\ acc.kind = "write"
  BY Busy DEF Inv, WriteByte
<1>2. acc.i < acc.width
  BY <1>1, AccessParts DEF WriteByte, Complete
<1>3. WriteAddr \in Address
  <2>1. acc.i \in 0 .. AddrMod - 1
    BY <1>1, <1>2, AccessParts, SizeAssumption
  <2> QED
    BY <1>1, <2>1, AccessParts, WrapAround DEF WriteAddr
<1>4. WriteVal \in Byte /\ WriteVal = ByteOf(acc.i)
  <2>1. acc.i \in 0 .. acc.width - 1 /\ acc.width - acc.i - 1 \in 0 .. acc.width - 1
    BY <1>1, <1>2, AccessParts
  <2> QED
    BY <1>1, <2>1, AccessParts DEF WriteVal, ByteOf, Word
<1>5. ptable' = mem_write_byte(ptable, WriteAddr, WriteVal) /\ acc' = [acc EXCEPT !.i = @ + 1]
  BY DEF WriteByte
<1>6. /\ ptable' \in Table /\ OnePage(ptable')
      /\ \A x \in Address :
           byte_at(ptable', x) = IF x = WriteAddr THEN WriteVal ELSE byte_at(ptable, x)
  BY <1>3, <1>4, <1>5, WriteByteLemma DEF Inv, TypeOK, PagesUnique
<1>7. acc' = [kind |-> "write", addr |-> acc.addr, width |-> acc.width,
              i |-> acc.i + 1, val |-> acc.val]
  BY <1>1, <1>5, AccessParts
<1> QED
  BY <1>1, <1>2, <1>3, <1>4, <1>6, <1>7

-----------------------------------------------------------------------------
(* The initial state, and every step, has the invariant.                    *)
LEMMA InvInit == Init => Inv
<1> SUFFICES ASSUME Init PROVE Inv
  OBVIOUS
<1>1. ptable \in Table
  BY DEF Init, Table
<1>2. OnePage(ptable)
  BY DEF Init, OnePage
<1> QED
  BY <1>1, <1>2 DEF Init, Inv, TypeOK, PagesUnique, Gathered, Idle

(* The start of a read.                                                     *)
LEMMA InvRead ==
  ASSUME Inv, NEW a \in Address, NEW w \in Widths, mem_read(a, w)
  PROVE  Inv'
<1>1. w \in Nat /\ w > 0
  BY WidthAssumption
<1>2. [j \in 0 .. w - 1 |-> 0] \in Word(w)
  BY SizeAssumption DEF Word, Byte
<1>3. acc' = [kind |-> "read", addr |-> a, width |-> w, i |-> 0,
              val |-> [j \in 0 .. w - 1 |-> 0]] /\ ptable' = ptable
  BY DEF mem_read
<1>4. acc' \in Access
  BY <1>1, <1>2, <1>3, MakeAccess
<1>5. Gathered'
  BY <1>1, <1>3 DEF Gathered
<1> QED
  BY <1>3, <1>4, <1>5 DEF Inv, TypeOK, PagesUnique

(* The start of a write.                                                    *)
LEMMA InvWrite ==
  ASSUME Inv, NEW a \in Address, NEW w \in Widths, NEW v \in Word(w), mem_write(a, w, v)
  PROVE  Inv'
<1>1. 0 \in 0 .. w
  BY WidthAssumption
<1>2. acc' = [kind |-> "write", addr |-> a, width |-> w, i |-> 0, val |-> v]
      /\ ptable' = ptable
  BY DEF mem_write
<1>3. acc' \in Access
  BY <1>1, <1>2, MakeAccess
<1> QED
  BY <1>2, <1>3 DEF Inv, TypeOK, PagesUnique, Gathered

(* An iteration of a read: the new byte comes in at the low end, where its  *)
(* address belongs, and the others move up with theirs.                     *)
LEMMA InvReadByte == Inv /\ ReadByte => Inv'
<1> SUFFICES ASSUME Inv, ReadByte PROVE Inv'
  OBVIOUS
<1> DEFINE w == acc.width
           i == acc.i
<1>1. PICK b \in Byte :
        /\ b = byte_at(ptable, ReadAddr)
        /\ acc' = [kind |-> "read", addr |-> acc.addr, width |-> w, i |-> i + 1,
                   val |-> Shift(acc.val, b)]
  BY ReadStep
<1>2. /\ acc \in Access /\ i < w /\ acc.kind = "read"
      /\ ptable' \in Table /\ OnePage(ptable')
      /\ \A x \in Address : byte_at(ptable', x) = byte_at(ptable, x)
  BY ReadStep
<1>3. /\ acc.addr \in Address /\ w \in Widths /\ w \in Nat /\ i \in Nat /\ w <= AddrMod
      /\ acc.val \in [0 .. w - 1 -> Byte]
  BY <1>2, AccessParts DEF Word
<1>4. /\ Shift(acc.val, b) \in [0 .. w - 1 -> Byte]
      /\ Shift(acc.val, b)[0] = b
      /\ \A j \in 0 .. w - 1 : j # 0 => Shift(acc.val, b)[j] = acc.val[j - 1]
  BY <1>2, <1>3 DEF Shift
<1>5. acc' \in Access
  <2>1. i + 1 \in 0 .. w
    BY <1>2, <1>3
  <2> QED
    BY <1>1, <1>3, <1>4, <2>1, MakeAccess DEF Word
<1>6. ASSUME NEW j \in 0 .. w - 1
      PROVE  acc'.val[j] = IF j < acc'.i THEN byte_at(ptable', GatherAddr(j)') ELSE 0
  <2>1. acc'.val = Shift(acc.val, b) /\ acc'.i = i + 1 /\ acc'.addr = acc.addr
        /\ acc'.width = w
    BY <1>1
  <2>2. GatherAddr(j)' = GatherAt(acc.addr, w, i + 1, j)
    BY <2>1 DEF GatherAddr
  <2>3. CASE j = 0
    <3>1. GatherAddr(j)' = ReadAddr
      <4>1. w - (i + 1) + j = w - 1 - i /\ (i + 1) - 1 - j = i
        BY <1>3, <2>3
      <4>2. GatherAt(acc.addr, w, i + 1, j) = ReadAddr
        BY ONLY <4>1, Zenon DEF ReadAddr, GatherAt
      <4> QED
        BY <2>2, <4>2
    <3>2. ReadAddr \in Address
      BY ReadStep
    <3> QED
      BY <1>1, <1>2, <1>3, <1>4, <2>1, <2>3, <3>1, <3>2
  <2>4. CASE j # 0
    <3>1. j - 1 \in 0 .. w - 1 /\ (j - 1 < i <=> j < i + 1)
      BY <1>3, <2>4
    <3>2. acc.val[j - 1] = IF j - 1 < i THEN byte_at(ptable, GatherAddr(j - 1)) ELSE 0
      BY <1>2, <3>1 DEF Inv, Gathered
    <3>3. GatherAddr(j)' = GatherAddr(j - 1)
      <4>1. w - (i + 1) + j = w - i + (j - 1) /\ (i + 1) - 1 - j = i - 1 - (j - 1)
        BY <1>3, <2>4
      <4>2. GatherAt(acc.addr, w, i + 1, j) = GatherAt(acc.addr, w, i, j - 1)
        BY ONLY <4>1, Zenon DEF GatherAt
      <4> QED
        BY <2>2, <4>2 DEF GatherAddr
    <3>4. j < i + 1 => GatherAddr(j - 1) \in Address
      <4> HAVE j < i + 1
      <4>1. w - i + (j - 1) \in 0 .. AddrMod - 1 /\ i - 1 - (j - 1) \in 0 .. AddrMod - 1
        BY <1>2, <1>3, <2>4, SizeAssumption
      <4> QED
        BY <4>1, <1>3, WrapAround DEF GatherAddr, GatherAt
    <3> QED
      BY <1>2, <1>4, <2>1, <2>4, <3>1, <3>2, <3>3, <3>4
  <2> QED
    BY <2>3, <2>4
<1>7. Gathered'
  BY <1>1, <1>6 DEF Gathered
<1> QED
  BY <1>2, <1>5, <1>7 DEF Inv, TypeOK, PagesUnique

(* An iteration of a write.                                                 *)
LEMMA InvWriteByte == Inv /\ WriteByte => Inv'
<1> SUFFICES ASSUME Inv, WriteByte PROVE Inv'
  OBVIOUS
<1>1. /\ acc \in Access /\ acc.i < acc.width
      /\ ptable' \in Table /\ OnePage(ptable')
      /\ acc' = [kind |-> "write", addr |-> acc.addr, width |-> acc.width,
                 i |-> acc.i + 1, val |-> acc.val]
  BY WriteStep
<1>2. acc.i + 1 \in 0 .. acc.width
  BY <1>1, AccessParts
<1>3. acc' \in Access
  BY <1>1, <1>2, AccessParts, MakeAccess
<1> QED
  BY <1>1, <1>3 DEF Inv, TypeOK, PagesUnique, Gathered

(* Every step keeps the invariant.                                          *)
LEMMA InvNext == Inv /\ [Next]_vars => Inv'
<1> SUFFICES ASSUME Inv, [Next]_vars PROVE Inv'
  OBVIOUS
<1>1. ASSUME NEW a \in Address, NEW w \in Widths, mem_read(a, w) PROVE Inv'
  BY <1>1, InvRead
<1>2. ASSUME NEW a \in Address, NEW w \in Widths, NEW v \in Word(w), mem_write(a, w, v)
      PROVE  Inv'
  BY <1>2, InvWrite
<1>3. CASE ReadByte
  BY <1>3, InvReadByte
<1>4. CASE WriteByte
  BY <1>4, InvWriteByte
<1>5. CASE UNCHANGED vars
  BY <1>5 DEF vars, Inv, TypeOK, PagesUnique, Gathered, GatherAddr
<1> QED
  BY <1>1, <1>2, <1>3, <1>4, <1>5 DEF Next

(* The page table and the access keep their types.                          *)
THEOREM MemoryTypeCorrect == Spec => []TypeOK
<1>1. Inv => TypeOK
  BY DEF Inv
<1> QED
  BY <1>1, InvInit, InvNext, PTL DEF Spec

(* A page number is never twice in the table.                               *)
THEOREM PagesUniqueHolds == Spec => []PagesUnique
<1>1. Inv => PagesUnique
  BY DEF Inv
<1> QED
  BY <1>1, InvInit, InvNext, PTL DEF Spec

-----------------------------------------------------------------------------
(* The flat memory: the bytes a write has still to make overlay the table.  *)
Target(k) == (acc.addr + k) % AddrMod

(* A remaining byte is seen at its target, every other in the table.        *)
LEMMA FlatAt ==
  TypeOK => \A x \in Address :
    /\ \A k \in Remaining : Target(k) = x => FlatBytes[x] = ByteOf(k)
    /\ (\A k \in Remaining : Target(k) # x) => FlatBytes[x] = byte_at(ptable, x)
<1> SUFFICES ASSUME TypeOK, NEW x \in Address
             PROVE  /\ \A k \in Remaining : Target(k) = x => FlatBytes[x] = ByteOf(k)
                    /\ (\A k \in Remaining : Target(k) # x)
                         => FlatBytes[x] = byte_at(ptable, x)
  OBVIOUS
<1> DEFINE hit == CHOOSE k \in Remaining : Target(k) = x
<1>1. FlatBytes[x] = IF \E k \in Remaining : Target(k) = x
                     THEN ByteOf(hit) ELSE byte_at(ptable, x)
  BY DEF FlatBytes, Target
<1>2. ASSUME NEW k \in Remaining, Target(k) = x
      PROVE  hit = k
  <2>1. hit \in Remaining /\ Target(hit) = x
    BY <1>2, Zenon
  <2>2. acc \in Access
    BY <1>2 DEF TypeOK, Remaining, Idle
  <2>3. k \in 0 .. AddrMod - 1 /\ \A l \in Remaining : l \in 0 .. AddrMod - 1
    BY DEF Remaining
  <2> HIDE DEF hit
  <2> QED
    BY <1>2, <2>1, <2>2, <2>3, AccessParts, WrapInjective DEF Target
<1> HIDE DEF hit
<1> QED
  BY <1>1, <1>2

(* Without a write under way the flat memory is the table.                  *)
LEMMA FlatIdle ==
  TypeOK /\ (Complete \/ acc.kind # "write")
    => \A x \in Address : FlatBytes[x] = byte_at(ptable, x)
<1> SUFFICES ASSUME TypeOK, Complete \/ acc.kind # "write", NEW x \in Address
             PROVE  FlatBytes[x] = byte_at(ptable, x)
  OBVIOUS
<1>1. Remaining = {}
  <2>1. CASE acc = Idle
    BY <2>1 DEF Remaining, Idle
  <2>2. CASE acc \in Access
    BY <2>2, AccessParts DEF Remaining, Complete
  <2> QED
    BY <2>1, <2>2 DEF TypeOK
<1> QED
  BY <1>1, FlatAt

(* The flat memory is a function on the addresses.                          *)
LEMMA FlatExt ==
  ASSUME \A x \in Address : FlatBytes'[x] = FlatBytes[x]
  PROVE  FlatBytes' = FlatBytes
<1>1. FlatBytes' = [x \in Address |-> FlatBytes'[x]]
  BY DEF FlatBytes
<1>2. FlatBytes = [x \in Address |-> FlatBytes[x]]
  BY DEF FlatBytes
<1> QED
  BY <1>1, <1>2

(* A read begins: the flat memory forgets the last result.                  *)
LEMMA FlatRead ==
  ASSUME Inv, Inv', NEW a \in Address, NEW w \in Widths, mem_read(a, w)
  PROVE  Flat!Request
<1>1. ptable' = ptable /\ acc'.kind = "read" /\ acc'.i = 0 /\ acc'.width = w /\ Complete
  BY DEF mem_read
<1>2. w # 0
  BY WidthAssumption
<1>3. FlatRes' = [kind |-> "none"]
  BY <1>1, <1>2 DEF FlatRes, Complete
<1>4. \A x \in Address : FlatBytes[x] = byte_at(ptable, x)
  BY <1>1, FlatIdle DEF Inv
<1>5. \A x \in Address : FlatBytes'[x] = byte_at(ptable', x)
  <2>1. (TypeOK /\ (Complete \/ acc.kind # "write")
          => \A x \in Address : FlatBytes[x] = byte_at(ptable, x))'
    BY FlatIdle, PTL
  <2> QED
    BY <1>1, <2>1 DEF Inv
<1>6. FlatBytes' = FlatBytes
  BY <1>1, <1>4, <1>5, FlatExt
<1> QED
  BY <1>3, <1>6 DEF Flat!Request, Flat!None

(* A write begins: from here on the flat memory has all its bytes.          *)
LEMMA FlatWrite ==
  ASSUME Inv, Inv', NEW a \in Address, NEW w \in Widths, NEW v \in Word(w),
         mem_write(a, w, v)
  PROVE  Flat!Write(a, w, v)
<1>1. /\ ptable' = ptable /\ Complete
      /\ acc' = [kind |-> "write", addr |-> a, width |-> w, i |-> 0, val |-> v]
  BY DEF mem_write
<1>2. w \in 1 .. AddrMod /\ AddrMod \in Nat
  BY WidthAssumption, SizeAssumption
<1>3. FlatRes' = [kind |-> "write", addr |-> a, width |-> w, val |-> v]
  BY <1>1 DEF FlatRes
<1>4. Remaining' = 0 .. w - 1
  BY <1>1, <1>2 DEF Remaining
<1>5. \A x \in Address : FlatBytes[x] = byte_at(ptable, x)
  BY <1>1, FlatIdle DEF Inv
<1>6. \A x \in Address :
        /\ \A k \in 0 .. w - 1 : (a + k) % AddrMod = x => FlatBytes'[x] = ByteOf(k)'
        /\ (\A k \in 0 .. w - 1 : (a + k) % AddrMod # x) => FlatBytes'[x] = byte_at(ptable, x)
  <2>1. (TypeOK => \A x \in Address :
           /\ \A k \in Remaining : Target(k) = x => FlatBytes[x] = ByteOf(k)
           /\ (\A k \in Remaining : Target(k) # x) => FlatBytes[x] = byte_at(ptable, x))'
    BY FlatAt, PTL
  <2>2. \A k : Target(k)' = (a + k) % AddrMod
    BY <1>1 DEF Target
  <2> QED
    BY <1>1, <1>4, <2>1, <2>2 DEF Inv
<1> DEFINE LE == get_byte_order(a) = "L_ENDIAN"
           off(j) == IF LE THEN j ELSE w - 1 - j
<1>7. ASSUME NEW j \in 0 .. w - 1
      PROVE  /\ off(j) \in 0 .. w - 1 /\ off(off(j)) = j
             /\ Flat!Place(a, w, j) = (a + off(j)) % AddrMod
             /\ (a + off(j)) % AddrMod \in Address
             /\ ByteOf(off(j))' = v[j]
  <2>1. off(j) \in 0 .. w - 1 /\ off(off(j)) = j
    BY <1>2
  <2>2. Flat!Place(a, w, j) = (a + off(j)) % AddrMod
    BY DEF Flat!Place
  <2>3. (a + off(j)) % AddrMod \in Address
    BY <1>2, <2>1, WrapAround
  <2>4. ByteOf(off(j))' = v[IF LE THEN off(j) ELSE w - off(j) - 1]
    BY <1>1 DEF ByteOf
  <2>5. (IF LE THEN off(j) ELSE w - off(j) - 1) = j
    BY <1>2
  <2> QED
    BY <2>1, <2>2, <2>3, <2>4, <2>5
<1> HIDE DEF off
<1>8. \A j \in 0 .. w - 1 : FlatBytes'[Flat!Place(a, w, j)] = v[j]
  BY <1>6, <1>7
<1>9. ASSUME NEW x \in Address \ {Flat!Place(a, w, j) : j \in 0 .. w - 1}
      PROVE  FlatBytes'[x] = FlatBytes[x]
  <2>1. \A k \in 0 .. w - 1 : (a + k) % AddrMod # x
    BY <1>7
  <2> QED
    BY <1>5, <1>6, <2>1
<1>10. DOMAIN FlatBytes' = Address
  BY DEF FlatBytes
<1> QED
  BY <1>3, <1>8, <1>9, <1>10 DEF Flat!Write, Flat!Address, Address

(* An iteration of a read: only the last one shows, with the whole word.    *)
LEMMA FlatReadByte ==
  ASSUME Inv, Inv', ReadByte
  PROVE  \/ UNCHANGED <<FlatBytes, FlatRes>>
         \/ \E a \in Address, w \in Widths : Flat!Read(a, w)
<1>1. /\ acc \in Access /\ acc.i < acc.width /\ acc.kind = "read"
      /\ \A x \in Address : byte_at(ptable', x) = byte_at(ptable, x)
  BY ReadStep
<1>2. acc'.kind = "read" /\ acc'.addr = acc.addr /\ acc'.width = acc.width
      /\ acc'.i = acc.i + 1 /\ acc' \in Access
  <2>1. PICK b \in Byte :
          acc' = [kind |-> "read", addr |-> acc.addr, width |-> acc.width,
                  i |-> acc.i + 1, val |-> Shift(acc.val, b)]
    BY ReadStep
  <2>2. acc'.kind = "read" /\ acc' # Idle
    BY <2>1 DEF Idle
  <2> QED
    BY <2>1, <2>2 DEF Inv, TypeOK, Idle
<1>3. \A x \in Address : FlatBytes[x] = byte_at(ptable, x)
  BY <1>1, FlatIdle DEF Inv
<1>4. \A x \in Address : FlatBytes'[x] = byte_at(ptable', x)
  <2>1. (TypeOK /\ (Complete \/ acc.kind # "write")
          => \A x \in Address : FlatBytes[x] = byte_at(ptable, x))'
    BY FlatIdle, PTL
  <2> QED
    BY <1>2, <2>1 DEF Inv
<1>5. FlatBytes' = FlatBytes
  BY <1>1, <1>3, <1>4, FlatExt
<1>6. FlatRes = [kind |-> "none"]
  BY <1>1, AccessParts DEF FlatRes, Complete
<1>7. CASE ~Complete'
  <2>1. FlatRes' = [kind |-> "none"]
    BY <1>2, <1>7 DEF FlatRes
  <2> QED
    BY <1>5, <1>6, <2>1
<1>8. CASE Complete'
  <2> DEFINE a == acc.addr
             w == acc.width
  <2>1. /\ a \in Address /\ w \in Widths /\ w \in 1 .. AddrMod /\ acc.i \in Nat
        /\ acc.i + 1 = w
    BY <1>1, <1>2, <1>8, AccessParts DEF Complete
  <2>2. FlatRes' = [kind |-> "read", addr |-> a, width |-> w, val |-> acc'.val]
    BY <1>2, <1>8 DEF FlatRes
  <2>3. acc'.val = [j \in 0 .. w - 1 |-> acc'.val[j]]
    <3>1. (acc \in Access => acc.val \in Word(acc.width))'
      BY AccessParts, PTL
    <3> QED
      BY <1>2, <3>1 DEF Word
  <2>4. ASSUME NEW j \in 0 .. w - 1
        PROVE  acc'.val[j] = FlatBytes[Flat!Place(a, w, j)]
    <3>1. acc'.val[j] = IF j < acc'.i THEN byte_at(ptable', GatherAddr(j)') ELSE 0
      BY <1>2 DEF Inv, Gathered
    <3>2. j < acc'.i
      BY <1>2, <2>1
    <3>3. GatherAddr(j)' = GatherAt(a, w, w, j)
      BY <1>2, <2>1 DEF GatherAddr
    <3>4. w - w + j = j /\ a + (w - w + j) = a + j
      BY <2>1
    <3>5. GatherAt(a, w, w, j) = Flat!Place(a, w, j)
      BY <3>4 DEF GatherAt, Flat!Place
    <3>6. Flat!Place(a, w, j) \in Address
      <4>1. j \in 0 .. AddrMod - 1 /\ w - 1 - j \in 0 .. AddrMod - 1
        BY <2>1, SizeAssumption
      <4> QED
        BY <2>1, <4>1, WrapAround DEF Flat!Place
    <3> QED
      BY <1>4, <1>5, <3>1, <3>2, <3>3, <3>5, <3>6
  <2>5. acc'.val = [j \in 0 .. w - 1 |-> FlatBytes[Flat!Place(a, w, j)]]
    BY <2>3, <2>4
  <2>6. Flat!Read(a, w)
    BY <1>5, <1>6, <2>2, <2>5 DEF Flat!Read, Flat!None
  <2> QED
    BY <2>1, <2>6
<1> QED
  BY <1>7, <1>8

(* An iteration of a write does not show: the byte moves from the overlay   *)
(* to the table.                                                            *)
LEMMA FlatWriteByte ==
  ASSUME Inv, Inv', WriteByte
  PROVE  UNCHANGED <<FlatBytes, FlatRes>>
<1>1. /\ acc \in Access /\ acc.i < acc.width /\ acc.kind = "write"
      /\ WriteAddr \in Address
      /\ \A x \in Address : byte_at(ptable', x) = IF x = WriteAddr THEN ByteOf(acc.i)
                                                  ELSE byte_at(ptable, x)
      /\ acc' = [kind |-> "write", addr |-> acc.addr, width |-> acc.width,
                 i |-> acc.i + 1, val |-> acc.val]
  BY WriteStep
<1>2. /\ acc.addr \in Address /\ acc.width \in 1 .. AddrMod /\ acc.i \in Nat
      /\ AddrMod \in Nat /\ acc.i \in 0 .. AddrMod - 1
  BY <1>1, AccessParts, SizeAssumption
<1>3. Remaining = Remaining' \cup {acc.i} /\ acc.i \notin Remaining'
      /\ Remaining \subseteq 0 .. AddrMod - 1
  BY <1>1, <1>2 DEF Remaining
<1>4. \A k : Target(k)' = Target(k) /\ ByteOf(k)' = ByteOf(k)
  BY <1>1 DEF Target, ByteOf
<1>5. Target(acc.i) = WriteAddr
  BY DEF Target, WriteAddr
<1>6. ASSUME NEW k \in Remaining'
      PROVE  Target(k) # WriteAddr
  <2>1. k \in 0 .. AddrMod - 1 /\ k # acc.i
    BY <1>3
  <2> QED
    BY <1>2, <1>5, <2>1, WrapInjective DEF Target
<1>7. \A x \in Address :
        /\ \A k \in Remaining : Target(k) = x => FlatBytes[x] = ByteOf(k)
        /\ (\A k \in Remaining : Target(k) # x) => FlatBytes[x] = byte_at(ptable, x)
  BY FlatAt DEF Inv
<1>8. \A x \in Address :
        /\ \A k \in Remaining' : Target(k) = x => FlatBytes'[x] = ByteOf(k)
        /\ (\A k \in Remaining' : Target(k) # x) => FlatBytes'[x] = byte_at(ptable', x)
  <2>1. (TypeOK => \A x \in Address :
           /\ \A k \in Remaining : Target(k) = x => FlatBytes[x] = ByteOf(k)
           /\ (\A k \in Remaining : Target(k) # x) => FlatBytes[x] = byte_at(ptable, x))'
    BY FlatAt, PTL
  <2> QED
    BY <1>4, <2>1 DEF Inv
<1>9. ASSUME NEW x \in Address PROVE FlatBytes'[x] = FlatBytes[x]
  <2>1. CASE x = WriteAddr
    <3>1. FlatBytes[x] = ByteOf(acc.i)
      BY <2>1, <1>3, <1>5, <1>7
    <3>2. FlatBytes'[x] = byte_at(ptable', x)
      BY <2>1, <1>6, <1>8
    <3> QED
      BY <2>1, <3>1, <3>2, <1>1
  <2>2. CASE \E k \in Remaining' : Target(k) = x
    BY <2>2, <1>3, <1>7, <1>8
  <2>3. CASE x # WriteAddr /\ \A k \in Remaining' : Target(k) # x
    <3>1. \A k \in Remaining : Target(k) # x
      BY <2>3, <1>3, <1>5
    <3> QED
      BY <2>3, <3>1, <1>1, <1>7, <1>8
  <2> QED
    BY <2>1, <2>2, <2>3
<1>10. FlatBytes' = FlatBytes
  BY <1>9, FlatExt
<1>11. FlatRes' = FlatRes
  BY <1>1 DEF FlatRes
<1> QED
  BY <1>10, <1>11

(* Accesses of every width, across pages and colliding buckets and around   *)
(* the end of memory, are accesses to a flat array of bytes.                *)
THEOREM FlatSpecHolds == Spec => FlatSpec
<1>1. Init => Flat!Init
  <2> SUFFICES ASSUME Init PROVE Flat!Init
    OBVIOUS
  <2>1. FlatRes = [kind |-> "none"]
    BY DEF Init, Idle, FlatRes
  <2>2. Complete /\ TypeOK
    BY InvInit DEF Init, Idle, Complete, Inv
  <2>3. ASSUME NEW x \in Address PROVE FlatBytes[x] = 0
    <3>1. pnum(x) \in PageNum
      BY AddressParts
    <3>2. ~present(ptable, pnum(x))
      BY <3>1, HashAssumption DEF Init, present, Positions
    <3>3. FlatBytes[x] = byte_at(ptable, x)
      BY <2>2, FlatIdle
    <3> QED
      BY <3>2, <3>3 DEF byte_at
  <2>4. FlatBytes = [x \in Address |-> 0]
    <3>1. FlatBytes = [x \in Address |-> FlatBytes[x]]
      BY DEF FlatBytes
    <3> QED
      BY <2>3, <3>1
  <2> QED
    BY <2>1, <2>4 DEF Flat!Init, Flat!None, Flat!Address, Address
<1>2. Inv /\ Inv' /\ [Next]_vars => [Flat!Next]_<<FlatBytes, FlatRes>>
  <2> SUFFICES ASSUME Inv, Inv', [Next]_vars
               PROVE  Flat!Next \/ UNCHANGED <<FlatBytes, FlatRes>>
    OBVIOUS
  <2>1. ASSUME NEW a \in Address, NEW w \in Widths, mem_read(a, w)
        PROVE  Flat!Next
    BY <2>1, FlatRead DEF Flat!Next
  <2>2. ASSUME NEW a \in Address, NEW w \in Widths, NEW v \in Word(w), mem_write(a, w, v)
        PROVE  Flat!Next
    <3>1. a \in Flat!Address /\ v \in Flat!Word(w)
      BY DEF Address, Flat!Address, Word, Flat!Word, Byte
    <3>2. Flat!Write(a, w, v)
      BY <2>2, FlatWrite
    <3> QED
      BY <3>1, <3>2 DEF Flat!Next
  <2>3. CASE ReadByte
    <3>1. Address = Flat!Address
      BY DEF Address, Flat!Address
    <3>2. \/ UNCHANGED <<FlatBytes, FlatRes>>
          \/ \E a \in Address, w \in Widths : Flat!Read(a, w)
      BY <2>3, FlatReadByte
    <3> QED
      BY <3>1, <3>2 DEF Flat!Next
  <2>4. CASE WriteByte
    BY <2>4, FlatWriteByte
  <2>5. CASE UNCHANGED vars
    <3>1. UNCHANGED FlatBytes
      BY <2>5 DEF vars, FlatBytes, Remaining, ByteOf
    <3>2. UNCHANGED FlatRes
      BY <2>5 DEF vars, FlatRes, Complete
    <3> QED
      BY <3>1, <3>2
  <2> QED
    BY <2>1, <2>2, <2>3, <2>4, <2>5 DEF Next
<1> QED
  BY <1>1, <1>2, InvInit, InvNext, PTL DEF Spec, FlatSpec, Flat!Spec, Flat!vars
=============================================================================
