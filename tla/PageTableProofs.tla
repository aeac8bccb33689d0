-------------------------- MODULE PageTableProofs --------------------------
(***************************************************************************)
(* What the operations of the page table keep: for every page size, number *)
(* of buckets and hash function.                                           *)
(***************************************************************************)
EXTENDS PageTable, TLAPS

(* An address is determined by its page number and its offset.              *)
LEMMA AddressParts ==
  /\ \A a \in Address : pnum(a) \in PageNum /\ poff(a) \in Offset
  /\ \A a, b \in Address : pnum(a) = pnum(b) /\ poff(a) = poff(b) => a = b
<1> USE SizeAssumption
<1>1. ASSUME NEW a \in Nat
      PROVE  /\ a \div PAGESIZE \in Nat /\ a % PAGESIZE \in 0 .. PAGESIZE - 1
             /\ a = PAGESIZE * (a \div PAGESIZE) + (a % PAGESIZE)
  OBVIOUS
<1> DEFINE top == AddrMod \div PAGESIZE
<1>2. top \in Nat /\ AddrMod = PAGESIZE * top
  BY <1>1
<1> HIDE DEF top
<1>3. ASSUME NEW a \in Address
      PROVE  pnum(a) \in PageNum /\ poff(a) \in Offset
  <2> DEFINE q == a \div PAGESIZE
             r == a % PAGESIZE
  <2>1. q \in Nat /\ r \in Nat /\ a = PAGESIZE * q + r
    BY <1>1 DEF Address
  <2>2. a < PAGESIZE * top
    BY <1>2 DEF Address
  <2> HIDE DEF q, r
  <2>3. q < top
    <3> SUFFICES ASSUME q >= top PROVE FALSE
      BY <1>2, <2>1
    <3>1. PICK d \in Nat : q = top + d
      <4>1. q - top \in Nat
        BY <1>2, <2>1
      <4> QED
        BY <4>1, <1>2, <2>1
    <3>2. PAGESIZE * q = PAGESIZE * top + PAGESIZE * d
      BY <3>1, <1>2
    <3>3. PAGESIZE * d \in Nat
      BY <3>1
    <3> QED
      BY <3>2, <3>3, <2>1, <2>2, <1>2
  <2> QED
    BY <1>1, <1>2, <2>1, <2>3 DEF q, top, pnum, poff, PageNum, Offset, Address
<1>4. ASSUME NEW a \in Address, NEW b \in Address, pnum(a) = pnum(b), poff(a) = poff(b)
      PROVE  a = b
  <2>1. a = PAGESIZE * pnum(a) + poff(a) /\ b = PAGESIZE * pnum(b) + poff(b)
    BY <1>1 DEF pnum, poff, Address
  <2> QED
    BY <2>1, <1>4, Zenon
<1> QED
  BY <1>3, <1>4, Zenon

(* In a table with one page of each number, get_page finds the position of  *)
(* the page.                                                                *)
LEMMA GetPage ==
  ASSUME NEW t \in Table, OnePage(t), NEW n \in PageNum, NEW i \in Positions(t, n)
  PROVE  get_page(t, n) = i
<1>1. \A j \in Positions(t, n) : j = i
  BY HashAssumption DEF OnePage, Positions, Table
<1>2. i \in Nat
  BY HashAssumption DEF Positions, Table
<1>3. i \in Positions(t, n) /\ \A j \in Positions(t, n) : i <= j
  BY <1>1, <1>2
<1>4. get_page(t, n) \in Positions(t, n)
  BY <1>3, Zenon DEF get_page
<1> QED
  BY <1>1, <1>4

(* Hence the byte of an address is that of any page with its number.        *)
LEMMA LoadAt ==
  ASSUME NEW t \in Table, OnePage(t), NEW a \in Address,
         NEW i \in Positions(t, pnum(a))
  PROVE  byte_at(t, a) = t[ptable_hash(pnum(a))][i].p_data[poff(a)]
BY GetPage, AddressParts DEF byte_at, load, present

(* A byte of memory is a byte.                                              *)
LEMMA ByteType ==
  ASSUME NEW t \in Table, OnePage(t), NEW a \in Address
  PROVE  byte_at(t, a) \in Byte
<1>1. CASE present(t, pnum(a))
  <2>1. PICK i \in Positions(t, pnum(a)) : TRUE
    BY <1>1 DEF present
  <2>2. pnum(a) \in PageNum /\ poff(a) \in Offset
    BY AddressParts
  <2>3. t[ptable_hash(pnum(a))] \in Seq(Page)
    BY <2>2, HashAssumption DEF Table
  <2>4. t[ptable_hash(pnum(a))][i] \in Page
    BY <2>1, <2>3 DEF Positions
  <2> QED
    BY LoadAt, <2>1, <2>2, <2>4 DEF Page
<1>2. CASE ~present(t, pnum(a))
  BY <1>2, SizeAssumption DEF byte_at, Byte
<1> QED
  BY <1>1, <1>2

-----------------------------------------------------------------------------
(* Putting a page in front of a list shifts the others by one.              *)
LEMMA Push ==
  ASSUME NEW S, NEW s \in Seq(S), NEW e \in S
  PROVE  /\ <<e>> \o s \in Seq(S)
         /\ DOMAIN (<<e>> \o s) = 1 .. Len(s) + 1
         /\ DOMAIN s = 1 .. Len(s) /\ Len(s) \in Nat
         /\ (<<e>> \o s)[1] = e
         /\ \A i \in DOMAIN s : i + 1 \in DOMAIN (<<e>> \o s) /\ (<<e>> \o s)[i + 1] = s[i]
         /\ \A j \in DOMAIN (<<e>> \o s) : j # 1 => j - 1 \in DOMAIN s
OBVIOUS

(* add_page keeps the shape of the table and all its bytes.                 *)
LEMMA AddPage ==
  ASSUME NEW t \in Table, OnePage(t), NEW n \in PageNum, ~present(t, n)
  PROVE  LET u == add_page(t, n)
         IN  /\ u \in Table /\ OnePage(u) /\ present(u, n)
             /\ \A m \in PageNum : present(t, m) => present(u, m)
             /\ \A a \in Address : byte_at(u, a) = byte_at(t, a)
<1> DEFINE u == add_page(t, n)
           h == ptable_hash(n)
           p == ZeroPage(n)
<1>1. p \in Page /\ p.p_num = n /\ \A o \in Offset : p.p_data[o] = 0
  BY SizeAssumption DEF ZeroPage, Page, Byte
<1>2. h \in Bucket /\ t[h] \in Seq(Page)
  BY HashAssumption DEF Table
<1>3. u = [t EXCEPT ![h] = <<p>> \o t[h]]
  BY DEF add_page
<1> HIDE DEF u, h, p
<1>4. u \in Table /\ u[h] = <<p>> \o t[h] /\ \A k \in Bucket \ {h} : u[k] = t[k]
  <2>1. <<p>> \o t[h] \in Seq(Page)
    BY Push, <1>1, <1>2
  <2> QED
    BY <2>1, <1>2, <1>3 DEF Table
<1>5. /\ u[h][1] = p /\ 1 \in DOMAIN u[h]
      /\ \A i \in DOMAIN t[h] : i \in Nat /\ i + 1 \in DOMAIN u[h] /\ u[h][i + 1] = t[h][i]
      /\ \A j \in DOMAIN u[h] : j \in Nat /\ (j # 1 => j - 1 \in DOMAIN t[h])
  BY Push, <1>1, <1>2, <1>4
<1>6. \A i \in DOMAIN t[h] : t[h][i].p_num # n
  BY DEF present, Positions, h
<1>7. OnePage(u)
  <2>1. ASSUME NEW k \in Bucket, NEW i \in DOMAIN u[k]
        PROVE  ptable_hash(u[k][i].p_num) = k
    <3>1. CASE k # h
      BY <3>1, <1>4 DEF OnePage
    <3>2. CASE k = h /\ i = 1
      BY <3>2, <1>1, <1>5 DEF h
    <3>3. CASE k = h /\ i # 1
      <4>1. i - 1 \in DOMAIN t[h] /\ u[h][i] = t[h][i - 1]
        BY <3>3, <1>5
      <4> QED
        BY <3>3, <4>1, <1>2 DEF OnePage
    <3> QED
      BY <3>1, <3>2, <3>3
  <2>2. ASSUME NEW k \in Bucket, NEW i \in DOMAIN u[k], NEW j \in DOMAIN u[k],
               u[k][i].p_num = u[k][j].p_num
        PROVE  i = j
    <3>1. CASE k # h
      BY <2>2, <3>1, <1>4 DEF OnePage
    <3>2. CASE k = h
      <4>1. ASSUME NEW l \in DOMAIN u[h], l # 1
            PROVE  l - 1 \in DOMAIN t[h] /\ u[h][l] = t[h][l - 1]
        BY <4>1, <1>5
      <4>2. i \in Nat /\ j \in Nat
        BY <3>2, <1>5
      <4>3. i # 1 /\ j # 1 => i - 1 = j - 1
        BY <2>2, <3>2, <4>1, <1>2 DEF OnePage
      <4>4. i = 1 <=> j = 1
        BY <2>2, <3>2, <4>1, <1>1, <1>5, <1>6
      <4> QED
        BY <4>2, <4>3, <4>4
    <3> QED
      BY <3>1, <3>2
  <2> QED
    BY <2>1, <2>2 DEF OnePage
<1>8. 1 \in Positions(u, n)
  BY <1>1, <1>5 DEF Positions, h
<1>9. ASSUME NEW m \in PageNum, NEW i \in Positions(t, m)
      PROVE  \E j \in Positions(u, m) : u[ptable_hash(m)][j] = t[ptable_hash(m)][i]
  <2>1. CASE ptable_hash(m) = h
    <3>1. i + 1 \in Positions(u, m) /\ u[h][i + 1] = t[h][i]
      BY <1>9, <2>1, <1>5 DEF Positions
    <3> QED
      BY <2>1, <3>1
  <2>2. CASE ptable_hash(m) # h
    BY <1>9, <2>2, <1>4, HashAssumption DEF Positions
  <2> QED
    BY <2>1, <2>2
<1>10. ASSUME NEW m \in PageNum, present(u, m), m # n
       PROVE  present(t, m)
  <2>1. PICK j \in Positions(u, m) : TRUE
    BY <1>10 DEF present
  <2>2. CASE ptable_hash(m) = h
    <3>1. j \in DOMAIN u[h] /\ u[h][j].p_num = m
      BY <2>1, <2>2 DEF Positions
    <3>2. j - 1 \in DOMAIN t[h] /\ u[h][j] = t[h][j - 1]
      BY <3>1, <1>1, <1>5, <1>10
    <3> QED
      BY <2>2, <3>1, <3>2 DEF present, Positions
  <2>3. CASE ptable_hash(m) # h
    BY <2>1, <2>3, <1>4, HashAssumption DEF present, Positions
  <2> QED
    BY <2>2, <2>3
<1>11. ASSUME NEW a \in Address PROVE byte_at(u, a) = byte_at(t, a)
  <2>1. pnum(a) \in PageNum /\ poff(a) \in Offset
    BY AddressParts
  <2>2. CASE present(t, pnum(a))
    <3>1. PICK i \in Positions(t, pnum(a)) : TRUE
      BY <2>2 DEF present
    <3>2. PICK j \in Positions(u, pnum(a)) :
            u[ptable_hash(pnum(a))][j] = t[ptable_hash(pnum(a))][i]
      BY <1>9, <2>1, <3>1
    <3> QED
      BY LoadAt, <3>1, <3>2, <1>4, <1>7
  <2>3. CASE ~present(t, pnum(a)) /\ pnum(a) = n
    <3>1. byte_at(u, a) = u[h][1].p_data[poff(a)]
      BY LoadAt, <1>4, <1>7, <1>8, <2>3 DEF h
    <3> QED
      BY <3>1, <2>1, <2>3, <1>1, <1>5 DEF byte_at
  <2>4. CASE ~present(t, pnum(a)) /\ pnum(a) # n
    BY <2>1, <2>4, <1>10 DEF byte_at
  <2> QED
    BY <2>2, <2>3, <2>4
<1>12. present(u, n)
  BY <1>8 DEF present
<1>13. \A m \in PageNum : present(t, m) => present(u, m)
  BY <1>9 DEF present
<1> QED
  BY <1>4, <1>7, <1>11, <1>12, <1>13 DEF u

(* Looking a page up keeps the shape of the table and all its bytes, and    *)
(* leaves the page in the table.                                            *)
LEMMA Touch ==
  ASSUME NEW t \in Table, OnePage(t), NEW n \in PageNum
  PROVE  LET u == touch(t, n)
         IN  /\ u \in Table /\ OnePage(u) /\ present(u, n)
             /\ \A m \in PageNum : present(t, m) => present(u, m)
             /\ \A a \in Address : byte_at(u, a) = byte_at(t, a)
BY AddPage DEF touch

-----------------------------------------------------------------------------
(* A store changes the byte of its address and nothing else.                *)
LEMMA Store ==
  ASSUME NEW t \in Table, OnePage(t), NEW a \in Address, present(t, pnum(a)),
         NEW b \in Byte
  PROVE  LET u == store(t, a, b)
         IN  /\ u \in Table /\ OnePage(u)
             /\ \A m \in PageNum : present(t, m) => present(u, m)
             /\ \A x \in Address : byte_at(u, x) = IF x = a THEN b ELSE byte_at(t, x)
<1> DEFINE u == store(t, a, b)
           n == pnum(a)
           h == ptable_hash(n)
           g == get_page(t, n)
           p == [t[h][g] EXCEPT !.p_data[poff(a)] = b]
           s == [t[h] EXCEPT ![g] = p]
<1>1. n \in PageNum /\ poff(a) \in Offset /\ h \in Bucket /\ t[h] \in Seq(Page)
  BY AddressParts, HashAssumption DEF Table
<1>2. g \in DOMAIN t[h] /\ t[h][g].p_num = n
  <2>1. PICK i \in Positions(t, n) : TRUE
    BY DEF present
  <2> QED
    BY GetPage, <1>1, <2>1 DEF Positions
<1>3. /\ t[h][g] \in Page /\ p \in Page /\ p.p_num = n
      /\ p.p_data[poff(a)] = b
      /\ \A o \in Offset : o # poff(a) => p.p_data[o] = t[h][g].p_data[o]
  <2> DEFINE old == t[h][g]
             o1 == poff(a)
  <2>1. old \in Page
    BY <1>1, <1>2
  <2>2. o1 \in Offset /\ old.p_num = n
    BY <1>1, <1>2
  <2>3. p = [old EXCEPT !.p_data[o1] = b]
    OBVIOUS
  <2> HIDE DEF p, old, o1, n
  <2>4. p.p_data = [old.p_data EXCEPT ![o1] = b] /\ p.p_num = old.p_num
    BY <2>1, <2>3 DEF Page
  <2>5. old.p_data \in [Offset -> Byte]
    BY <2>1 DEF Page
  <2>6. p.p_data \in [Offset -> Byte] /\ p.p_data[o1] = b
        /\ \A o \in Offset : o # o1 => p.p_data[o] = old.p_data[o]
    BY <2>2, <2>4, <2>5
  <2>7. p = [p_num |-> p.p_num, p_data |-> p.p_data]
    BY <2>1, <2>3 DEF Page
  <2>8. p \in Page
    BY <2>1, <2>4, <2>6, <2>7 DEF Page
  <2> QED
    BY <2>1, <2>2, <2>4, <2>6, <2>8 DEF old, o1
<1>4. u = [t EXCEPT ![h] = s]
  BY DEF store
<1> HIDE DEF u, n, h, g, p
<1>5. /\ s \in Seq(Page) /\ DOMAIN s = DOMAIN t[h] /\ s[g] = p
      /\ \A i \in DOMAIN s : i # g => s[i] = t[h][i]
  BY <1>1, <1>2, <1>3
<1>6. u \in Table /\ u[h] = s /\ \A k \in Bucket : k # h => u[k] = t[k]
  BY <1>1, <1>4, <1>5 DEF Table
<1> HIDE DEF s
<1>7. \A k \in Bucket : /\ DOMAIN u[k] = DOMAIN t[k]
                        /\ \A i \in DOMAIN t[k] : u[k][i].p_num = t[k][i].p_num
  BY <1>2, <1>3, <1>5, <1>6
<1>8. OnePage(u)
  BY <1>7 DEF OnePage
<1>9. \A m \in PageNum : Positions(u, m) = Positions(t, m)
  BY <1>7, HashAssumption DEF Positions
<1>10. ASSUME NEW x \in Address
       PROVE  byte_at(u, x) = IF x = a THEN b ELSE byte_at(t, x)
  <2> DEFINE k == ptable_hash(pnum(x))
  <2>1. pnum(x) \in PageNum /\ poff(x) \in Offset /\ k \in Bucket
    BY AddressParts, HashAssumption
  <2>2. CASE ~present(t, pnum(x))
    BY <2>1, <2>2, <1>9 DEF byte_at, present
  <2>3. CASE present(t, pnum(x))
    <3>1. PICK i \in Positions(t, pnum(x)) : TRUE
      BY <2>3 DEF present
    <3>2. i \in DOMAIN t[k] /\ t[k][i].p_num = pnum(x)
      BY <3>1 DEF Positions
    <3>3. /\ byte_at(t, x) = t[k][i].p_data[poff(x)]
          /\ byte_at(u, x) = u[k][i].p_data[poff(x)]
      BY LoadAt, <3>1, <2>1, <1>6, <1>8, <1>9
    <3>4. CASE k = h /\ i = g
      <4>1. pnum(x) = n
        BY <3>2, <3>4, <1>2
      <4>2. poff(x) = poff(a) <=> x = a
        BY <4>1, AddressParts DEF n
      <4> QED
        BY <3>3, <3>4, <4>2, <2>1, <1>3, <1>5, <1>6
    <3>5. CASE k # h \/ i # g
      <4>1. u[k][i] = t[k][i]
        BY <3>2, <3>5, <2>1, <1>5, <1>6
      <4>2. x # a
        <5>1. CASE k # h
          BY <5>1 DEF h, n
        <5>2. CASE k = h /\ i # g
          BY <5>2, <3>2, <1>2, <1>1 DEF OnePage, n
        <5> QED
          BY <3>5, <5>1, <5>2
      <4> QED
        BY <3>3, <4>1, <4>2
    <3> QED
      BY <3>4, <3>5
  <2> QED
    BY <2>2, <2>3
<1>11. \A m \in PageNum : present(t, m) => present(u, m)
  BY <1>9 DEF present
<1> QED
  BY <1>6, <1>8, <1>10, <1>11 DEF u

(* A byte read returns the byte and leaves memory as it is.                 *)
THEOREM ReadByteLemma ==
  ASSUME NEW t \in Table, OnePage(t), NEW a \in Address
  PROVE  LET r == mem_read_byte(t, a)
         IN  /\ r.table \in Table /\ OnePage(r.table)
             /\ r.byte = byte_at(t, a) /\ r.byte \in Byte
             /\ \A x \in Address : byte_at(r.table, x) = byte_at(t, x)
<1> DEFINE u == touch(t, pnum(a))
<1>1. /\ u \in Table /\ OnePage(u) /\ present(u, pnum(a))
      /\ \A x \in Address : byte_at(u, x) = byte_at(t, x)
  BY Touch, AddressParts
<1> HIDE DEF u
<1>2. byte_at(u, a) = load(u, a)
  BY <1>1 DEF byte_at
<1> QED
  BY <1>1, <1>2, ByteType DEF mem_read_byte, u

(* A byte write changes the byte of its address and nothing else.           *)
THEOREM WriteByteLemma ==
  ASSUME NEW t \in Table, OnePage(t), NEW a \in Address, NEW b \in Byte
  PROVE  LET u == mem_write_byte(t, a, b)
         IN  /\ u \in Table /\ OnePage(u)
             /\ \A x \in Address : byte_at(u, x) = IF x = a THEN b ELSE byte_at(t, x)
<1> DEFINE s == touch(t, pnum(a))
<1>1. /\ s \in Table /\ OnePage(s) /\ present(s, pnum(a))
      /\ \A x \in Address : byte_at(s, x) = byte_at(t, x)
  BY Touch, AddressParts
<1> HIDE DEF s
<1>2. mem_write_byte(t, a, b) = store(s, a, b)
  BY DEF mem_write_byte, s
<1> QED
  BY <1>1, <1>2, Store
=============================================================================
