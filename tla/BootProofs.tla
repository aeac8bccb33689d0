----------------------------- MODULE BootProofs -----------------------------
(***************************************************************************)
(* What holds of the process before and around the run, for every file,    *)
(* command line, page size, hash function and access of the program.       *)
(***************************************************************************)
EXTENDS Boot, PageTableProofs

(* No range of the instruction table overlaps another: the assertions of    *)
(* init_itable_entry and init_itable_range hold.                            *)
THEOREM TableAssertions == NoEntryTwice
BY DEF NoEntryTwice, Entries, Entry

-----------------------------------------------------------------------------
(* The inductive invariant of the loader: the state it works on has its     *)
(* type, the table has each page once, and the run only begins when the     *)
(* loader has returned.                                                     *)
Phases == {"header", "copy", "bss", "section", "done", "returned"}
LoaderTypeOK ==
  /\ IsImage(image)
  /\ seg \in Nat \ {0} /\ j \in Nat /\ phase \in Phases
  /\ phase \in {"copy", "bss"} => seg \in DOMAIN image.headers /\ Loadable(image, seg)
  /\ main = "run" => phase = "returned"
TableOK == ptable \in Table /\ OnePage(ptable)

(* The bytes of a header and of the file are numbers of their ranges.       *)
LEMMA ImageTypes ==
  ASSUME IsImage(image)
  PROVE  /\ Len(image.headers) \in Nat /\ DOMAIN image.headers = 1 .. Len(image.headers)
         /\ \A s \in DOMAIN image.headers : image.headers[s] \in Header
         /\ \A o \in Nat : file_byte(o) \in Byte
<1>1. image.headers \in Seq(Header) /\ image.file \in Seq(Byte)
  BY DEF IsImage
<1>2. \A o \in Nat : file_byte(o) \in Byte
  <2>1. \A o \in Nat : o < Len(image.file) => image.file[o + 1] \in Byte
    BY <1>1
  <2>2. 0 \in Byte
    BY SizeAssumption DEF Byte
  <2> QED
    BY <2>1, <2>2 DEF file_byte
<1> QED
  BY <1>1, <1>2

(* Reduced to an address, a number is one, and an address stays the same.   *)
LEMMA Wrap ==
  /\ \A n \in Nat : n % AddrMod \in Address
  /\ \A n \in Address : n % AddrMod = n
BY SizeAssumption DEF Address

(* The steps of the loader that leave the table alone.                      *)
TableSteps == CopyByte \/ MapBss

(* A step of loadElf that is not one of the two keeps the table.            *)
LEMMA LoaderSteps ==
  loadElf => TableSteps \/ UNCHANGED ptable
BY DEF loadElf, TableSteps, ReadHeader, EndCopy, EndBss, EndHeaders, ReadSection, Return

(* What the two steps make of the table.                                    *)
LEMMA TableStep ==
  ASSUME LoaderTypeOK, TableOK
  PROVE  /\ CopyByte =>
              LET a == (progHeader.p_vaddr + j) % AddrMod
              IN  /\ TableOK' /\ a \in Address
                  /\ \A x \in Address :
                       byte_at(ptable', x) = IF x = a THEN file_byte(progHeader.p_offset + j)
                                             ELSE byte_at(ptable, x)
         /\ MapBss =>
              /\ TableOK'
              /\ \A x \in Address : byte_at(ptable', x) = byte_at(ptable, x)
<1>1. ASSUME CopyByte \/ MapBss
      PROVE  progHeader \in Header
  BY <1>1, ImageTypes DEF CopyByte, MapBss, LoaderTypeOK, progHeader
<1>2. ASSUME CopyByte
      PROVE  LET a == (progHeader.p_vaddr + j) % AddrMod
             IN  /\ TableOK' /\ a \in Address
                 /\ \A x \in Address :
                      byte_at(ptable', x) = IF x = a THEN file_byte(progHeader.p_offset + j)
                                            ELSE byte_at(ptable, x)
  <2> DEFINE a == (progHeader.p_vaddr + j) % AddrMod
             b == file_byte(progHeader.p_offset + j)
  <2>1. /\ progHeader.p_vaddr + j \in Nat /\ progHeader.p_offset + j \in Nat
    BY <1>1, <1>2 DEF Header, Address, LoaderTypeOK
  <2>2. a \in Address /\ b \in Byte
    BY <2>1, Wrap, ImageTypes DEF LoaderTypeOK
  <2>3. ptable' = mem_write_byte(ptable, a, b)
    BY <1>2 DEF CopyByte
  <2> HIDE DEF a, b
  <2>4. /\ ptable' \in Table /\ OnePage(ptable')
        /\ \A x \in Address : byte_at(ptable', x) = IF x = a THEN b ELSE byte_at(ptable, x)
    BY <2>2, <2>3, WriteByteLemma DEF TableOK
  <2> QED
    BY <2>2, <2>4 DEF TableOK, a, b
<1>3. ASSUME MapBss
      PROVE  TableOK' /\ \A x \in Address : byte_at(ptable', x) = byte_at(ptable, x)
  <2> DEFINE a == (progHeader.p_vaddr + f_align + j) % AddrMod
  <2>1. progHeader.p_vaddr + f_align + j \in Nat
    <3>1. /\ progHeader.p_vaddr \in Nat /\ progHeader.p_filesz \in Nat /\ j \in Nat
          /\ PAGESIZE \in Nat \ {0}
      BY <1>1, <1>3, SizeAssumption DEF Header, Address, LoaderTypeOK
    <3>2. (progHeader.p_filesz + progHeader.p_vaddr) % PAGESIZE \in 0 .. PAGESIZE - 1
      BY <3>1
    <3>3. f_align \in Nat
      BY <3>1, <3>2 DEF f_align
    <3> QED
      BY <3>1, <3>3
  <2>2. pnum(a) \in PageNum
    BY <2>1, Wrap, AddressParts
  <2>3. ptable' = touch(ptable, pnum(a))
    BY <1>3 DEF MapBss
  <2> QED
    BY <2>2, <2>3, Touch DEF TableOK
<1> QED
  BY <1>2, <1>3

(* Every step keeps the types of the loader's state.                        *)
LEMMA LoaderTypeNext == LoaderTypeOK /\ [Next]_vars => LoaderTypeOK'
<1> SUFFICES ASSUME LoaderTypeOK, [Next]_vars PROVE LoaderTypeOK'
  OBVIOUS
<1>1. CASE Load
  <2>1. main = "load" /\ main' = main /\ image' = image
    BY <1>1 DEF Load, startvars, loadElf, ReadHeader, CopyByte, EndCopy, MapBss, EndBss,
               EndHeaders, ReadSection, Return
  <2>2. seg' \in Nat \ {0} /\ j' \in Nat
    BY <1>1 DEF Load, LoaderTypeOK, loadElf, ReadHeader, CopyByte, EndCopy, MapBss, EndBss,
               EndHeaders, ReadSection, Return, NextHeader
  <2>3. phase' \in Phases
    BY <1>1 DEF Load, LoaderTypeOK, loadElf, ReadHeader, CopyByte, EndCopy, MapBss, EndBss,
               EndHeaders, ReadSection, Return, NextHeader, Phases
  <2>4. phase' \in {"copy", "bss"} => seg' \in DOMAIN image.headers /\ Loadable(image, seg')
    <3>1. CASE ReadHeader
      BY <3>1, ImageTypes DEF LoaderTypeOK, ReadHeader, NextHeader, progHeader, Loadable
    <3>2. CASE ~ReadHeader
      BY <1>1, <3>2 DEF Load, LoaderTypeOK, loadElf, CopyByte, EndCopy, MapBss, EndBss,
                       EndHeaders, ReadSection, Return, NextHeader
    <3> QED
      BY <3>1, <3>2
  <2> QED
    BY <2>1, <2>2, <2>3, <2>4 DEF LoaderTypeOK
<1>2. CASE runElf
  BY <1>2 DEF runElf, LoaderTypeOK, Phases
<1>3. CASE UNCHANGED <<image, seg, j, phase>> /\ (main' = "run" => main = "run")
  BY <1>3 DEF LoaderTypeOK
<1>4. Load \/ runElf
        \/ (UNCHANGED <<image, seg, j, phase>> /\ (main' = "run" => main = "run"))
  BY DEF Next, vars, loadvars, startvars, logvars, runvars, Start, start, ParseOption,
         NoOptions, init, NoFile, BusError, Die, Log, EndCheckpoint, Goto, KeepSettings, finalize,
         NullRead, ReadCheckpoint, Cycle, Access, CachedAccess, Fetch
<1> QED
  BY <1>1, <1>2, <1>3, <1>4

(* The accesses of the run, which happen only after loading.                *)
RunSteps == Access \/ Fetch

(* A step that changes the table is one of the loader's or an access.       *)
LEMMA TableSources ==
  [Next]_vars => (Load /\ TableSteps) \/ RunSteps \/ UNCHANGED ptable
BY LoaderSteps
   DEF Next, vars, loadvars, Start, NoFile, Load, BusError, runElf, Log, EndCheckpoint,
       finalize, NullRead, ReadCheckpoint, CachedAccess, RunSteps

(* Every step keeps the table in order.                                     *)
LEMMA TableNext == LoaderTypeOK /\ TableOK /\ [Next]_vars => TableOK'
<1> SUFFICES ASSUME LoaderTypeOK, TableOK, [Next]_vars PROVE TableOK'
  OBVIOUS
<1>1. CASE TableSteps
  BY <1>1, TableStep DEF TableSteps
<1>2. CASE RunSteps
  <2>1. PICK a \in Address : \/ ptable' = mem_read_byte(ptable, a).table
                            \/ \E b \in Byte : ptable' = mem_write_byte(ptable, a, b)
    BY <1>2, BootAssumption DEF RunSteps, Access, Fetch
  <2> QED
    BY <2>1, ReadByteLemma, WriteByteLemma DEF TableOK
<1>3. CASE UNCHANGED ptable
  BY <1>3 DEF TableOK
<1> QED
  BY <1>1, <1>2, <1>3, TableSources

(* The process begins with a loader that has its types and an empty table.  *)
LEMMA TableInit == Init => LoaderTypeOK /\ TableOK
<1> SUFFICES ASSUME Init PROVE LoaderTypeOK /\ TableOK
  OBVIOUS
<1>1. PICK b \in Boots : StartInit(b.argv) /\ LoadInit(b.image)
  BY DEF Init
<1>2. LoaderTypeOK
  BY <1>1, BootAssumption DEF StartInit, LoadInit, LoaderTypeOK, Phases
<1>3. TableOK
  <2>1. ptable = [k \in Bucket |-> <<>>]
    BY <1>1 DEF LoadInit
  <2> QED
    BY <2>1 DEF TableOK, Table, OnePage
<1> QED
  BY <1>2, <1>3

(* No page number is twice in the table, whatever the loader and the run    *)
(* touch and in whatever order.                                             *)
THEOREM LoadedPagesUniqueHolds == Spec => []LoadedPagesUnique
<1>1. Init => LoaderTypeOK /\ TableOK
  BY TableInit
<1>2. LoaderTypeOK /\ TableOK /\ [Next]_vars => (LoaderTypeOK /\ TableOK)'
  BY LoaderTypeNext, TableNext
<1>3. LoaderTypeOK /\ TableOK => LoadedPagesUnique
  BY DEF TableOK, LoadedPagesUnique
<1> QED
  BY <1>1, <1>2, <1>3, PTL DEF Spec

-----------------------------------------------------------------------------
(* The bytes the loader has copied so far are in place.                     *)
Copied(s, k) ==
  \/ phase \in {"section", "done"}
  \/ phase \in {"header", "copy", "bss"} /\ s < seg
  \/ phase = "bss" /\ s = seg
  \/ phase = "copy" /\ s = seg /\ k < j
InPlace(s, k) ==
  LET h == image.headers[s]
  IN  byte_at(ptable, h.p_vaddr + k) = file_byte(h.p_offset + k)
CopiedInPlace ==
  Ascending(image) =>
    \A s \in DOMAIN image.headers : Loadable(image, s) =>
      \A k \in FilePart(image.headers[s]) : Copied(s, k) => InPlace(s, k)

(* The bytes of an ascending file are inside the address space.             *)
LEMMA Fits ==
  ASSUME NEW h \in Header, NEW k \in FilePart(h),
         h.p_vaddr + h.p_filesz + (h.p_vaddr % PAGESIZE) <= AddrMod
  PROVE  h.p_vaddr + k \in Address
<1> DEFINE r == h.p_vaddr % PAGESIZE
<1>1. /\ h.p_vaddr \in Nat /\ h.p_filesz \in Nat
      /\ PAGESIZE \in Nat \ {0} /\ AddrMod \in Nat
  BY SizeAssumption DEF Header, Address
<1>2. r \in Nat
  BY <1>1
<1>3. h.p_vaddr + h.p_filesz + r <= AddrMod
  OBVIOUS
<1> HIDE DEF r
<1> QED
  BY <1>1, <1>2, <1>3 DEF FilePart, Address

(* The copy does not come back to a byte below: segments are ascending.     *)
LEMMA CopyKeeps ==
  ASSUME LoaderTypeOK, TableOK, CopiedInPlace, Ascending(image), CopyByte,
         NEW s \in DOMAIN image.headers, Loadable(image, s),
         NEW k \in FilePart(image.headers[s]), Copied(s, k)'
  PROVE  InPlace(s, k)'
<1> DEFINE h == image.headers[s]
           g == image.headers[seg]
           a == g.p_vaddr + j
<1>1. /\ phase = "copy" /\ j < CopyEnd /\ j' = j + 1
      /\ UNCHANGED <<image, seg, phase>>
  BY DEF CopyByte
<1>2. /\ seg \in DOMAIN image.headers /\ seg \in Nat /\ s \in Nat /\ j \in Nat
      /\ Loadable(image, seg) /\ h \in Header /\ g \in Header
  BY <1>1, ImageTypes DEF LoaderTypeOK
<1>3. /\ h.p_vaddr \in Nat /\ g.p_vaddr \in Nat /\ h.p_filesz \in Nat /\ g.p_filesz \in Nat
      /\ h.p_offset \in Nat /\ AddrMod \in Nat \ {0} /\ PAGESIZE \in Nat \ {0}
  BY <1>2, SizeAssumption DEF Header, Address
<1>4. /\ k \in Nat /\ k < h.p_filesz
  BY <1>3 DEF FilePart
<1>5. /\ h.p_vaddr % PAGESIZE \in Nat /\ g.p_vaddr % PAGESIZE \in Nat
      /\ h.p_vaddr + h.p_filesz + (h.p_vaddr % PAGESIZE) <= AddrMod
      /\ g.p_vaddr + g.p_filesz + (g.p_vaddr % PAGESIZE) <= AddrMod
      /\ s < seg => h.p_vaddr + h.p_filesz <= g.p_vaddr
  BY <1>2, <1>3 DEF Ascending
<1>6. j < g.p_filesz + (g.p_vaddr % PAGESIZE)
  BY <1>1 DEF CopyEnd, progHeader, v_align
<1>7. h.p_vaddr + k \in Address /\ a \in Address
  BY <1>2, <1>3, <1>4, <1>5, <1>6 DEF Address
<1>8. a % AddrMod = a
  BY <1>7, Wrap
<1>9. byte_at(ptable', h.p_vaddr + k) = IF h.p_vaddr + k = a THEN file_byte(g.p_offset + j)
                                        ELSE byte_at(ptable, h.p_vaddr + k)
  BY <1>7, <1>8, TableStep DEF progHeader
<1>10. CASE s = seg /\ k = j
  BY <1>1, <1>9, <1>10 DEF InPlace, file_byte
<1>11. CASE ~(s = seg /\ k = j)
  <2>1. Copied(s, k) /\ (s < seg \/ (s = seg /\ k < j))
    BY <1>1, <1>2, <1>4, <1>11 DEF Copied
  <2>2. h.p_vaddr + k # a
    BY <2>1, <1>2, <1>3, <1>4, <1>5
  <2>3. InPlace(s, k)
    BY <2>1 DEF CopiedInPlace
  <2> QED
    BY <2>2, <2>3, <1>1, <1>9 DEF InPlace, file_byte
<1> QED
  BY <1>10, <1>11

(* Every step keeps the copied bytes in place.                              *)
LEMMA CopiedNext ==
  LoaderTypeOK /\ TableOK /\ CopiedInPlace /\ [Next]_vars => CopiedInPlace'
<1> SUFFICES ASSUME LoaderTypeOK, TableOK, CopiedInPlace, [Next]_vars,
                    Ascending(image'),
                    NEW s \in DOMAIN image'.headers, Loadable(image', s),
                    NEW k \in FilePart(image'.headers[s]), Copied(s, k)'
             PROVE  InPlace(s, k)'
  BY DEF CopiedInPlace
<1>1. image' = image
  BY DEF Next, vars, loadvars, Start, NoFile, Load, BusError, runElf, Log, EndCheckpoint, finalize,
         NullRead, ReadCheckpoint, Access, CachedAccess, Fetch, loadElf, ReadHeader, CopyByte, EndCopy,
         MapBss, EndBss, EndHeaders, ReadSection, Return
<1>2. /\ s \in Nat /\ seg \in Nat /\ image.headers[s] \in Header /\ k \in Nat /\ j \in Nat
      /\ k < image.headers[s].p_filesz /\ s <= Len(image.headers)
      /\ Len(image.headers) \in Nat
  BY <1>1, ImageTypes DEF LoaderTypeOK, FilePart, Header
<1>3. CASE CopyByte
  BY <1>1, <1>3, CopyKeeps
<1>4. CASE MapBss
  <2>1. Copied(s, k)
    BY <1>4 DEF Copied, MapBss
  <2>2. image.headers[s].p_vaddr + k \in Address
    BY <1>1, <1>2, Fits DEF Ascending
  <2> QED
    BY <1>1, <1>4, <2>1, <2>2, TableStep DEF CopiedInPlace, InPlace, file_byte
<1>5. CASE Load /\ ~CopyByte /\ ~MapBss
  <2>1. Copied(s, k)
    <3>1. CASE ReadHeader
      <4>1. phase = "header" /\ (seg # s \/ phase' = "copy")
        BY <1>1, <3>1 DEF ReadHeader, Loadable, progHeader
      <4> QED
        BY <1>2, <3>1, <4>1 DEF Copied, ReadHeader, NextHeader
    <3>2. CASE EndCopy
      <4>1. s = seg => k < j
        <5>1. ASSUME s = seg PROVE CopyEnd >= image.headers[s].p_filesz /\ CopyEnd \in Nat
          <6>1. /\ image.headers[s].p_vaddr \in Nat /\ image.headers[s].p_filesz \in Nat
                /\ PAGESIZE \in Nat \ {0}
            BY <1>2, SizeAssumption DEF Header, Address
          <6>2. image.headers[s].p_vaddr % PAGESIZE \in Nat
            BY <6>1
          <6> QED
            BY <5>1, <6>1, <6>2 DEF CopyEnd, progHeader, v_align
        <5> QED
          BY <1>2, <3>2, <5>1 DEF EndCopy, Header
      <4> QED
        BY <1>2, <3>2, <4>1 DEF Copied, EndCopy, NextHeader
    <3>3. CASE EndBss \/ EndHeaders
      BY <1>2, <3>3 DEF Copied, EndBss, EndHeaders, NextHeader
    <3>4. CASE ReadSection \/ Return
      BY <3>4 DEF Copied, ReadSection, Return
    <3> QED
      BY <1>5, <3>1, <3>2, <3>3, <3>4 DEF Load, loadElf
  <2>2. UNCHANGED ptable
    BY <1>5, LoaderSteps DEF Load, TableSteps
  <2> QED
    BY <1>1, <2>1, <2>2 DEF CopiedInPlace, InPlace, file_byte
<1>6. CASE ~Load
  <2>1. ~Copied(s, k)' \/ UNCHANGED <<ptable, seg, phase, j>>
    BY <1>6 DEF Next, vars, loadvars, Start, NoFile, BusError, runElf, Log, EndCheckpoint, finalize,
                NullRead, ReadCheckpoint, Access, CachedAccess, Fetch, Cycle, Copied, LoaderTypeOK
  <2> QED
    BY <1>1, <2>1 DEF Copied, CopiedInPlace, InPlace, file_byte
<1> QED
  BY <1>3, <1>4, <1>5, <1>6

(* When loading is done every byte the file has for a segment is in memory. *)
THEOREM FileLoadedHolds == Spec => []FileLoaded
<1> DEFINE Inv == LoaderTypeOK /\ TableOK /\ CopiedInPlace
<1>1. Init => Inv
  <2>1. Init => CopiedInPlace
    <3> SUFFICES ASSUME Init,
                        NEW s \in DOMAIN image.headers, NEW k, Copied(s, k)
                 PROVE  FALSE
      BY DEF CopiedInPlace
    <3>1. phase = "header" /\ seg = 1 /\ s \in Nat /\ s >= 1
      BY TableInit, ImageTypes DEF Init, LoadInit, LoaderTypeOK
    <3> QED
      BY <3>1 DEF Copied
  <2> QED
    BY <2>1, TableInit
<1>2. Inv /\ [Next]_vars => Inv'
  BY LoaderTypeNext, TableNext, CopiedNext
<1>3. Inv => FileLoaded
  <2> SUFFICES ASSUME Inv, phase = "done", Ascending(image),
                      NEW h \in Loaded, NEW k \in FilePart(h)
               PROVE  byte_at(ptable, h.p_vaddr + k) = file_byte(h.p_offset + k)
    BY DEF FileLoaded
  <2>1. PICK s \in DOMAIN image.headers : Loadable(image, s) /\ h = image.headers[s]
    BY DEF Loaded, Loadable
  <2> QED
    BY <2>1 DEF CopiedInPlace, Copied, InPlace
<1> QED
  BY <1>1, <1>2, <1>3, PTL DEF Spec

-----------------------------------------------------------------------------
(* The options args heeds and the settings those before the n-th leave.     *)
HeardIn(args) == {n \in DOMAIN args : \A m \in 1 .. n - 1 : ~Fails(args[m])}
Before(args, k, n) == {m \in 1 .. n - 1 : args[m].opt = k}
LastOf(args, k, G) ==
  IF G = {} THEN Defaults[k]
  ELSE LET n == CHOOSE x \in G : \A y \in G : y <= x
       IN  IF k = "v" THEN debug_level(args[n].val) ELSE args[n].val
Setting(args, k, n) == LastOf(args, k, Before(args, k, n))

ConfigOK ==
  /\ Len(argv) \in Nat /\ DOMAIN argv = 1 .. Len(argv)
  /\ optind \in 1 .. Len(argv) + 1
  /\ main = "args" => loop = "off" /\ \A m \in 1 .. optind - 1 : ~Fails(argv[m])
  /\ main # "args" => HeardIn(argv) = 1 .. optind - 1
  /\ DOMAIN conf = DOMAIN Defaults
  /\ \A k \in Settings : conf[k] = Setting(argv, k, optind)

(* One more option is the setting of its letter and no other.               *)
LEMMA OneMore ==
  ASSUME NEW args, NEW n \in Nat \ {0}, NEW k
  PROVE  Setting(args, k, n + 1) =
           IF args[n].opt # k THEN Setting(args, k, n)
           ELSE IF k = "v" THEN debug_level(args[n].val) ELSE args[n].val
<1>1. CASE args[n].opt # k
  <2>1. Before(args, k, n + 1) = Before(args, k, n)
    BY <1>1 DEF Before
  <2> QED
    BY <1>1, <2>1 DEF Setting
<1>2. CASE args[n].opt = k
  <2> DEFINE G == Before(args, k, n + 1)
             m == CHOOSE x \in G : \A y \in G : y <= x
  <2>1. n \in G /\ \A y \in G : y \in Nat /\ y <= n
    BY <1>2 DEF Before
  <2> HIDE DEF G
  <2>2. m \in G /\ \A y \in G : y <= m
    BY <2>1, Zenon
  <2>3. LastOf(args, k, G) = IF k = "v" THEN debug_level(args[m].val) ELSE args[m].val
    BY <2>1 DEF LastOf
  <2> HIDE DEF m
  <2>4. m = n
    BY <2>1, <2>2
  <2> QED
    BY <1>2, <2>3, <2>4 DEF Setting, G
<1> QED
  BY <1>1, <1>2

(* Every step keeps the settings what the options heard so far ask for.     *)
LEMMA ConfigNext == ConfigOK /\ [Next]_vars => ConfigOK'
<1> SUFFICES ASSUME ConfigOK, [Next]_vars PROVE ConfigOK'
  OBVIOUS
<1>1. CASE ParseOption /\ UNCHANGED logvars
  <2> DEFINE o == argv[optind]
             val == IF o.opt = "v" THEN debug_level(o.val) ELSE o.val
  <2>1. /\ main = "args" /\ optind \in Nat \ {0} /\ optind <= Len(argv) /\ Len(argv) \in Nat
        /\ argv' = argv /\ optind' = optind + 1
        /\ conf' = IF o.opt = "?" THEN conf ELSE [conf EXCEPT ![o.opt] = val]
        /\ main' = IF LastOption THEN "init" ELSE "args"
        /\ loop = "off" /\ loop' = loop
    BY <1>1 DEF ParseOption, ConfigOK, logvars
  <2>2. \A m \in 1 .. optind - 1 : ~Fails(argv[m])
    BY <2>1 DEF ConfigOK
  <2>3. main' = "args" => \A m \in 1 .. optind : ~Fails(argv[m])
    BY <2>1, <2>2 DEF LastOption
  <2>4. main' # "args" => HeardIn(argv) = 1 .. optind
    <3>1. \A n \in 1 .. optind : n \in HeardIn(argv)
      BY <2>1, <2>2 DEF HeardIn, ConfigOK
    <3>2. ASSUME LastOption, NEW n \in DOMAIN argv, n > optind
          PROVE  n \notin HeardIn(argv)
      <4>1. n \in 1 .. Len(argv)
        BY <3>2 DEF ConfigOK
      <4>2. n \in Nat /\ optind \in 1 .. n - 1 /\ optind # Len(argv)
        BY <2>1, <3>2, <4>1
      <4>3. Fails(argv[optind])
        BY <3>2, <4>2 DEF LastOption
      <4> QED
        BY <4>2, <4>3 DEF HeardIn
    <3>3. HeardIn(argv) \subseteq 1 .. Len(argv)
      BY DEF HeardIn, ConfigOK
    <3>4. LastOption => \A n : n \in HeardIn(argv) <=> n \in 1 .. optind
      BY <2>1, <3>1, <3>2, <3>3 DEF ConfigOK
    <3> QED
      BY <2>1, <3>4
  <2>5. ASSUME NEW k \in Settings
        PROVE  conf'[k] = Setting(argv, k, optind + 1)
    <3>1. conf[k] = Setting(argv, k, optind) /\ k \in DOMAIN conf /\ k # "?"
      BY DEF ConfigOK, Settings, Defaults
    <3> HIDE DEF o
    <3>2. conf'[k] = IF o.opt # k THEN conf[k] ELSE val
      BY <2>1, <3>1
    <3> QED
      BY <2>1, <3>1, <3>2, OneMore DEF o
  <2> HIDE DEF o, val
  <2>6. DOMAIN conf' = DOMAIN Defaults
    BY <2>1 DEF ConfigOK
  <2> QED
    BY <2>1, <2>3, <2>4, <2>5, <2>6 DEF ConfigOK
<1>2. CASE NoOptions
  <2>1. HeardIn(argv) = 1 .. optind - 1
    <3>1. main = "args" /\ optind > Len(argv)
      BY <1>2 DEF NoOptions
    <3> QED
      BY <3>1 DEF ConfigOK, HeardIn
  <2> QED
    BY <1>2, <2>1 DEF NoOptions, ConfigOK
<1>3. CASE /\ UNCHANGED <<argv, optind, conf>> /\ (main' = "args" <=> main = "args")
           /\ main = "args" => UNCHANGED loop
  BY <1>3 DEF ConfigOK
<1>4. CASE init /\ UNCHANGED logvars
  <2>1. /\ conf' = [conf EXCEPT !["o"] = stdout] /\ UNCHANGED <<argv, optind>>
        /\ main # "args" /\ main' # "args"
    BY <1>4 DEF init
  <2>2. DOMAIN conf' = DOMAIN Defaults /\ \A k \in Settings : conf'[k] = conf[k]
    BY <2>1 DEF ConfigOK, Settings
  <2> QED
    BY <2>1, <2>2 DEF ConfigOK
<1>5. \/ ParseOption /\ UNCHANGED logvars
      \/ NoOptions
      \/ init /\ UNCHANGED logvars
      \/ /\ UNCHANGED <<argv, optind, conf>> /\ (main' = "args" <=> main = "args")
         /\ main = "args" => UNCHANGED loop
  <2>1. CASE Start \/ Load \/ UNCHANGED vars
    BY <2>1 DEF Start, start, Load, vars, startvars, logvars
  <2>2. CASE Log \/ EndCheckpoint
    <3>1. main # "args"
      BY <2>2 DEF ConfigOK, Log, log_machine_state, LogPage, EndSegment, EndCheckpoint, Segment
    <3>2. UNCHANGED <<argv, optind, conf>> /\ main' \in {main, "exit", "final"}
      BY <2>2 DEF Log, EndCheckpoint, Die, Goto, KeepSettings, startvars
    <3> QED
      BY <3>1, <3>2
  <2>3. CASE NoFile \/ BusError \/ runElf \/ finalize \/ NullRead \/ CachedAccess
    BY <2>3 DEF NoFile, BusError, runElf, finalize, NullRead, CachedAccess, Cycle, Die,
               Goto, KeepSettings
  <2>4. CASE ReadCheckpoint \/ Access \/ Fetch
    BY <2>4 DEF ReadCheckpoint, Cycle, Access, CachedAccess, Fetch, startvars
  <2> QED
    BY <2>1, <2>2, <2>3, <2>4 DEF Next
<1> QED
  BY <1>1, <1>2, <1>3, <1>4, <1>5

(* The settings begin as what no option asks for.                           *)
LEMMA ConfigInit == Init => ConfigOK
<1> SUFFICES ASSUME Init PROVE ConfigOK
  OBVIOUS
<1>1. PICK b \in Boots : StartInit(b.argv)
  BY DEF Init
<1>2. argv \in Seq(Option) /\ optind = 1 /\ conf = Defaults /\ main = "args" /\ loop = "off"
  BY <1>1, BootAssumption DEF StartInit, Init, LogInit
<1>3. \A k : Setting(argv, k, 1) = Defaults[k]
  BY DEF Setting, LastOf, Before
<1> QED
  BY <1>2, <1>3 DEF ConfigOK

(* The settings are what the settings of the options heard are.             *)
LEMMA ConfigAsked == ConfigOK => Configured
<1> SUFFICES ASSUME ConfigOK, main # "args", NEW k \in Settings
             PROVE  conf[k] = Asked(k)
  BY DEF Configured
<1>1. Heard = 1 .. optind - 1
  BY DEF Heard, HeardIn, ConfigOK
<1>2. Given(k) = Before(argv, k, optind)
  BY <1>1 DEF Given, Before
<1>3. Asked(k) = LastOf(argv, k, Given(k))
  BY DEF Asked, LastOf
<1> QED
  BY <1>2, <1>3 DEF ConfigOK, Setting

(* Once the arguments have been handled every setting but the output file,  *)
(* which init takes back, is the one asked for.                             *)
THEOREM ConfiguredHolds == Spec => []Configured
BY ConfigInit, ConfigNext, ConfigAsked, PTL DEF Spec

-----------------------------------------------------------------------------
(* A cache is one whose parameters are set, and a checkpoint is written     *)
(* only when there is a file for it.                                        *)
Cause == /\ WantsCache
         /\ BlockBytes = 0 \/ (unsigned(conf["d"]) = 0 /\ conf["c"] # NULL)
CacheOK ==
  /\ main \in {"args", "init"} => cache = NoCache /\ loop = "off" /\ exit # "sigfpe"
  /\ cache # NoCache => WantsCache /\ cache.d = unsigned(conf["d"])
  /\ loop # "off" => conf["c"] # NULL
  /\ exit = "sigfpe" => Cause

(* Every step keeps CacheOK.                                                *)
LEMMA CacheNext == CacheOK /\ ConfigOK /\ [Next]_vars => CacheOK'
<1> SUFFICES ASSUME CacheOK, ConfigOK, [Next]_vars PROVE CacheOK'
  OBVIOUS
<1> USE DEF CacheOK, Cause, WantsCache, BlockBytes
<1>1. CASE ParseOption /\ UNCHANGED logvars
  BY <1>1 DEF ParseOption, logvars
<1>2. CASE init /\ UNCHANGED logvars
  <2>1. create_cache.d = unsigned(conf["d"])
    BY DEF create_cache
  <2>2. \A k \in Geometry \cup {"c"} : conf'[k] = conf[k]
    <3>1. Geometry \cup {"c"} \subseteq DOMAIN conf \ {"o"}
      BY DEF ConfigOK, Defaults, Geometry
    <3> QED
      BY <1>2, <3>1 DEF init
  <2>3. (WantsCache' <=> WantsCache) /\ (Cause' <=> Cause) /\ unsigned(conf'["d"]) = unsigned(conf["d"])
    BY <2>2 DEF Geometry
  <2> QED
    BY <1>2, <2>1, <2>3 DEF init, logvars
<1>3. CASE EndCheckpoint
  <2>1. UNCHANGED <<conf, cache>> /\ loop = "cache" /\ loop' = "off"
    BY <1>3 DEF EndCheckpoint, KeepSettings
  <2>2. exit' = "sigfpe" => exit = "sigfpe" \/ (cache # NoCache /\ cache.d = 0)
    BY <1>3 DEF EndCheckpoint, Die, Goto
  <2>3. main' \in {main, "exit"}
    BY <1>3 DEF EndCheckpoint, Die, Goto
  <2> QED
    BY <2>1, <2>2, <2>3
<1>4. CASE /\ UNCHANGED <<conf, cache>>
           /\ loop' # "off" => loop # "off" \/ conf["c"] # NULL
           /\ main' \in {"args", "init"} => main \in {"args", "init"} /\ UNCHANGED loop
           /\ exit' = "sigfpe" => exit = "sigfpe"
  BY <1>4
<1>5. \/ ParseOption /\ UNCHANGED logvars
      \/ init /\ UNCHANGED logvars
      \/ EndCheckpoint
      \/ /\ UNCHANGED <<conf, cache>>
         /\ loop' # "off" => loop # "off" \/ conf["c"] # NULL
         /\ main' \in {"args", "init"} => main \in {"args", "init"} /\ UNCHANGED loop
         /\ exit' = "sigfpe" => exit = "sigfpe"
  <2>1. CASE Start \/ Load \/ UNCHANGED vars
    BY <2>1 DEF Start, start, NoOptions, Load, vars, startvars, logvars
  <2>2. CASE Log
    <3>1. loop # "off" /\ UNCHANGED startvars
      BY <2>2 DEF Log, log_machine_state, LogPage, EndSegment, Segment
    <3> QED
      BY <3>1 DEF startvars
  <2>3. CASE NoFile \/ BusError \/ runElf \/ finalize \/ NullRead \/ CachedAccess
    BY <2>3 DEF NoFile, BusError, runElf, finalize, NullRead, CachedAccess, Cycle, Die,
               Goto, KeepSettings, logvars
  <2>4. CASE ReadCheckpoint \/ Access \/ Fetch
    BY <2>4 DEF ReadCheckpoint, Cycle, Access, CachedAccess, Fetch, startvars, logvars
  <2> QED
    BY <2>1, <2>2, <2>3, <2>4 DEF Next
<1> QED
  BY <1>1, <1>2, <1>3, <1>4, <1>5

(* A division by zero has one of two causes, both on the command line.      *)
THEOREM SigfpeCauseHolds == Spec => []SigfpeCause
<1>1. Init => CacheOK
  BY DEF Init, StartInit, LogInit, CacheOK
<1>2. CacheOK /\ ConfigOK => SigfpeCause
  <2> SUFFICES ASSUME CacheOK, ConfigOK, exit = "sigfpe" PROVE SigfpeCause
    BY DEF SigfpeCause
  <2>1. Cause /\ main # "args"
    BY DEF CacheOK
  <2>2. \A k \in Settings : conf[k] = Asked(k)
    BY <2>1, ConfigAsked DEF Configured
  <2>3. Geometry \subseteq Settings /\ "c" \in Settings
    BY DEF Geometry, Settings, Defaults
  <2> QED
    BY <2>1, <2>2, <2>3 DEF SigfpeCause, Cause, WantsCache, BlockBytes, Geometry
<1> QED
  BY <1>1, <1>2, CacheNext, ConfigInit, ConfigNext, PTL DEF Spec

-----------------------------------------------------------------------------
(* The checkpoint of memory.                                                *)

(* Division by the page size.                                               *)
LEMMA Division ==
  ASSUME NEW d \in Nat \ {0}, NEW q \in Nat, NEW r \in 0 .. d - 1
  PROVE  (d * q + r) \div d = q /\ (d * q + r) % d = r
<1> DEFINE n == d * q + r
           p == n \div d
           t == n % d
<1>1. n \in Nat /\ p \in Nat /\ t \in 0 .. d - 1 /\ n = d * p + t
  <2>1. d * q \in Nat
    OBVIOUS
  <2>2. n \in Nat
    BY <2>1
  <2> HIDE DEF n
  <2> QED
    BY <2>2
<1> HIDE DEF p, t
<1>2. d * q + r = d * p + t
  BY <1>1
<1>3. p = q
  <2>1. CASE p < q
    <3>1. PICK e \in Nat : q = p + e + 1
      <4>1. q - p - 1 \in Nat
        BY <1>1, <2>1
      <4> QED
        BY <4>1, <1>1
    <3>2. d * q = d * p + d * e + d
      BY <3>1, <1>1
    <3>3. d * e \in Nat
      BY <3>1
    <3> QED
      BY <3>2, <3>3, <1>1, <1>2
  <2>2. CASE p > q
    <3>1. PICK e \in Nat : p = q + e + 1
      <4>1. p - q - 1 \in Nat
        BY <1>1, <2>2
      <4> QED
        BY <4>1, <1>1
    <3>2. d * p = d * q + d * e + d
      BY <3>1, <1>1
    <3>3. d * e \in Nat
      BY <3>1
    <3> QED
      BY <3>2, <3>3, <1>1, <1>2
  <2> QED
    BY <1>1, <2>1, <2>2
<1>4. t = r
  BY <1>1, <1>2, <1>3
<1> QED
  BY <1>3, <1>4 DEF n, p, t

(* Addresses wrap at both ends of memory.                                   *)
LEMMA WrapOnce ==
  ASSUME NEW m \in Nat \ {0}, NEW x \in Int, -m <= x, x < 2 * m
  PROVE  x % m = IF x < 0 THEN x + m ELSE IF x >= m THEN x - m ELSE x
<1> DEFINE k == x \div m
           t == x % m
<1>1. k \in Int /\ t \in 0 .. m - 1 /\ x = m * k + t
  OBVIOUS
<1> HIDE DEF k, t
<1>2. k \in {-1, 0, 1}
  <2>1. CASE k > 1
    <3>1. PICK e \in Nat : k = 2 + e
      <4>1. k - 2 \in Nat
        BY <1>1, <2>1
      <4> QED
        BY <4>1, <1>1
    <3>2. m * k = 2 * m + m * e /\ m * e \in Nat
      BY <3>1
    <3> QED
      BY <3>2, <1>1
  <2>2. CASE k < -1
    <3>1. PICK e \in Nat : k = -2 - e
      <4>1. -2 - k \in Nat
        BY <1>1, <2>2
      <4> QED
        BY <4>1, <1>1
    <3>2. m * k = -(2 * m) - m * e /\ m * e \in Nat
      BY <3>1
    <3> QED
      BY <3>2, <1>1
  <2> QED
    BY <1>1, <2>1, <2>2
<1>3. m * k = IF k = -1 THEN -m ELSE IF k = 0 THEN 0 ELSE m
  BY <1>2
<1>4. t = IF x < 0 THEN x + m ELSE IF x >= m THEN x - m ELSE x
  BY <1>1, <1>2, <1>3
<1> QED
  BY <1>4 DEF t

-----------------------------------------------------------------------------
Pages == AddrMod \div PAGESIZE

(* The address of a page's byte.                                            *)
LEMMA PageParts ==
  /\ Pages \in Nat \ {0} /\ AddrMod = PAGESIZE * Pages /\ PageNum = 0 .. Pages - 1
  /\ \A a \in Address : a = PAGESIZE * pnum(a) + poff(a)
  /\ \A n \in PageNum, o \in Offset :
       PAGESIZE * n + o \in Address /\ pnum(PAGESIZE * n + o) = n /\ poff(PAGESIZE * n + o) = o
<1> USE SizeAssumption
<1>1. ASSUME NEW a \in Nat
      PROVE  /\ a \div PAGESIZE \in Nat /\ a % PAGESIZE \in 0 .. PAGESIZE - 1
             /\ a = PAGESIZE * (a \div PAGESIZE) + (a % PAGESIZE)
  OBVIOUS
<1>2. Pages \in Nat /\ AddrMod = PAGESIZE * Pages /\ PageNum = 0 .. Pages - 1
  BY <1>1 DEF Pages, PageNum
<1>3. Pages # 0
  BY <1>2
<1>4. ASSUME NEW a \in Address
      PROVE  a = PAGESIZE * pnum(a) + poff(a)
  BY <1>1 DEF pnum, poff, Address
<1>5. ASSUME NEW n \in PageNum, NEW o \in Offset
      PROVE  PAGESIZE * n + o \in Address /\ pnum(PAGESIZE * n + o) = n
             /\ poff(PAGESIZE * n + o) = o
  <2>1. n \in Nat /\ o \in 0 .. PAGESIZE - 1
    BY <1>2 DEF Offset
  <2>2. PICK e \in Nat : Pages = n + 1 + e
    <3>1. Pages - n - 1 \in Nat
      BY <1>2, <2>1
    <3> QED
      BY <3>1, <1>2, <2>1
  <2>3. /\ PAGESIZE * Pages = PAGESIZE * n + PAGESIZE + PAGESIZE * e
        /\ PAGESIZE * e \in Nat /\ PAGESIZE * n \in Nat
    BY <2>1, <2>2
  <2>4. PAGESIZE * n + o \in Address
    BY <1>2, <2>1, <2>3 DEF Address
  <2>5. (PAGESIZE * n + o) \div PAGESIZE = n /\ (PAGESIZE * n + o) % PAGESIZE = o
    BY <2>1, Division
  <2> QED
    BY <2>4, <2>5 DEF pnum, poff
<1> QED
  BY <1>2, <1>3, <1>4, <1>5

NextPage(s, n) == IF s = "STACK" THEN IF n = 0 THEN Pages - 1 ELSE n - 1
                  ELSE IF n + 1 = Pages THEN 0 ELSE n + 1

(* The walk over the pages goes from a page to the next one.                *)
LEMMA NextPageStep ==
  ASSUME NEW s, NEW a \in Address, poff(a) = 0
  PROVE  /\ next_addr(s, a) \in Address /\ poff(next_addr(s, a)) = 0
         /\ pnum(next_addr(s, a)) = NextPage(s, pnum(a))
<1> USE SizeAssumption
<1> DEFINE n == pnum(a)
           m == NextPage(s, n)
<1>1. a = PAGESIZE * n /\ n \in PageNum
  BY PageParts, AddressParts
<1>2. Pages \in Nat \ {0} /\ AddrMod = PAGESIZE * Pages /\ n \in 0 .. Pages - 1
  BY <1>1, PageParts
<1>3. next_addr(s, a) = (IF s = "STACK" THEN a - PAGESIZE ELSE a + PAGESIZE) % AddrMod
  BY DEF next_addr
<1> HIDE DEF n
<1>4. m \in PageNum
  BY <1>2, PageParts DEF NextPage
<1>5. PAGESIZE * m \in Address /\ pnum(PAGESIZE * m) = m /\ poff(PAGESIZE * m) = 0
  <2>1. 0 \in Offset
    BY DEF Offset
  <2>2. PAGESIZE * m + 0 = PAGESIZE * m
    BY <1>2, <1>4, PageParts
  <2> QED
    BY <1>4, <2>1, <2>2, PageParts
<1>6. next_addr(s, a) = PAGESIZE * m
  <2>1. PAGESIZE * n \in Nat /\ PAGESIZE * n <= AddrMod - PAGESIZE
    <3>1. PICK e \in Nat : Pages = n + 1 + e
      <4>1. Pages - n - 1 \in Nat
        BY <1>2
      <4> QED
        BY <4>1, <1>2
    <3>2. PAGESIZE * Pages = PAGESIZE * n + PAGESIZE + PAGESIZE * e
          /\ PAGESIZE * e \in Nat /\ PAGESIZE * n \in Nat
      BY <1>2, <3>1
    <3> QED
      BY <1>2, <3>2
  <2>2. CASE s = "STACK"
    <3>1. PAGESIZE * m = IF n = 0 THEN PAGESIZE * Pages - PAGESIZE
                         ELSE PAGESIZE * n - PAGESIZE
      BY <1>2, <2>2 DEF NextPage
    <3>2. n # 0 => PAGESIZE * n >= PAGESIZE
      <4>1. n # 0 => n - 1 \in Nat /\ PAGESIZE * n = PAGESIZE * (n - 1) + PAGESIZE
        BY <1>2
      <4>2. n # 0 => PAGESIZE * (n - 1) \in Nat
        BY <4>1
      <4> QED
        BY <4>1, <4>2
    <3>3. a = 0 <=> n = 0
      BY <1>1, <1>2, <3>2
    <3>4. (a - PAGESIZE) % AddrMod = IF a - PAGESIZE < 0 THEN a - PAGESIZE + AddrMod
                                     ELSE a - PAGESIZE
      <4>1. a - PAGESIZE \in Int /\ -AddrMod <= a - PAGESIZE /\ a - PAGESIZE < AddrMod
        BY <1>1, <1>2, <2>1
      <4> QED
        BY <4>1, WrapOnce
    <3> QED
      BY <1>1, <1>2, <1>3, <2>1, <2>2, <3>1, <3>2, <3>3, <3>4
  <2>3. CASE s # "STACK"
    <3>1. PAGESIZE * m = IF n + 1 = Pages THEN 0 ELSE PAGESIZE * n + PAGESIZE
      BY <1>2, <2>3 DEF NextPage
    <3>2. n + 1 = Pages => PAGESIZE * Pages = PAGESIZE * n + PAGESIZE
      BY <1>2
    <3>3. n + 1 # Pages => PAGESIZE * n + PAGESIZE < AddrMod
      <4>1. n + 1 # Pages => m = n + 1 /\ m \in PageNum
        BY <1>4, <2>3 DEF NextPage
      <4> QED
        BY <1>2, <1>5, <2>3, <3>1, <4>1 DEF Address
    <3>4. PICK x : x = a + PAGESIZE /\ x = PAGESIZE * n + PAGESIZE
      BY <1>1
    <3>5. x \in 0 .. AddrMod
      BY <1>2, <2>1, <3>4
    <3>6. x % AddrMod = IF x = AddrMod THEN 0 ELSE x
      <4>1. x \in Int /\ -AddrMod <= x /\ x < 2 * AddrMod /\ AddrMod \in Nat \ {0}
        BY <3>5
      <4>2. x % AddrMod = IF x < 0 THEN x + AddrMod ELSE IF x >= AddrMod THEN x - AddrMod ELSE x
        BY <4>1, WrapOnce, Zenon
      <4>3. x = AddrMod => x - AddrMod = 0
        BY <4>1
      <4> DEFINE r == x % AddrMod
      <4> HIDE DEF r
      <4>4. r = IF x < 0 THEN x + AddrMod ELSE IF x >= AddrMod THEN x - AddrMod ELSE x
        BY <4>2 DEF r
      <4>5. r = IF x = AddrMod THEN 0 ELSE x
        BY <3>5, <4>1, <4>4
      <4> QED
        BY <4>5 DEF r
    <3>7. PAGESIZE * m = IF x = AddrMod THEN 0 ELSE x
      BY <1>2, <3>1, <3>2, <3>3, <3>4
    <3> QED
      BY <1>3, <2>3, <3>4, <3>6, <3>7
  <2> QED
    BY <2>2, <2>3
<1> QED
  BY <1>5, <1>6 DEF n

-----------------------------------------------------------------------------
(* The walk: the pages it has passed when it looks at page n.               *)
Passed(s, n) == Between(s, n) \ {n}
First(s) == pnum(first_addr(s))

(* One step on, the page it looked at has been passed too, unless it is     *)
(* back at the first page; then it has passed them all.                     *)
LEMMA PassedNext ==
  ASSUME NEW s, NEW n \in PageNum, First(s) \in PageNum
  PROVE  /\ Passed(s, First(s)) = {}
         /\ NextPage(s, n) \in PageNum
         /\ IF NextPage(s, n) = First(s) THEN Passed(s, n) \cup {n} = PageNum
            ELSE Passed(s, NextPage(s, n)) = Passed(s, n) \cup {n}
<1> DEFINE f == First(s)
<1>1. /\ Pages \in Nat \ {0} /\ PageNum = 0 .. Pages - 1
      /\ n \in 0 .. Pages - 1 /\ f \in 0 .. Pages - 1
  BY PageParts
<1>2. \A x : Passed(s, x) = (IF s = "STACK" THEN Upto(x, f) ELSE Upto(f, x)) \ {x}
  BY DEF Passed, Between, First
<1> HIDE DEF f
<1>3. CASE s = "STACK"
  BY <1>1, <1>2, <1>3 DEF NextPage, Upto, f
<1>4. CASE s # "STACK"
  BY <1>1, <1>2, <1>4 DEF NextPage, Upto, f
<1> QED
  BY <1>3, <1>4

(* A walk that has only met pages that are there, and stops at one that is  *)
(* not, has passed the extent of the segment.                               *)
LEMMA PassedAll ==
  ASSUME NEW s, NEW n \in PageNum, First(s) \in PageNum,
         ~present(ptable, n), \A m \in Passed(s, n) : present(ptable, m)
  PROVE  Extent(s) = Passed(s, n)
<1> DEFINE f == First(s)
<1>1. /\ Pages \in Nat \ {0} /\ PageNum = 0 .. Pages - 1
      /\ n \in 0 .. Pages - 1 /\ f \in 0 .. Pages - 1
  BY PageParts
<1>2. \A x : Between(s, x) = IF s = "STACK" THEN Upto(x, f) ELSE Upto(f, x)
  BY DEF Between, First
<1> HIDE DEF f
<1>3. \A x \in PageNum : n \notin Between(s, x) => x \in Passed(s, n)
  BY <1>1, <1>2 DEF Passed, Upto
<1>4. \A x \in Passed(s, n) : x \in PageNum /\ \A y \in Between(s, x) : y \in Passed(s, n)
  BY <1>1, <1>2 DEF Passed, Upto
<1> QED
  BY <1>3, <1>4 DEF Extent

-----------------------------------------------------------------------------
(* A word does not cross the end of its page, and is aligned in memory when *)
(* it is in its page.                                                       *)
LEMMA WordInPage ==
  ASSUME NEW i \in Offset
  PROVE  /\ i % WORD = 0 => \A k \in 0 .. WORD - 1 : i + k \in Offset
         /\ \A n \in PageNum : (PAGESIZE * n + i) % WORD = i % WORD
<1> USE SizeAssumption, WordAssumption
<1> DEFINE c == i \div WORD
           r == i % WORD
           q == PAGESIZE \div WORD
<1>1. c \in Nat /\ r \in 0 .. WORD - 1 /\ i = WORD * c + r /\ i \in 0 .. PAGESIZE - 1
  BY DEF Offset
<1>2. q \in Nat /\ PAGESIZE = WORD * q
  <2>1. q \in Nat /\ PAGESIZE = WORD * q + (PAGESIZE % WORD)
    OBVIOUS
  <2> HIDE DEF q
  <2> QED
    BY <2>1
<1> HIDE DEF c, r, q
<1>3. ASSUME r = 0, NEW k \in 0 .. WORD - 1
      PROVE  i + k \in Offset
  <2>1. c < q
    <3> SUFFICES ASSUME c >= q PROVE FALSE
      BY <1>1, <1>2
    <3>1. PICK e \in Nat : c = q + e
      <4>1. c - q \in Nat
        BY <1>1, <1>2
      <4> QED
        BY <4>1, <1>1, <1>2
    <3>2. WORD * c = WORD * q + WORD * e /\ WORD * e \in Nat
      BY <3>1, <1>2
    <3> QED
      BY <3>2, <1>1, <1>2, <1>3
  <2>2. PICK e \in Nat : q = c + 1 + e
    <3>1. q - c - 1 \in Nat
      BY <1>1, <1>2, <2>1
    <3> QED
      BY <3>1, <1>1, <1>2
  <2>3. WORD * q = WORD * c + WORD + WORD * e /\ WORD * e \in Nat
    BY <2>2, <1>1
  <2> QED
    BY <2>3, <1>1, <1>2, <1>3 DEF Offset
<1>4. ASSUME NEW n \in PageNum
      PROVE  (PAGESIZE * n + i) % WORD = r
  <2>1. n \in Nat
    BY PageParts
  <2>2. q * n + c \in Nat
    BY <1>1, <1>2, <2>1
  <2>3. WORD * (q * n + c) = WORD * q * n + WORD * c
    BY <1>1, <1>2, <2>1
  <2>4. PAGESIZE * n + i = WORD * (q * n + c) + r
    BY <1>1, <1>2, <2>1, <2>3
  <2>5. (WORD * (q * n + c) + r) % WORD = r
    BY <1>1, <2>2, Division
  <2> QED
    BY <2>4, <2>5, Zenon
<1> QED
  BY <1>3, <1>4 DEF r

\* The words of page n that are not zero.
PageWords(s, n) ==
  {[segment |-> s, address |-> a, data |-> WordAt(a)] :
     a \in {x \in Address : /\ x % WORD = 0 /\ pnum(x) = n
                            /\ \E k \in 0 .. WORD - 1 : WordAt(x)[k] # 0}}

(* A byte of a page that is there, as memory has it.                        *)
LEMMA PageBytes ==
  ASSUME TableOK, NEW n \in PageNum, present(ptable, n), NEW o \in Offset
  PROVE  byte_at(ptable, PAGESIZE * n + o)
           = ptable[ptable_hash(n)][get_page(ptable, n)].p_data[o]
<1> DEFINE a == PAGESIZE * n + o
<1>1. pnum(a) = n /\ poff(a) = o
  BY PageParts
<1> HIDE DEF a
<1> QED
  BY <1>1 DEF byte_at, load, a

(* One page of the dump is the words of the page.                           *)
LEMMA PageLines ==
  ASSUME TableOK, NEW n \in PageNum, present(ptable, n), addr = PAGESIZE * n, NEW s
  PROVE  Lines(s, n, 0) = PageWords(s, n)
<1> USE SizeAssumption, WordAssumption
<1> DEFINE data == ptable[ptable_hash(n)][get_page(ptable, n)].p_data
           word(i) == [k \in 0 .. WORD - 1 |-> data[i + k]]
           at == {i \in 0 .. PAGESIZE - 1 : i % WORD = 0}
           shown == {i \in at : \E k \in 0 .. WORD - 1 : word(i)[k] # 0}
           line(a, w) == [segment |-> s, address |-> a, data |-> w]
           found == {x \in Address : /\ x % WORD = 0 /\ pnum(x) = n
                                     /\ \E k \in 0 .. WORD - 1 : WordAt(x)[k] # 0}
<1>1. Lines(s, n, 0) = {line(PAGESIZE * n + i, word(i)) : i \in shown}
  <2>1. \A i \in 0 .. PAGESIZE - 1 : i - 0 = i
    OBVIOUS
  <2>2. at = {i \in 0 .. PAGESIZE - 1 : (i - 0) % WORD = 0}
    BY <2>1
  <2> QED
    BY <2>2 DEF Lines
<1>2. PageWords(s, n) = {line(a, WordAt(a)) : a \in found}
  BY DEF PageWords
<1>3. ASSUME NEW i \in at
      PROVE  /\ PAGESIZE * n + i \in Address /\ pnum(PAGESIZE * n + i) = n
             /\ (PAGESIZE * n + i) % WORD = 0 /\ WordAt(PAGESIZE * n + i) = word(i)
  <2>1. i \in Offset /\ i % WORD = 0 /\ i \in Nat
    BY DEF Offset
  <2>2. PAGESIZE * n + i \in Address /\ pnum(PAGESIZE * n + i) = n
    BY <2>1, PageParts
  <2>3. (PAGESIZE * n + i) % WORD = 0
    BY <2>1, WordInPage
  <2>4. ASSUME NEW k \in 0 .. WORD - 1
        PROVE  byte_at(ptable, PAGESIZE * n + i + k) = data[i + k]
    <3>1. i + k \in Offset
      BY <2>1, WordInPage
    <3>2. byte_at(ptable, PAGESIZE * n + (i + k)) = data[i + k]
      BY <3>1, PageBytes
    <3>3. PAGESIZE * n + i + k = PAGESIZE * n + (i + k)
      BY <2>1, PageParts
    <3> QED
      BY <3>2, <3>3, Zenon
  <2> HIDE DEF data
  <2>5. WordAt(PAGESIZE * n + i) = word(i)
    BY <2>4 DEF WordAt
  <2> QED
    BY <2>2, <2>3, <2>5
<1>4. ASSUME NEW x \in Address, x % WORD = 0, pnum(x) = n
      PROVE  \E i \in at : x = PAGESIZE * n + i
  <2>1. x = PAGESIZE * n + poff(x) /\ poff(x) \in Offset
    BY <1>4, PageParts, AddressParts
  <2>2. poff(x) % WORD = 0
    BY <1>4, <2>1, WordInPage
  <2> QED
    BY <2>1, <2>2 DEF Offset
<1> HIDE DEF data, word, at, line
<1>5. \A i \in shown : PAGESIZE * n + i \in found
  BY <1>3
<1>6. \A x \in found : \E i \in shown : x = PAGESIZE * n + i
  <2> SUFFICES ASSUME NEW x \in found PROVE \E i \in shown : x = PAGESIZE * n + i
    OBVIOUS
  <2>1. PICK i \in at : x = PAGESIZE * n + i
    BY <1>4
  <2>2. WordAt(x) = word(i)
    BY <1>3, <2>1, Zenon
  <2> QED
    BY <2>1, <2>2
<1> HIDE DEF shown, found
<1>7. \A i \in shown : i \in at
  BY DEF shown
<1>8. \A i \in shown : line(PAGESIZE * n + i, word(i))
                         = line(PAGESIZE * n + i, WordAt(PAGESIZE * n + i))
  BY <1>3, <1>7, Zenon
<1> QED
  <2>1. ASSUME NEW i \in shown
        PROVE  line(PAGESIZE * n + i, word(i)) \in PageWords(s, n)
    BY <1>2, <1>5, <1>8
  <2>2. ASSUME NEW a \in found
        PROVE  line(a, WordAt(a)) \in Lines(s, n, 0)
    <3>1. PICK i \in shown : a = PAGESIZE * n + i
      BY <1>6
    <3> QED
      BY <1>1, <1>8, <3>1
  <2> QED
    BY <1>1, <1>2, <2>1, <2>2

(* The dump a segment should have is the words of the pages of its extent.  *)
LEMMA ExpectedWords ==
  ASSUME NEW s
  PROVE  \A l : l \in Expected(s) <=> \E n \in Extent(s) : l \in PageWords(s, n)
BY DEF Expected, PageWords

-----------------------------------------------------------------------------
(* The inductive invariant of log_machine_state: the part being written     *)
(* holds the words of the pages passed so far, or every page there is is    *)
(* present and the loop goes round for ever; the parts before it are what   *)
(* they should be and those behind it are empty.                            *)
WholePages == {"TEXT", "DATA", "STACK"}
Finished == CASE loop = "DATA"              -> {"TEXT"}
              [] loop \in {"HEAP", "STACK"} -> {"TEXT", "DATA"}
              [] loop = "cache"             -> WholePages
              [] OTHER                      -> {}
SegmentsOK == seg_start_addr \in [Segment -> Address]
AtPage == addr \in Address /\ poff(addr) = 0 /\ pn = pnum(addr)
EveryPage == \A n \in PageNum : present(ptable, n)
Walked(s) == /\ \A n \in Passed(s, pn) : present(ptable, n)
             /\ \A l : l \in Dumped(s) <=> \E n \in Passed(s, pn) : l \in PageWords(s, n)
PartsOK == /\ \A s \in Finished : Dumped(s) = Expected(s)
           /\ \A s \in WholePages \ (Finished \cup {loop}) : Dumped(s) = {}
LogOK == /\ SegmentsOK
         /\ loop \in Segment \cup {"off", "cache"}
         /\ loop # "off" => main \in {"run", "final"} /\ PartsOK
         /\ loop \in WholePages => AtPage /\ (EveryPage \/ Walked(loop))

(* The loop over a segment begins at the start of a page.                   *)
LEMMA FirstPage ==
  ASSUME SegmentsOK, NEW s \in WholePages
  PROVE  first_addr(s) \in Address /\ poff(first_addr(s)) = 0 /\ First(s) \in PageNum
<1>1. ASSUME NEW a \in Address
      PROVE  page_start(a) \in Address /\ poff(page_start(a)) = 0
  <2>1. pnum(a) \in PageNum /\ poff(a) \in Offset /\ a = PAGESIZE * pnum(a) + poff(a)
    BY AddressParts, PageParts
  <2>2. 0 \in Offset
    BY SizeAssumption DEF Offset
  <2>3. PAGESIZE * pnum(a) + 0 \in Address /\ poff(PAGESIZE * pnum(a) + 0) = 0
    BY <2>1, <2>2, PageParts
  <2>4. page_start(a) = a - poff(a)
    BY DEF page_start, poff
  <2>5. PAGESIZE * pnum(a) \in Nat /\ poff(a) \in Nat
    BY <2>1, PageParts, SizeAssumption DEF Offset
  <2>6. page_start(a) = PAGESIZE * pnum(a) + 0
    BY <2>1, <2>4, <2>5
  <2> QED
    BY <2>3, <2>6
<1>2. \A t \in Segment : seg_start_addr[t] \in Address
  BY DEF SegmentsOK
<1>3. ASSUME NEW a \in Address PROVE (a - PAGESIZE) % AddrMod \in Address
  BY SizeAssumption DEF Address
<1>4. first_addr(s) \in Address /\ poff(first_addr(s)) = 0
  BY <1>1, <1>2, <1>3 DEF first_addr, WholePages, Segment
<1> QED
  BY <1>4, AddressParts DEF First

(* Everything the invariant speaks of besides the log's own variables is    *)
(* read from the page table and the starts of the segments.                 *)
LEMMA SameMemory ==
  ASSUME UNCHANGED <<ptable, seg_start_addr>>
  PROVE  /\ (EveryPage' <=> EveryPage) /\ (SegmentsOK' <=> SegmentsOK)
         /\ \A n : present(ptable', n) <=> present(ptable, n)
         /\ \A s : Expected(s)' = Expected(s)
         /\ \A s, n : PageWords(s, n)' = PageWords(s, n)
         /\ \A s, n : Passed(s, n)' = Passed(s, n)
         /\ \A s : first_addr(s)' = first_addr(s) /\ First(s)' = First(s)
<1>1. (EveryPage' <=> EveryPage) /\ (SegmentsOK' <=> SegmentsOK)
  BY DEF EveryPage, SegmentsOK
<1>2. \A n : present(ptable', n) <=> present(ptable, n)
  OBVIOUS
<1>3. \A a : WordAt(a)' = WordAt(a)
  BY DEF WordAt
<1>4. \A s : first_addr(s)' = first_addr(s)
  BY DEF first_addr
<1>5. \A s, n : Between(s, n)' = Between(s, n)
  BY <1>4 DEF Between
<1>6. \A s : Extent(s)' = Extent(s)
  BY <1>5 DEF Extent
<1>7. \A s : Expected(s)' = Expected(s)
  BY <1>3, <1>6 DEF Expected
<1>8. \A s, n : PageWords(s, n)' = PageWords(s, n)
  BY <1>3 DEF PageWords
<1> QED
  BY <1>1, <1>2, <1>4, <1>5, <1>7, <1>8 DEF Passed, First

(* Walked in the next state.                                                *)
LEMMA WalkedNext ==
  ASSUME UNCHANGED <<ptable, seg_start_addr>>, NEW s
  PROVE  Walked(s)' <=>
           /\ \A n \in Passed(s, pn') : present(ptable, n)
           /\ \A l : l \in Dumped(s)' <=> \E n \in Passed(s, pn') : l \in PageWords(s, n)
<1>1. Passed(s, pn)' = Passed(s, pn')
  BY DEF Passed, Between, first_addr
<1>2. \A n : PageWords(s, n)' = PageWords(s, n)
  BY SameMemory
<1>3. Walked(s)' <=>
        /\ \A n \in Passed(s, pn)' : present(ptable', n)
        /\ \A l : l \in Dumped(s)' <=> \E n \in Passed(s, pn)' : l \in PageWords(s, n)'
  BY DEF Walked
<1> QED
  BY <1>1, <1>2, <1>3, SameMemory

(* A loop that begins has passed no page.                                   *)
LEMMA EnterPart ==
  ASSUME SegmentsOK, UNCHANGED <<ptable, seg_start_addr>>, NEW s \in WholePages,
         Enter(s), Dumped(s)' = {}
  PROVE  AtPage' /\ Walked(s)'
<1>1. addr' = first_addr(s) /\ pn' = pnum(addr')
  BY DEF Enter, WholePages, Segment
<1>2. first_addr(s) \in Address /\ poff(first_addr(s)) = 0 /\ First(s) \in PageNum
  BY FirstPage
<1>3. pn' = First(s)
  BY <1>1 DEF First
<1>4. Passed(s, pn') = {}
  BY <1>2, <1>3, PassedNext
<1>5. Walked(s)'
  BY <1>4, WalkedNext
<1> QED
  BY <1>1, <1>2, <1>5 DEF AtPage

(* One page more of a loop.                                                 *)
LEMMA WalkOn ==
  ASSUME SegmentsOK, TableOK, UNCHANGED <<ptable, seg_start_addr>>, NEW s \in WholePages,
         loop = s, AtPage, EveryPage \/ Walked(s), LogPage
  PROVE  AtPage' /\ (EveryPage \/ Walked(s)')
<1>1. /\ present(ptable, pn) /\ addr' = next_addr(s, addr) /\ pn' = pnum(addr')
      /\ log' = log \cup Lines(s, pn, addr % PAGESIZE)
  BY DEF LogPage, next_pnum
<1>2. /\ addr \in Address /\ addr % PAGESIZE = 0 /\ poff(addr) = 0 /\ pn = pnum(addr)
      /\ pn \in PageNum
  BY AddressParts DEF AtPage, poff
<1>3. /\ next_addr(s, addr) \in Address /\ poff(next_addr(s, addr)) = 0
      /\ pnum(next_addr(s, addr)) = NextPage(s, pnum(addr))
  BY <1>2, NextPageStep
<1>4. AtPage' /\ pn' = NextPage(s, pn)
  BY <1>1, <1>2, <1>3 DEF AtPage
<1>5. addr = PAGESIZE * pn
  <2>1. addr = PAGESIZE * pn + 0 /\ pn \in Nat
    BY <1>2, PageParts
  <2> QED
    BY <2>1, SizeAssumption
<1>6. Lines(s, pn, addr % PAGESIZE) = PageWords(s, pn)
  BY <1>1, <1>2, <1>5, PageLines
<1>7. \A l : l \in Dumped(s)' <=> l \in Dumped(s) \/ l \in PageWords(s, pn)
  <2>1. Dumped(s)' = {l \in log' : l.segment = s}
    BY DEF LogPage, Dumped
  <2>2. \A l \in PageWords(s, pn) : l.segment = s
    BY DEF PageWords
  <2> QED
    BY <1>1, <1>6, <2>1, <2>2 DEF Dumped
<1>8. First(s) \in PageNum
  BY FirstPage
<1>9. SUFFICES ASSUME ~EveryPage PROVE Walked(s)'
  BY <1>4 DEF LogPage
<1>10. /\ \A n \in Passed(s, pn) : present(ptable, n)
       /\ \A l : l \in Dumped(s) <=> \E n \in Passed(s, pn) : l \in PageWords(s, n)
  BY <1>9 DEF Walked
<1>11. pn' # First(s)
  BY <1>1, <1>2, <1>4, <1>8, <1>9, <1>10, PassedNext DEF EveryPage
<1>12. Passed(s, pn') = Passed(s, pn) \cup {pn}
  BY <1>2, <1>4, <1>8, <1>11, PassedNext
<1> QED
  BY <1>1, <1>7, <1>10, <1>12, WalkedNext

(* A loop that ends has dumped its segment.                                 *)
LEMMA WalkEnds ==
  ASSUME SegmentsOK, NEW s \in WholePages, AtPage, EveryPage \/ Walked(s),
         ~present(ptable, pn)
  PROVE  Dumped(s) = Expected(s)
<1>1. pn \in PageNum /\ First(s) \in PageNum
  BY FirstPage, AddressParts DEF AtPage
<1>2. Walked(s)
  BY <1>1 DEF EveryPage
<1>3. Extent(s) = Passed(s, pn)
  BY <1>1, <1>2, PassedAll DEF Walked
<1>4. \A l : l \in Dumped(s) <=> l \in Expected(s)
  BY <1>2, <1>3, ExpectedWords DEF Walked
<1> QED
  BY <1>4

(* Every step keeps the starts of the segments addresses.                   *)
LEMMA SegmentsNext ==
  ASSUME LoaderTypeOK, SegmentsOK, [Next]_vars
  PROVE  SegmentsOK'
<1>1. CASE Load /\ ReadSection
  <2>1. image.sections \in Seq(Section) /\ seg \in 1 .. Len(image.sections)
    BY <1>1 DEF LoaderTypeOK, IsImage, ReadSection
  <2>2. image.sections[seg] \in Section
    BY <2>1
  <2>3. image.sections[seg].sh_addr \in Address
        /\ segment_of(image.sections[seg].sh_name) \in Segment
    BY <2>2 DEF Section, segment_of, Segment
  <2> QED
    BY <1>1, <2>3 DEF ReadSection, SegmentsOK
<1>2. CASE UNCHANGED seg_start_addr
  BY <1>2 DEF SegmentsOK
<1>3. (Load /\ ReadSection) \/ UNCHANGED seg_start_addr
  BY DEF Next, vars, loadvars, Start, NoFile, Load, BusError, runElf, Log, EndCheckpoint, finalize,
         NullRead, ReadCheckpoint, Access, CachedAccess, Fetch, loadElf, ReadHeader, CopyByte, EndCopy,
         MapBss, EndBss, EndHeaders, Return
<1> QED
  BY <1>1, <1>2, <1>3

(* The log begins with an empty first part.                                 *)
LEMMA BeginKeeps ==
  ASSUME SegmentsOK, BeginLog, UNCHANGED <<ptable, seg_start_addr>>, main' \in {"run", "final"}
  PROVE  LogOK'
<1>1. loop' = "TEXT" /\ log' = {} /\ Enter("TEXT")
  BY DEF BeginLog, Enter
<1>2. \A s : Dumped(s)' = {}
  BY <1>1 DEF Dumped
<1>3. AtPage' /\ Walked("TEXT")'
  BY <1>1, <1>2, EnterPart DEF WholePages
<1>4. PartsOK'
  BY <1>1, <1>2 DEF PartsOK, Finished
<1>5. SegmentsOK'
  BY SameMemory
<1>6. Walked(loop)'
  BY <1>1, <1>3
<1> QED
  BY <1>1, <1>3, <1>4, <1>5, <1>6 DEF LogOK, Segment

(* A page of a part leaves the other parts alone.                           *)
LEMMA PageKeeps ==
  ASSUME LogOK, TableOK, LogPage, UNCHANGED <<ptable, seg_start_addr, main>>
  PROVE  LogOK'
<1>1. loop' = loop /\ loop \in Segment /\ log' = log \cup Lines(loop, pn, addr % PAGESIZE)
  BY DEF LogPage
<1>2. SegmentsOK' /\ (EveryPage' <=> EveryPage) /\ \A s : Expected(s)' = Expected(s)
  BY SameMemory DEF LogOK
<1>3. ASSUME NEW s, s # loop
      PROVE  Dumped(s)' = Dumped(s)
  <2>1. \A l \in Lines(loop, pn, addr % PAGESIZE) : l.segment = loop
    BY DEF Lines
  <2>2. Dumped(s)' = {l \in log' : l.segment = s}
    BY DEF Dumped
  <2> QED
    BY <1>1, <1>3, <2>1, <2>2 DEF Dumped
<1>4. PartsOK'
  <2>1. Finished' = Finished /\ loop \notin Finished
    BY <1>1 DEF Finished, Segment
  <2>2. \A s \in Finished : Dumped(s)' = Expected(s)'
    BY <1>1, <1>2, <1>3, <2>1 DEF LogOK, PartsOK, Segment
  <2>3. \A s \in WholePages \ (Finished \cup {loop}) : Dumped(s)' = {}
    BY <1>1, <1>3 DEF LogOK, PartsOK, Segment
  <2> QED
    BY <1>1, <2>1, <2>2, <2>3 DEF PartsOK
<1>5. ASSUME loop \in WholePages
      PROVE  AtPage' /\ (EveryPage' \/ Walked(loop)')
  <2>1. PICK s \in WholePages : s = loop
    BY <1>5
  <2>2. AtPage' /\ (EveryPage \/ Walked(s)')
    BY <2>1, WalkOn DEF LogOK
  <2>3. Walked(s)' => Walked(loop)'
    BY <1>1, <2>1
  <2> QED
    BY <1>2, <2>2, <2>3
<1> QED
  BY <1>1, <1>2, <1>4, <1>5 DEF LogOK, Segment

(* The end of a part: it is what it should be, and the next one is empty.   *)
LEMMA EndKeeps ==
  ASSUME LogOK, EndSegment, UNCHANGED <<ptable, seg_start_addr, main>>
  PROVE  LogOK'
<1>1. /\ loop \in Segment /\ ~present(ptable, pn) /\ Enter(loop') /\ log' = log
      /\ loop' = Next_segment[loop]
  BY DEF EndSegment, Enter
<1>2. SegmentsOK' /\ \A s : Expected(s)' = Expected(s)
  BY SameMemory DEF LogOK
<1>3. \A s : Dumped(s)' = Dumped(s)
  BY <1>1 DEF Dumped
<1>4. /\ Finished' = Finished \cup ({loop} \cap WholePages)
      /\ loop' \in {"DATA", "HEAP", "STACK", "cache"}
      /\ loop' \in WholePages => loop' \notin Finished \cup {loop}
  <2>1. \/ loop = "TEXT" /\ loop' = "DATA"
        \/ loop = "DATA" /\ loop' = "HEAP"
        \/ loop = "HEAP" /\ loop' = "STACK"
        \/ loop = "STACK" /\ loop' = "cache"
    BY <1>1 DEF Next_segment, Segment
  <2>2. Finished' = IF loop' = "DATA" THEN {"TEXT"}
                    ELSE IF loop' \in {"HEAP", "STACK"} THEN {"TEXT", "DATA"}
                    ELSE IF loop' = "cache" THEN WholePages ELSE {}
    BY <2>1 DEF Finished
  <2>3. Finished = IF loop = "DATA" THEN {"TEXT"}
                   ELSE IF loop \in {"HEAP", "STACK"} THEN {"TEXT", "DATA"}
                   ELSE IF loop = "cache" THEN WholePages ELSE {}
    BY <2>1 DEF Finished
  <2> QED
    BY <2>1, <2>2, <2>3 DEF WholePages
<1>5. loop \in WholePages => Dumped(loop) = Expected(loop)
  BY <1>1, WalkEnds DEF LogOK
<1>6. PartsOK
  BY <1>1 DEF LogOK, Segment
<1>7. PartsOK'
  <2>1. \A s \in Finished \cup ({loop} \cap WholePages) : Dumped(s)' = Expected(s)'
    BY <1>2, <1>3, <1>5, <1>6 DEF PartsOK
  <2>2. \A s \in WholePages \ (Finished' \cup {loop'}) : Dumped(s)' = {}
    BY <1>3, <1>4, <1>6 DEF PartsOK
  <2> QED
    BY <1>4, <2>1, <2>2 DEF PartsOK
<1>8. ASSUME loop' \in WholePages
      PROVE  AtPage' /\ Walked(loop)'
  <2>1. PICK s \in WholePages : s = loop'
    BY <1>8
  <2>2. Dumped(s)' = {}
    BY <1>3, <1>4, <1>6, <1>8, <2>1 DEF PartsOK
  <2>3. AtPage' /\ Walked(s)'
    BY <1>1, <2>1, <2>2, EnterPart DEF LogOK
  <2> QED
    BY <2>1, <2>3
<1> QED
  BY <1>1, <1>2, <1>4, <1>7, <1>8 DEF LogOK, Segment

(* Every step keeps the invariant of the log: while it is written nothing   *)
(* else runs.                                                               *)
LEMMA LogNext ==
  ASSUME LoaderTypeOK, TableOK, LogOK, [Next]_vars
  PROVE  LogOK'
<1>1. SegmentsOK'
  BY SegmentsNext DEF LogOK
<1>2. CASE loop' = "off"
  BY <1>1, <1>2 DEF LogOK, WholePages, Segment
<1>3. CASE finalize \/ ReadCheckpoint
  <2>1. UNCHANGED <<ptable, seg_start_addr>> /\ main = "run"
    BY <1>3 DEF finalize, ReadCheckpoint, loadvars, Cycle
  <2>2. (BeginLog /\ main' \in {"run", "final"}) \/ (loop = "off" /\ UNCHANGED logvars)
    BY <1>3, <2>1 DEF finalize, ReadCheckpoint, Goto, startvars
  <2> QED
    BY <1>2, <2>1, <2>2, BeginKeeps DEF LogOK, logvars
<1>4. CASE Log
  <2>1. (LogPage \/ EndSegment) /\ UNCHANGED <<ptable, seg_start_addr, main>>
    BY <1>4 DEF Log, log_machine_state, loadvars, startvars
  <2> QED
    BY <2>1, PageKeeps, EndKeeps
<1>5. CASE UNCHANGED vars
  <2>1. UNCHANGED <<ptable, seg_start_addr, main, loop, addr, pn, log>>
    BY <1>5 DEF vars, loadvars, logvars, startvars
  <2>2. Finished' = Finished /\ \A s : Dumped(s)' = Dumped(s)
    BY <2>1 DEF Finished, Dumped
  <2>3. \A s : Walked(s) => Walked(s)'
    BY <2>1, <2>2, WalkedNext DEF Walked
  <2>4. Walked(loop) => Walked(loop)'
    BY <2>1, <2>3
  <2> QED
    BY <2>1, <2>2, <2>4, SameMemory DEF LogOK, PartsOK, AtPage
<1>6. CASE Start \/ NoFile \/ Load \/ BusError \/ runElf \/ NullRead \/ Access \/ CachedAccess \/ Fetch \/
            EndCheckpoint
  <2>1. CASE EndCheckpoint
    BY <1>2, <2>1 DEF EndCheckpoint
  <2>2. CASE ~EndCheckpoint
    <3>1. loop = "off"
      BY <1>6, <2>2 DEF LogOK, Start, start, ParseOption, NoOptions, init, NoFile, Load, BusError, runElf,
                  NullRead, Access, CachedAccess, Fetch, Cycle
    <3>2. loop' = loop
      BY <1>6, <2>2 DEF Start, NoFile, Load, BusError, runElf, NullRead, Access, CachedAccess, Fetch, logvars
    <3> QED
      BY <1>2, <3>1, <3>2
  <2> QED
    BY <2>1, <2>2
<1> QED
  BY <1>3, <1>4, <1>5, <1>6 DEF Next

(* The checkpoint is faithful: when the dump of memory is complete, its     *)
(* text, data and stack parts hold exactly the nonzero words of the pages   *)
(* reached from the segment's first one, with their addresses and values,   *)
(* for every page size, hash function, word, command line and file.         *)
THEOREM CheckpointFaithfulHolds == Spec => []CheckpointFaithful
<1>1. Init => LogOK
  BY SegStartsAssumption DEF Init, LoadInit, LogInit, LogOK, SegmentsOK, WholePages
<1>2. LogOK => CheckpointFaithful
  BY DEF LogOK, PartsOK, Finished, WholePages, CheckpointFaithful
<1> QED
  BY <1>1, <1>2, TableInit, LoaderTypeNext, TableNext, LogNext, PTL DEF Spec

-----------------------------------------------------------------------------
(* The way of an instruction from the file to Decode.                       *)

\* Until the run does something, memory is what the loader made it,
MemoryLoaded ==
  main = "run" /\ steps = 0 /\ Ascending(image) =>
    \A h \in Loaded : \A k \in FilePart(h) :
      byte_at(ptable, h.p_vaddr + k) = file_byte(h.p_offset + k)

\* and what was fetched then is what the file has.
FetchedOK ==
  fetched # NotFetched =>
    /\ fetched.pc \in Address /\ fetched.pc % 4 = 0
    /\ fetched.base = adrp_base(fetched.pc)
    /\ Ascending(image) /\ InFile(fetched.pc) => fetched.insn = decode(FileBits(fetched.pc))

FetchInv == LoaderTypeOK /\ TableOK /\ CopiedInPlace /\ steps \in Nat /\ MemoryLoaded /\ FetchedOK

(* The copied bytes of a file whose segments ascend are all in place.       *)
LEMMA AllCopied ==
  ASSUME CopiedInPlace, phase = "done", Ascending(image)
  PROVE  \A h \in Loaded : \A k \in FilePart(h) :
           byte_at(ptable, h.p_vaddr + k) = file_byte(h.p_offset + k)
<1> SUFFICES ASSUME NEW h \in Loaded, NEW k \in FilePart(h)
             PROVE  byte_at(ptable, h.p_vaddr + k) = file_byte(h.p_offset + k)
  OBVIOUS
<1>1. PICK s \in DOMAIN image.headers : Loadable(image, s) /\ h = image.headers[s]
  BY DEF Loaded, Loadable
<1> QED
  BY <1>1 DEF CopiedInPlace, Copied, InPlace

(* Only the loader and the accesses of the run change memory.               *)
LEMMA MemoryNext == FetchInv /\ [Next]_vars => MemoryLoaded'
<1> SUFFICES ASSUME FetchInv, [Next]_vars, main' = "run", steps' = 0, Ascending(image')
             PROVE  \A h \in Loaded' : \A k \in FilePart(h) :
                      byte_at(ptable', h.p_vaddr + k) = file_byte(h.p_offset + k)'
  BY DEF MemoryLoaded
<1>1. CASE runElf
  <2>1. /\ phase = "done" /\ UNCHANGED <<image, ptable>>
    BY <1>1 DEF runElf
  <2> QED
    BY <2>1, AllCopied DEF FetchInv, Loaded, file_byte
<1>2. ASSUME main = "run", steps = 0, UNCHANGED <<image, ptable>>
      PROVE  \A h \in Loaded' : \A k \in FilePart(h) :
               byte_at(ptable', h.p_vaddr + k) = file_byte(h.p_offset + k)'
  BY <1>2 DEF FetchInv, MemoryLoaded, Loaded, file_byte
<1>3. CASE Start \/ NoFile \/ Load \/ BusError \/ NullRead \/ finalize
  BY <1>3 DEF Start, start, init, ParseOption, NoOptions, NoFile, Load, BusError, NullRead, finalize,
              Die, Goto, startvars, loadvars, loadElf
<1>4. CASE Access \/ CachedAccess \/ Fetch \/ ReadCheckpoint
  BY <1>4 DEF Access, CachedAccess, Fetch, ReadCheckpoint, Cycle, FetchInv
<1>5. CASE Log
  BY <1>2, <1>5 DEF Log, loadvars, startvars, runvars
<1>6. CASE EndCheckpoint
  BY <1>2, <1>6 DEF EndCheckpoint, Die, Goto, loadvars, runvars
<1>7. CASE UNCHANGED vars
  BY <1>2, <1>7 DEF vars, loadvars, startvars, runvars
<1> QED
  BY <1>1, <1>3, <1>4, <1>5, <1>6, <1>7 DEF Next

(* In a file whose segments ascend an address has one place.                *)
LEMMA OnePlace ==
  ASSUME LoaderTypeOK, Ascending(image), NEW a \in Address, NEW g \in Loaded, NEW h \in Loaded,
         a - g.p_vaddr \in FilePart(g), a - h.p_vaddr \in FilePart(h)
  PROVE  g = h
<1>1. PICK s \in DOMAIN image.headers : Loadable(image, s) /\ g = image.headers[s]
  BY DEF Loaded, Loadable
<1>2. PICK t \in DOMAIN image.headers : Loadable(image, t) /\ h = image.headers[t]
  BY DEF Loaded, Loadable
<1>3. /\ g \in Header /\ h \in Header /\ s \in Nat /\ t \in Nat
  BY <1>1, <1>2, ImageTypes DEF LoaderTypeOK
<1>4. /\ g.p_vaddr \in Nat /\ g.p_filesz \in Nat /\ h.p_vaddr \in Nat /\ h.p_filesz \in Nat
      /\ a \in Nat
  BY <1>3, SizeAssumption DEF Header, Address
<1>5. /\ a >= g.p_vaddr /\ a < g.p_vaddr + g.p_filesz
      /\ a >= h.p_vaddr /\ a < h.p_vaddr + h.p_filesz
  BY <1>4 DEF FilePart
<1>6. /\ s < t => g.p_vaddr + g.p_filesz <= h.p_vaddr
      /\ t < s => h.p_vaddr + h.p_filesz <= g.p_vaddr
  BY <1>1, <1>2 DEF Ascending
<1>7. ~(s < t) /\ ~(t < s)
  BY <1>4, <1>5, <1>6
<1>8. s = t
  BY <1>3, <1>7
<1> QED
  BY <1>1, <1>2, <1>8

(* The word read in little-endian order is the file's word.                 *)
LEMMA WordFromFile ==
  ASSUME LoaderTypeOK, Ascending(image), NEW a \in Address, InFile(a),
         \A h \in Loaded : \A k \in FilePart(h) :
           byte_at(ptable, h.p_vaddr + k) = file_byte(h.p_offset + k)
  PROVE  WordBits(a) = FileBits(a)
<1>1. PICK h \in Loaded : \A k \in 0 .. 3 : (a - h.p_vaddr) + k \in FilePart(h)
  BY DEF InFile
<1>2. PICK s \in DOMAIN image.headers : Loadable(image, s) /\ h = image.headers[s]
  BY DEF Loaded, Loadable
<1>3. h \in Header
  BY <1>2, ImageTypes DEF LoaderTypeOK
<1>4. h.p_vaddr \in Nat /\ h.p_filesz \in Nat /\ h.p_offset \in Nat /\ a \in Nat
  BY <1>3, SizeAssumption DEF Header, Address
<1>5. a - h.p_vaddr \in FilePart(h)
  <2>1. (a - h.p_vaddr) + 0 \in FilePart(h) /\ (a - h.p_vaddr) + 0 = a - h.p_vaddr
    BY <1>1, <1>4
  <2> QED
    BY <2>1
<1> DEFINE g == CHOOSE h2 \in Loaded : a - h2.p_vaddr \in FilePart(h2)
<1>6. g \in Loaded /\ a - g.p_vaddr \in FilePart(g)
  BY <1>5
<1>7. g = h
  BY <1>5, <1>6, OnePlace
<1>8. ASSUME NEW b \in Bits
      PROVE  byte_at(ptable, (a + (b \div 8)) % AddrMod)
               = file_byte(h.p_offset + (a - h.p_vaddr) + (b \div 8))
  <2> DEFINE c == b \div 8
             k == (a - h.p_vaddr) + c
  <2>1. c \in 0 .. 3
    BY DEF Bits
  <2> HIDE DEF c
  <2>2. k \in FilePart(h)
    BY <1>1, <2>1
  <2>3. h.p_vaddr + k = a + c /\ h.p_offset + k = h.p_offset + (a - h.p_vaddr) + c
    BY <1>4, <2>1
  <2>4. h.p_vaddr + k \in Address
    BY <1>2, <1>3, <2>2, Fits DEF Ascending
  <2>5. (a + c) % AddrMod = a + c
    BY <2>3, <2>4, Wrap
  <2>6. byte_at(ptable, h.p_vaddr + k) = file_byte(h.p_offset + k)
    BY <2>2
  <2> QED
    BY <2>3, <2>5, <2>6 DEF c
<1>9. FileBits(a) = {b \in Bits :
                       (file_byte(h.p_offset + (a - h.p_vaddr) + (b \div 8)) \div 2^(b % 8)) % 2 = 1}
  BY <1>7, Zenon DEF FileBits
<1> QED
  BY <1>8, <1>9, Zenon DEF WordBits

(* The instruction fetched stays what the file has at its address.          *)
LEMMA FetchedNext == FetchInv /\ [Next]_vars => FetchedOK'
<1> SUFFICES ASSUME FetchInv, [Next]_vars PROVE FetchedOK'
  OBVIOUS
<1>1. image' = image
  BY DEF Next, vars, loadvars, Start, NoFile, Load, BusError, runElf, Log, EndCheckpoint, finalize,
         NullRead, ReadCheckpoint, Access, CachedAccess, Fetch, loadElf, ReadHeader, CopyByte, EndCopy,
         MapBss, EndBss, EndHeaders, ReadSection, Return
<1>2. \A a : (InFile(a)' <=> InFile(a)) /\ FileBits(a)' = FileBits(a)
  BY <1>1 DEF InFile, FileBits, Loaded, file_byte
<1>3. CASE Fetch
  <2>1. PICK a \in Address : a % 4 = 0 /\ fetched' = fetch(a)
    BY <1>3 DEF Fetch
  <2>2. main = "run" /\ steps = 0
    BY <1>3 DEF Fetch, Cycle
  <2>3. /\ fetched'.pc = a /\ fetched'.base = adrp_base(a)
        /\ fetched'.insn = decode(WordBits(a))
    BY <2>1 DEF fetch
  <2>4. Ascending(image) /\ InFile(a) => WordBits(a) = FileBits(a)
    BY <2>2, WordFromFile DEF FetchInv, MemoryLoaded
  <2> QED
    BY <1>1, <1>2, <2>1, <2>3, <2>4 DEF FetchedOK
<1>4. ASSUME UNCHANGED fetched PROVE FetchedOK'
  BY <1>1, <1>2, <1>4, Zenon DEF FetchedOK, FetchInv, NotFetched
<1>5. CASE Access \/ CachedAccess \/ ReadCheckpoint
  BY <1>5 DEF Access, CachedAccess, ReadCheckpoint, FetchedOK, NotFetched
<1>6. CASE Start \/ NoFile \/ Load \/ BusError \/ runElf \/ Log \/ EndCheckpoint \/ finalize \/ NullRead
  BY <1>4, <1>6 DEF Start, NoFile, Load, BusError, runElf, Log, EndCheckpoint, finalize, NullRead, runvars
<1>7. CASE UNCHANGED vars
  BY <1>4, <1>7 DEF vars, runvars
<1> QED
  BY <1>3, <1>5, <1>6, <1>7 DEF Next

(* The base of ADRP is the page of its own address unless the next address  *)
(* is on another page or above the mask of predict_PC.                      *)
LEMMA AdrpBase ==
  ASSUME NEW pc \in Nat, pc % 4 = 0, ~WrongBase(pc)
  PROVE  adrp_base(pc) = PageBase(pc)
<1>1. /\ AdrpPage \in Nat \ {0} /\ AdrpPage % 4 = 0 /\ HalfWord \in Nat \ {0}
  BY AdrpAssumption
<1>2. pc + 4 < HalfWord /\ (pc + 4) % AdrpPage # 0
  BY <1>1 DEF WrongBase
<1>3. (pc + 4) % HalfWord = pc + 4
  BY <1>1, <1>2
<1> DEFINE q == pc \div AdrpPage
           r == pc % AdrpPage
           e == AdrpPage \div 4
<1>4. q \in Nat /\ r \in 0 .. AdrpPage - 1 /\ pc = AdrpPage * q + r
  BY <1>1
<1>5. e \in Nat /\ AdrpPage = 4 * e
  BY <1>1
<1> HIDE DEF q, r, e
<1>6. r % 4 = 0
  <2>1. PICK n \in Nat : pc = 4 * n
    <3>1. pc \div 4 \in Nat /\ pc = 4 * (pc \div 4)
      OBVIOUS
    <3> QED
      BY <3>1
  <2>2. AdrpPage * q = 4 * (e * q) /\ e * q \in Nat
    BY <1>4, <1>5
  <2>3. PICK u \in Nat : u = e * q
    BY <2>2
  <2>4. 4 * n = 4 * u + r
    BY <1>4, <2>1, <2>2, <2>3
  <2> QED
    BY <1>1, <1>4, <2>1, <2>3, <2>4
<1>7. r + 4 <= AdrpPage
  BY <1>1, <1>4, <1>5, <1>6
<1>8. r + 4 < AdrpPage
  <2>1. CASE r + 4 = AdrpPage
    <3>1. pc + 4 = AdrpPage * (q + 1) + 0 /\ q + 1 \in Nat /\ 0 \in 0 .. AdrpPage - 1
      BY <1>1, <1>4, <2>1
    <3>2. (pc + 4) % AdrpPage = 0
      BY <1>1, <3>1, Division
    <3> QED
      BY <1>2, <3>2
  <2> QED
    BY <1>1, <1>4, <1>7, <2>1
<1>9. (pc + 4) % AdrpPage = r + 4
  <2>1. pc + 4 = AdrpPage * q + (r + 4) /\ r + 4 \in 0 .. AdrpPage - 1
    BY <1>1, <1>4, <1>8
  <2>2. (AdrpPage * q + (r + 4)) % AdrpPage = r + 4
    BY <1>1, <1>4, <2>1, Division
  <2> QED
    BY <2>1, <2>2, Zenon
<1>10. adrp_base(pc) = (pc + 4) - (r + 4)
  BY <1>3, <1>9 DEF adrp_base
<1>11. PageBase(pc) = pc - r
  BY DEF PageBase, r
<1> QED
  BY <1>1, <1>4, <1>10, <1>11

(* An instruction of the file is the one Decode works with, for every file  *)
(* whose segments ascend, every page size, hash and place of the word,      *)
(* provided that the bit fields undo what the assembler does to the samples *)
(* (arithmetic on powers of two, which is left to TLC).                     *)
THEOREM DecodedRightHolds == ASSUME DecoderInverts PROVE Spec => []DecodedRight
<1>1. Init => FetchInv
  <2> SUFFICES ASSUME Init PROVE FetchInv
    OBVIOUS
  <2>1. main # "run" /\ fetched = NotFetched /\ steps \in Nat
    BY DEF Init, StartInit
  <2>2. CopiedInPlace
    <3> SUFFICES ASSUME NEW s \in DOMAIN image.headers, NEW k, Copied(s, k)
                 PROVE  FALSE
      BY DEF CopiedInPlace
    <3>1. phase = "header" /\ seg = 1 /\ s \in Nat /\ s >= 1
      BY TableInit, ImageTypes DEF Init, LoadInit, LoaderTypeOK
    <3> QED
      BY <3>1 DEF Copied
  <2> QED
    BY <2>1, <2>2, TableInit DEF FetchInv, MemoryLoaded, FetchedOK
<1>2. FetchInv /\ [Next]_vars => FetchInv'
  <2>1. FetchInv /\ [Next]_vars => steps' \in Nat
    BY DEF FetchInv, Next, vars, runvars, Start, NoFile, Load, BusError, runElf, Log, EndCheckpoint,
           finalize, NullRead, ReadCheckpoint, Access, CachedAccess, Fetch, Cycle
  <2> QED
    BY <2>1, LoaderTypeNext, TableNext, CopiedNext, MemoryNext, FetchedNext DEF FetchInv
<1>3. FetchInv => DecodedRight
  <2> SUFFICES ASSUME FetchInv, fetched # NotFetched, Ascending(image), InFile(fetched.pc),
                      NEW i \in Samples, encode(i) = FileBits(fetched.pc)
               PROVE  /\ Reads(fetched.insn, i) \/ Misread(i)
                      /\ fetched.base = PageBase(fetched.pc) \/ WrongBase(fetched.pc)
    BY Zenon DEF DecodedRight
  <2>1. fetched.insn = decode(encode(i))
    BY DEF FetchInv, FetchedOK
  <2>2. Reads(fetched.insn, i) \/ Misread(i)
    BY <2>1, DecoderInverts, Zenon DEF DecoderInverts
  <2>3. fetched.pc \in Nat /\ fetched.pc % 4 = 0 /\ fetched.base = adrp_base(fetched.pc)
    BY SizeAssumption DEF FetchInv, FetchedOK, Address
  <2> QED
    BY <2>2, <2>3, AdrpBase
<1> QED
  BY <1>1, <1>2, <1>3, PTL DEF Spec
=============================================================================
