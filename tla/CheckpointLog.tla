--------------------------- MODULE CheckpointLog ---------------------------
(***************************************************************************)
(* log_machine_state (machine.c): the dump of memory that goes into the    *)
(* checkpoint.  One step is one page.                                      *)
(*                                                                         *)
(* A line of the dump is the segment it stands under, its address and the  *)
(* bytes of the word.  The registers and flags, which are written first,   *)
(* are left out: they are copied as they are.                              *)
(***************************************************************************)
EXTENDS Loader

CONSTANT WORD    \* bytes of a word of the dump: 8

ASSUME WordAssumption == WORD \in Nat \ {0} /\ PAGESIZE % WORD = 0

VARIABLES
  loop,   \* the part being written; "off" outside log_machine_state
  addr,
  pn,     \* the local pnum
  log     \* the lines of the current dump
logvars == <<loop, addr, pn, log>>

LogInit == loop = "off" /\ addr = 0 /\ pn = 0 /\ log = {}

Next_segment == [TEXT |-> "DATA", DATA |-> "HEAP", HEAP |-> "STACK", STACK |-> "cache"]

page_start(a) == a - (a % PAGESIZE)

\* Where the loop over a segment begins.
first_addr(s) ==
  CASE s \in {"TEXT", "DATA"} -> page_start(seg_start_addr[s])
    [] s = "HEAP"             -> seg_start_addr[s]
    [] s = "STACK"            -> page_start((seg_start_addr[s] - PAGESIZE) % AddrMod)

\* The loop over the heap begins without computing its page number.
Enter(s) ==
  /\ loop' = s
  /\ IF s \in Segment THEN addr' = first_addr(s) ELSE UNCHANGED addr
  /\ IF s \in Segment \ {"HEAP"} THEN pn' = pnum(addr') ELSE UNCHANGED pn

BeginLog == loop = "off" /\ log' = {} /\ Enter("TEXT")

\* The words of page n from offset `from' that are not zero.
Lines(s, n, from) ==
  LET data == ptable[ptable_hash(n)][get_page(ptable, n)].p_data
      word(i) == [k \in 0 .. WORD - 1 |-> data[i + k]]
      at == {i \in from .. PAGESIZE - 1 : (i - from) % WORD = 0}
  IN  {[segment |-> s, address |-> addr + i, data |-> word(i)] :
         i \in {x \in at : \E k \in 0 .. WORD - 1 : word(x)[k] # 0}}

\* Mutant: the step is taken after the page number has been computed.
next_pnum_mutant(a) == pnum(addr)

next_pnum(a) == pnum(a)

\* Mutant: the loop takes no step.
next_addr_mutant(s, a) == a

\* The stack is walked downwards.
next_addr(s, a) == (IF s = "STACK" THEN a - PAGESIZE ELSE a + PAGESIZE) % AddrMod

LogPage ==
  /\ loop \in Segment /\ present(ptable, pn)
  /\ log' = log \cup Lines(loop, pn, addr % PAGESIZE)
  /\ addr' = next_addr(loop, addr)
  /\ pn' = next_pnum(addr')
  /\ UNCHANGED loop

EndSegment ==
  /\ loop \in Segment /\ ~present(ptable, pn)
  /\ Enter(Next_segment[loop])
  /\ UNCHANGED log

log_machine_state == LogPage \/ EndSegment

-----------------------------------------------------------------------------
\* The pages from a up to b, past the top of memory if b is below a.
Upto(a, b) == IF a <= b THEN a .. b ELSE PageNum \ (b + 1 .. a - 1)
Between(s, n) ==
  LET first == pnum(first_addr(s)) IN IF s = "STACK" THEN Upto(n, first) ELSE Upto(first, n)

(* The pages a segment consists of in the eyes of the log: those reached    *)
(* from its first one without a gap, upwards or, for the stack, downwards.  *)
Extent(s) == {n \in PageNum : \A m \in Between(s, n) : present(ptable, m)}

WordAt(a) == [k \in 0 .. WORD - 1 |-> byte_at(ptable, a + k)]
Expected(s) ==
  {[segment |-> s, address |-> a, data |-> WordAt(a)] :
     a \in {x \in Address : /\ x % WORD = 0 /\ pnum(x) \in Extent(s)
                            /\ \E k \in 0 .. WORD - 1 : WordAt(x)[k] # 0}}

Dumped(s) == {l \in log : l.segment = s}

(* When the dump of memory is complete, each of the text, data and stack    *)
(* parts holds exactly the nonzero words of its segment, with the addresses *)
(* and values a program would read, whatever bucket a page is in and in     *)
(* whatever order the pages were touched: two memories that differ there    *)
(* have different checkpoints.                                              *)
CheckpointFaithful ==
  loop = "cache" => \A s \in {"TEXT", "DATA", "STACK"} : Dumped(s) = Expected(s)

(* machine.c:162-163: "// Heap memory", "Heap:": the same of the heap.      *)
HeapLogged == loop = "cache" => Dumped("HEAP") = Expected("HEAP")
=============================================================================
