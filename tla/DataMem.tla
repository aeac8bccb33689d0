------------------------------ MODULE DataMem ------------------------------
(***************************************************************************)
(* The data memory as Memory and Fetch use it: dmem of hw_elts.c, and the  *)
(* special addresses, the cached path and the flat path of mem.c.          *)
(*                                                                         *)
(* A memory system is a record ms: the words of data memory, the values    *)
(* printed so far, the status and countdown of the access in flight, and   *)
(* how the emulator process ended if an access ended it.  Data memory is   *)
(* kept as aligned 8-byte cells, the only width the pipeline uses.         *)
(***************************************************************************)
EXTENDS Words, Sequences

CONSTANTS
  TEXT, DATA, KERNEL,  \* seg_start_addr of TEXT_SEG, DATA_SEG and KERNEL_SEG
  Input,        \* the numbers scanf may return
  Junk,         \* what a read outside the cells may return
  InitMem,      \* what loadElf left in data memory
  Cached,       \* whether guest.cache is not NULL
  d, B          \* its miss delay in cycles and its block size

Cells == {a \in DATA .. KERNEL - 1 : a % 8 = 0}

ASSUME SegAssumption ==
  /\ TEXT \in Nat /\ DATA \in Nat /\ KERNEL \in Nat
  /\ 0 < TEXT /\ TEXT < DATA /\ DATA < KERNEL /\ KERNEL <= Modulus - 9
ASSUME DataAssumption ==
  Input \subseteq Word /\ Junk \subseteq Word /\ Junk # {} /\ InitMem \in [Cells -> Word]
ASSUME CacheAssumption == Cached \in BOOLEAN /\ d \in Word /\ B \in Nat /\ B > 0

NULL_ADDR == 0
IO_CHAR_ADDR == Modulus - 1
RET_FROM_MAIN_ADDR == 0
CHECKPOINT_ADDR == Modulus - 9

addr_in_imem(a) == TEXT <= a /\ a < DATA
addr_in_dmem(a) == DATA <= a /\ a < KERNEL
is_special_addr(a) == a \in {NULL_ADDR, IO_CHAR_ADDR, RET_FROM_MAIN_ADDR, CHECKPOINT_ADDR}

MemStatus == {"READY", "IN_FLIGHT"}
Exit == {"no", "failure", "abort", "segv"}
MemSys == [mem : [Cells -> Word], out : Seq(Word), dmem_status : MemStatus,
           inflight : BOOLEAN, inflight_addr : Word, inflight_cycles : Word,
           exit : Exit]

\* runElf sets dmem_status; init_machine sets the rest when there is a cache
\* (and C's zero initialisation when there is none).
InitMemSys == [mem |-> InitMem, out |-> <<>>, dmem_status |-> "READY",
               inflight |-> FALSE, inflight_addr |-> 0,
               inflight_cycles |-> IF Cached THEN d ELSE 0, exit |-> "no"]

-----------------------------------------------------------------------------
(* _mem_read_cache and _mem_write_cache.  check_hit is a stub that always   *)
(* returns false, so the loop never gets past its first byte: the access is *)
(* counted down, and when the delay is over handle_miss, a stub too,        *)
(* returns NULL, which the next statement dereferences.                     *)

block_of(a) == a - (a % B)

\* Mutant: the cycle an access starts in is not counted.
CountDown_mutant(ms, a) ==
  IF ms.inflight_addr # block_of(a) \/ ~ms.inflight THEN d
  ELSE (ms.inflight_cycles - 1) % Modulus

\* The countdown: restarted for another block, then decremented (unsigned).
CountDown(ms, a) ==
  LET start == ms.inflight_addr # block_of(a) \/ ~ms.inflight
      from  == IF start THEN d ELSE ms.inflight_cycles
  IN  (from - 1) % Modulus

MissStep(ms, a) ==
  LET left == CountDown(ms, a)
      counted == [ms EXCEPT !.inflight_addr = block_of(a),
                            !.inflight_cycles = left]
  IN  IF left > 0
      THEN [counted EXCEPT !.inflight = TRUE, !.dmem_status = "IN_FLIGHT"]
      ELSE [counted EXCEPT !.inflight = FALSE, !.exit = "segv"]

UsesCache(a) == Cached /\ a >= DATA

\* _mem_read of 8 bytes: the possible [ms, val].
mem_read(ms, a) ==
  IF a = NULL_ADDR THEN {[ms |-> [ms EXCEPT !.exit = "failure"], val |-> 0]}
  ELSE IF a = IO_CHAR_ADDR THEN {[ms |-> ms, val |-> v] : v \in Input}
  ELSE IF a = CHECKPOINT_ADDR THEN {[ms |-> ms, val |-> 0]}
  ELSE IF UsesCache(a) THEN {[ms |-> MissStep(ms, a), val |-> 0]}
  ELSE IF a \in Cells THEN {[ms |-> ms, val |-> ms.mem[a]]}
  ELSE {[ms |-> ms, val |-> v] : v \in Junk}

\* The cells a misaligned write overlaps: their bytes are not modelled.
Smear(mem, a) ==
  LET lo == a - (a % 8)
  IN  {[c \in Cells |-> IF c = lo THEN v1 ELSE IF c = lo + 8 THEN v2 ELSE mem[c]]
         : v1, v2 \in Junk}

\* Mutant: a character is written to memory instead of printed.
mem_write_mutant(ms, a, val) ==
  IF a = NULL_ADDR THEN {ms}
  ELSE IF a = CHECKPOINT_ADDR THEN {[ms EXCEPT !.exit = "abort"]}
  ELSE IF UsesCache(a) THEN {MissStep(ms, a)}
  ELSE IF a \in Cells THEN {[ms EXCEPT !.mem = [@ EXCEPT ![a] = val]]}
  ELSE {[ms EXCEPT !.mem = m] : m \in Smear(ms.mem, a)}

\* _mem_write of 8 bytes: the possible memory systems afterwards.  There is no
\* handler for a write to the checkpoint address: assert(false).
mem_write(ms, a, val) ==
  IF a = NULL_ADDR THEN {ms}
  ELSE IF a = IO_CHAR_ADDR THEN {[ms EXCEPT !.out = Append(@, val)]}
  ELSE IF a = CHECKPOINT_ADDR THEN {[ms EXCEPT !.exit = "abort"]}
  ELSE IF UsesCache(a) THEN {MissStep(ms, a)}
  ELSE IF a \in Cells THEN {[ms EXCEPT !.mem = [@ EXCEPT ![a] = val]]}
  ELSE {[ms EXCEPT !.mem = m] : m \in Smear(ms.mem, a)}

-----------------------------------------------------------------------------
(* dmem: the error is only reported: the access is made in any case.        *)

dmem_err(a) == ~is_special_addr(a) /\ (~addr_in_dmem(a) \/ a % 8 # 0)

\* The possible [ms, val]; val is the old *dmem_rval when nothing is read.
dmem(ms, a, wval, read, write, rval) ==
  LET reads == IF read THEN mem_read(ms, a) ELSE {[ms |-> ms, val |-> rval]}
  IN  IF write
      THEN UNION {{[ms |-> w, val |-> r.val] : w \in mem_write(r.ms, a, wval)} : r \in reads}
      ELSE reads

\* mem_read_I in imem: only the in-flight bookkeeping can change here, and only
\* for a fetch outside the text segment.
ifetch(ms, a) == IF UsesCache(a) /\ ~is_special_addr(a) THEN MissStep(ms, a) ELSE ms
=============================================================================
