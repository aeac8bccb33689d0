-------------------------------- MODULE Boot --------------------------------
(***************************************************************************)
(* main() of archsim.c: the arguments, init, the loader, the run and the   *)
(* checkpoint, on one page table.                                          *)
(*                                                                         *)
(* The run itself is the subject of Pipeline; here it is what reaches the  *)
(* rest of the process: a word fetched and decoded, bytes read and         *)
(* written, a read of CHECKPOINT_ADDR or of the null address, the end.     *)
(***************************************************************************)
EXTENDS CheckpointLog, Startup, Assembler

CONSTANTS
  Boots,                   \* command lines, each with the file it names
  GuestAddrs, GuestBytes,  \* the accesses of the program
  MaxSteps                 \* bound on the steps of the run

ASSUME BootAssumption ==
  /\ \A b \in Boots : IsImage(b.image) /\ b.argv \in Seq(Option)
  /\ GuestAddrs \subseteq Address /\ GuestBytes \subseteq Byte /\ MaxSteps \in Nat

VARIABLES
  fetched,    \* the instruction fetched at the beginning of the run
  steps
runvars == <<fetched, steps>>
vars == <<loadvars, logvars, startvars, runvars>>

\* imem: four bytes, the lowest first, as 32 bits.
WordBits(a) ==
  {b \in Bits : (byte_at(ptable, (a + (b \div 8)) % AddrMod) \div 2^(b % 8)) % 2 = 1}
fetch(a) == [pc |-> a, insn |-> decode(WordBits(a)), base |-> adrp_base(a)]
NotFetched == [pc |-> NULL, insn |-> decode({}), base |-> NULL]

Init ==
  /\ \E b \in Boots : StartInit(b.argv) /\ LoadInit(b.image)
  /\ LogInit
  /\ fetched = NotFetched /\ steps = 0

Start == start /\ UNCHANGED <<loadvars, logvars, runvars>>

Goto(where) == main' = where /\ UNCHANGED exit
Die(how) == main' = "exit" /\ exit' = how
KeepSettings == UNCHANGED <<argv, optind, conf, terminate, cache>>

\* open() of a file that was not named fails, and loadElf exits.
NoFile ==
  /\ main = "load" /\ conf["i"] = NULL
  /\ Die("failure")
  /\ KeepSettings /\ UNCHANGED <<loadvars, logvars, runvars>>

Load ==
  /\ main = "load" /\ conf["i"] # NULL
  /\ loadElf
  /\ UNCHANGED <<startvars, logvars, runvars>>

\* The copy reads behind the last page of the mapped file.
BusError ==
  /\ main = "load" /\ conf["i"] # NULL
  /\ phase = "copy" /\ j < CopyEnd /\ ~Mapped(progHeader.p_offset + j)
  /\ Die("sigbus")
  /\ KeepSettings /\ UNCHANGED <<loadvars, logvars, runvars>>

runElf ==
  /\ main = "load" /\ phase = "done"
  /\ Goto("run") /\ phase' = "returned"
  /\ KeepSettings /\ UNCHANGED <<image, ptable, seg_start_addr, seg, j, logvars, runvars>>

\* A cycle of the run that is looked at; the number of cycles is bounded by -l.
Cycle == main = "run" /\ loop = "off" /\ steps < MaxSteps /\ steps' = steps + 1

\* Only the first cycle's fetch is looked at.
Fetch ==
  /\ Cycle /\ steps = 0
  /\ \E a \in Address :
       /\ a % 4 = 0 /\ seg_start_addr["TEXT"] <= a /\ a < seg_start_addr["DATA"]
       /\ fetched' = fetch(a)
       /\ ptable' = mem_read_byte(ptable, a).table
  /\ UNCHANGED <<image, seg_start_addr, seg, phase, j, logvars, startvars>>

\* _mem_read and _mem_write use the cache from the data segment on.
UsesCache(a) == cache # NoCache /\ a >= seg_start_addr["DATA"]

Access ==
  /\ Cycle
  /\ \E a \in GuestAddrs : /\ ~UsesCache(a)
                          /\ \/ ptable' = mem_read_byte(ptable, a).table
                             \/ \E b \in GuestBytes : ptable' = mem_write_byte(ptable, a, b)
  /\ fetched' = NotFetched
  /\ UNCHANGED <<image, seg_start_addr, seg, phase, j, logvars, startvars>>

\* An access to the cache reaches no page: it is counted down, and when its
\* delay is over the process dies (MissStep in DataMem).
CachedAccess ==
  /\ Cycle
  /\ \E a \in GuestAddrs : UsesCache(a)
  /\ \/ cache.d # 1 /\ UNCHANGED <<main, exit>>
     \/ cache.d # 0 /\ Die("segv")
  /\ fetched' = NotFetched
  /\ KeepSettings /\ UNCHANGED <<loadvars, logvars>>

\* _mem_read_special of the null address.
NullRead ==
  /\ main = "run" /\ loop = "off"
  /\ terminate' = TRUE /\ Die("failure")
  /\ UNCHANGED <<argv, optind, conf, cache, loadvars, logvars, runvars>>

\* _mem_read_special of CHECKPOINT_ADDR; without a checkpoint file nothing happens.
ReadCheckpoint ==
  /\ Cycle /\ conf["c"] # NULL
  /\ BeginLog
  /\ fetched' = NotFetched
  /\ UNCHANGED <<loadvars, startvars>>

finalize ==
  /\ main = "run" /\ loop = "off"
  /\ IF conf["c"] # NULL THEN Goto("final") /\ BeginLog
                         ELSE Die("success") /\ UNCHANGED logvars
  /\ KeepSettings /\ UNCHANGED <<loadvars, runvars>>

Log == log_machine_state /\ UNCHANGED <<loadvars, startvars, runvars>>

\* The last line of a checkpoint divides by the miss delay.
EndCheckpoint ==
  /\ loop = "cache"
  /\ loop' = "off"
  /\ CASE cache # NoCache /\ cache.d = 0 -> Die("sigfpe")
       [] main = "final" /\ (cache = NoCache \/ cache.d # 0) -> Die("success")
       [] OTHER -> Goto(main)
  /\ KeepSettings /\ UNCHANGED <<addr, pn, log, loadvars, runvars>>

Next ==
  \/ Start \/ NoFile \/ Load \/ BusError \/ runElf
  \/ Log \/ EndCheckpoint
  \/ finalize \/ NullRead \/ ReadCheckpoint \/ Access \/ CachedAccess \/ Fetch

\* One process that the host goes on running.
Spec == Init /\ [][Next]_vars /\ WF_vars(Next)

-----------------------------------------------------------------------------
(* Once the arguments have been handled each setting but outfile is the one *)
(* the command line asks for last, also when a file that cannot be opened   *)
(* ends the handling early and the process goes on regardless.              *)
Settings == DOMAIN Defaults \ {"o"}
Configured == main # "args" => \A k \in Settings : conf[k] = Asked(k)

(* The process dies of a division by zero only when all four parameters of  *)
(* a cache are given and either their block count is 0 in unsigned          *)
(* arithmetic or the delay is 0 and there is a checkpoint to write.         *)
SigfpeCause ==
  exit = "sigfpe" =>
    /\ \A k \in Geometry : Asked(k) # -1
    /\ \/ unsigned(unsigned(Asked("A")) * unsigned(Asked("B"))) = 0
       \/ unsigned(Asked("d")) = 0 /\ Asked("c") # NULL

\* The word the file has at an address.
FileBits(a) ==
  LET h == CHOOSE h \in Loaded : a - h.p_vaddr \in FilePart(h)
  IN  {b \in Bits :
         (file_byte(h.p_offset + (a - h.p_vaddr) + (b \div 8)) \div 2^(b % 8)) % 2 = 1}
InFile(a) == \E h \in Loaded : \A k \in 0 .. 3 : (a - h.p_vaddr) + k \in FilePart(h)

\* What Decode gets wrong: the sign of the offsets, the sign of ADRP's page
\* count, every shift ASR makes other than by 63.
Misread(i) ==
  \/ i.op \in {"LDUR", "STUR", "ADRP"} /\ i.imm < 0
  \/ i.op = "ASR" /\ i.imm # 63
\* Apart from that the bit fields undo what an assembler does.
DecoderInverts == \A i \in Samples : Reads(decode(encode(i)), i) \/ Misread(i)

\* Where ADRP has a wrong base: the last word of a page, the upper addresses.
WrongBase(pc) == (pc + 4) % AdrpPage = 0 \/ pc + 4 >= HalfWord

(* An instruction that an assembler has put into a file whose segments      *)
(* ascend is the one that Fetch and Decode work with, operand by operand,   *)
(* after loading, the read in little-endian order, the table, the aliases   *)
(* and the bit fields; except for the operands Misread and WrongBase name.  *)
DecodedRight ==
  fetched # NotFetched /\ Ascending(image) /\ InFile(fetched.pc) =>
    \A i \in Samples :
      encode(i) = FileBits(fetched.pc) =>
        /\ Reads(fetched.insn, i) \/ Misread(i)
        /\ i.op = "ADRP" => fetched.base = PageBase(fetched.pc) \/ WrongBase(fetched.pc)

(* Whatever the arguments and the file are, the process comes to an end:    *)
(* the loops of the loader and of the log all terminate.                    *)
BootEnds == <>(main = "exit")
=============================================================================
