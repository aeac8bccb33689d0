# A verification development of the pipelined AArch64 emulator

The program is an emulator of a small AArch64 subset (`src/src`, `src/include`).
It loads an ELF file, then `runElf` simulates a five-stage pipeline cycle by
cycle: prediction, forwarding, hazards, an optional data cache. At the end, and
when the program asks for it, it writes a checkpoint of the machine. Everything
runs in one thread; what is hard is that five instructions are in different
stages at once, each with a copy of old state. Around it are two grading programs,
which start the emulator and a cache simulator as processes and compare the files
they leave.

Modules are written against the source as it stands. The tree does not compile
as checked in, so three readings are fixed once, here:

- `forward.c` lacks the `*_w_enable` parameters that `forward.h`, its caller in
  `decode_instr` and its own body use: they are the write enables of the named
  pipeline registers.
- `hazard_control.c` writes `bubble` and `stall` through the `out` side of a
  pipeline register: they are the flags of that register.
- `pipe_control_stage` is declared in `hazard_control.h` and defined nowhere. It
  is modelled from the comment on `pipe_reg_t` and the names of its parameters,
  and is marked external in the map.
- `ctl` is set to `P_BUBBLE` before the loop and by the hazard logic after.

## Inventory

| Component | State | Operations | Interacts with | What makes it correct |
|---|---|---|---|---|
| Processor loop (`base/proc.c`) | five pipeline registers with in and out side, `ctl`, `status`, `num_instr` | `runElf`: five stages in reverse order, predicted PC, status, hazards, clock edge | calls everything below once a cycle | program order effects, clean stop, no contradictory control |
| Fetch (`pipe/instr_Fetch.c`) | `F_in`, `F_out`, `F_PC` | `select_PC`, `predict_PC`, `fetch_instr` | reads X, M of this cycle; instruction memory | right path after correction; a halt is latched for good |
| Decode (`pipe/instr_Decode.c`) | `D`, `X_in` | control signals, operands, register write | register file, forwarding | operands are those of sequential execution |
| Execute (`pipe/instr_Execute.c`) | `X`, `M_in`, flags, `X_condval` | `execute_instr` | `alu`, hazard control | flags before condition |
| Memory (`pipe/instr_Memory.c`) | `M`, `W_in` | `memory_instr` | `dmem` | each access once, in order, none behind a halt |
| Writeback (`pipe/instr_Writeback.c`) | `W`, `W_wval` | `wback_instr` | register file through Decode | the selected value is written |
| Forwarding (`pipe/forward.c`) | none | `forward_reg` | called by Decode | youngest older value |
| Hazard control (`pipe/hazard_control.c`) | `ctl` | three checks, `handle_hazards` | D, X, `dmem_status`; clock edge | wrong path squashed, consumers held |
| Hardware elements (`base/hw_elts.c`) | GPR, NZCV | `imem`, `regfile`, `alu`, `cond_holds`, `dmem` | memory subsystem | errors reported, values right |
| Memory subsystem (`base/mem.c`) | data memory, in-flight access, countdown | reads and writes of each width, special addresses, cached path | page table, cache | last value written is read; an access in flight completes |
| Cache (`cache/cache.c`) | sets and lines | create, `check_hit`, `handle_miss`, checkpoint | `mem.c`, cache simulator | the two main functions are stubs; the geometry is computed from unchecked arguments |
| Page table (`base/ptable.c`) | hash table of pages | get, add, protections | `mem.c`, loader, checkpoint log | one page per number |
| Machine and checkpoint log (`base/machine.c`) | the guest machine | `init_machine`, `log_machine_state` | page table; called by a read of a special address and at the end | two different machines have different checkpoints |
| ELF loader (`base/elf_loader.c`) | segments, their starts | `loadElf` | page table | every byte of the file and zeroed bss |
| Instruction table and bit fields (`pipe/instr_base.c`, `pipe/instr.h`) | `itable` | decoding | Fetch, Decode | the instruction an assembler meant |
| Entry point, arguments, messages (`base/archsim.c`, `handle_args.c`, `interface.c`, `err_handler.c`) | settings, files, `terminate` | `handle_args`, `init`, `main`, `finalize`, `logging` | all | the command line is obeyed; the process ends |
| Cache simulator (`cache/csim.c`) | the four counters | `replayTrace`, `printSummary` | cache; test-csim through `.csim_results` | its results are in the file when it ends |
| Grading harness (`testbench/test-se.c`, `test-csim.c`) | files, verdicts, score, alarm | `run_test`, `runtrace`, scores, `sigalrm_handler` | processes through `system()`, files | points only for what a program did; a score only when every test has been judged |
| Register file storage (`base/reg.c`), debug print-out | — | allocation, output | — | no behaviour of their own |

Hard behaviours, with the line where each bites, are in `PROJECT.json` under `hazards`: operands read while three older instructions have not written
back, hazards that coincide in a cycle, stale fields left in the in sides of the
registers, halts fetched on wrong paths, an access in flight at a clock edge,
words that fail to decode, arithmetic at the ends of the integer range, loops over
pages that others have added, and files that a process left behind or never wrote.

## Modules

`Words`, `Instr`, `Forward`, `HazardControl` and `DataMem` define data and the
functions; `Pipeline` composes them into the state machine; `Isa` is the abstract
specification; `Lockstep` relates the two; `HwElts` is the ALU for TLC, on the flags
of `Flags`, and `Conditions` says what these flags tell a branch. Below them, `PageTable` is the storage that `ByteMemory`, `Loader` and
`CheckpointLog` work on. `Boot` composes `Startup`, the loader, the decoder and
the log into the process that surrounds the run. `Harness` stands outside it.

| Module | Code | Correspondence |
|---|---|---|
| `Words` | the machine word | numbers modulo `Modulus`; signed only where the code casts |
| `Instr` | `instr.h`, `instr_Decode.c`, parts of `instr_Fetch.c` | an instruction word is a record of the fields the code extracts; control signals, register numbers, ALU operation and predicted PC are functions of it |
| `Forward` | `forward.c` | `forward_reg` for one operand, with the order of its tests as they are |
| `HazardControl` | `hazard_control.c` | the result of `handle_hazards` is a set of registers to bubble and a set to stall |
| `DataMem` | `mem.c`, `dmem` and `imem` of `hw_elts.c` | a memory system is a record; a read or write returns the set of possible results |
| `HwElts` | `alu`, `cond_holds` | written with Bitwise on words of `WordBits` bits |
| `Flags` | the flags of `alu` | carry and overflow as the code determines them from values, apart from `HwElts` so that they can be proved about |
| `Conditions` | flags of `alu` in `execute_instr` | the flags in the pipeline against the order of the operands; `AluSetsFlags` ties the ALU parameter to `Flags` |
| `PageTable` | `ptable.c`, byte accesses of `mem.c` | the table is a function from buckets to lists of pages, head first; an access looks the page up and adds it when it is missing |
| `ByteMemory` | `_mem_read`, `_mem_write` and their loops | one step per iteration; `acc` is the access under way |
| `FlatMemory` | — | what `ByteMemory` promises: an array of bytes, zero at first |
| `Loader` | `loadElf` | one step per iteration of each of its loops, the copy with the byte write of `PageTable`; `phase` is the loop, `seg` and `j` its counters |
| `CheckpointLog` | `log_machine_state` | one step per page; `loop` is the part being written, `addr` and `pn` are the two locals the loops share |
| `Startup` | `handle_args`, `init`, `init_machine`, `create_cache` | one step per option; `conf` has the variables the options set, `main` says where `main()` is |
| `Decoding` | `instr_base.c`, `extract_immval`, alias fixes | a word is the set of its bits that are 1; `decode` gives the record of fields that `Instr` starts from |
| `Assembler` | — | the instruction formats from an assembler's side: what `Decoding` has to invert |
| `Boot` | `main` of `archsim.c`, the special reads of `mem.c` | `Startup`, `Loader` and `CheckpointLog` on one page table; of the run it keeps the fetch of one word and single accesses |
| `Harness` | `test-se.c`, `test-csim.c`, process of `csim.c` | `Script` is the sequence of commands of a test, `at` the one it has reached, `child` the process `system()` waits for |
| `Pipeline` | `proc.c` and the stage functions | one action per stage function, `hazards` and `clock` for the rest of the loop body; `stage` is the program counter of `runElf` |
| `Isa` | — | the instructions executed one at a time |
| `Lockstep` | — | `Pipeline` with history variables and the refinement mapping to `Isa` |

The variables of `Pipeline` have the names of the code: `F_in` is `F->in`, `gpr`
is the register file with the link register and the stack pointer, `cc` is NZCV,
`ms` the memory system. `insnbits` and `op` of the D register are merged in
`insn` because they change together. Fields that nothing reads (`this_PC`, the
opcode in W, `src2_sel`, the guest's PC) are absent or kept only where a property
uses them.

What is nondeterministic: the program (`Programs`), a word fetched from outside
the text segment (`JunkInsn`), a read from outside the data cells (`Junk`), what
`scanf` returns (`Input`), and the uninitialised `src1` of an undecodable word. In
`Boot` the command line and the file (`Boots`) and what the program accesses; in
`Harness` how a process ends and when the alarm comes. A misaligned store changes the cells it overlaps to arbitrary words.

### The promise: `Isa` and `Lockstep`

An instruction takes effect when `memory_instr` handles it. The architectural
registers at that moment are the register file overlaid with the writes pending
in `W_out` and then `W_in`; the flags are the ones at the commit of the last
instruction (the pipeline's own are ahead by the younger instruction in Execute);
memory and output are the pipeline's. With this mapping every step of the
pipeline is a step of `Isa` or a stutter: this is `SequentialSpec`.

The promise holds for programs that stay out of patterns that the code gets
wrong. `clean` becomes false when one is met, and then nothing more is promised:

- `Unsafe`: an operand whose load is in Execute, one shadowed as in
  `ShadowedByW` (forward.c prefers Writeback to Memory when some writer is in
  Execute, and takes Writeback's `val_ex` even of a load), or the zero register
  while a write to it is in the pipeline (it is register 32 for `forward_reg`).
- `BadSquash`: a branch predicted taken and not taken, with something other than
  a NOP in Decode or with a halt already latched.
- `BadSlot`: a RET with something other than a NOP fetched behind it, or with a
  halt already latched.

Each part of `Unsafe` is needed: with any of its disjuncts removed, TLC finds
a counterexample to `SequentialSpec`. The three violation runs of `MCTests` show
the patterns met in the repository's own test programs.

After a bad fetch, a bad data address, or an access that ends the process, `Isa`
promises nothing either: the code detects an address error in Memory and stops one
cycle later, when a younger access has been made.

### The promise of memory: `FlatMemory`

An access of `w` bytes is a loop of `w` byte accesses, each of which may add a
page. `FlatMemory` does it in one step, on an array. A write maps to the abstract
write when its loop begins: the bytes still to be written overlay the table
(`FlatBytes`). A read maps to the abstract read when its loop ends. `FlatSpec` says
that every step is then one of `FlatMemory` or a stutter.

`DataMem` takes this promise for the pipeline's accesses and keeps memory in cells
of 8 bytes: an aligned cell is 8 bytes of the array, which an aligned access reads
or replaces as a whole, while a misaligned store changes the two cells it overlaps.
The emulator asks for little endian code and data (`interface.c:34`); the run gives
code and data different orders so that both loops of `mem.c` are executed, and the
proof is for every choice.

### The process: `Boot`

`Boot` follows one process from its command line to its end. Everything that
touches the page table does so through the operations of `PageTable`: the copy of
the loader, the pages it maps for the bss, the fetch, the accesses of the program
and the walk of the log. That makes three questions about composition expressible:

- `CheckpointFaithful` says that the dump of text, data and stack is exactly the
  nonzero words of the pages that belong to the segment: those without a gap
  between them and its first one (`Extent`, which goes on past the top of memory as
  the loop does). A page behind a gap is in no checkpoint; that is how the log finds the end of a segment, and the property
  describes it.
- `DecodedRight` follows an instruction from `Assembler` through the file, the
  loader, the little-endian fetch, the table, the aliases and the bit fields, and
  compares every operand, in files whose segments ascend. What Decode gets wrong is named: `Misread` (offsets
  of LDUR and STUR without sign, ADRP with a negative page count, ASR by anything
  but 63) and `WrongBase` (ADRP in the last word of a page or above 2^32). With
  any of these exceptions left out the run fails.
- `SigfpeCause` relates the command line to two divisions that are far from each
  other, in `create_cache` and at the end of a checkpoint.

`conf["o"]` is the one variable `outfile`: `handle_args` sets it, and `init`, which comes
after, sets it back to `stdout`, so that `-o` does nothing but truncate its file.
`Configured` is about all other settings.

With a cache, an access from the data segment on reaches no page: it is counted down,
and ends the process when the count is over (`CachedAccess`, as `MissStep` of `DataMem`).
The copy of the loader runs past the end of the file when the last segment is not at a
page boundary: up to the end of the mapped page it reads zeros, behind it the process dies
(`BusError`; the page size of the host is taken for the emulator's).

### The graders: `Harness`

A file holds the output of one program for one test. The student's programs may
succeed, fail with a status, die of a signal (which `WIFEXITED` does not see), die
with their file open, hang, and outlive the session that started them. The
reference may fail, and is assumed not to die. `PassEarned` compares each verdict
with what the student's own process of that test delivered. Two ways to points
that were not earned are excepted in its statement, because the code has them: a
process that an earlier session's alarm left running, and a csim that dies
with its file open, after which `fscanf` leaves the counters as they were. `ScoreExact` has
the graders' rule in test-se: a directory counts when all of its tests pass,
for the quotient of two integers is taken first.

## Runs

`CHECK_DEADLOCK` is off in the runs of the pipeline, of the process and of the
graders because all of them end (`stage` is `"stop"`, `main` is `"exit"`, no session
is left). In `bytes` another access can always begin, and deadlock is checked.

| Run | Question | Properties | Distinct states |
|---|---|---|---|
| `programs` | Do all programs of four data instructions, of four accesses, aligned, misaligned, foreign and special, and of four control transfers behave sequentially, and do the flags tell the order of the operands? | `StopAgrees`, `SequentialSpec`, `FlagsTell` | 701,000 |
| `faults` | Whatever the program does, is a halt a barrier, is a bubble inert, does the pipeline drain, is a fault what is reported? | `TypeOK`, `HaltBarrier`, `BubblesInert`, `HaltDrains`, `FaultReported` | 144,000 |
| `cached` | What happens when hazards coincide with an access in flight? | `NoErrorCtl`, `HaltOrigin`, `CountdownBounded`, `FrozenInFlight` | 523,000 |
| `bytes` | Do accesses through pages, buckets and byte loops behave like accesses to an array? | `TypeOK`, `PagesUnique`, `FlatSpec` | 45,000 |
| `boot` | Are the arguments obeyed, does every byte arrive and every instruction read as it was meant, does a checkpoint show memory, does the process end? | `FileLoaded`, `LoadedPagesUnique`, `CheckpointFaithful`, `Configured`, `SigfpeCause`, `DecodedRight`, `BootEnds` | 267,000 |
| `harness` | Whatever processes do, are points earned, scores exact, and is every test judged before a score is given? | `PassEarned`, `ScoreExact`, `SessionJudged` | 361,000 |
| `squash`, `return`, `load_use` | Do three test programs print what their comments say? | one each | violation |
| `in_flight` | Does a load whose access is in flight wait in Memory until the access has completed? | `AccessCompletes` | violation |
| `bss_zero` | Is the bss mapped and zero? | `BssZero` | violation |
| `heap_log` | Does a checkpoint show the heap? | `HeapLogged` | violation |

`faults` and `cached` include the unsupported patterns and fetches outside the
text segment; their properties do not depend on `clean`.

Bounds. The machine is scaled down, never cut off: words have 6 bits (7 in
`MCTests`), five text words, two data cells, registers 0, 1, 30 and the stack
pointer. A property of the pipeline relates at most five instructions in flight,
and forwarding looks back over three, so four instructions and a halt, in every
combination of an instruction set chosen for the hazard at hand, produce each
overlap. Two data registers are enough for a right and a wrong source. `CycleMax`
is 14 cycles, the real `cycle_max` with a smaller value: a straight program of five
drains in ten, and the remaining cycles run loops (`Branch("NE", 63)`,
`B -1`) through several iterations before the cycle limit stops them. A miss delay
of 2 and a block of 8 bytes give one cycle of countdown before its end.

`bytes` has three pages of two bytes, two of them in the same bucket, and accesses
of one and four bytes at every address: a wide one touches three pages, its order
of touching decides the order in the bucket, and it wraps at the end of memory. One
byte in two values is enough to tell a stale byte from a new one.

`boot` has twelve pages of four bytes in two buckets and words of two bytes. Its
processes (`MCBoots`) are of three kinds: files with two segments of every alignment,
with a bss of up to four bytes, the second segment above the first and possibly
on its last page, with and without `.data` (all bytes of the file are different,
headers ascend and offsets agree with addresses modulo the page size, as ELF asks), and
one file whose copy reaches the page behind its end;
command lines with every set of cache parameters, zeros and products that wrap
in the 4-bit `unsigned` included, with files that open and that do not, before and
behind; and one-word programs of every instruction with the extreme values of
each operand, on a page's first and last word and above `HalfWord`, the scaled
2^32 (the words themselves have 32 bits). A run of `MaxSteps` = 2 accesses adds
pages next to a segment, behind a gap and in the heap, and may write a checkpoint
between two accesses.

`harness` has two tests with the same name in one directory, as under two cache
configurations, for test-se, and two traces for test-csim, and `MaxSessions` = 2: the
second session meets what the first has left. Outputs agree in three or all of
four parts, so a wrong counter costs one point in test-csim and the test in test-se.

Fairness. `FairSpec` asks weak fairness of `Next`, for `HaltDrains`,
`FaultReported` and the refuted `AccessCompletes`: `runElf` is sequential code that waits for nothing inside a cycle, so
as long as a step is possible it is taken. There is no other process. The same
holds of `Boot`, where the bound on the run stands for the cycle limit of `-l`. In
`Harness` two things are fair: the grading program goes on where it is not waiting
(`Grader`), and the process it waits for ends, one way or another (`ChildEnds`). The
emulator ends because of its cycle limit and by what `BootEnds` says, and the cache
simulator because its trace does; a process that does not end is what the alarm is
for, and nothing is assumed of the alarm, which may come at any moment or never.
`SessionJudged` thus says what the alarm is not needed for: whatever files are
missing, whatever statuses and signals come back, the session reaches its score with a
verdict for every test.

Every property has a mutant: a plausible change of the modelled code under which
the run finds the property violated. They stand beside the definitions they
change.

## Findings

1. `handle_hazards` squashes Fetch and Decode on a misprediction, and not
   Execute: the instruction in Decode takes effect (`squash`;
   `branch_not_taken.s`).
2. For a RET it bubbles Fetch only, so the instruction behind the RET is
   decoded and executed (`return`; `ret_hazard.s`).
3. For a load-use hazard it bubbles Decode, yet the consumer has gone on to
   Execute with the load's address (`load_use`; `iter_sum.s`).
4. `stall - true` for the Memory register is an expression without effect: a
   load whose access is in flight leaves Memory (`in_flight`).
5. `loadElf` copies `filesz + v_align` bytes of a segment, so that the bss of a segment that
   does not begin on a page boundary begins with bytes of the file; and `f_align`
   is a whole page when the file's part ends on a page boundary, so that the first
   bss page is not mapped (`bss_zero`). The `.data` of several test programs begins
   off a page boundary.
6. The heap's part of a checkpoint starts with the page number on which the loop
   over the data segment ended, which is not in the table: it is always empty
   (`heap_log`). Two runs that differ only in their heap have the same checkpoint,
   and test-se compares checkpoints.
7. With the cache functions unfinished an access in flight never completes: when the
   countdown is over, `mem.c` looks into the NULL that `handle_miss` returns, before it
   would assign `READY` (`in_flight` again). The week 4 tests configure caches.

The trace of `in_flight` shows findings 4 and 7 one after the other: the first of two
loads starts the countdown and leaves Memory, the second one's access finishes it.
Each finding refutes `AccessCompletes` by itself: with M stalled as meant, or
with a `handle_miss` that lets the access end in `READY`, it is still violated; with both
repairs the run passes.

While an access is in flight the front end stays put all the same: `FrozenInFlight`
holds. Smaller deviations are the named exceptions of
properties that hold: `Misread`, `WrongBase`, the two in `PassEarned`, and in `FlagsTell`: after a
subtraction V is not the overflow of the difference and C is clear when 0 is
subtracted, so that GE, LT, GT, LE, CS, CC, HI and LS may mislead; the theorems on
`Flags` say precisely when.

## Theorems

The proofs are for every program, ALU, delay, block size, cycle limit and size of
the machine allowed by the named assumptions of `Words`, `DataMem`, `PageTable`,
`ByteMemory`, `Pipeline`, `Loader`, `CheckpointLog`, `Startup`, `Decoding`, `Boot` and
`Harness`: the page size divides the address space and is a multiple of the log's
word, ADRP's page is a multiple of 4, the hash is the number of a bucket, the segments
are in order and below the special addresses, `Programs` and `JunkInsn` are made of
instructions, the ALU returns words and flags, `InitMem` is a memory, a file is made
of headers, sections and bytes, a command line of options, and the graders' tests are
lists in which every directory has a test and a natural number for its weight.

| Theorem | Argument |
|---|---|
| `TypeCorrect` (`PipelineProofs`) | the types of an access's results, then one lemma per action |
| `NoErrorCtlHolds` (`SafetyProofs`) | bubbles and stalls that `handle_hazards` asks for never meet, in any of its cases, and an access in flight clears the bubbles |
| `BubblesInertHolds` | `BubblesInert` is not inductive: an in side may hold a bubble before the clock edge copies it. `BubblesInv` says the same of the in sides, and of bubbles in Decode, whose instruction is the zero word |
| `HaltOriginHolds` | `HaltOriginInv` follows the halt status through the five registers back to Fetch, which latched it. It needs `NoErrorCtlHolds`: the clock edge reports the same status for P_ERROR |
| `HaltBarrierHolds` | `HaltInv` has four parts: what is dead in a register stays without effect (`DeadInert`), halts flow without being overtaken (`Flow`), a halt in the pipeline was latched by Fetch (`HaltFetched`), and behind a halt all is dead (`DeadBehindHalt`) |
| `FrozenInFlightHolds` | the signals computed from `dmem_status` are still in force at the edge (`Held`) |
| `CountdownBoundedHolds` | `Bounded` of the memory system is kept by every way an access can go: `MissBounded` for one miss, which either starts from the delay or goes on counting, and the accesses made of it |
| `ForwardsYoungest`, `ForwardsShadow` (`DatapathProofs`) | case split on the writers: outside `ShadowedByW` the youngest result is forwarded, inside it Writeback's `val_ex` |
| `AdditionFlags`, `SubtractionCarry`, `SubtractionOverflow` | a sum or difference of two words wraps at most once (`WrapsOnce`); the rest is linear arithmetic, for every even modulus |
| `FlagsTellHolds` | an instruction that sets flags has two registers as operands and no shift, on both sides of the register (`FlagOperands`); then `SumTells` and `DifferenceTells`, from the three theorems above and `SignOfDifference` |
| `SequentialHolds`, `StopAgreesHolds` (`LockstepProofs`) | `PathInv` says which instruction of the program's path each slot holds. `apc` is the next one to take effect; `PcX`, `PcD` and `PcF` are where Execute, Decode and Fetch must be, computed from it along `target` and the prediction; a slot holds that instruction with the operands and flags of `ArchRegs` (`InMemory`, `InExecute`, `InDecode`, `InFetch`), or it is off the path and harmless (`OffPath`, `Squashed`). `OperandsRight` lifts `ForwardsYoungest` to the registers with the pending writes. One lemma per action keeps it (`MemoryPath`, `ExecutePath`, ...; the clock edge, with the corrections of a branch and a return, is the longest). The refinement then has to look at `memory_instr` alone, opcode by opcode (`TakenCompute`, `TakenLoad`, `TakenStore`, ...); no other step changes the mapped state |
| `ReadByteLemma`, `WriteByteLemma` (`PageTableProofs`) | `get_page` finds the page of its number when there is one (`GetPage`); adding a page in front of a bucket shifts the others and changes no byte of memory (`AddPage`, `Touch`); a store changes one byte (`Store`) |
| `MemoryTypeCorrect`, `PagesUniqueHolds` (`ByteMemoryProofs`) | the page table's lemmas, one step per action |
| `TableAssertions` (`BootProofs`) | the 24 ranges, pair by pair |
| `LoadedPagesUniqueHolds` | `TableOK` needs `LoaderTypeOK`: that the loops only touch addresses, so that `Touch` applies. Every step that changes the table is one of a byte read, a byte write and a touch (`TableSources`) |
| `FileLoadedHolds` | `CopiedInPlace`, the inductive invariant: the bytes of all segments before `seg`, and the first `j` bytes of the one being copied, are in memory. The copy runs past a segment into the addresses of the next ones, never back into an earlier one (`CopyKeeps`, from `Ascending`), and the next ones are copied later |
| `ConfiguredHolds` | `ConfigOK` says that `conf` is what the options read so far ask for, the output file apart, and that reading stopped at the end or at the first file that does not open; one more option changes what is asked for exactly as `ParseOption` changes `conf` (`OneMore`) |
| `SigfpeCauseHolds` | `CacheOK`: after `init` the cache is the one of the settings or there is none; with `ConfigAsked` the settings are those of the command line |
| `CheckpointFaithfulHolds` | `LogOK`: finished parts are what is expected, parts not begun are empty, and the part being written has the words of exactly the pages passed (`Walked`), each of which is in the table; `addr` and `pn` stay at the same page (`AtPage`). A page the table has not is where the part ends and where `Extent` ends. The one special case is a table with every page of memory (`EveryPage`), on which the loops walk around the top without end |
| `DecodedRightHolds` | `FetchInv`: from the end of loading to the run's first access the file's bytes are in memory (`MemoryLoaded`, from the invariant of `FileLoadedHolds`), so that a word fetched then is the one the file has (`WordFromFile`, for which an address belongs to one segment only, `OnePlace`); `AdrpBase` is the mask of ADRP |
| `PassEarnedHolds` (`HarnessProofs`) | `Fresh`, for every step of both scripts: in test-se the student's checkpoint is this test's from its start on, since the emulator opens it first; in test-csim `.csim_results` is absent when the student's csim starts, since `runtrace` removes it before; and as long as no process of an earlier session is alive, nobody else writes either. `Shape` ties the process that runs to the test and the step |
| `ScoreExactHolds` | `Exact`: in a session without faults the files a comparison reads are those of the test under way, from the steps that write them to the comparison (`ExactSe`, `ExactCsim`); `Just`: every verdict so far gives what its test deserves. The score is then a sum of equal terms, and the quotient of a directory is 1 or 0 as all or not all of its tests pass (`AllOrNothing`, on cardinalities) |
| `FlatSpecHolds` | needs the inductive invariant `Gathered`: after `i` iterations of a read the value holds, in order, the bytes of memory at the addresses visited. With it a step of a write's loop leaves `FlatBytes` unchanged, and the last step of a read is the abstract read |

`HaltBarrier` has a hypothesis, `NoJunkHalt`: Decode also makes a halt of a word
that Fetch read outside the text segment and reported as a bad instruction, and
Fetch does not latch a halt for it.

`SequentialHolds` and `StopAgreesHolds` have two hypotheses, which the run `programs`
satisfies. There is no cache (`~Cached`): with the stub functions no access in flight
completes (finding 7), so a sequential machine has nothing to agree with.
And no word outside the text segment looks like a halt, an LDUR or a STUR
(`QuietJunk`): Fetch reports such a word as a bad instruction, and Decode and Memory
carry it out all the same.

`FlagsTellHolds` has the hypothesis `AluSetsFlags`, that the ALU is the code's for sums
and differences of unshifted operands; TLC evaluates it for `HwElts` (`AluOfCode` in
`MCLockstep`). `DecodedRightHolds` has the hypothesis `DecoderInverts`, a statement
on constants: for the sample instructions the table and the bit fields undo the
assembler, `Misread` apart. It is arithmetic on powers of two in a recursive
function, which none of the provers evaluates; TLC does, as a part of `DecodedRight` in
the run `boot`, whose one-word programs are these samples. What is proved is the way of the word.

Only model-checked: the liveness properties (`HaltDrains`, `FaultReported`, `BootEnds`,
`SessionJudged`) and `DecoderInverts`. Every invariant, action property and refinement a
passing run checks has a theorem.

## Not modelled

- Page protection bits: they are stored and read by nothing. The sign extension of
  the typed wrappers at the end of `mem.c`; the pipeline uses only the 8-byte one
  and the instruction fetch.
- A working cache: `check_hit` and `handle_miss` are stubs in the tree, so nothing
  ever fills a line, and `create_checkpoint`, `display_set` and `free_cache`, which copy,
  print and free the lines, have nothing to get wrong. `replayTrace` changes no counter.
- Files that `loadElf` cannot map or that are not executable: it exits, or an assertion
  does, before it has changed anything.
- The registers and flags at the head of a checkpoint: they are copied as they are.
- `ignore_input` and the wording of messages, banners, reports and options of the
  graders: output only.
- `reg.c` (allocation and names of registers) and `show_instr` (print-out).
- What is fetched outside the text: a special address, or one that a cache covers, gives 0
  in the code and any word of `JunkInsn` in the model, of which 0, an undecodable word, is
  one. A store into the text is an address error, and the words fetched in the cycle that is left do
  not change. Such words are fetched with an error status, and `SequentialHolds` excludes
  by `QuietJunk` those that would matter.
- The death of the reference by a signal, in `Harness`.
- The opcode in W is in `W_in` for the properties only; the code passes it to the
  print-out.
- The composition of `Boot` with the pipeline itself: what the loader hands to the
  run is a parameter of `Pipeline` (`Programs`, `InitMem`), and what the run does to
  the process is a choice of `Boot`. Both sides use the same memory operations.

## What could come next

1. The safety half of draining: with a halt latched, how far it is from Writeback as a
   function of the cycle, from which `HaltDrains` follows by fairness alone; the same for
   the address error of `FaultReported`.
2. The cache, when `check_hit` and `handle_miss` are written: an abstract memory with
   the cache in front of it, and the write-back of dirty lines.
